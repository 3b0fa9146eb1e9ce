-------------------------------- MODULE ByteLog --------------------------------
(***************************************************************************)
(* What the encoder wants of a buffer: the bytes written to it, one chunk  *)
(* after the other, are what it hands out, and what was handed out stays   *)
(* as it was.  No memory, no pointer, no capacity.                         *)
(***************************************************************************)
EXTENDS Sequences

CONSTANT Chunks  \* what one call may write

VARIABLES
    log,     \* written so far
    sealed,  \* handed out by getByteBuffer(): the log grows no more
    out      \* what the caller was given last, and has not let go

logVars == <<log, sealed, out>>

Init == log = <<>> /\ ~sealed /\ out = <<>>

Write(chunk) == ~sealed /\ log' = log \o chunk /\ UNCHANGED <<sealed, out>>

Reset == ~sealed /\ log' = <<>> /\ UNCHANGED <<sealed, out>>

\* A copy of the log.
Look == sealed' = TRUE /\ out' = log /\ UNCHANGED log

\* The log itself; the buffer may not be used again ...
Take == log' = <<>> /\ sealed' = TRUE /\ out' = log

\* ... or may.
Swap == log' = <<>> /\ sealed' = FALSE /\ out' = log

Drop == out' = <<>> /\ UNCHANGED <<log, sealed>>

New == log' = <<>> /\ sealed' = FALSE /\ UNCHANGED out

Next == (\E chunk \in Chunks : Write(chunk)) \/ Reset \/ Look \/ Take \/ Swap \/ Drop \/ New

Spec == Init /\ [][Next]_logVars
=============================================================================
