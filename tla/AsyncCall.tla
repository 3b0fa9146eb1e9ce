------------------------------ MODULE AsyncCall ------------------------------
(***************************************************************************)
(* What a caller of the service clients may rely on: a remote procedure    *)
(* that runs at most once per call and reports at most once.               *)
(***************************************************************************)
CONSTANT Calls

VARIABLES
    served,   \* how the service ended the call; "no" while it has not run
    told      \* what the caller has been told, NotTold before

NotTold == "nothing"
Answers == {"ok", "error", "exception"}
NotSent == {"unconnected", "refused"}
Reports == {"ok", "error", "failed"} \cup NotSent

Init ==
    /\ served = [c \in Calls |-> "no"]
    /\ told = [c \in Calls |-> NotTold]

\* A call may still run after its caller was told that it failed, never after
\* its caller was told that there was no connection or that it was refused.
Serve(c, answer) ==
    /\ served[c] = "no"
    /\ told[c] \notin NotSent
    /\ served' = [served EXCEPT ![c] = answer]
    /\ UNCHANGED told

\* "ok" and "error" are the service's own words.
Tell(c, report) ==
    /\ told[c] = NotTold
    /\ report \in {"ok", "error"} => served[c] = report
    /\ report \in NotSent => served[c] = "no"
    /\ told' = [told EXCEPT ![c] = report]
    /\ UNCHANGED served

Next ==
    \E c \in Calls :
        \/ \E answer \in Answers : Serve(c, answer)
        \/ \E report \in Reports : Tell(c, report)

Spec == Init /\ [][Next]_<<served, told>>
=============================================================================
