----------------------------- MODULE ServiceCall -----------------------------
(***************************************************************************)
(* Calls through one service client, from the caller's thread through the  *)
(* tars runtime to the service and back to the caller's callback.          *)
(*                                                                         *)
(* Code in src/: checkConnection, the body every client operation has, and *)
(* its Callback class.  External, modelled as the code uses it: the tars   *)
(* runtime (endpoint table, request table, timeouts, callback threads) and *)
(* the service.  The runtime removes a request from its table when it      *)
(* dispatches the answer or the exception, so a Callback object is         *)
(* dispatched once, and it catches what a dispatch throws.  A proxy method *)
(* may refuse a request, when its queue is full, by throwing: no operation *)
(* catches that.                                                           *)
(***************************************************************************)
EXTENDS Naturals, Sequences, ClientOperations

CONSTANTS
    Calls,       \* the calls made through the client
    Operations,  \* the kinds of operation the client has; a subset of Kinds
    CallerRules  \* what callers keep to; a subset of Rules

(* "callback": a callback is passed to every operation that takes one and  *)
(*             does not test it.                                           *)
(* "factory":  operations that need a factory of the client are called     *)
(*             when it has been set.                                       *)
(* "lifetime": the client outlives the calls that point back to it.        *)
Rules == {"callback", "factory", "lifetime"}

ASSUME OperationsAssumption == Operations \subseteq Kinds

VARIABLES
    connected,  \* the endpoint table holds an active endpoint
    factory,    \* the client's factory pointer is not null
    alive,      \* the client object exists
    crashed,    \* the process dereferenced a null or freed pointer
    pc,         \* where the call is in the client's code; "refused": it threw there
    kind,       \* the operation called
    callback,   \* the caller passed a callback that is not null
    captured,   \* the factory pointer the Callback object holds is not null
    net,        \* the message under way: the request, or an answer
    served,     \* how the service ended the request; "no" while it has not run
    got,        \* what the caller's callback was told, in order
    threw       \* an exception left the call: to the caller or the runtime

client == <<connected, factory, alive, crashed>>
vars == <<connected, factory, alive, crashed, pc, kind, callback, captured, net, served, got, threw>>

Steps == {"idle", "checking", "sending", "waiting", "done", "refused"}
Answers == {"ok", "error", "exception"}  \* ret 0, ret not 0, the service threw
Reports == {"ok", "error", "failed", "unconnected"}

TypeOK ==
    /\ connected \in BOOLEAN /\ factory \in BOOLEAN
    /\ alive \in BOOLEAN /\ crashed \in BOOLEAN
    /\ pc \in [Calls -> Steps]
    /\ kind \in [Calls -> Kinds]
    /\ callback \in [Calls -> BOOLEAN]
    /\ captured \in [Calls -> BOOLEAN]
    /\ net \in [Calls -> {"none", "request"} \cup Answers]
    /\ served \in [Calls -> {"no"} \cup Answers]
    /\ got \in [Calls -> Seq(Reports)]
    /\ threw \in [Calls -> BOOLEAN]

Init ==
    /\ connected \in BOOLEAN
    /\ factory \in BOOLEAN
    /\ alive = TRUE
    /\ crashed = FALSE
    /\ pc = [c \in Calls |-> "idle"]
    /\ kind = [c \in Calls |-> Plain]
    /\ callback = [c \in Calls |-> FALSE]
    /\ captured = [c \in Calls |-> FALSE]
    /\ net = [c \in Calls |-> "none"]
    /\ served = [c \in Calls |-> "no"]
    /\ got = [c \in Calls |-> <<>>]
    /\ threw = [c \in Calls |-> FALSE]

Goto(c, step) == pc' = [pc EXCEPT ![c] = step]

-----------------------------------------------------------------------------
(* The caller's thread. *)

\* Operations that send nothing return at once, one of them by throwing.
FirstStep(k) ==
    IF k.send \in {"none", "throws"} THEN "done" ELSE IF k.check THEN "checking" ELSE "sending"

Invoke(c, k, passed) ==
    /\ ~crashed /\ alive
    /\ pc[c] = "idle"
    /\ "callback" \in CallerRules /\ k.send = "async" /\ ~k.nullSafe => passed
    /\ "factory" \in CallerRules /\ k.needs # "nothing" => factory
    /\ Goto(c, FirstStep(k))
    /\ kind' = [kind EXCEPT ![c] = k]
    /\ callback' = [callback EXCEPT ![c] = passed]
    /\ threw' = [threw EXCEPT ![c] = k.send = "throws"]
    /\ UNCHANGED <<client, captured, net, served, got>>

\* Faulty: no return after the callback was told that there is no connection.
CheckConnectionGoesOn(c) ==
    /\ ~crashed
    /\ pc[c] = "checking"
    /\ Goto(c, "sending")
    /\ got' = IF ~connected /\ callback[c] /\ kind[c].send # "oneway"
              THEN [got EXCEPT ![c] = Append(@, "unconnected")] ELSE got
    /\ UNCHANGED <<client, kind, callback, captured, net, served, threw>>

\* Faulty: returns without a word to the callback.
CheckConnectionSilent(c) ==
    /\ ~crashed
    /\ pc[c] = "checking"
    /\ Goto(c, IF connected THEN "sending" ELSE "done")
    /\ UNCHANGED <<client, kind, callback, captured, net, served, got, threw>>

\* checkConnection looks at the endpoint table now; the send comes later.
\* The lambda it is given tests the callback; one-way operations pass none.
CheckConnection(c) ==
    /\ ~crashed
    /\ pc[c] = "checking"
    /\ \/ /\ connected
          /\ Goto(c, "sending")
          /\ UNCHANGED got
       \/ /\ ~connected
          /\ Goto(c, "done")
          /\ got' = IF callback[c] /\ kind[c].send # "oneway"
                    THEN [got EXCEPT ![c] = Append(@, "unconnected")] ELSE got
    /\ UNCHANGED <<client, kind, callback, captured, net, served, threw>>

\* Faulty: the Callback is made without the factory it converts with.
SendWithoutFactory(c) ==
    /\ ~crashed
    /\ pc[c] = "sending"
    /\ Goto(c, IF kind[c].send = "oneway" THEN "done" ELSE "waiting")
    /\ net' = [net EXCEPT ![c] = "request"]
    /\ UNCHANGED <<client, kind, callback, captured, served, got, threw>>

\* m_proxy->async_X(new Callback(...), ...): the Callback copies the factory
\* pointer as it is now.
Send(c) ==
    /\ ~crashed
    /\ pc[c] = "sending"
    /\ Goto(c, IF kind[c].send = "oneway" THEN "done" ELSE "waiting")
    /\ net' = [net EXCEPT ![c] = "request"]
    /\ captured' = [captured EXCEPT ![c] = kind[c].needs = "captured" /\ factory]
    /\ UNCHANGED <<client, kind, callback, served, got, threw>>

\* The proxy's method throws before anything is sent: the exception goes through
\* the operation to its caller, and the Callback object is never called.
SendRefused(c) ==
    /\ ~crashed
    /\ pc[c] = "sending"
    /\ Goto(c, "refused")
    /\ threw' = [threw EXCEPT ![c] = TRUE]
    /\ UNCHANGED <<client, kind, callback, captured, net, served, got>>

-----------------------------------------------------------------------------
(* The service and the network. *)

Serve(c, answer) ==
    /\ net[c] = "request"
    /\ served' = [served EXCEPT ![c] = answer]
    /\ net' = [net EXCEPT ![c] = IF kind[c].send = "oneway" THEN "none" ELSE answer]
    /\ UNCHANGED <<client, pc, kind, callback, captured, got, threw>>

Lose(c) ==
    /\ net[c] # "none"
    /\ net' = [net EXCEPT ![c] = "none"]
    /\ UNCHANGED <<client, pc, kind, callback, captured, served, got, threw>>

-----------------------------------------------------------------------------
(* The runtime's callback thread. *)

\* m_callback(error, ...) in a Callback method: a null function throws, unless
\* the method returned before.
Tell(c, report) ==
    /\ got' = IF callback[c] THEN [got EXCEPT ![c] = Append(@, report)] ELSE got
    /\ threw' = [threw EXCEPT ![c] = ~callback[c] /\ ~kind[c].nullSafe]

\* The method returns before it uses anything when it tests m_callback first.
Skips(c) == kind[c].nullSafe /\ ~callback[c]

\* Converting the answer goes through a pointer that is null or freed.
BadPointer(c) ==
    \/ kind[c].needs = "captured" /\ ~captured[c]
    \/ kind[c].needs = "self" /\ ~(alive /\ factory)

\* callback_X, for an answer in time: error is null exactly when ret is 0.  An
\* answer with an empty list goes through no pointer.
AnswerArrives(c) ==
    /\ ~crashed
    /\ pc[c] = "waiting" /\ kind[c].send = "async"
    /\ net[c] \in {"ok", "error"}
    /\ net' = [net EXCEPT ![c] = "none"]
    /\ Goto(c, "done")
    /\ \/ ~Skips(c) /\ BadPointer(c) /\ crashed' = TRUE /\ UNCHANGED <<got, threw>>
       \/ /\ Skips(c) \/ ~BadPointer(c) \/ kind[c].each
          /\ Tell(c, net[c])
          /\ UNCHANGED crashed
    /\ UNCHANGED <<connected, factory, alive, kind, callback, captured, served>>

\* Faulty: what the answer would have held is reported, although there is none.
CallFailsUnconverted(c) ==
    /\ ~crashed
    /\ pc[c] = "waiting" /\ kind[c].send = "async"
    /\ Goto(c, "done")
    /\ Tell(c, net[c])
    /\ UNCHANGED <<client, kind, callback, captured, net, served>>

\* callback_X_exception: the service threw, the request timed out or could not
\* be sent.  Nothing is converted; the defaults go to the callback.
CallFails(c) ==
    /\ ~crashed
    /\ pc[c] = "waiting" /\ kind[c].send = "async"
    /\ Goto(c, "done")
    /\ net' = IF net[c] = "exception" THEN [net EXCEPT ![c] = "none"] ELSE net
    /\ Tell(c, "failed")
    /\ UNCHANGED <<client, kind, callback, captured, served>>

\* asyncSendResponse blocks; its return value and its callback are both ignored.
SyncReturns(c) ==
    /\ ~crashed
    /\ pc[c] = "waiting" /\ kind[c].send = "sync"
    /\ Goto(c, "done")
    /\ \/ net[c] \in {"ok", "error"} /\ net' = [net EXCEPT ![c] = "none"] /\ UNCHANGED threw
       \/ threw' = [threw EXCEPT ![c] = TRUE] /\ UNCHANGED net
    /\ UNCHANGED <<client, kind, callback, captured, served, got>>

\* An answer that finds no request in the table is dropped.
LateAnswer(c) ==
    /\ pc[c] = "done" /\ net[c] \in Answers
    /\ net' = [net EXCEPT ![c] = "none"]
    /\ UNCHANGED <<client, pc, kind, callback, captured, served, got, threw>>

-----------------------------------------------------------------------------
(* The client object and its connection. *)

ConnectionChanges ==
    /\ connected' = ~connected
    /\ UNCHANGED <<factory, alive, crashed, pc, kind, callback, captured, net, served, got, threw>>

SetKeyFactory ==
    /\ ~crashed /\ alive
    /\ ~factory
    /\ factory' = TRUE
    /\ UNCHANGED <<connected, alive, crashed, pc, kind, callback, captured, net, served, got, threw>>

\* The last reference to the client goes away while no member function runs.
DestroyClient ==
    /\ ~crashed /\ alive
    /\ \A c \in Calls : /\ pc[c] \notin {"checking", "sending"}
                        /\ pc[c] = "waiting" => kind[c].send = "async"
    /\ "lifetime" \in CallerRules =>
          \A c \in Calls : ~(pc[c] = "waiting" /\ kind[c].needs = "self")
    /\ alive' = FALSE
    /\ UNCHANGED <<connected, factory, crashed, pc, kind, callback, captured, net, served, got, threw>>

-----------------------------------------------------------------------------
CallerSteps(c) ==
    \/ \E k \in Operations, passed \in BOOLEAN : Invoke(c, k, passed)
    \/ CheckConnection(c)
    \/ Send(c)
    \/ SendRefused(c)

RuntimeSteps(c) == AnswerArrives(c) \/ CallFails(c) \/ SyncReturns(c)

NetworkSteps(c) == (\E answer \in Answers : Serve(c, answer)) \/ Lose(c) \/ LateAnswer(c)

Next ==
    \/ \E c \in Calls : CallerSteps(c) \/ RuntimeSteps(c) \/ NetworkSteps(c)
    \/ ConnectionChanges \/ SetKeyFactory \/ DestroyClient

Spec == Init /\ [][Next]_vars

\* A thread inside an operation goes on, and the runtime's timer ends every wait.
\* Nothing is assumed of the network, the service or the connection.
Fairness ==
    \A c \in Calls : /\ WF_vars(CheckConnection(c))
                     /\ WF_vars(Send(c) \/ SendRefused(c))
                     /\ WF_vars(RuntimeSteps(c))

FairSpec == Spec /\ Fairness

-----------------------------------------------------------------------------
\* Callers that keep to the rules bring nothing down: no callback reaches through
\* a null or freed pointer, and no exception leaves an operation but the two
\* kinds that throw to the caller by design and those whose request the runtime
\* refuses.  None leaves a Callback's method.
NoFault ==
    /\ ~crashed
    /\ \A c \in Calls : threw[c] => kind[c].send \in {"throws", "sync"} \/ pc[c] = "refused"

\* What the caller has learned: from its callback, or from the exception.
Told == [c \in Calls |-> CASE Len(got[c]) = 0 /\ pc[c] # "refused" -> "nothing"
                           [] Len(got[c]) = 0 /\ pc[c] = "refused" -> "refused"
                           [] Len(got[c]) = 1 /\ pc[c] # "refused" -> got[c][1]
                           [] OTHER -> "twice"]

\* The clients implement the remote call of AsyncCall: the caller is told one
\* thing, "ok" and "error" only when the service said so, "unconnected" and
\* "refused" only when the request never leaves the process.
Call == INSTANCE AsyncCall WITH told <- Told

AtMostOnce == Call!Spec

\* Every operation returns or throws, and an asynchronous one that returns calls
\* the callback it was given, whatever the network, the service and the
\* connection do.
EveryCallEnds ==
    \A c \in Calls :
        pc[c] # "idle" ~> \/ pc[c] = "refused"
                          \/ /\ pc[c] = "done"
                             /\ callback[c] /\ kind[c].send = "async" => got[c] # <<>>
=============================================================================
