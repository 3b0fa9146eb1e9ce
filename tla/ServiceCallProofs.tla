--------------------------- MODULE ServiceCallProofs ---------------------------
(* Proofs about ServiceCall, for any number of calls, any set of operation *)
(* kinds and any set of caller rules.                                      *)
EXTENDS ServiceCall, SequenceTheorems, TLAPS

-----------------------------------------------------------------------------
(* Type correctness. *)

LEMMA AppendReport ==
    ASSUME NEW s \in Seq(Reports), NEW r \in Reports
    PROVE  /\ Append(s, r) \in Seq(Reports)
           /\ Len(s) = 0 => Len(Append(s, r)) = 1 /\ Append(s, r)[1] = r
BY AppendProperties

LEMMA PlainType == Plain \in Kinds
BY DEF Plain, Kinds

LEMMA TellType ==
    ASSUME TypeOK, NEW c \in Calls, NEW r \in Reports, Tell(c, r)
    PROVE  got' \in [Calls -> Seq(Reports)] /\ threw' \in [Calls -> BOOLEAN]
<1>1. got[c] \in Seq(Reports)
  BY DEF TypeOK
<1>2. Append(got[c], r) \in Seq(Reports)
  BY <1>1, AppendReport
<1> QED BY <1>2 DEF Tell, TypeOK

LEMMA CallerType ==
    ASSUME TypeOK, NEW c \in Calls, CallerSteps(c)
    PROVE  TypeOK'
<1> USE DEF client, Goto, Steps
<1>1. ASSUME NEW k \in Operations, NEW passed \in BOOLEAN, Invoke(c, k, passed)
      PROVE  TypeOK'
  <2>1. k \in Kinds
    BY OperationsAssumption
  <2>2. FirstStep(k) \in Steps
    BY DEF FirstStep
  <2>3. (k.send = "throws") \in BOOLEAN
    OBVIOUS
  <2> QED BY <1>1, <2>1, <2>2, <2>3 DEF Invoke, TypeOK
<1>2. CASE CheckConnection(c)
  <2>1. Append(got[c], "unconnected") \in Seq(Reports)
    BY AppendReport DEF TypeOK, Reports
  <2> QED BY <1>2, <2>1 DEF CheckConnection, TypeOK
<1>3. CASE Send(c)
  <2>1. (kind[c].needs = "captured" /\ factory) \in BOOLEAN
    OBVIOUS
  <2> QED BY <1>3, <2>1 DEF Send, TypeOK
<1>4. CASE SendRefused(c)
  BY <1>4 DEF SendRefused, TypeOK
<1> QED BY <1>1, <1>2, <1>3, <1>4 DEF CallerSteps

LEMMA RuntimeType ==
    ASSUME TypeOK, NEW c \in Calls, RuntimeSteps(c)
    PROVE  TypeOK'
<1> USE DEF client, Goto, Steps
<1>1. CASE AnswerArrives(c)
  <2>1. net[c] \in Reports
    BY <1>1 DEF AnswerArrives, Reports
  <2>2. Tell(c, net[c]) => got' \in [Calls -> Seq(Reports)] /\ threw' \in [Calls -> BOOLEAN]
    BY <2>1, TellType
  <2> QED BY <1>1, <2>2 DEF AnswerArrives, TypeOK
<1>2. CASE CallFails(c)
  <2>1. "failed" \in Reports
    BY DEF Reports
  <2>2. got' \in [Calls -> Seq(Reports)] /\ threw' \in [Calls -> BOOLEAN]
    BY <1>2, <2>1, TellType DEF CallFails
  <2> QED BY <1>2, <2>2 DEF CallFails, TypeOK
<1>3. CASE SyncReturns(c)
  BY <1>3 DEF SyncReturns, TypeOK
<1> QED BY <1>1, <1>2, <1>3 DEF RuntimeSteps

LEMMA NetworkType ==
    ASSUME TypeOK, NEW c \in Calls, NetworkSteps(c)
    PROVE  TypeOK'
<1> USE DEF client
<1>1. ASSUME NEW answer \in Answers, Serve(c, answer)
      PROVE  TypeOK'
  BY <1>1 DEF Serve, TypeOK
<1>2. CASE Lose(c)
  BY <1>2 DEF Lose, TypeOK
<1>3. CASE LateAnswer(c)
  BY <1>3 DEF LateAnswer, TypeOK
<1> QED BY <1>1, <1>2, <1>3 DEF NetworkSteps

LEMMA InitType == Init => TypeOK
<1> SUFFICES ASSUME Init
             PROVE  TypeOK
  OBVIOUS
<1> USE DEF Init
<1>1. pc \in [Calls -> Steps] /\ kind \in [Calls -> Kinds]
  BY PlainType DEF Steps
<1>2. callback \in [Calls -> BOOLEAN] /\ captured \in [Calls -> BOOLEAN] /\ threw \in [Calls -> BOOLEAN]
  OBVIOUS
<1>3. net \in [Calls -> {"none", "request"} \cup Answers] /\ served \in [Calls -> {"no"} \cup Answers]
  OBVIOUS
<1>4. got \in [Calls -> Seq(Reports)]
  <2>1. <<>> \in Seq(Reports)
    BY EmptySeq
  <2> QED BY <2>1
<1> QED BY <1>1, <1>2, <1>3, <1>4 DEF TypeOK

\* Every variable of a client and its calls keeps its type.
THEOREM TypeCorrect == Spec => []TypeOK
<1>1. Init => TypeOK
  BY InitType
<1>2. TypeOK /\ [Next]_vars => TypeOK'
  <2> SUFFICES ASSUME TypeOK, [Next]_vars
               PROVE  TypeOK'
    OBVIOUS
  <2>1. ASSUME NEW c \in Calls, CallerSteps(c) \/ RuntimeSteps(c) \/ NetworkSteps(c)
        PROVE  TypeOK'
    BY <2>1, CallerType, RuntimeType, NetworkType
  <2>2. CASE ConnectionChanges \/ SetKeyFactory \/ DestroyClient
    BY <2>2 DEF ConnectionChanges, SetKeyFactory, DestroyClient, TypeOK
  <2>3. CASE UNCHANGED vars
    BY <2>3 DEF vars, TypeOK
  <2> QED BY <2>1, <2>2, <2>3 DEF Next
<1> QED BY <1>1, <1>2, PTL DEF Spec

-----------------------------------------------------------------------------
(* At most once.  A call that has not been sent has no message under way and *)
(* has not run; one that is waited for has told nothing; an answer under way *)
(* is the service's; and "unconnected" is told, or the send refused, only to *)
(* calls that were never sent.                                               *)

Unsent(c) == net[c] = "none" /\ served[c] = "no"

OnceInv ==
    /\ TypeOK
    /\ \A c \in Calls :
          /\ pc[c] \in {"idle", "checking", "sending", "refused"} => Unsent(c) /\ Len(got[c]) = 0
          /\ pc[c] = "waiting" => Len(got[c]) = 0
          /\ Len(got[c]) \in {0, 1}
          /\ net[c] = "request" => served[c] = "no"
          /\ net[c] \in Answers => served[c] = net[c]
          /\ Len(got[c]) = 1 /\ got[c][1] = "unconnected" => Unsent(c)

LEMMA InitOnce == Init => OnceInv
<1>1. Len(<<>>) = 0
  BY EmptySeq
<1> QED BY <1>1, InitType DEF Init, OnceInv, Unsent, Answers

LEMMA CallerOnce ==
    ASSUME OnceInv, TypeOK', NEW c \in Calls, CallerSteps(c)
    PROVE  OnceInv'
<1> USE DEF OnceInv, Unsent, Goto, client
<1>1. ASSUME NEW k \in Operations, NEW passed \in BOOLEAN, Invoke(c, k, passed)
      PROVE  OnceInv'
  BY <1>1 DEF Invoke, FirstStep, TypeOK
<1>2. CASE CheckConnection(c)
  <2>1. /\ Len(Append(got[c], "unconnected")) = 1
        /\ Append(got[c], "unconnected")[1] = "unconnected"
    BY <1>2, AppendReport DEF CheckConnection, TypeOK, Reports
  <2>2. CASE Goto(c, "sending") /\ UNCHANGED got
    BY <1>2, <2>2 DEF CheckConnection, TypeOK, Answers
  <2>3. CASE /\ Goto(c, "done")
             /\ got' = [got EXCEPT ![c] = Append(@, "unconnected")]
    BY <1>2, <2>1, <2>3 DEF CheckConnection, TypeOK, Answers
  <2>4. CASE Goto(c, "done") /\ UNCHANGED got
    BY <1>2, <2>4 DEF CheckConnection, TypeOK, Answers
  <2> QED BY <1>2, <2>2, <2>3, <2>4 DEF CheckConnection
<1>3. CASE Send(c)
  BY <1>3 DEF Send, TypeOK, Answers
<1>4. CASE SendRefused(c)
  BY <1>4 DEF SendRefused, TypeOK, Answers
<1> QED BY <1>1, <1>2, <1>3, <1>4 DEF CallerSteps

\* Telling a callback that was told nothing tells it one thing.
LEMMA TellOnce ==
    ASSUME TypeOK, NEW c \in Calls, Len(got[c]) = 0, NEW r \in Reports, Tell(c, r)
    PROVE  /\ \A d \in Calls : d # c => got'[d] = got[d]
           /\ got'[c] = got[c] \/ (Len(got'[c]) = 1 /\ got'[c][1] = r)
<1>1. Len(Append(got[c], r)) = 1 /\ Append(got[c], r)[1] = r
  BY AppendReport DEF TypeOK
<1> QED BY <1>1 DEF Tell, TypeOK

LEMMA RuntimeOnce ==
    ASSUME OnceInv, TypeOK', NEW c \in Calls, RuntimeSteps(c)
    PROVE  OnceInv'
<1> USE DEF OnceInv, Unsent, Goto, client
<1>1. CASE AnswerArrives(c)
  <2>1. net[c] \in Reports /\ net[c] # "unconnected" /\ Len(got[c]) = 0
    BY <1>1 DEF AnswerArrives, Reports
  <2>2. /\ \A d \in Calls : d # c => got'[d] = got[d]
        /\ got'[c] = got[c] \/ (Len(got'[c]) = 1 /\ got'[c][1] = net[c])
    BY <1>1, <2>1, TellOnce DEF AnswerArrives
  <2> QED BY <1>1, <2>1, <2>2 DEF AnswerArrives, TypeOK, Answers
<1>2. CASE CallFails(c)
  <2>1. /\ \A d \in Calls : d # c => got'[d] = got[d]
        /\ got'[c] = got[c] \/ (Len(got'[c]) = 1 /\ got'[c][1] = "failed")
    BY <1>2, TellOnce DEF CallFails, Reports
  <2>2. \A d \in Calls : net'[d] = net[d] \/ (d = c /\ net'[d] = "none")
    BY <1>2 DEF CallFails, TypeOK
  <2>3. ASSUME NEW d \in Calls, d # c
        PROVE  pc'[d] = pc[d] /\ served'[d] = served[d] /\ got'[d] = got[d] /\ net'[d] = net[d]
    BY <1>2, <2>1, <2>2, <2>3 DEF CallFails, TypeOK
  <2>4. pc'[c] = "done" /\ served'[c] = served[c] /\ Len(got'[c]) \in {0, 1}
    BY <1>2, <2>1 DEF CallFails, TypeOK
  <2> QED BY <2>1, <2>2, <2>3, <2>4 DEF Answers
<1>3. CASE SyncReturns(c)
  BY <1>3 DEF SyncReturns, TypeOK, Answers
<1> QED BY <1>1, <1>2, <1>3 DEF RuntimeSteps

LEMMA NetworkOnce ==
    ASSUME OnceInv, TypeOK', NEW c \in Calls, NetworkSteps(c)
    PROVE  OnceInv'
<1> USE DEF OnceInv, Unsent, client
<1>1. ASSUME NEW answer \in Answers, Serve(c, answer)
      PROVE  OnceInv'
  BY <1>1 DEF Serve, TypeOK, Answers
<1>2. CASE Lose(c)
  BY <1>2 DEF Lose, TypeOK, Answers
<1>3. CASE LateAnswer(c)
  BY <1>3 DEF LateAnswer, TypeOK, Answers
<1> QED BY <1>1, <1>2, <1>3 DEF NetworkSteps

LEMMA OnceInductive == Spec => []OnceInv
<1>1. OnceInv /\ TypeOK' /\ [Next]_vars => OnceInv'
  <2> SUFFICES ASSUME OnceInv, TypeOK', [Next]_vars
               PROVE  OnceInv'
    OBVIOUS
  <2>1. ASSUME NEW c \in Calls, CallerSteps(c) \/ RuntimeSteps(c) \/ NetworkSteps(c)
        PROVE  OnceInv'
    BY <2>1, CallerOnce, RuntimeOnce, NetworkOnce
  <2>2. CASE ConnectionChanges \/ SetKeyFactory \/ DestroyClient
    BY <2>2 DEF ConnectionChanges, SetKeyFactory, DestroyClient, OnceInv, Unsent
  <2>3. CASE UNCHANGED vars
    BY <2>3 DEF vars, OnceInv, Unsent
  <2> QED BY <2>1, <2>2, <2>3 DEF Next
<1> QED BY <1>1, InitOnce, TypeCorrect, PTL DEF Spec

-----------------------------------------------------------------------------
(* Refinement of AsyncCall.  Under OnceInv a step changes what one caller    *)
(* was told, or how one request ended, or neither.                          *)

Refused(c) == pc[c] = "refused"

\* What a caller was told follows from its callback and from whether it was refused.
LEMMA ToldSame ==
    ASSUME UNCHANGED got, \A c \in Calls : Refused(c)' <=> Refused(c)
    PROVE  Told' = Told
BY DEF Told, Refused

\* A step that tells one caller, who was told nothing, one report.
LEMMA ToldStep ==
    ASSUME OnceInv, NEW c \in Calls, NEW report \in Reports,
           Len(got[c]) = 0,
           \A d \in Calls : d # c => got'[d] = got[d],
           Len(got'[c]) = 1, got'[c][1] = report,
           ~Refused(c), \A d \in Calls : Refused(d)' <=> Refused(d)
    PROVE  Told[c] = "nothing" /\ Told' = [Told EXCEPT ![c] = report]
<1>1. ASSUME NEW d \in Calls
      PROVE  Told'[d] = [Told EXCEPT ![c] = report][d]
  BY DEF Told, Refused
<1>2. Told' = [d \in Calls |-> Told'[d]] /\ Told[c] = "nothing"
  BY DEF Told, Refused
<1> QED BY <1>1, <1>2 DEF Told

LEMMA RefinesTell ==
    ASSUME OnceInv, NEW c \in Calls, NEW report \in Reports,
           Len(got[c]) = 0,
           \A d \in Calls : d # c => got'[d] = got[d],
           got'[c] = got[c] \/ (Len(got'[c]) = 1 /\ got'[c][1] = report),
           got' = [d \in Calls |-> got'[d]],
           ~Refused(c), \A d \in Calls : Refused(d)' <=> Refused(d),
           report \in {"ok", "error"} => served[c] = report,
           report = "unconnected" => served[c] = "no",
           UNCHANGED served
    PROVE  Call!Tell(c, report) \/ UNCHANGED <<served, Told>>
<1>1. CASE got'[c] = got[c]
  <2>1. got' = got
    BY <1>1 DEF OnceInv, TypeOK
  <2> QED BY <2>1, ToldSame
<1>2. CASE Len(got'[c]) = 1 /\ got'[c][1] = report
  <2>1. Told[c] = "nothing" /\ Told' = [Told EXCEPT ![c] = report]
    BY <1>2, ToldStep
  <2>2. report \in Call!NotSent => report = "unconnected"
    BY DEF Call!NotSent, Reports
  <2> QED BY <2>1, <2>2 DEF Call!Tell, Call!NotTold
<1> QED BY <1>1, <1>2

\* A refused send tells its caller so.
LEMMA RefinesRefused ==
    ASSUME OnceInv, NEW c \in Calls, SendRefused(c)
    PROVE  Call!Tell(c, "refused")
<1>1. Len(got[c]) = 0 /\ served[c] = "no" /\ pc[c] = "sending"
  BY DEF SendRefused, OnceInv, Unsent
<1>2. got' = got /\ served' = served /\ pc' = [pc EXCEPT ![c] = "refused"]
  BY DEF SendRefused, Goto
<1>3. \A d \in Calls : pc'[d] = IF d = c THEN "refused" ELSE pc[d]
  BY <1>2 DEF OnceInv, TypeOK
<1>4. Told[c] = "nothing"
  BY <1>1 DEF Told
<1>5. Told'[c] = "refused" /\ \A d \in Calls : d # c => Told'[d] = Told[d]
  BY <1>1, <1>2, <1>3 DEF Told
<1>6. Told = [d \in Calls |-> Told[d]] /\ Told' = [d \in Calls |-> Told'[d]]
  BY DEF Told
<1> HIDE DEF Told
<1>7. Told' = [Told EXCEPT ![c] = "refused"]
  BY <1>5, <1>6
<1> QED BY <1>1, <1>2, <1>4, <1>7 DEF Call!Tell, Call!NotTold

LEMMA StepRefines ==
    ASSUME OnceInv, OnceInv', [Next]_vars
    PROVE  [Call!Next]_<<served, Told>>
<1> USE DEF client, Goto
<1>type. /\ got \in [Calls -> Seq(Reports)] /\ got' \in [Calls -> Seq(Reports)]
         /\ pc \in [Calls -> Steps]
  BY DEF OnceInv, TypeOK
<1>1. ASSUME NEW c \in Calls, CallerSteps(c)
      PROVE  Call!Next \/ UNCHANGED <<served, Told>>
  <2>1. ASSUME NEW step \in Steps, step # "refused", pc' = [pc EXCEPT ![c] = step], ~Refused(c)
        PROVE  \A d \in Calls : Refused(d)' <=> Refused(d)
    BY <2>1, <1>type DEF Refused
  <2>2. CASE SendRefused(c)
    BY <2>2, RefinesRefused DEF Call!Next, Call!Reports, Call!NotSent
  <2>3. CASE ~SendRefused(c)
    <3>1. ~Refused(c) /\ \E step \in Steps : step # "refused" /\ pc' = [pc EXCEPT ![c] = step]
      BY <1>1, <2>3 DEF CallerSteps, Invoke, FirstStep, CheckConnection, Send, Refused, Steps
    <3>2. \A d \in Calls : Refused(d)' <=> Refused(d)
      BY <2>1, <3>1
    <3>3. CASE UNCHANGED <<served, got>>
      BY <3>2, <3>3, ToldSame
    <3>4. CASE /\ pc[c] = "checking"
               /\ got' = [got EXCEPT ![c] = Append(@, "unconnected")]
               /\ UNCHANGED served
      <4>1. Len(got[c]) = 0 /\ served[c] = "no"
        BY <3>4 DEF OnceInv, Unsent
      <4>2. /\ "unconnected" \in Reports
            /\ Len(got'[c]) = 1 /\ got'[c][1] = "unconnected"
            /\ \A d \in Calls : d # c => got'[d] = got[d]
            /\ got' = [d \in Calls |-> got'[d]]
        BY <3>4, <1>type, <4>1, AppendReport DEF Reports
      <4>3. Call!Tell(c, "unconnected") \/ UNCHANGED <<served, Told>>
        BY <3>1, <3>2, <3>4, <4>1, <4>2, RefinesTell
      <4> QED BY <4>3 DEF Call!Next, Call!Reports, Call!NotSent
    <3> QED BY <1>1, <2>3, <3>3, <3>4 DEF CallerSteps, Invoke, CheckConnection, Send
  <2> QED BY <2>2, <2>3
<1>2. ASSUME NEW c \in Calls, RuntimeSteps(c)
      PROVE  Call!Next \/ UNCHANGED <<served, Told>>
  <2>0. ~Refused(c) /\ \A d \in Calls : Refused(d)' <=> Refused(d)
    <3>1. pc[c] = "waiting" /\ pc' = [pc EXCEPT ![c] = "done"]
      BY <1>2 DEF RuntimeSteps, AnswerArrives, CallFails, SyncReturns
    <3> QED BY <3>1, <1>type DEF Refused
  <2>1. ASSUME NEW report \in Reports, Tell(c, report), pc[c] = "waiting", UNCHANGED served,
               report \in {"ok", "error"} => served[c] = report, report # "unconnected"
        PROVE  Call!Next \/ UNCHANGED <<served, Told>>
    <3>1. Len(got[c]) = 0 /\ TypeOK
      BY <2>1 DEF OnceInv
    <3>2. got' = [d \in Calls |-> got'[d]]
      BY <1>type
    <3>3. Call!Tell(c, report) \/ UNCHANGED <<served, Told>>
      BY <2>0, <2>1, <3>1, <3>2, TellOnce, RefinesTell
    <3>4. report \in Call!Reports
      BY DEF Call!Reports, Call!NotSent, Reports
    <3> QED BY <3>3, <3>4 DEF Call!Next
  <2>2. CASE AnswerArrives(c)
    <3>1. CASE Tell(c, net[c])
      <4>1. /\ net[c] \in Reports /\ net[c] # "unconnected"
            /\ served[c] = net[c] /\ pc[c] = "waiting" /\ UNCHANGED served
        BY <2>2 DEF AnswerArrives, OnceInv, Reports, Answers
      <4> QED BY <2>1, <3>1, <4>1
    <3>2. CASE UNCHANGED got
      BY <2>0, <2>2, <3>2, ToldSame DEF AnswerArrives
    <3> QED BY <2>2, <3>1, <3>2 DEF AnswerArrives
  <2>3. CASE CallFails(c)
    BY <2>1, <2>3 DEF CallFails, Reports
  <2>4. CASE SyncReturns(c)
    BY <2>0, <2>4, ToldSame DEF SyncReturns
  <2> QED BY <1>2, <2>2, <2>3, <2>4 DEF RuntimeSteps
<1>same. UNCHANGED <<pc, got>> => Told' = Told
  BY DEF Told
<1>3. ASSUME NEW c \in Calls, NetworkSteps(c)
      PROVE  Call!Next \/ UNCHANGED <<served, Told>>
  <2>0. Told' = Told
    BY <1>3, <1>same DEF NetworkSteps, Serve, Lose, LateAnswer
  <2>1. ASSUME NEW answer \in Answers, Serve(c, answer)
        PROVE  Call!Serve(c, answer)
    <3>1. served[c] = "no" /\ ~Refused(c) /\ Len(got[c]) \in {0, 1}
          /\ ~(Len(got[c]) = 1 /\ got[c][1] \in {"unconnected", "refused"})
      <4>0. got[c] \in Seq(Reports)
        BY <1>type
      <4>1. Len(got[c]) = 1 => got[c][1] \in Reports
        BY <4>0
      <4> QED BY <2>1, <4>1 DEF Serve, OnceInv, Unsent, Refused, Reports
    <3>2. Told[c] \notin Call!NotSent
      BY <3>1 DEF Told, Refused, Call!NotSent
    <3> QED BY <2>0, <2>1, <3>1, <3>2 DEF Serve, Call!Serve
  <2>2. CASE Lose(c) \/ LateAnswer(c)
    BY <2>0, <2>2 DEF Lose, LateAnswer
  <2> QED BY <1>3, <2>1, <2>2 DEF NetworkSteps, Call!Next, Call!Answers, Answers
<1>4. CASE ConnectionChanges \/ SetKeyFactory \/ DestroyClient
  BY <1>4, <1>same DEF ConnectionChanges, SetKeyFactory, DestroyClient
<1>5. CASE UNCHANGED vars
  BY <1>5, <1>same DEF vars
<1> QED BY <1>1, <1>2, <1>3, <1>4, <1>5 DEF Next

\* A client implements the at-most-once remote call of AsyncCall, whatever its
\* operations are and whether or not callers keep to the rules.
THEOREM ClientsRefineAsyncCall == Spec => AtMostOnce
<1>1. Init => Call!Init
  <2>1. Len(<<>>) = 0
    BY EmptySeq
  <2> QED BY <2>1 DEF Init, Call!Init, Call!NotTold, Told
<1>2. OnceInv /\ OnceInv' /\ [Next]_vars => [Call!Next]_<<served, Told>>
  BY StepRefines
<1> QED BY <1>1, <1>2, OnceInductive, PTL DEF Spec, AtMostOnce, Call!Spec, Told

\* What AsyncCall keeps true of what was told.
ToldTrue ==
    \A c \in Calls : /\ Told[c] \in {"ok", "error"} => served[c] = Told[c]
                     /\ Told[c] \in Call!NotSent => served[c] = "no"

LEMMA ToldStaysTrue == AtMostOnce => []ToldTrue
<1> DEFINE Inv == served \in [Calls -> {"no"} \cup Answers] /\ ToldTrue
<1>1. Call!Init => Inv
  BY DEF Call!Init, Call!NotTold, Call!NotSent, ToldTrue
<1>2. Inv /\ [Call!Next]_<<served, Told>> => Inv'
  <2> SUFFICES ASSUME Inv, [Call!Next]_<<served, Told>>
               PROVE  Inv'
    OBVIOUS
  <2>1. ASSUME NEW c \in Calls, NEW answer \in Answers, Call!Serve(c, answer)
        PROVE  Inv'
    <3>1. /\ served' = [served EXCEPT ![c] = answer] /\ served[c] = "no"
          /\ Told' = Told /\ Told[c] \notin Call!NotSent
      BY <2>1 DEF Call!Serve
    <3> QED BY <3>1 DEF ToldTrue, Answers, Call!NotSent
  <2>2. ASSUME NEW c \in Calls, NEW report \in Call!Reports, Call!Tell(c, report)
        PROVE  Inv'
    <3>1. /\ Told' = [Told EXCEPT ![c] = report] /\ served' = served
          /\ report \in {"ok", "error"} => served[c] = report
          /\ report \in Call!NotSent => served[c] = "no"
      BY <2>2 DEF Call!Tell
    <3>d. Told = [d \in Calls |-> Told[d]]
      BY DEF Told
    <3>2. \A d \in Calls : Told'[d] = IF d = c THEN report ELSE Told[d]
      <4> HIDE DEF Told
      <4> QED BY <3>d, <3>1
    <3> QED BY <3>1, <3>2 DEF ToldTrue, Call!NotSent
  <2>3. CASE UNCHANGED <<served, Told>>
    BY <2>3 DEF ToldTrue, Call!NotSent
  <2> QED BY <2>1, <2>2, <2>3 DEF Call!Next, Call!Answers, Answers
<1> QED BY <1>1, <1>2, PTL DEF AtMostOnce, Call!Spec

\* What a client told its caller happened is what happened, and nothing is under
\* way that could make it otherwise.
ReportTrue ==
    \A c \in Calls :
        /\ got[c] # <<>> /\ got[c][1] \in {"ok", "error"} => served[c] = got[c][1]
        /\ (got[c] # <<>> /\ got[c][1] = "unconnected") \/ pc[c] = "refused" =>
              served[c] = "no" /\ net[c] = "none"

\* The clients tell their callers the truth, and it stays true: a callback given
\* "ok" or "error" was given what the service ended the call with, and a call that
\* was reported as not sent, or that threw where it was to be sent, has not run and
\* has no request under way that could still run (the Callback classes of client/,
\* checkConnection in Common.h).
THEOREM ReportsAreTrue == Spec => []ReportTrue
<1>1. OnceInv /\ ToldTrue => ReportTrue
  <2> SUFFICES ASSUME OnceInv, ToldTrue, NEW c \in Calls
               PROVE  /\ got[c] # <<>> /\ got[c][1] \in {"ok", "error"} => served[c] = got[c][1]
                      /\ (got[c] # <<>> /\ got[c][1] = "unconnected") \/ pc[c] = "refused" =>
                            served[c] = "no" /\ net[c] = "none"
    BY DEF ReportTrue
  <2>1. got[c] # <<>> => Len(got[c]) = 1 /\ ~Refused(c)
    <3>1. got[c] \in Seq(Reports) /\ Len(got[c]) \in {0, 1}
      BY DEF OnceInv, TypeOK
    <3>2. got[c] # <<>> => Len(got[c]) # 0
      BY <3>1, EmptySeq
    <3> QED BY <3>1, <3>2 DEF OnceInv, Refused
  <2>2. got[c] # <<>> => Told[c] = got[c][1]
    BY <2>1 DEF Told, Refused
  <2>3. got[c] # <<>> /\ got[c][1] \in {"ok", "error"} => served[c] = got[c][1]
    BY <2>2 DEF ToldTrue
  <2>4. (got[c] # <<>> /\ got[c][1] = "unconnected") \/ pc[c] = "refused" => Unsent(c)
    BY <2>1 DEF OnceInv
  <2> QED BY <2>3, <2>4 DEF Unsent
<1>2. Spec => []ToldTrue
  BY ClientsRefineAsyncCall, ToldStaysTrue, PTL
<1> QED BY <1>1, <1>2, OnceInductive, PTL

-----------------------------------------------------------------------------
(* No fault.  What a call will need when it is answered is there from the   *)
(* moment it is made: the callback, the factory, which is never taken away, *)
(* the copy of it in the Callback, and the client a Callback points back to.*)

\* The rules that the callers of an operation must keep, by how it is written.
RulesFor(k) ==
    {rule \in Rules :
        CASE rule = "callback" -> k.send = "async" /\ ~k.nullSafe
          [] rule = "factory" -> k.needs # "nothing"
          [] rule = "lifetime" -> k.needs = "self"}

RulesKept == \A k \in Operations : RulesFor(k) \subseteq CallerRules

LEMMA OperationRules ==
    ASSUME RulesKept, NEW k \in Operations
    PROVE  /\ k.send = "async" /\ ~k.nullSafe => "callback" \in CallerRules
           /\ k.needs # "nothing" => "factory" \in CallerRules
           /\ k.needs = "self" => "lifetime" \in CallerRules
BY DEF RulesKept, RulesFor, Rules

Under(c) == pc[c] \in {"checking", "sending", "waiting"}

Provided(c) ==
    /\ Under(c) => kind[c] \in Operations
    /\ Under(c) => kind[c].send \notin {"none", "throws"}
    /\ Under(c) /\ kind[c].send = "async" /\ ~kind[c].nullSafe => callback[c]
    /\ Under(c) /\ kind[c].needs # "nothing" => factory
    /\ pc[c] = "waiting" /\ kind[c].needs = "captured" => captured[c]
    /\ pc[c] \in {"checking", "sending"} => alive
    /\ pc[c] = "waiting" /\ kind[c].needs = "self" => alive
    /\ threw[c] => kind[c].send \in {"throws", "sync"} \/ pc[c] = "refused"
    /\ threw[c] => pc[c] \in {"done", "refused"}

FaultInv ==
    /\ TypeOK
    /\ ~crashed
    /\ \A c \in Calls : Provided(c)

\* A step of call c that brings nothing down leaves the other calls as they are.
LEMMA OthersProvided ==
    ASSUME FaultInv, TypeOK', NEW c \in Calls, ~crashed', UNCHANGED <<factory, alive>>,
           \A d \in Calls : d # c => /\ pc'[d] = pc[d] /\ kind'[d] = kind[d]
                                     /\ callback'[d] = callback[d]
                                     /\ captured'[d] = captured[d]
                                     /\ threw'[d] = threw[d],
           Provided(c)'
    PROVE  FaultInv'
<1>1. ASSUME NEW d \in Calls, d # c
      PROVE  Provided(d)'
  BY <1>1 DEF FaultInv, Provided, Under
<1> QED BY <1>1 DEF FaultInv

LEMMA CallerFault ==
    ASSUME RulesKept, FaultInv, TypeOK', NEW c \in Calls, CallerSteps(c)
    PROVE  FaultInv'
<1> USE DEF Goto, client
<1>1. ASSUME NEW k \in Operations, NEW passed \in BOOLEAN, Invoke(c, k, passed)
      PROVE  FaultInv'
  <2>1. /\ kind'[c] = k /\ callback'[c] = passed /\ pc'[c] = FirstStep(k)
        /\ threw'[c] = (k.send = "throws")
    BY <1>1 DEF Invoke, FaultInv, TypeOK
  <2>2. /\ k.send = "async" /\ ~k.nullSafe => passed
        /\ k.needs # "nothing" => factory
        /\ alive /\ UNCHANGED <<factory, alive, crashed>>
    BY <1>1, OperationRules DEF Invoke
  <2>3. Provided(c)'
    BY <2>1, <2>2 DEF Provided, Under, FirstStep
  <2> QED BY <1>1, <2>2, <2>3, OthersProvided DEF Invoke, FaultInv, TypeOK
<1>2. CASE CheckConnection(c)
  <2>1. Provided(c)'
    BY <1>2 DEF CheckConnection, FaultInv, Provided, Under, TypeOK
  <2> QED BY <1>2, <2>1, OthersProvided DEF CheckConnection, FaultInv, TypeOK
<1>3. CASE Send(c)
  <2>1. pc'[c] \in {"done", "waiting"} /\ captured'[c] = (kind[c].needs = "captured" /\ factory)
    BY <1>3 DEF Send, FaultInv, TypeOK
  <2>2. Provided(c)'
    BY <1>3, <2>1 DEF Send, FaultInv, Provided, Under
  <2> QED BY <1>3, <2>2, OthersProvided DEF Send, FaultInv, TypeOK
<1>4. CASE SendRefused(c)
  <2>1. Provided(c)'
    BY <1>4 DEF SendRefused, FaultInv, Provided, Under, TypeOK
  <2> QED BY <1>4, <2>1, OthersProvided DEF SendRefused, FaultInv, TypeOK
<1> QED BY <1>1, <1>2, <1>3, <1>4 DEF CallerSteps

LEMMA RuntimeFault ==
    ASSUME RulesKept, FaultInv, TypeOK', NEW c \in Calls, RuntimeSteps(c)
    PROVE  FaultInv'
<1> USE DEF Goto, client
<1>1. ASSUME pc[c] = "waiting", kind[c].send = "async", NEW r, Tell(c, r)
      PROVE  threw'[c] = FALSE /\ \A d \in Calls : d # c => threw'[d] = threw[d]
  BY <1>1 DEF Tell, FaultInv, Provided, Under, TypeOK
<1>2. CASE AnswerArrives(c)
  <2>1. ~BadPointer(c)
    BY <1>2 DEF AnswerArrives, BadPointer, FaultInv, Provided, Under
  <2>2. Tell(c, net[c]) /\ UNCHANGED crashed
    BY <1>2, <2>1 DEF AnswerArrives
  <2>3. Provided(c)'
    BY <1>1, <1>2, <2>2 DEF AnswerArrives, FaultInv, Provided, Under, TypeOK
  <2> QED BY <1>1, <1>2, <2>2, <2>3, OthersProvided DEF AnswerArrives, FaultInv, TypeOK
<1>3. CASE CallFails(c)
  <2>1. Provided(c)'
    BY <1>1, <1>3 DEF CallFails, FaultInv, Provided, Under, TypeOK
  <2> QED BY <1>1, <1>3, <2>1, OthersProvided DEF CallFails, FaultInv, TypeOK
<1>4. CASE SyncReturns(c)
  <2>1. Provided(c)'
    BY <1>4 DEF SyncReturns, FaultInv, Provided, Under, TypeOK
  <2> QED BY <1>4, <2>1, OthersProvided DEF SyncReturns, FaultInv, TypeOK
<1> QED BY <1>2, <1>3, <1>4 DEF RuntimeSteps

\* The network touches nothing a call needs.
LEMMA NetworkFault ==
    ASSUME FaultInv, TypeOK', NEW c \in Calls, NetworkSteps(c)
    PROVE  FaultInv'
BY DEF NetworkSteps, Serve, Lose, LateAnswer, client, FaultInv, Provided, Under

LEMMA ClientFault ==
    ASSUME RulesKept, FaultInv, TypeOK', ConnectionChanges \/ SetKeyFactory \/ DestroyClient
    PROVE  FaultInv'
<1>1. CASE ConnectionChanges
  BY <1>1 DEF ConnectionChanges, FaultInv, Provided, Under
<1>2. CASE SetKeyFactory
  BY <1>2 DEF SetKeyFactory, FaultInv, Provided, Under
<1>3. CASE DestroyClient
  <2>1. ASSUME NEW c \in Calls, pc[c] = "waiting", kind[c].needs = "self"
        PROVE  FALSE
    <3>1. kind[c] \in Operations
      BY <2>1 DEF FaultInv, Provided, Under
    <3> QED BY <1>3, <2>1, <3>1, OperationRules DEF DestroyClient
  <2> QED BY <1>3, <2>1 DEF DestroyClient, FaultInv, Provided, Under
<1> QED BY <1>1, <1>2, <1>3

\* Callers that keep to the rules of the operations they call never make a callback
\* thread go through a null or freed pointer, and see an exception from no operation
\* but the two kinds that throw to their caller and those the runtime refuses to send.
THEOREM RulesPreventFaults == RulesKept => (Spec => []NoFault)
<1> SUFFICES ASSUME RulesKept
             PROVE  Spec => []NoFault
  OBVIOUS
<1>1. Init => FaultInv
  BY InitType DEF Init, FaultInv, Provided, Under
<1>2. FaultInv /\ TypeOK' /\ [Next]_vars => FaultInv'
  <2> SUFFICES ASSUME FaultInv, TypeOK', [Next]_vars
               PROVE  FaultInv'
    OBVIOUS
  <2>1. ASSUME NEW c \in Calls, CallerSteps(c) \/ RuntimeSteps(c) \/ NetworkSteps(c)
        PROVE  FaultInv'
    BY <2>1, CallerFault, RuntimeFault, NetworkFault
  <2>2. CASE ConnectionChanges \/ SetKeyFactory \/ DestroyClient
    BY <2>2, ClientFault
  <2>3. CASE UNCHANGED vars
    BY <2>3 DEF vars, FaultInv, Provided, Under
  <2> QED BY <2>1, <2>2, <2>3 DEF Next
<1>3. FaultInv => NoFault
  BY DEF FaultInv, NoFault, Provided
<1> QED BY <1>1, <1>2, <1>3, TypeCorrect, PTL DEF Spec
-----------------------------------------------------------------------------
(* The rules of the operations the clients have. *)

\* Operations that convert no answer through a factory, of every client but the
\* front service's.
PlainKinds ==
    UNION {KindsOf(TxPoolBlocksAndSync), KindsOf(TxPoolMembership),
           KindsOf(GatewaySend), KindsOf(GatewayTopics), KindsOf(Consensus),
           KindsOf(ConsensusStatus), KindsOf(ConsensusUnimplemented),
           KindsOf(BlockSync), KindsOf(Rpc), KindsOf(LedgerTransactions),
           KindsOf(LedgerUnimplemented), KindsOf(Scheduler),
           KindsOf(SchedulerUnimplemented)}

\* Operations of the clients of the tx pool, the gateway and the ledger of which
\* some convert answers through the factory their Callback captured.
CapturingKinds ==
    UNION {KindsOf(TxPoolSubmitAndVerify), KindsOf(GatewayGroups),
           KindsOf(LedgerBlocks), KindsOf(LedgerConfiguration)}

FrontKinds == KindsOf(FrontReceive) \cup KindsOf(FrontSend)

LEMMA ClientKindsSplit == ClientKinds = PlainKinds \cup CapturingKinds \cup FrontKinds
BY DEF ClientKinds, PlainKinds, CapturingKinds, FrontKinds

LEMMA HelperKinds ==
    /\ \A k \in Kinds : Checked(k) \in Kinds /\ Checked(k).needs = k.needs
    /\ Sends("oneway", Plain) \in Kinds /\ Sends("oneway", Plain).needs = "nothing"
    /\ NeedsForEach("captured", Plain) \in Kinds
    /\ NeedsForEach("captured", Plain).needs = "captured"
BY DEF Kinds, Checked, Sends, NeedsForEach, Plain

LEMMA PlainNeedsNothing == \A k \in PlainKinds : k.needs = "nothing"
<1> USE DEF KindsOf, Plain, Checked, Sends
<1>1. \A k \in KindsOf(TxPoolBlocksAndSync) : k.needs = "nothing"
  BY DEF TxPoolBlocksAndSync
<1>2. \A k \in KindsOf(TxPoolMembership) : k.needs = "nothing"
  BY DEF TxPoolMembership
<1>3. \A k \in KindsOf(GatewaySend) : k.needs = "nothing"
  <2>1. Checked(Plain).needs = "nothing" /\ Checked(Sends("oneway", Plain)).needs = "nothing"
    BY HelperKinds, PlainType DEF Plain
  <2> HIDE DEF Plain, Checked, Sends
  <2> QED BY <2>1 DEF GatewaySend
<1>4. \A k \in KindsOf(GatewayTopics) : k.needs = "nothing"
  <2>1. Checked(Plain).needs = "nothing" /\ Checked(Sends("oneway", Plain)).needs = "nothing"
    BY HelperKinds, PlainType DEF Plain
  <2> HIDE DEF Plain, Checked, Sends
  <2> QED BY <2>1 DEF GatewayTopics
<1>5. \A k \in KindsOf(Consensus) : k.needs = "nothing"
  BY DEF Consensus
<1>6. \A k \in KindsOf(ConsensusStatus) : k.needs = "nothing"
  BY DEF ConsensusStatus
<1>7. \A k \in KindsOf(ConsensusUnimplemented) : k.needs = "nothing"
  BY DEF ConsensusUnimplemented
<1>8. \A k \in KindsOf(BlockSync) : k.needs = "nothing"
  BY DEF BlockSync
<1>9. \A k \in KindsOf(Rpc) : k.needs = "nothing"
  BY DEF Rpc
<1>10. \A k \in KindsOf(LedgerTransactions) : k.needs = "nothing"
  BY DEF LedgerTransactions
<1>11. \A k \in KindsOf(LedgerUnimplemented) : k.needs = "nothing"
  BY DEF LedgerUnimplemented
<1>12. \A k \in KindsOf(Scheduler) : k.needs = "nothing"
  BY DEF Scheduler
<1>13. \A k \in KindsOf(SchedulerUnimplemented) : k.needs = "nothing"
  BY DEF SchedulerUnimplemented
<1> HIDE DEF KindsOf
<1> QED BY <1>1, <1>2, <1>3, <1>4, <1>5, <1>6, <1>7, <1>8, <1>9, <1>10, <1>11, <1>12, <1>13 DEF PlainKinds

LEMMA CapturingNeedsNoClient == \A k \in CapturingKinds : k.needs # "self"
<1> USE DEF KindsOf, Plain, Checked, Needs, NeedsForEach
<1>1. \A k \in KindsOf(TxPoolSubmitAndVerify) : k.needs # "self"
  BY DEF TxPoolSubmitAndVerify
<1>2. \A k \in KindsOf(GatewayGroups) : k.needs # "self"
  <2>1. Checked(Plain).needs = "nothing" /\ Checked(NeedsForEach("captured", Plain)).needs = "captured"
    BY HelperKinds, PlainType DEF Plain
  <2> HIDE DEF Plain, Checked, NeedsForEach
  <2> QED BY <2>1 DEF GatewayGroups
<1>3. \A k \in KindsOf(LedgerBlocks) : k.needs # "self"
  BY DEF LedgerBlocks
<1>4. \A k \in KindsOf(LedgerConfiguration) : k.needs # "self"
  <2>1. Plain.needs = "nothing" /\ NeedsForEach("captured", Plain).needs = "captured"
    BY HelperKinds DEF Plain
  <2> HIDE DEF Plain, NeedsForEach
  <2> QED BY <2>1 DEF LedgerConfiguration
<1> HIDE DEF KindsOf
<1> QED BY <1>1, <1>2, <1>3, <1>4 DEF CapturingKinds

\* Who calls nothing but consensus, block sync, rpc, scheduler and the other plain
\* operations only has to pass callbacks: their clients may be destroyed, or without
\* a factory, at any time (the Callback classes in client/).
THEOREM CallbackAloneSuffices ==
    ASSUME Operations \subseteq PlainKinds, "callback" \in CallerRules
    PROVE  Spec => []NoFault
<1>1. RulesKept
  BY PlainNeedsNothing DEF RulesKept, RulesFor, Rules
<1> QED BY <1>1, RulesPreventFaults

\* Only the front service's Callback classes point back to their client
\* (client/FrontServiceClient.h:51 and :230): callers of all the others may let the
\* client go while answers are under way.
THEOREM OnlyFrontNeedsLifetime ==
    ASSUME Operations \subseteq PlainKinds \cup CapturingKinds,
           {"callback", "factory"} \subseteq CallerRules
    PROVE  Spec => []NoFault
<1>1. \A k \in Operations : k.needs # "self"
  BY PlainNeedsNothing, CapturingNeedsNoClient
<1>2. RulesKept
  BY <1>1 DEF RulesKept, RulesFor, Rules
<1> QED BY <1>2, RulesPreventFaults
=============================================================================
