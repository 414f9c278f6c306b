-------------------------- MODULE SideInstanceProofs --------------------------
(***************************************************************************)
(* Theorems about SideInstance, for any number of concurrent probes and of *)
(* ports.  The argument is about who owns the instance: the worker until   *)
(* it has delivered, the handler from then on, nobody after that.          *)
(***************************************************************************)
EXTENDS SideInstance, TLAPS

\* Where one call's handler, worker, service and answer stand to each other.
Owned(c) ==
  /\ worker[c] \in {"none", "port"} => service[c] = "none" /\ sent[c] = None
  /\ worker[c] = "start" => service[c] = "created" /\ sent[c] = None
  /\ worker[c] = "settle" => service[c] = "open" /\ sent[c] = None
  /\ worker[c] \in {"send", "ended"} => sent[c] # None
  /\ worker[c] = "send" => (sent[c] = "instance" => service[c] = "open")
  /\ worker[c] \in {"send", "ended"} /\ sent[c] \in {"config", "transient"} => service[c] = "closed"
  /\ sent[c] = "panic" => panicked[c]
  /\ pc[c] = "idle" => worker[c] = "none" /\ prober[c] = "none"
  /\ pc[c] = "wait" => /\ worker[c] # "none"
                       /\ worker[c] = "ended" /\ sent[c] = "instance" => service[c] = "closed"
  /\ pc[c] \in {"lookup", "ready", "probe", "close"} =>
       worker[c] = "ended" /\ sent[c] = "instance" /\ service[c] = "open"
  /\ pc[c] = "done" /\ worker[c] = "ended" /\ sent[c] = "instance" => service[c] = "closed"

\* What an answer says of the way to it.
Judged(c) ==
  /\ pc[c] = "probe" => prober[c] # "none"
  /\ prober[c] = "ended" => found[c] # None
  /\ prober[c] # "ended" => found[c] = None
  /\ pc[c] \in {"idle", "wait", "lookup"} => test[c] = "none"
  /\ test[c] = "none" => prober[c] = "none"
  /\ pc[c] \in {"idle", "wait", "lookup", "ready"} => prober[c] = "none"
  /\ pc[c] = "ready" => test[c] # "none"
  /\ answer[c] = "dead" =>
       sent[c] = "instance" /\ (Proven(c) \/ Untried(c) \/ found[c] = "probePanic")
  /\ answer[c] = "delay" => found[c] = "delay"
  /\ answer[c] = "rejected" => worker[c] = "none" \/ sent[c] \in {"config", "instance"}
  /\ answer[c] \in {"dead", "delay"} => sent[c] = "instance"
  /\ worker[c] \notin {"none", "ended"} => answer[c] \in {"blank", None}
  /\ pc[c] = "done" /\ worker[c] \notin {"none", "ended"} => answer[c] = "blank"
  /\ sent[c] \in {"transient", "panic"} => answer[c] \in {"blank", None}
  /\ answer[c] = "blank" => prober[c] # "dialing" /\ found[c] \in {"dns", None}

SideInv == TypeOK /\ \A c \in Calls : Owned(c) /\ Judged(c)

\* Every variable keeps its type.
THEOREM TypeCorrect == Spec => []TypeOK
<1>1. Init => TypeOK
  BY SMT DEF Init, TypeOK, Answers, BringUpErrors, ProbeErrors
<1>2. TypeOK /\ [Next]_vars => TypeOK'
  <2> SUFFICES ASSUME TypeOK, [Next]_vars PROVE TypeOK'
    OBVIOUS
  <2> USE SideAssumption DEF TypeOK, handler, bringing, contexts, Goto, Answer, Answers, BringUpErrors, ProbeErrors
  <2>1. ASSUME NEW c \in Calls, Reject(c) PROVE TypeOK' BY <2>1 DEF Reject
  <2>2. ASSUME NEW c \in Calls, Call(c) PROVE TypeOK' BY <2>2 DEF Call
  <2>3. ASSUME NEW c \in Calls, Deliver(c) PROVE TypeOK' BY <2>3 DEF Deliver, Classify
  <2>4. ASSUME NEW c \in Calls, GiveUp(c) PROVE TypeOK' BY <2>4 DEF GiveUp
  <2>5. ASSUME NEW c \in Calls, Lookup(c) PROVE TypeOK' BY <2>5 DEF Lookup
  <2>6. ASSUME NEW c \in Calls, LookupFails(c) PROVE TypeOK' BY <2>6 DEF LookupFails
  <2>7. ASSUME NEW c \in Calls, StartProbe(c) PROVE TypeOK' BY <2>7 DEF StartProbe
  <2>8. ASSUME NEW c \in Calls, NoAttempt(c) PROVE TypeOK' BY <2>8 DEF NoAttempt
  <2>9. ASSUME NEW c \in Calls, TakeResult(c) PROVE TypeOK' BY <2>9 DEF TakeResult, Verdict
  <2>10. ASSUME NEW c \in Calls, BudgetGone(c) PROVE TypeOK' BY <2>10 DEF BudgetGone
  <2>11. ASSUME NEW c \in Calls, Close(c) PROVE TypeOK' BY <2>11 DEF Close
  <2>12. ASSUME NEW c \in Calls, PickPort(c) PROVE TypeOK' BY <2>12 DEF PickPort
  <2>13. ASSUME NEW c \in Calls, Start(c) PROVE TypeOK' BY <2>13 DEF Start
  <2>14. ASSUME NEW c \in Calls, StartFails(c) PROVE TypeOK' BY <2>14 DEF StartFails
  <2>15. ASSUME NEW c \in Calls, StartPanics(c) PROVE TypeOK' BY <2>15 DEF StartPanics
  <2>16. ASSUME NEW c \in Calls, Settle(c) PROVE TypeOK' BY <2>16 DEF Settle
  <2>17. ASSUME NEW c \in Calls, SettleAborted(c) PROVE TypeOK' BY <2>17 DEF SettleAborted
  <2>18. ASSUME NEW c \in Calls, WorkerCleanup(c) PROVE TypeOK' BY <2>18 DEF WorkerCleanup
  <2>19. ASSUME NEW c \in Calls, ProbeEnds(c) PROVE TypeOK' BY <2>19 DEF ProbeEnds
  <2>20. ASSUME NEW c \in Calls, Timer(c) PROVE TypeOK' BY <2>20 DEF Timer, BringUpTimer, TestTimer
  <2>21. ASSUME NEW c \in Calls, Cancel(c) PROVE TypeOK' BY <2>21 DEF Cancel
  <2>22. CASE UNCHANGED vars BY <2>22 DEF vars
  <2> QED
    BY <2>1, <2>2, <2>3, <2>4, <2>5, <2>6, <2>7, <2>8, <2>9, <2>10, <2>11, <2>12, <2>13, <2>14,
       <2>15, <2>16, <2>17, <2>18, <2>19, <2>20, <2>21, <2>22 DEF Next, Handler, Worker
<1> QED BY <1>1, <1>2, PTL DEF Spec

LEMMA OwnedStep == TypeOK /\ (\A c \in Calls : Owned(c)) /\ [Next]_vars => \A c \in Calls : Owned(c)'
<1> SUFFICES ASSUME TypeOK, \A e \in Calls : Owned(e), [Next]_vars, NEW d \in Calls PROVE Owned(d)'
  OBVIOUS
<1> USE SideAssumption DEF Owned, TypeOK, handler, bringing, contexts, Goto, Answer, Answers,
                           BringUpErrors, ProbeErrors
<1>1. ASSUME NEW c \in Calls, Reject(c) PROVE Owned(d)' BY <1>1 DEF Reject
<1>2. ASSUME NEW c \in Calls, Call(c) PROVE Owned(d)' BY <1>2 DEF Call
<1>3. ASSUME NEW c \in Calls, Deliver(c) PROVE Owned(d)' BY <1>3 DEF Deliver, Classify
<1>4. ASSUME NEW c \in Calls, GiveUp(c) PROVE Owned(d)' BY <1>4 DEF GiveUp
<1>5. ASSUME NEW c \in Calls, Lookup(c) PROVE Owned(d)' BY <1>5 DEF Lookup
<1>6. ASSUME NEW c \in Calls, LookupFails(c) PROVE Owned(d)' BY <1>6 DEF LookupFails
<1>7. ASSUME NEW c \in Calls, StartProbe(c) PROVE Owned(d)' BY <1>7 DEF StartProbe
<1>8. ASSUME NEW c \in Calls, NoAttempt(c) PROVE Owned(d)' BY <1>8 DEF NoAttempt
<1>9. ASSUME NEW c \in Calls, TakeResult(c) PROVE Owned(d)' BY <1>9 DEF TakeResult, Verdict
<1>10. ASSUME NEW c \in Calls, BudgetGone(c) PROVE Owned(d)' BY <1>10 DEF BudgetGone
<1>11. ASSUME NEW c \in Calls, Close(c) PROVE Owned(d)' BY <1>11 DEF Close
<1>12. ASSUME NEW c \in Calls, PickPort(c) PROVE Owned(d)' BY <1>12 DEF PickPort
<1>13. ASSUME NEW c \in Calls, Start(c) PROVE Owned(d)' BY <1>13 DEF Start
<1>14. ASSUME NEW c \in Calls, StartFails(c) PROVE Owned(d)' BY <1>14 DEF StartFails
<1>15. ASSUME NEW c \in Calls, StartPanics(c) PROVE Owned(d)' BY <1>15 DEF StartPanics
<1>16. ASSUME NEW c \in Calls, Settle(c) PROVE Owned(d)' BY <1>16 DEF Settle
<1>17. ASSUME NEW c \in Calls, SettleAborted(c) PROVE Owned(d)' BY <1>17 DEF SettleAborted, Ended
<1>18. ASSUME NEW c \in Calls, WorkerCleanup(c) PROVE Owned(d)' BY <1>18 DEF WorkerCleanup, Ended
<1>19. ASSUME NEW c \in Calls, ProbeEnds(c) PROVE Owned(d)' BY <1>19 DEF ProbeEnds
<1>20. ASSUME NEW c \in Calls, Timer(c) PROVE Owned(d)' BY <1>20 DEF Timer, BringUpTimer, TestTimer
<1>21. ASSUME NEW c \in Calls, Cancel(c) PROVE Owned(d)' BY <1>21 DEF Cancel
<1>22. CASE UNCHANGED vars BY <1>22 DEF vars
<1> QED
  BY <1>1, <1>2, <1>3, <1>4, <1>5, <1>6, <1>7, <1>8, <1>9, <1>10, <1>11, <1>12, <1>13, <1>14,
     <1>15, <1>16, <1>17, <1>18, <1>19, <1>20, <1>21, <1>22 DEF Next, Handler, Worker

LEMMA JudgedStep ==
  TypeOK /\ (\A c \in Calls : Owned(c) /\ Judged(c)) /\ [Next]_vars => \A c \in Calls : Judged(c)'
<1> SUFFICES ASSUME TypeOK, \A e \in Calls : Owned(e) /\ Judged(e), [Next]_vars, NEW d \in Calls
             PROVE Judged(d)'
  OBVIOUS
<1> USE SideAssumption DEF Owned, Judged, Proven, Untried, Ended, TypeOK, handler, bringing, contexts, Goto, Answer,
                           Answers, BringUpErrors, ProbeErrors
<1>1. ASSUME NEW c \in Calls, Reject(c) PROVE Judged(d)' BY <1>1 DEF Reject
<1>2. ASSUME NEW c \in Calls, Call(c) PROVE Judged(d)' BY <1>2 DEF Call
<1>3. ASSUME NEW c \in Calls, Deliver(c) PROVE Judged(d)' BY <1>3 DEF Deliver, Classify
<1>4. ASSUME NEW c \in Calls, GiveUp(c) PROVE Judged(d)' BY <1>4 DEF GiveUp
<1>5. ASSUME NEW c \in Calls, Lookup(c) PROVE Judged(d)' BY <1>5 DEF Lookup
<1>6. ASSUME NEW c \in Calls, LookupFails(c) PROVE Judged(d)' BY <1>6 DEF LookupFails
<1>7. ASSUME NEW c \in Calls, StartProbe(c) PROVE Judged(d)' BY <1>7 DEF StartProbe
<1>8. ASSUME NEW c \in Calls, NoAttempt(c) PROVE Judged(d)' BY <1>8 DEF NoAttempt
<1>9. ASSUME NEW c \in Calls, TakeResult(c) PROVE Judged(d)' BY <1>9 DEF TakeResult, Verdict
<1>10. ASSUME NEW c \in Calls, BudgetGone(c) PROVE Judged(d)' BY <1>10 DEF BudgetGone
<1>11. ASSUME NEW c \in Calls, Close(c) PROVE Judged(d)' BY <1>11 DEF Close
<1>12. ASSUME NEW c \in Calls, PickPort(c) PROVE Judged(d)' BY <1>12 DEF PickPort
<1>13. ASSUME NEW c \in Calls, Start(c) PROVE Judged(d)' BY <1>13 DEF Start
<1>14. ASSUME NEW c \in Calls, StartFails(c) PROVE Judged(d)' BY <1>14 DEF StartFails
<1>15. ASSUME NEW c \in Calls, StartPanics(c) PROVE Judged(d)' BY <1>15 DEF StartPanics
<1>16. ASSUME NEW c \in Calls, Settle(c) PROVE Judged(d)' BY <1>16 DEF Settle
<1>17. ASSUME NEW c \in Calls, SettleAborted(c) PROVE Judged(d)' BY <1>17 DEF SettleAborted, Ended
<1>18. ASSUME NEW c \in Calls, WorkerCleanup(c) PROVE Judged(d)' BY <1>18 DEF WorkerCleanup, Ended
<1>19. ASSUME NEW c \in Calls, ProbeEnds(c) PROVE Judged(d)' BY <1>19 DEF ProbeEnds
<1>20. ASSUME NEW c \in Calls, Timer(c) PROVE Judged(d)' BY <1>20 DEF Timer, BringUpTimer, TestTimer
<1>21. ASSUME NEW c \in Calls, Cancel(c) PROVE Judged(d)' BY <1>21 DEF Cancel
<1>22. CASE UNCHANGED vars BY <1>22 DEF vars
<1> QED
  BY <1>1, <1>2, <1>3, <1>4, <1>5, <1>6, <1>7, <1>8, <1>9, <1>10, <1>11, <1>12, <1>13, <1>14,
     <1>15, <1>16, <1>17, <1>18, <1>19, <1>20, <1>21, <1>22 DEF Next, Handler, Worker

\* SideInv is inductive: from type correctness, who owns the instance, and what the answers
\* rest on.
THEOREM SideInvHolds == Spec => []SideInv
<1>1. Init => \A c \in Calls : Owned(c) /\ Judged(c)
  <2> SUFFICES ASSUME Init, NEW c \in Calls PROVE Owned(c) /\ Judged(c)
    OBVIOUS
  <2>1. /\ pc[c] = "idle" /\ worker[c] = "none" /\ prober[c] = "none" /\ sent[c] = None
        /\ found[c] = None /\ service[c] = "none" /\ test[c] = "none" /\ answer[c] = None
    BY DEF Init
  <2>2. Owned(c)
    BY <2>1, SideAssumption DEF Owned, BringUpErrors
  <2>3. Judged(c)
    BY <2>1, SideAssumption DEF Judged, Answers
  <2> QED BY <2>2, <2>3
<1>2. TypeOK /\ (\A c \in Calls : Owned(c) /\ Judged(c)) /\ [Next]_vars
        => (\A c \in Calls : Owned(c) /\ Judged(c))'
  BY OwnedStep, JudgedStep
<1> QED BY <1>1, <1>2, TypeCorrect, PTL DEF Spec, SideInv

\* The handler never works on an instance that somebody has closed.
THEOREM UsedIsOpen == Spec => []UsedInstanceIsOpen
<1>1. SideInv => UsedInstanceIsOpen
  BY DEF SideInv, Owned, UsedInstanceIsOpen
<1> QED BY <1>1, SideInvHolds, PTL

\* An answered call leaves no instance behind, unless its bring-up panicked or hangs.
THEOREM NothingIsLeft == Spec => []NothingLeftOver
<1>1. SideInv => NothingLeftOver
  BY DEF SideInv, TypeOK, Owned, NothingLeftOver, BringUpErrors
<1> QED BY <1>1, SideInvHolds, PTL

\* Red cross, delay, blank and rejected say what they claim.
THEOREM AnswersAreHonest == Spec => []AnswerIsHonest
<1>1. SideInv => AnswerIsHonest
  BY DEF SideInv, Judged, AnswerIsHonest
<1> QED BY <1>1, SideInvHolds, PTL
=============================================================================
