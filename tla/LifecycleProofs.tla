---------------------------- MODULE LifecycleProofs ----------------------------
(***************************************************************************)
(* Theorems about CoreLifecycle and about PauseWake, which composes it     *)
(* with sleep and wake, for every set of callers and of services.  Types   *)
(* and what the lock gives are proved with panics; what start and stop     *)
(* give, until something panics.  A behaviour of PauseWake is one of       *)
(* CoreLifecycle (PauseImplementsStart), so the theorems about start and   *)
(* stop hold beside Pause and Wake too.                                    *)
(***************************************************************************)
EXTENDS PauseWake, TLAPS

(***************************************************************************)
(* Start and stop                                                          *)
(***************************************************************************)
\* Every variable keeps its type (all of start.go, stop.go, custom.go).
THEOREM TypeCorrect == SafeSpec => []TypeOK
<1> USE NoneAssumption, FlagAssumption
<1>1. Init => TypeOK
  BY DEF Init, TypeOK, CoreStates, SvcStates, Labels
<1>2. TypeOK /\ [Next]_vars => TypeOK'
  <2> SUFFICES ASSUME TypeOK, [Next]_vars PROVE TypeOK'
    OBVIOUS
  <2> USE DEF TypeOK, CoreStates, SvcStates, Labels, StartLabels, StopLabels, AlertLabels,
              At, Goto, Hold, Run, shared
  <2>1. ASSUME NEW p \in Caller, StartCall(p) PROVE TypeOK'
    BY <2>1 DEF StartCall
  <2>2. ASSUME NEW p \in Caller, StopCall(p) PROVE TypeOK'
    BY <2>2 DEF StopCall
  <2>3. ASSUME NEW p \in Caller, Step(p) PROVE TypeOK'
    <3>1. CASE StartRejected(p) \/ StartAccepted(p) \/ StartBuild(p)
      BY <3>1 DEF StartRejected, StartAccepted, StartBuild
    <3>2. CASE StartRegister(p)
      BY <3>2 DEF StartRegister
    <3>3. CASE StartNewOk(p) \/ StartNewFails(p) \/ StartInstall(p)
      BY <3>3 DEF StartNewOk, StartNewFails, StartInstall
    <3>4. CASE StartWatch(p) \/ StartPublish(p)
      BY <3>4 DEF StartWatch, StartPublish
    <3>5. CASE StopAbort(p) \/ StopAcquire(p) \/ StopWatch(p) \/ StopRead(p)
      BY <3>5 DEF StopAbort, StopAcquire, StopWatch, StopRead
    <3>6. CASE StopClose(p) \/ StopForget(p) \/ StopPublish(p)
      BY <3>6 DEF StopClose, StopForget, StopPublish
    <3>7. CASE Alert(p) \/ AlertRead(p) \/ AlertClose(p) \/ AlertForget(p) \/ AlertPublish(p)
      BY <3>7 DEF Alert, AlertRead, AlertClose, AlertForget, AlertPublish
    <3>8. CASE Return(p) \/ Panic(p)
      BY <3>8 DEF Return, Panic
    <3> QED BY <2>3, <3>1, <3>2, <3>3, <3>4, <3>5, <3>6, <3>7, <3>8 DEF Step
  <2>4. CASE UNCHANGED vars
    BY <2>4 DEF vars
  <2> QED BY <2>1, <2>2, <2>3, <2>4 DEF Next
<1> QED BY <1>1, <1>2, PTL DEF SafeSpec

\* The lock discipline of every step, a panic included.
LEMMA LockStep == TypeOK /\ LockInv /\ [Next]_vars => LockInv'
<1> USE NoneAssumption
<1> SUFFICES ASSUME TypeOK, LockInv, [Next]_vars PROVE LockInv'
  OBVIOUS
<1> USE DEF TypeOK, LockInv, Labels, StartLabels, StopLabels, AlertLabels,
            At, Goto, Hold, Run, shared
<1>1. ASSUME NEW p \in Caller, StartCall(p) \/ StopCall(p) PROVE LockInv'
  BY <1>1 DEF StartCall, StopCall
<1>2. ASSUME NEW p \in Caller, Step(p) PROVE LockInv'
  <2>1. CASE StartRejected(p) \/ StartAccepted(p) \/ StartBuild(p)
    BY <2>1 DEF StartRejected, StartAccepted, StartBuild
  <2>2. CASE StartRegister(p)
    BY <2>2 DEF StartRegister
  <2>3. CASE StartNewOk(p) \/ StartNewFails(p) \/ StartInstall(p)
    BY <2>3 DEF StartNewOk, StartNewFails, StartInstall
  <2>4. CASE StartWatch(p) \/ StartPublish(p)
    BY <2>4 DEF StartWatch, StartPublish
  <2>5. CASE StopAbort(p) \/ StopAcquire(p) \/ StopWatch(p) \/ StopRead(p)
    BY <2>5 DEF StopAbort, StopAcquire, StopWatch, StopRead
  <2>6. CASE StopClose(p) \/ StopForget(p) \/ StopPublish(p)
    BY <2>6 DEF StopClose, StopForget, StopPublish
  <2>7. CASE Alert(p) \/ AlertRead(p) \/ AlertClose(p) \/ AlertForget(p) \/ AlertPublish(p)
    BY <2>7 DEF Alert, AlertRead, AlertClose, AlertForget, AlertPublish
  <2>8. CASE Return(p)
    BY <2>8 DEF Return
  <2>9. CASE Panic(p)
    BY <2>9 DEF Panic
  <2> QED BY <1>2, <2>1, <2>2, <2>3, <2>4, <2>5, <2>6, <2>7, <2>8, <2>9 DEF Step
<1>3. CASE UNCHANGED vars
  BY <1>3 DEF vars
<1> QED BY <1>1, <1>2, <1>3 DEF Next

\* The label each caller is at agrees with who holds static.lock, panics included.
THEOREM LockInvHolds == SafeSpec => []LockInv
<1>1. Init => LockInv
  BY NoneAssumption DEF Init, LockInv, StartLabels, StopLabels
<1> QED BY <1>1, LockStep, TypeCorrect, PTL DEF SafeSpec

\* StartService and Stop exclude each other between Lock and Unlock, panics included.
THEOREM LockExcludes == SafeSpec => []MutualExclusion
<1>1. LockInv => MutualExclusion
  BY DEF LockInv, MutualExclusion
<1> QED BY <1>1, LockInvHolds, PTL

\* startCancel is nil unless a start is in flight, and always nil when setStartCancel stores
\* a new one, panics included.
THEOREM CancelDiscipline == SafeSpec => []CancelOnlyWhileStarting
<1>1. TypeOK /\ LockInv => CancelOnlyWhileStarting
  BY NoneAssumption DEF TypeOK, LockInv, CancelOnlyWhileStarting, At, StartLabels
<1> QED BY <1>1, LockInvHolds, TypeCorrect, PTL

-----------------------------------------------------------------------------
\* What has panicked stays so, and a step that leaves panicked FALSE is not a panic.
LEMMA PanicStep ==
  ASSUME TypeOK, [Next]_vars, ~panicked'
  PROVE  ~panicked /\ \A p \in Caller : ~Panic(p)
<1>1. ASSUME NEW p \in Caller, StartCall(p) \/ StopCall(p) \/ Step(p)
      PROVE  Panic(p) \/ panicked' = panicked
  BY <1>1 DEF shared, StartCall, StopCall, Step, StartRejected, StartAccepted, StartBuild, StartRegister,
     StartNewOk, StartNewFails, StartInstall, StartWatch, StartPublish, StopAbort, StopAcquire,
     StopWatch, StopRead, StopClose, StopForget, StopPublish, Alert, AlertRead, AlertClose,
     AlertForget, AlertPublish, Return
<1>2. \A p \in Caller : Panic(p) => panicked'
  BY DEF Panic
<1>3. UNCHANGED vars => panicked' = panicked
  BY DEF vars, shared
<1>4. ~panicked
  BY <1>1, <1>2, <1>3 DEF Next
<1> QED BY <1>2, <1>4

\* Every step of a core that does not panic keeps what ServiceInv says of the label it
\* leaves and the label it reaches.
LEMMA ServiceStep ==
  ASSUME TypeOK, LockInv, LockInv', SoundInv, [Next]_vars
  PROVE  SoundInv'
<1> SUFFICES ASSUME ~panicked' PROVE ServiceInv'
  BY DEF SoundInv
<1>0. ServiceInv /\ \A p \in Caller : ~Panic(p)
  BY PanicStep DEF SoundInv
<1> USE NoneAssumption, <1>0
<1> USE DEF TypeOK, LockInv, ServiceInv, AtLabel, Settled, On, Off, NothingLeaked, SvcStates,
            Labels, StartLabels, StopLabels, AlertLabels, At, Goto, Hold, Run, shared
<1>1. ASSUME NEW p \in Caller, StartCall(p) \/ StopCall(p) PROVE ServiceInv'
  BY <1>1 DEF StartCall, StopCall
<1>2. ASSUME NEW p \in Caller, Step(p) PROVE ServiceInv'
  <2>1. CASE StartRejected(p)
    BY <2>1 DEF StartRejected
  <2>2. CASE StartAccepted(p)
    BY <2>2 DEF StartAccepted
  <2>3. CASE StartBuild(p)
    BY <2>3 DEF StartBuild
  <2>4. CASE StartRegister(p)
    BY <2>4 DEF StartRegister, Unreferenced
  <2>5. CASE StartNewOk(p)
    BY <2>5 DEF StartNewOk
  <2>6. CASE StartNewFails(p)
    BY <2>6 DEF StartNewFails
  <2>7. CASE StartInstall(p)
    BY <2>7 DEF StartInstall
  <2>8. CASE StartWatch(p)
    BY <2>8 DEF StartWatch
  <2>9. CASE StartPublish(p)
    BY <2>9 DEF StartPublish
  <2>10. CASE StopAbort(p)
    BY <2>10 DEF StopAbort
  <2>11. CASE StopAcquire(p)
    BY <2>11 DEF StopAcquire
  <2>12. CASE StopWatch(p)
    BY <2>12 DEF StopWatch
  <2>13. CASE StopRead(p)
    BY <2>13 DEF StopRead
  <2>14. CASE StopClose(p)
    BY <2>14 DEF StopClose
  <2>15. CASE StopForget(p)
    BY <2>15 DEF StopForget
  <2>16. CASE StopPublish(p)
    BY <2>16 DEF StopPublish
  <2>17. CASE Alert(p)
    BY <2>17 DEF Alert
  <2>18. CASE AlertRead(p)
    BY <2>18 DEF AlertRead
  <2>19. CASE AlertClose(p)
    BY <2>19 DEF AlertClose
  <2>20. CASE AlertForget(p)
    BY <2>20 DEF AlertForget
  <2>21. CASE AlertPublish(p)
    BY <2>21 DEF AlertPublish
  <2>22. CASE Return(p)
    BY <2>22 DEF Return
  <2>23. CASE Panic(p)
    BY <2>23
  <2> QED BY <1>2, <2>1, <2>2, <2>3, <2>4, <2>5, <2>6, <2>7, <2>8, <2>9, <2>10, <2>11, <2>12, <2>13, <2>14, <2>15, <2>16, <2>17, <2>18, <2>19, <2>20, <2>21, <2>22, <2>23 DEF Step
<1>3. CASE UNCHANGED vars
  BY <1>3 DEF vars
<1> QED BY <1>1, <1>2, <1>3 DEF Next

\* Until something panics, service, status and watchers are what ServiceInv says at every
\* label.
THEOREM ServiceInvHolds == SafeSpec => []SoundInv
<1>1. Init => SoundInv
  BY NoneAssumption DEF Init, SoundInv, ServiceInv, AtLabel, Settled, On, Off, NothingLeaked, At,
     StartLabels, StopLabels, AlertLabels
<1>2. TypeOK /\ LockInv /\ LockInv' /\ SoundInv /\ [Next]_vars => SoundInv'
  BY ServiceStep
<1> QED BY <1>1, <1>2, TypeCorrect, LockInvHolds, PTL DEF SafeSpec

\* Whatever path the last operation took: STARTED exactly when there is a service.
THEOREM StatusMatches == SafeSpec => []StatusMatchesService
<1>1. SoundInv => StatusMatchesService
  BY DEF SoundInv, ServiceInv, Settled, On, Off, StatusMatchesService
<1> QED BY <1>1, ServiceInvHolds, PTL

\* No running service is ever out of reach of the next Stop.
THEOREM NothingLeaks == SafeSpec => []NoServiceLeaked
<1>1. SoundInv => NoServiceLeaked
  BY DEF SoundInv, ServiceInv, NoServiceLeaked
<1> QED BY <1>1, ServiceInvHolds, PTL

\* The watcher and the sampler never outlive their service.
THEOREM WatchersMatch == SafeSpec => []WatchersMatchService
<1>1. TypeOK /\ LockInv /\ SoundInv => WatchersMatchService
  BY NoneAssumption DEF TypeOK, LockInv, SoundInv, ServiceInv, AtLabel, Settled, On, Off,
     WatchersMatchService, StopLabels, StartLabels, AlertLabels, Labels
<1> QED BY <1>1, ServiceInvHolds, LockInvHolds, TypeCorrect, PTL

\* A running service whose context an abort cancelled too late is about to be stopped.
THEOREM LateAbortIsFollowedByStop == SafeSpec => []CancelledServiceIsStopping
<1>1. SoundInv => CancelledServiceIsStopping
  BY DEF SoundInv, ServiceInv, CancelledServiceIsStopping
<1> QED BY <1>1, ServiceInvHolds, PTL

-----------------------------------------------------------------------------
\* A core whose calls do not panic never has.
LEMMA NeverPanics ==
  ASSUME ~MayPanic
  PROVE  SafeSpec => []~panicked
<1>1. Init => ~panicked
  BY DEF Init
<1>2. ~panicked /\ [Next]_vars => ~panicked'
  <2> SUFFICES ASSUME ~panicked, [Next]_vars PROVE ~panicked'
    OBVIOUS
  <2>1. ASSUME NEW p \in Caller, StartCall(p) \/ StopCall(p) \/ Step(p)
        PROVE  panicked' = panicked
    BY <2>1 DEF shared, Panic, StartCall, StopCall, Step, StartRejected, StartAccepted, StartBuild, StartRegister,
     StartNewOk, StartNewFails, StartInstall, StartWatch, StartPublish, StopAbort, StopAcquire,
     StopWatch, StopRead, StopClose, StopForget, StopPublish, Alert, AlertRead, AlertClose,
     AlertForget, AlertPublish, Return
  <2> QED BY <2>1 DEF Next, vars, shared
<1> QED BY <1>1, <1>2, PTL DEF SafeSpec

\* The engines that run change only when a service starts or is closed, and there is never
\* a second one.
LEMMA EngineFacts ==
  ASSUME TypeOK, LockInv, ServiceInv
  PROVE  /\ \A p \in Caller : pc[p] \in {"startBuild", "startRegister", "startNew", "alert", "stopPublish"} =>
              \A b \in Box : svc[b] # "live"
         /\ lock = None \/ (\E p \in Caller : pc[p] \in StopLabels) =>
              \A b \in Box : svc[b] = "live" => b = StartedService
<1> USE NoneAssumption DEF TypeOK, LockInv, ServiceInv, AtLabel, Settled, On, Off, NothingLeaked,
        At, StartLabels, StopLabels, AlertLabels, Labels
<1>1. ASSUME NEW p \in Caller, NEW b \in Box, svc[b] = "live",
             pc[p] \in {"startBuild", "startRegister", "startNew", "alert", "stopPublish"}
      PROVE FALSE
  BY <1>1
<1>2. ASSUME lock = None, NEW b \in Box, svc[b] = "live" PROVE b = StartedService
  BY <1>2
<1>3. ASSUME NEW p \in Caller, pc[p] \in StopLabels, NEW b \in Box, svc[b] = "live"
      PROVE b = StartedService
  BY <1>3
<1> QED BY <1>1, <1>2, <1>3

\* Every step of CoreLifecycle is a step of CoreStatus or leaves its variables unchanged.
LEMMA StatusStep ==
  ASSUME ~MayPanic, TypeOK, LockInv, ServiceInv, [Next]_vars
  PROVE  [Status!Next]_(Status!vars)
<1> DEFINE Engines == {b \in Box : svc[b] = "live"}
<1> USE NoneAssumption
<1> USE DEF TypeOK, LockInv, ServiceInv, AtLabel, Settled, On, Off, SvcStates, CoreStates,
            Labels, StartLabels, StopLabels, AlertLabels, At, Goto, Hold, Run, shared,
            Status!vars, Status!Next, Status!Settle
<1>1. ASSUME NEW p \in Caller, StartCall(p) \/ StopCall(p) PROVE UNCHANGED Status!vars
  BY <1>1 DEF StartCall, StopCall
<1>2. ASSUME NEW p \in Caller, Step(p) PROVE [Status!Next]_(Status!vars)
  <2>1. CASE StartAccepted(p)
    BY <2>1 DEF StartAccepted, Status!BeginStart
  <2>2. CASE StartRegister(p)
    <3>1. PICK b \in Box : svc' = [svc EXCEPT ![b] = "building"]
      BY <2>2 DEF StartRegister
    <3>2. svc[b] # "live" /\ CoreState' = CoreState
      BY <2>2, EngineFacts DEF StartRegister
    <3>3. Engines' = Engines
      BY <3>1, <3>2
    <3> QED BY <3>2, <3>3
  <2>3. CASE StartNewOk(p)
    <3>1. Engines = {} /\ Engines' = {ref[p]} /\ ref[p] \in Box
      BY <2>3, EngineFacts DEF StartNewOk
    <3>2. CoreState = "STARTING" /\ CoreState' = CoreState
      BY <2>3 DEF StartNewOk
    <3> QED BY <3>1, <3>2 DEF Status!BringUp
  <2>4. CASE StartNewFails(p)
    <3>1. Engines' = Engines
      BY <2>4 DEF StartNewFails
    <3> QED BY <3>1, <2>4 DEF StartNewFails
  <2>5. CASE StartPublish(p)
    <3>1. StartedService \in Box /\ lock = p
      BY <2>5 DEF StartPublish
    <3>2. svc[StartedService] = "live"
      BY <2>5, <3>1 DEF StartPublish
    <3>3. Engines # {}
      BY <3>1, <3>2
    <3> QED BY <2>5, <3>3 DEF StartPublish, Status!Started
  <2>6. CASE StopAcquire(p)
    BY <2>6 DEF StopAcquire, Status!BeginStop
  <2>7. CASE StopRead(p)
    <3>1. CASE StartedService = None
      <4>1. Engines = {}
        BY <2>7, <3>1, EngineFacts DEF StopRead
      <4> QED BY <2>7, <3>1, <4>1 DEF StopRead, Status!Stopped
    <3>2. CASE StartedService # None
      BY <2>7, <3>2 DEF StopRead
    <3> QED BY <3>1, <3>2
  <2>8. CASE StopClose(p)
    <3>1. ref[p] = StartedService /\ ref[p] \in Box
      BY <2>8 DEF StopClose
    <3>2. svc[ref[p]] = "live"
      BY <2>8, <3>1 DEF StopClose
    <3>3. Engines = {ref[p]} /\ Engines' = {}
      BY <2>8, <3>1, <3>2, EngineFacts DEF StopClose
    <3> QED BY <2>8, <3>3 DEF StopClose, Status!TearDown
  <2>9. CASE StopPublish(p)
    <3>1. Engines = {}
      BY <2>9, EngineFacts DEF StopPublish
    <3> QED BY <2>9, <3>1 DEF StopPublish, Status!Stopped
  <2>10. CASE Alert(p)
    <3>1. Engines = {}
      BY <2>10, EngineFacts DEF Alert
    <3> QED BY <2>10, <3>1 DEF Alert, Status!Stopped, Status!StartFailed
  <2>11. CASE StartRejected(p) \/ StartBuild(p) \/ StartInstall(p) \/ StartWatch(p)
              \/ StopAbort(p) \/ StopWatch(p) \/ StopForget(p) \/ AlertRead(p) \/ AlertPublish(p)
              \/ Return(p)
    BY <2>11 DEF StartRejected, StartBuild, StartInstall, StartWatch, StopAbort, StopWatch,
       StopForget, AlertRead, AlertPublish, Return
  <2>12. CASE AlertClose(p) \/ AlertForget(p) \/ Panic(p)
    BY <2>12 DEF AlertClose, AlertForget, Panic
  <2> QED BY <1>2, <2>1, <2>2, <2>3, <2>4, <2>5, <2>6, <2>7, <2>8, <2>9, <2>10, <2>11, <2>12
          DEF Step
<1>3. CASE UNCHANGED vars
  BY <1>3 DEF vars
<1> QED BY <1>1, <1>2, <1>3 DEF Next

\* Start and stop implement the status automaton, whatever their callers interleave: the
\* core has at most one engine, up only while STARTING, down only while STOPPING.
THEOREM ImplementsStatus ==
  ASSUME ~MayPanic
  PROVE  SafeSpec => Status!SafeSpec
<1>1. Init => Status!Init
  BY DEF Init, Status!Init
<1>2. TypeOK /\ LockInv /\ ServiceInv /\ [Next]_vars => [Status!Next]_(Status!vars)
  BY StatusStep
<1>3. SafeSpec => []~panicked
  BY NeverPanics
<1>4. ~panicked /\ SoundInv => ServiceInv
  BY DEF SoundInv
<1> QED BY <1>1, <1>2, <1>3, <1>4, TypeCorrect, LockInvHolds, ServiceInvHolds, PTL
        DEF SafeSpec, Status!SafeSpec

-----------------------------------------------------------------------------
(***************************************************************************)
(* Sleep and wake                                                          *)
(***************************************************************************)
\* Pause, Wake and the timer leave start and stop alone.
THEOREM PauseImplementsStart == PauseSpec => SafeSpec
<1>1. PauseInit => Init
  BY DEF PauseInit
<1>2. [PauseNext]_allVars => [Next]_vars
  BY DEF PauseNext, LifecycleStep, PauseRead, PauseMark, TimerFires, WakeRead, WakeTake, WakeProbe,
     allVars
<1> QED BY <1>1, <1>2, PTL DEF PauseSpec, SafeSpec

\* The mark, the timer and the local variables of Pause hold boxes, and only boxes sleep.
THEOREM PauseTypeCorrect == PauseSpec => []PauseTypeOK
<1> USE NoneAssumption, FlagAssumption DEF PauseTypeOK
<1>1. PauseInit /\ TypeOK => PauseTypeOK
  BY DEF PauseInit
<1>2. PauseTypeOK /\ TypeOK' /\ [PauseNext]_allVars => PauseTypeOK'
  <2> SUFFICES ASSUME PauseTypeOK, TypeOK', [PauseNext]_allVars PROVE PauseTypeOK'
    OBVIOUS
  <2> USE DEF pauseVars, hostVars
  <2>1. CASE LifecycleStep
    BY <2>1 DEF LifecycleStep, ResetPauseState
  <2>2. CASE PauseRead
    BY <2>2 DEF PauseRead, Instance, TypeOK
  <2>3. CASE PauseMark
    BY <2>3 DEF PauseMark, PastReset
  <2>4. CASE TimerFires
    BY <2>4 DEF TimerFires
  <2>5. CASE WakeRead
    BY <2>5 DEF WakeRead
  <2>6. CASE WakeTake \/ WakeProbe
    BY <2>6 DEF WakeTake, WakeProbe
  <2>7. CASE UNCHANGED allVars
    BY <2>7 DEF allVars
  <2> QED BY <2>1, <2>2, <2>3, <2>4, <2>5, <2>6, <2>7 DEF PauseNext
<1> QED BY <1>1, <1>2, PauseImplementsStart, TypeCorrect, PTL DEF PauseSpec

-----------------------------------------------------------------------------
(***************************************************************************)
(* Which box sleeps, panics included                                       *)
(***************************************************************************)
\* The running box sleeps.
Napping == StartedService \in asleep /\ svc[StartedService] = "live"

\* The box of a start in flight is awake and is not the one a Pause would find.
Fresh ==
  \A p \in Caller : pc[p] \in {"startNew", "startInstall"} =>
    ref[p] \in Box /\ ref[p] \notin asleep /\ ref[p] # StartedService

\* From the DeviceWake of a Wake to the next Pause the running box is awake ...
Awake ==
  host \in {"wakeTake", "wakeProbe"} \/ (host = "idle" /\ lastCall = "wake") => ~Napping

\* ... and one that sleeps while Pause is about to make its mark is the one Pause read.
OwnPause == host = "pauseMark" /\ Napping => hostBox = StartedService

SleepInv == Fresh /\ Awake /\ OwnPause

\* Start and stop never make the running box one that sleeps.
LEMMA StartedAwake ==
  ASSUME PauseTypeOK, LockInv, Fresh, LifecycleStep
  PROVE  Fresh' /\ (Napping' => Napping /\ StartedService' = StartedService)
<1> USE NoneAssumption
<1> USE DEF LockInv, Fresh, Napping, Labels, StartLabels, StopLabels, AlertLabels, At, Goto,
            Hold, Run, shared
<1> DEFINE Kept == Fresh' /\ (Napping' => Napping /\ StartedService' = StartedService)
<1>0. asleep' \subseteq asleep /\ TypeOK /\ None \notin asleep
  BY DEF LifecycleStep, PauseTypeOK
<1>1. ASSUME NEW p \in Caller, StartCall(p) \/ StopCall(p) PROVE Kept
  BY <1>0, <1>1 DEF StartCall, StopCall, TypeOK
<1>2. ASSUME NEW p \in Caller, Step(p) PROVE Kept
  <2> USE DEF TypeOK
  <2>1. CASE StartRejected(p) \/ StartAccepted(p) \/ StartBuild(p)
    BY <1>0, <2>1 DEF StartRejected, StartAccepted, StartBuild
  <2>2. CASE StartRegister(p)
    <3>1. PICK b \in Box : /\ Unreferenced(b) /\ startCancel' = b
                           /\ svc' = [svc EXCEPT ![b] = "building"]
                           /\ ref' = [ref EXCEPT ![p] = b]
      BY <2>2 DEF StartRegister
    <3>2. b \notin asleep' /\ StartedService' = StartedService /\ b # StartedService
      BY <2>2, <3>1 DEF LifecycleStep, Unreferenced, StartRegister
    <3>3. pc' = [pc EXCEPT ![p] = "startNew"] /\ pc[p] = "startRegister"
      BY <2>2 DEF StartRegister
    <3>4. \A q \in Caller : q # p => pc[q] \notin {"startNew", "startInstall"}
      BY <3>3
    <3>5. Fresh'
      BY <1>0, <3>1, <3>2, <3>3, <3>4
    <3>6. Napping' => Napping
      BY <1>0, <3>1, <3>2
    <3> QED BY <3>2, <3>5, <3>6
  <2>3. CASE StartNewOk(p) \/ StartNewFails(p) \/ StartInstall(p)
    BY <1>0, <2>3 DEF StartNewOk, StartNewFails, StartInstall
  <2>4. CASE StartWatch(p) \/ StartPublish(p)
    BY <1>0, <2>4 DEF StartWatch, StartPublish
  <2>5. CASE StopAbort(p) \/ StopAcquire(p) \/ StopWatch(p) \/ StopRead(p)
    BY <1>0, <2>5 DEF StopAbort, StopAcquire, StopWatch, StopRead
  <2>6. CASE StopClose(p) \/ StopForget(p) \/ StopPublish(p)
    BY <1>0, <2>6 DEF StopClose, StopForget, StopPublish
  <2>7. CASE Alert(p) \/ AlertRead(p) \/ AlertClose(p)
    BY <1>0, <2>7 DEF Alert, AlertRead, AlertClose
  <2>8. CASE AlertForget(p) \/ AlertPublish(p)
    BY <1>0, <2>8 DEF AlertForget, AlertPublish
  <2>9. CASE Return(p) \/ Panic(p)
    BY <1>0, <2>9 DEF Return, Panic
  <2> QED BY <1>2, <2>1, <2>2, <2>3, <2>4, <2>5, <2>6, <2>7, <2>8, <2>9 DEF Step
<1> QED BY <1>1, <1>2 DEF LifecycleStep, Next

\* No step makes the running box sleep but the DevicePause of a Pause.
LEMMA SleepStep ==
  ASSUME PauseTypeOK, LockInv, SleepInv, [PauseNext]_allVars
  PROVE  SleepInv'
<1> USE NoneAssumption DEF SleepInv, Awake, OwnPause
<1>1. CASE LifecycleStep
  <2>1. Fresh' /\ (Napping' => Napping /\ StartedService' = StartedService)
    BY <1>1, StartedAwake
  <2> QED BY <1>1, <2>1 DEF LifecycleStep, hostVars
<1>2. CASE PauseRead
  <2>1. PICK b \in Box \cup {None} :
          /\ Instance(b) /\ hostBox' = b /\ asleep' = asleep \cup ({b} \ {None})
          /\ host' = IF b = None THEN "idle" ELSE "pauseMark"
          /\ lastCall' = IF b = None THEN "pause" ELSE lastCall
    BY <1>2 DEF PauseRead
  <2>2. UNCHANGED <<StartedService, svc, pc, ref>>
    BY <1>2 DEF PauseRead, vars, shared
  <2>3. b # None => b = StartedService
    BY <2>1 DEF Instance
  <2>4. Fresh'
    BY <2>1, <2>2, <2>3 DEF Fresh
  <2>5. b # None => OwnPause' /\ Awake'
    BY <2>1, <2>2, <2>3
  <2>6. b = None => OwnPause' /\ Awake'
    BY <2>1
  <2> QED BY <2>4, <2>5, <2>6
<1>3. CASE PauseMark
  BY <1>3 DEF PauseMark, Fresh, Napping, vars, shared
<1>4. CASE TimerFires
  BY <1>4 DEF TimerFires, Fresh, Napping, vars, shared, hostVars
<1>5. CASE WakeRead
  <2>1. PICK b \in Box \cup {None} : Instance(b) /\ asleep' = asleep \ {b}
    BY <1>5 DEF WakeRead
  <2>2. UNCHANGED <<StartedService, svc, pc, ref>> /\ host' = "wakeTake"
    BY <1>5 DEF WakeRead, vars, shared
  <2>3. ~Napping'
    BY <2>1, <2>2 DEF Instance, Napping, PauseTypeOK
  <2>4. Fresh'
    BY <2>1, <2>2 DEF Fresh
  <2> QED BY <2>2, <2>3, <2>4
<1>6. CASE WakeTake \/ WakeProbe
  BY <1>6 DEF WakeTake, WakeProbe, Fresh, Napping, vars, shared, pauseVars
<1>7. CASE UNCHANGED allVars
  BY <1>7 DEF allVars, Fresh, Napping, vars, shared, pauseVars, hostVars
<1> QED BY <1>1, <1>2, <1>3, <1>4, <1>5, <1>6, <1>7 DEF PauseNext

\* Which box sleeps is what SleepInv says, whatever starts, stops and panics meanwhile.
THEOREM SleepInvHolds == PauseSpec => []SleepInv
<1>1. PauseInit => SleepInv
  BY DEF PauseInit, Init, SleepInv, Fresh, Awake, OwnPause, Napping
<1> QED BY <1>1, SleepStep, PauseTypeCorrect, PauseImplementsStart, LockInvHolds, PTL DEF PauseSpec

\* After a Wake the running box is awake, on iOS too, whatever was restarted while the host
\* slept and whatever panicked.
THEOREM WakeWakes == PauseSpec => []WakeResumes
<1>1. SleepInv => WakeResumes
  BY DEF SleepInv, Awake, Napping, WakeResumes
<1> QED BY <1>1, SleepInvHolds, PTL

-----------------------------------------------------------------------------
(***************************************************************************)
(* The timer and the mark, until something panics                          *)
(***************************************************************************)
\* A running box that sleeps on iOS has its timer, is about to get it, or is being stopped.
TimerInv ==
  IsIos /\ Napping =>
    \/ wakeTimer = StartedService
    \/ host = "pauseMark"
    \/ \E p \in Caller : pc[p] \in StopLabels

\* A mark that was not made too late is the running box's, and the stop that would drop it
\* has not come to that yet.
MarkInv ==
  pausedAt # None /\ ~lateMark =>
    /\ pausedAt = StartedService /\ svc[pausedAt] = "live"
    /\ \A p \in Caller : pc[p] \notin StopLabels \ {"stopWatch"}

SoundPauseInv == ~panicked => TimerInv /\ MarkInv

\* A start or a stop drops the timer of a sleeping box only on the way to close it.
LEMMA TimerKept ==
  ASSUME PauseTypeOK, LockInv, SleepInv, ServiceInv, TimerInv, LifecycleStep, ~panicked'
  PROVE  TimerInv'
<1> SUFFICES ASSUME IsIos, Napping'
             PROVE  (wakeTimer = StartedService \/ host = "pauseMark"
                       \/ \E p \in Caller : pc[p] \in StopLabels)'
  BY DEF TimerInv
<1>1. TypeOK /\ Next /\ host' = host
  BY DEF PauseTypeOK, LifecycleStep, hostVars
<1>2. Napping /\ StartedService' = StartedService
  BY StartedAwake DEF SleepInv
<1>3. StartedService # None /\ svc'[StartedService] = "live"
  BY <1>2, NoneAssumption DEF Napping, PauseTypeOK
<1>4. \A p \in Caller : ~Panic(p)
  BY <1>1, PanicStep
<1>5. \A p \in Caller : pc[p] \notin AlertLabels \cup {"stopPublish"}
  BY <1>3 DEF ServiceInv, AtLabel
<1>6. ASSUME NEW p \in Caller, pc[p] \in StopLabels
      PROVE  pc'[p] \in StopLabels
  <2> USE DEF StopLabels, TypeOK, Labels, At, Goto
  <2>1. ASSUME NEW q \in Caller, q # p, StartCall(q) \/ StopCall(q) \/ Step(q)
        PROVE  pc'[p] = pc[p]
    BY <1>1, <1>4, <2>1 DEF StartCall, StopCall, Step, StartRejected, StartAccepted, StartBuild,
       StartRegister, StartNewOk, StartNewFails, StartInstall, StartWatch, StartPublish, StopAbort,
       StopAcquire, StopWatch, StopRead, StopClose, StopForget, StopPublish, Alert, AlertRead,
       AlertClose, AlertForget, AlertPublish, Return
  <2>2. ~(StartCall(p) \/ StopCall(p))
    BY <1>6 DEF StartCall, StopCall
  <2>3. ASSUME Step(p) PROVE StopWatch(p) \/ StopRead(p) \/ StopClose(p) \/ StopForget(p)
    BY <1>4, <1>5, <1>6, <2>3 DEF AlertLabels, Step, StartRejected, StartAccepted, StartBuild,
       StartRegister, StartNewOk, StartNewFails, StartInstall, StartWatch, StartPublish, StopAbort,
       StopAcquire, StopPublish, Alert, AlertRead, AlertClose, AlertForget, AlertPublish, Return
  <2>4. StopWatch(p) => pc'[p] = "stopRead"
    BY <1>1 DEF StopWatch
  <2>5. StopRead(p) => pc'[p] = "stopClose"
    BY <1>1, <1>3 DEF StopRead
  <2>6. ~StopClose(p)
    <3>1. StopClose(p) => ref[p] = StartedService /\ svc'[StartedService] = "closed"
      BY <1>1, <1>2, <1>3 DEF StopClose, ServiceInv, AtLabel
    <3> QED BY <1>3, <3>1
  <2>7. ~StopForget(p)
    BY <1>2, <1>3 DEF StopForget
  <2> QED BY <1>1, <1>6, <2>1, <2>2, <2>3, <2>4, <2>5, <2>6, <2>7 DEF Next
<1>7. ASSUME NEW p \in Caller, StopWatch(p) PROVE pc[p] \in StopLabels
  BY <1>7 DEF StopWatch, At, StopLabels
<1>8. \A p \in Caller : ~Alert(p)
  BY <1>5 DEF Alert, At, AlertLabels
<1>9. CASE \E p \in Caller : pc[p] \in StopLabels
  BY <1>6, <1>9
<1>10. CASE \A p \in Caller : pc[p] \notin StopLabels
  <2>1. wakeTimer' = wakeTimer
    BY <1>7, <1>8, <1>10 DEF LifecycleStep
  <2> QED BY <1>1, <1>2, <1>10, <2>1 DEF TimerInv
<1> QED BY <1>9, <1>10

\* A start or a stop leaves the mark to the box it was made for, or drops it.
LEMMA MarkKept ==
  ASSUME PauseTypeOK, LockInv, ServiceInv, MarkInv, LifecycleStep, ~panicked'
  PROVE  MarkInv'
<1> USE NoneAssumption
<1> SUFFICES ASSUME pausedAt' # None, ~lateMark'
             PROVE  /\ pausedAt' = StartedService' /\ svc'[pausedAt'] = "live"
                    /\ \A p \in Caller : pc'[p] \notin StopLabels \ {"stopWatch"}
  BY DEF MarkInv
<1>1. TypeOK /\ Next /\ ~ResetPauseState
  BY DEF PauseTypeOK, LifecycleStep, ResetPauseState
<1>2. pausedAt' = pausedAt /\ lateMark' = lateMark /\ \A p \in Caller : ~StopWatch(p) /\ ~Alert(p)
  BY <1>1 DEF LifecycleStep
<1>3. /\ pausedAt = StartedService /\ StartedService # None /\ svc[StartedService] = "live"
      /\ \A p \in Caller : pc[p] \notin StopLabels \ {"stopWatch"}
  BY <1>2 DEF MarkInv
<1>4. \A p \in Caller : ~Panic(p)
  BY <1>1, PanicStep
<1>5. \A p \in Caller : pc[p] \notin AlertLabels \cup {"startBuild", "startRegister", "startNew", "startInstall"}
  BY <1>3 DEF ServiceInv, AtLabel
<1> USE DEF StopLabels, AlertLabels, TypeOK, Labels, At, Goto, shared
<1>6. ASSUME NEW p \in Caller, StartCall(p) \/ StopCall(p) \/ Step(p)
      PROVE  /\ StartedService' = StartedService /\ svc' = svc
             /\ \A q \in Caller : pc'[q] \notin StopLabels \ {"stopWatch"}
  <2>1. CASE StartCall(p) \/ StopCall(p)
    BY <1>1, <1>3, <2>1 DEF StartCall, StopCall
  <2>2. CASE StartRejected(p) \/ StartAccepted(p) \/ StartWatch(p) \/ StartPublish(p)
    BY <1>1, <1>3, <2>2 DEF StartRejected, StartAccepted, StartWatch, StartPublish
  <2>3. CASE StopAbort(p) \/ StopAcquire(p) \/ Return(p)
    BY <1>1, <1>3, <2>3 DEF StopAbort, StopAcquire, Return
  <2>4. Step(p) => \/ StartRejected(p) \/ StartAccepted(p) \/ StartWatch(p) \/ StartPublish(p)
                   \/ StopAbort(p) \/ StopAcquire(p) \/ Return(p)
    BY <1>2, <1>3, <1>4, <1>5 DEF Step, StartBuild, StartRegister, StartNewOk, StartNewFails,
       StartInstall, StopRead, StopClose, StopForget, StopPublish, AlertRead, AlertClose,
       AlertForget, AlertPublish
  <2> QED BY <1>6, <2>1, <2>2, <2>3, <2>4
<1> QED BY <1>1, <1>2, <1>3, <1>6 DEF Next

\* Every step of start, stop, Pause, Wake and the timer keeps both.
LEMMA SoundPauseStep ==
  ASSUME PauseTypeOK, LockInv, SleepInv, SoundInv, SoundPauseInv, [PauseNext]_allVars
  PROVE  SoundPauseInv'
<1> SUFFICES ASSUME ~panicked' PROVE TimerInv' /\ MarkInv'
  BY DEF SoundPauseInv
<1>1. CASE LifecycleStep
  <2>1. ~panicked
    BY <1>1, PanicStep DEF LifecycleStep, PauseTypeOK
  <2> QED BY <1>1, <2>1, TimerKept, MarkKept DEF SoundInv, SoundPauseInv
<1>2. ASSUME UNCHANGED vars
      PROVE  ~panicked /\ UNCHANGED <<StartedService, svc, pc>>
  BY <1>2 DEF vars, shared
<1> USE DEF SoundPauseInv, TimerInv, MarkInv, Napping
<1>3. CASE PauseRead
  <2>1. PICK b \in Box \cup {None} :
          /\ asleep' = asleep \cup ({b} \ {None})
          /\ host' = IF b = None THEN "idle" ELSE "pauseMark"
    BY <1>3 DEF PauseRead
  <2>2. ~panicked /\ UNCHANGED <<StartedService, svc, pc, pausedAt, lateMark, wakeTimer>>
    BY <1>2, <1>3 DEF PauseRead
  <2>3. host = "idle"
    BY <1>3 DEF PauseRead
  <2>4. b # None => TimerInv'
    BY <2>1
  <2>5. b = None => TimerInv'
    BY <2>1, <2>2, <2>3
  <2> QED BY <2>2, <2>4, <2>5
<1>4. CASE PauseMark
  <2>1. ~panicked /\ UNCHANGED <<StartedService, svc, pc, asleep>>
    BY <1>2, <1>4 DEF PauseMark
  <2>2. TimerInv'
    BY <1>4, <2>1 DEF PauseMark, SleepInv, OwnPause
  <2>3. MarkInv'
    BY <1>4, <2>1 DEF PauseMark, PastReset, SoundInv, ServiceInv, StopLabels
  <2> QED BY <2>2, <2>3
<1>5. CASE TimerFires
  <2>1. ~panicked /\ UNCHANGED <<StartedService, svc, pc, pausedAt, lateMark, host>>
    BY <1>2, <1>5 DEF TimerFires, hostVars
  <2> QED BY <1>5, <2>1 DEF TimerFires
<1>6. CASE WakeRead
  <2>1. ~panicked /\ UNCHANGED <<StartedService, svc, pc, pausedAt, lateMark, wakeTimer>>
    BY <1>2, <1>6 DEF WakeRead
  <2>2. asleep' \subseteq asleep /\ host = "idle"
    BY <1>6 DEF WakeRead
  <2> QED BY <2>1, <2>2
<1>7. CASE WakeTake \/ WakeProbe
  <2>1. ~panicked /\ UNCHANGED <<StartedService, svc, pc, asleep, wakeTimer>> /\ host # "pauseMark"
    BY <1>2, <1>7 DEF WakeTake, WakeProbe, pauseVars
  <2>2. pausedAt' = None \/ UNCHANGED <<pausedAt, lateMark>>
    BY <1>7 DEF WakeTake, WakeProbe, pauseVars
  <2> QED BY <2>1, <2>2
<1>8. CASE UNCHANGED allVars
  BY <1>2, <1>8 DEF allVars, pauseVars, hostVars
<1> QED BY <1>1, <1>3, <1>4, <1>5, <1>6, <1>7, <1>8 DEF PauseNext

\* Until something panics, the timer and the mark are what TimerInv and MarkInv say.
THEOREM SoundPauseInvHolds == PauseSpec => []SoundPauseInv
<1>1. PauseInit => SoundPauseInv
  BY DEF PauseInit, Init, SoundPauseInv, TimerInv, MarkInv, Napping
<1> QED BY <1>1, SoundPauseStep, PauseTypeCorrect, PauseImplementsStart, LockInvHolds,
           SleepInvHolds, ServiceInvHolds, PTL DEF PauseSpec

\* Where nothing panics, no running box sleeps on iOS without a timer of its own to wake it,
\* the one of an earlier box never standing in for it.
THEOREM SleeperHasTimer ==
  ASSUME ~MayPanic
  PROVE  PauseSpec => []SleepingBoxHasItsTimer
<1>1. PauseTypeOK /\ SleepInv /\ SoundPauseInv /\ ~panicked => SleepingBoxHasItsTimer
  BY DEF SleepInv, SoundPauseInv, TimerInv, OwnPause, Napping, SleepingBoxHasItsTimer
<1> QED BY <1>1, NeverPanics, PauseImplementsStart, PauseTypeCorrect, SleepInvHolds,
           SoundPauseInvHolds, PTL

\* Where nothing panics, the mark is the running box's unless Pause made it too late.
THEOREM MarkIsOwn ==
  ASSUME ~MayPanic
  PROVE  PauseSpec => []MarkIsOfRunningBox
<1>1. SoundPauseInv /\ ~panicked => MarkIsOfRunningBox
  BY DEF SoundPauseInv, MarkInv, MarkIsOfRunningBox
<1> QED BY <1>1, NeverPanics, PauseImplementsStart, SoundPauseInvHolds, PTL
=============================================================================
