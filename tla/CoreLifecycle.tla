---------------------------- MODULE CoreLifecycle ----------------------------
(***************************************************************************)
(* Start and stop of the VPN core: StartService (v2/hcore/start.go), Stop  *)
(* (stop.go), errorWrapper and StopAndAlert (custom.go), the abort of a    *)
(* start in flight (static_data.go) and NewService (service.go), called    *)
(* by several threads at once (gRPC handlers, the mobile and desktop       *)
(* exports).                                                               *)
(*                                                                         *)
(* static.lock serialises the two operations, but three things run outside *)
(* it: Stop aborts a start in flight BEFORE it takes the lock, and the     *)
(* recover handlers of StartService and Stop, registered before the        *)
(* deferred Unlock, run AFTER it -- so errorWrapper and StopAndAlert of a  *)
(* call that panicked interleave with everything.  Each label of pc below  *)
(* is a point where another thread can run.                                *)
(***************************************************************************)
CONSTANTS Caller,     \* threads that call Start and Stop
          Box,        \* identities of daemon services, one per start attempt
          None,       \* Go's nil
          MayPanic,   \* whether the calls into sing-box and the config code may panic
          IsIos       \* C.IsIos: no mode watcher on iOS

ASSUME NoneAssumption == None \notin Caller \cup Box
ASSUME FlagAssumption == MayPanic \in BOOLEAN /\ IsIos \in BOOLEAN

VARIABLES lock,            \* static.lock: its holder or None
          CoreState,       \* static.CoreState
          StartedService,  \* static.StartedService
          startCancel,     \* static.startCancel: the attempt whose ctx it cancels
          cancelled,       \* attempts whose startCtx (hence box ctx) is cancelled
          svc,             \* the state of each daemon service
          watcher,         \* static.modeWatcherCancel: the box it is bound to
          sampler,         \* static.memSamplerCancel: the box it is bound to
          pc,              \* where each caller is
          op,              \* the operation it runs
          ref,             \* the service or cancel function its local variable holds
          panicked         \* history: whether a call has panicked

shared == <<lock, CoreState, StartedService, startCancel, cancelled, svc, watcher, sampler,
            panicked>>
vars   == <<shared, pc, op, ref>>

CoreStates == {"STOPPED", "STARTING", "STARTED", "STOPPING"}
SvcStates  == {"none", "building", "live", "closed"}

StartLabels == {"startBuild", "startRegister", "startNew", "startInstall", "startWatch",
                "startPublish"}
StopLabels  == {"stopWatch", "stopRead", "stopClose", "stopForget", "stopForgetErr", "stopPublish"}
AlertLabels == {"alert", "alertRead", "alertClose", "alertForget", "alertPublish"}
Labels      == StartLabels \cup StopLabels \cup AlertLabels
                 \cup {"idle", "startLock", "stopCancel", "stopLock", "return"}

Init ==
  /\ lock = None
  /\ CoreState = "STOPPED"
  /\ StartedService = None
  /\ startCancel = None
  /\ cancelled = {}
  /\ svc = [b \in Box |-> "none"]
  /\ watcher = None
  /\ sampler = None
  /\ pc = [p \in Caller |-> "idle"]
  /\ op = [p \in Caller |-> "none"]
  /\ ref = [p \in Caller |-> None]
  /\ panicked = FALSE

At(p, label)   == pc[p] = label
Goto(p, label) == pc' = [pc EXCEPT ![p] = label]
Hold(p, b)     == ref' = [ref EXCEPT ![p] = b]
Run(p, o)      == op' = [op EXCEPT ![p] = o]

\* Nothing refers to b any more: its identity can stand for a new attempt.  (That b is then
\* not running either is NoServiceLeaked.)
Unreferenced(b) ==
  /\ b \notin {StartedService, startCancel, watcher, sampler}
  /\ \A p \in Caller : ref[p] # b

-----------------------------------------------------------------------------
(***************************************************************************)
(* StartService                                                            *)
(***************************************************************************)
StartCall(p) ==
  /\ At(p, "idle")
  /\ Goto(p, "startLock") /\ Run(p, "start")
  /\ UNCHANGED <<shared, ref>>

\* The lock is taken and CoreState is not STOPPED: ALREADY_STARTED, the lock is released.
StartRejected(p) ==
  /\ At(p, "startLock") /\ lock = None
  /\ CoreState # "STOPPED"
  /\ Goto(p, "idle") /\ Run(p, "none")
  /\ UNCHANGED <<shared, ref>>
\* Mutant: the ALREADY_STARTED check is dropped.
StartAccepted_NoCheck(p) ==
  /\ At(p, "startLock") /\ lock = None
  /\ lock' = p
  /\ CoreState' = "STARTING"
  /\ Goto(p, "startBuild")
  /\ UNCHANGED <<panicked, StartedService, startCancel, cancelled, svc, watcher, sampler, op, ref>>

StartAccepted(p) ==
  /\ At(p, "startLock") /\ lock = None
  /\ CoreState = "STOPPED"
  /\ lock' = p
  /\ CoreState' = "STARTING"
  /\ Goto(p, "startBuild")
  /\ UNCHANGED <<panicked, StartedService, startCancel, cancelled, svc, watcher, sampler, op, ref>>

\* The last start request is loaded or the config is built, or one of them fails and
\* errorWrapper runs under the lock.
StartBuild(p) ==
  /\ At(p, "startBuild")
  /\ Goto(p, "startRegister") \/ Goto(p, "alert")
  /\ UNCHANGED <<shared, op, ref>>

\* startCtx is made and setStartCancel stores its cancel function; one that was left over
\* is called first.
StartRegister(p) ==
  /\ At(p, "startRegister")
  /\ \E b \in Box :
       /\ Unreferenced(b)
       /\ svc' = [svc EXCEPT ![b] = "building"]
       /\ startCancel' = b
       /\ cancelled' = (cancelled \ {b}) \cup ({startCancel} \ {None})
       /\ Hold(p, b)
  /\ Goto(p, "startNew")
  /\ UNCHANGED <<panicked, lock, CoreState, StartedService, watcher, sampler, op>>

\* NewService, which may block for long: it returns a running service ...
StartNewOk(p) ==
  /\ At(p, "startNew")
  /\ svc' = [svc EXCEPT ![ref[p]] = "live"]
  /\ Goto(p, "startInstall")
  /\ UNCHANGED <<panicked, lock, CoreState, StartedService, startCancel, cancelled, watcher, sampler, op, ref>>

\* ... or closes what it built and fails; errorWrapper runs under the lock.
StartNewFails(p) ==
  /\ At(p, "startNew")
  /\ svc' = [svc EXCEPT ![ref[p]] = "closed"]
  /\ Goto(p, "alert")
  /\ UNCHANGED <<panicked, lock, CoreState, StartedService, startCancel, cancelled, watcher, sampler, op, ref>>

StartInstall(p) ==
  /\ At(p, "startInstall")
  /\ StartedService' = ref[p]
  /\ Goto(p, "startWatch")
  /\ UNCHANGED <<panicked, lock, CoreState, startCancel, cancelled, svc, watcher, sampler, op, ref>>

\* static.Context() is read from StartedService again; startModeWatcher and startMemSampler
\* replace the watchers of an earlier box.
StartWatch(p) ==
  /\ At(p, "startWatch")
  /\ IF StartedService = None
       THEN UNCHANGED <<watcher, sampler>>
       ELSE /\ watcher' = IF IsIos THEN watcher ELSE StartedService
            /\ sampler' = StartedService
  /\ Goto(p, "startPublish")
  /\ UNCHANGED <<panicked, lock, CoreState, StartedService, startCancel, cancelled, svc, op, ref>>

StartPublish(p) ==
  /\ At(p, "startPublish")
  /\ CoreState' = "STARTED"
  /\ Goto(p, "return")
  /\ UNCHANGED <<panicked, lock, StartedService, startCancel, cancelled, svc, watcher, sampler, op, ref>>

-----------------------------------------------------------------------------
(***************************************************************************)
(* Stop                                                                    *)
(***************************************************************************)
\* abortStart, first half: the cancel function is read under startCancelMu ...
StopCall(p) ==
  /\ At(p, "idle")
  /\ Run(p, "stop") /\ Hold(p, startCancel)
  /\ Goto(p, "stopCancel")
  /\ UNCHANGED shared

\* Mutant: a Stop that aborted a start leaves the rest to that start.
StopAbort_Enough(p) ==
  /\ At(p, "stopCancel")
  /\ cancelled' = cancelled \cup ({ref[p]} \ {None})
  /\ Hold(p, None)
  /\ IF ref[p] = None THEN Goto(p, "stopLock") /\ UNCHANGED op ELSE Goto(p, "idle") /\ Run(p, "none")
  /\ UNCHANGED <<panicked, lock, CoreState, StartedService, startCancel, svc, watcher, sampler>>

\* ... and called outside it, possibly after the start it belongs to has finished.
StopAbort(p) ==
  /\ At(p, "stopCancel")
  /\ cancelled' = cancelled \cup ({ref[p]} \ {None})
  /\ Hold(p, None)
  /\ Goto(p, "stopLock")
  /\ UNCHANGED <<panicked, lock, CoreState, StartedService, startCancel, svc, watcher, sampler, op>>

StopAcquire(p) ==
  /\ At(p, "stopLock") /\ lock = None
  /\ lock' = p
  /\ CoreState' = "STOPPING"
  /\ Goto(p, "stopWatch")
  /\ UNCHANGED <<panicked, StartedService, startCancel, cancelled, svc, watcher, sampler, op, ref>>

\* Mutant: only the mode watcher is stopped.
StopWatch_WatcherOnly(p) ==
  /\ At(p, "stopWatch")
  /\ watcher' = None
  /\ Goto(p, "stopRead")
  /\ UNCHANGED <<panicked, lock, CoreState, StartedService, startCancel, cancelled, svc, sampler, op, ref>>

\* stopModeWatcher and stopMemSampler (resetPauseState is module PauseWake's).
StopWatch(p) ==
  /\ At(p, "stopWatch")
  /\ watcher' = None /\ sampler' = None
  /\ Goto(p, "stopRead")
  /\ UNCHANGED <<panicked, lock, CoreState, StartedService, startCancel, cancelled, svc, op, ref>>
\* Mutant: STOPPED is published before the service is closed.
StopRead_Early(p) ==
  /\ At(p, "stopRead")
  /\ CoreState' = "STOPPED"
  /\ IF StartedService = None
       THEN Goto(p, "return") /\ UNCHANGED ref
       ELSE Hold(p, StartedService) /\ Goto(p, "stopClose")
  /\ UNCHANGED <<panicked, lock, StartedService, startCancel, cancelled, svc, watcher, sampler, op>>

StopRead(p) ==
  /\ At(p, "stopRead")
  /\ IF StartedService = None
       THEN CoreState' = "STOPPED" /\ Goto(p, "return") /\ UNCHANGED ref
       ELSE Hold(p, StartedService) /\ Goto(p, "stopClose") /\ UNCHANGED CoreState
  /\ UNCHANGED <<panicked, lock, StartedService, startCancel, cancelled, svc, watcher, sampler, op>>

\* CloseService, then Close on both of its outcomes.
StopClose(p) ==
  /\ At(p, "stopClose")
  /\ svc' = [svc EXCEPT ![ref[p]] = "closed"]
  /\ Goto(p, "stopForget") \/ Goto(p, "stopForgetErr")
  /\ UNCHANGED <<panicked, lock, CoreState, StartedService, startCancel, cancelled, watcher, sampler, op, ref>>

\* Mutant: an error of CloseService is returned as it is, not through errorWrapper.
StopForget_PlainError(p) ==
  /\ pc[p] \in {"stopForget", "stopForgetErr"}
  /\ StartedService' = None
  /\ Goto(p, IF At(p, "stopForget") THEN "stopPublish" ELSE "return")
  /\ UNCHANGED <<panicked, lock, CoreState, startCancel, cancelled, svc, watcher, sampler, op, ref>>

\* StartedService = nil on both outcomes; an error goes to errorWrapper under the lock.
StopForget(p) ==
  /\ pc[p] \in {"stopForget", "stopForgetErr"}
  /\ StartedService' = None
  /\ Goto(p, IF At(p, "stopForget") THEN "stopPublish" ELSE "alert")
  /\ UNCHANGED <<panicked, lock, CoreState, startCancel, cancelled, svc, watcher, sampler, op, ref>>

StopPublish(p) ==
  /\ At(p, "stopPublish")
  /\ CoreState' = "STOPPED"
  /\ Goto(p, "return")
  /\ UNCHANGED <<panicked, lock, StartedService, startCancel, cancelled, svc, watcher, sampler, op, ref>>

-----------------------------------------------------------------------------
(***************************************************************************)
(* errorWrapper and the StopAndAlert it calls: under the lock on an error  *)
(* return, without it in a recover handler.                                *)
(***************************************************************************)
Alert(p) ==
  /\ At(p, "alert")
  /\ CoreState' = "STOPPED"
  /\ Goto(p, "alertRead")
  /\ UNCHANGED <<panicked, lock, StartedService, startCancel, cancelled, svc, watcher, sampler, op, ref>>

AlertRead(p) ==
  /\ At(p, "alertRead")
  /\ Hold(p, StartedService)
  /\ Goto(p, IF StartedService = None THEN "alertPublish" ELSE "alertClose")
  /\ UNCHANGED <<shared, op>>

AlertClose(p) ==
  /\ At(p, "alertClose")
  /\ svc' = [svc EXCEPT ![ref[p]] = "closed"]
  /\ Goto(p, "alertForget")
  /\ UNCHANGED <<panicked, lock, CoreState, StartedService, startCancel, cancelled, watcher, sampler, op, ref>>

AlertForget(p) ==
  /\ At(p, "alertForget")
  /\ StartedService' = None
  /\ Goto(p, "alertPublish")
  /\ UNCHANGED <<panicked, lock, CoreState, startCancel, cancelled, svc, watcher, sampler, op, ref>>

\* Mutant: StopAndAlert reports through errorWrapper, which calls it.
AlertPublish_Again(p) ==
  /\ At(p, "alertPublish")
  /\ CoreState' = "STOPPED"
  /\ Goto(p, "alert")
  /\ UNCHANGED <<panicked, lock, StartedService, startCancel, cancelled, svc, watcher, sampler, op, ref>>

AlertPublish(p) ==
  /\ At(p, "alertPublish")
  /\ CoreState' = "STOPPED"
  /\ Goto(p, "return")
  /\ UNCHANGED <<panicked, lock, StartedService, startCancel, cancelled, svc, watcher, sampler, op, ref>>

\* Mutant: a recover handler unlocks once more.
Return_UnlocksTwice(p) ==
  /\ At(p, "return")
  /\ lock' = None
  /\ startCancel' = IF lock = p /\ op[p] = "start" THEN None ELSE startCancel
  /\ Goto(p, "idle") /\ Run(p, "none") /\ Hold(p, None)
  /\ UNCHANGED <<panicked, CoreState, StartedService, cancelled, svc, watcher, sampler>>

\* The deferred calls: a start forgets its cancel function WITHOUT calling it, then
\* static.lock is released.  A recover handler has neither left to do.
Return(p) ==
  /\ At(p, "return")
  /\ lock' = IF lock = p THEN None ELSE lock
  /\ startCancel' = IF lock = p /\ op[p] = "start" THEN None ELSE startCancel
  /\ Goto(p, "idle") /\ Run(p, "none") /\ Hold(p, None)
  /\ UNCHANGED <<panicked, CoreState, StartedService, cancelled, svc, watcher, sampler>>

\* A panic in StartService or Stop: the deferred clearStartCancel (registered from startNew
\* on) and Unlock run before the recover handler, which was registered first.
Panic(p) ==
  /\ MayPanic
  /\ pc[p] \in {"startBuild", "startNew", "startWatch", "stopWatch", "stopClose"}
  /\ panicked' = TRUE
  /\ lock' = None
  /\ startCancel' = IF pc[p] \in {"startNew", "startWatch"} THEN None ELSE startCancel
  /\ Goto(p, "alert")
  /\ UNCHANGED <<CoreState, StartedService, cancelled, svc, watcher, sampler, op, ref>>

-----------------------------------------------------------------------------
Step(p) ==
  \/ StartRejected(p) \/ StartAccepted(p) \/ StartBuild(p) \/ StartRegister(p)
  \/ StartNewOk(p) \/ StartNewFails(p) \/ StartInstall(p) \/ StartWatch(p) \/ StartPublish(p)
  \/ StopAbort(p) \/ StopAcquire(p) \/ StopWatch(p) \/ StopRead(p) \/ StopClose(p)
  \/ StopForget(p) \/ StopPublish(p)
  \/ Alert(p) \/ AlertRead(p) \/ AlertClose(p) \/ AlertForget(p) \/ AlertPublish(p)
  \/ Return(p) \/ Panic(p)

Next == \E p \in Caller : StartCall(p) \/ StopCall(p) \/ Step(p)

SafeSpec == Init /\ [][Next]_vars

(***************************************************************************)
(* A goroutine that can run does (weak fairness of its steps; NewService   *)
(* and CloseService return, bounded by their own timeouts), and a waiter   *)
(* on static.lock is not overtaken for ever: a Go mutex hands itself to    *)
(* the longest waiter after 1ms of starvation (strong fairness of the      *)
(* steps that take it).  Nobody is forced to call Start or Stop.           *)
(***************************************************************************)
Spec ==
  /\ SafeSpec
  /\ \A p \in Caller : /\ WF_vars(Step(p))
                       /\ SF_vars(StartRejected(p) \/ StartAccepted(p))
                       /\ SF_vars(StopAcquire(p))

-----------------------------------------------------------------------------
TypeOK ==
  /\ lock \in Caller \cup {None}
  /\ CoreState \in CoreStates
  /\ StartedService \in Box \cup {None}
  /\ startCancel \in Box \cup {None}
  /\ cancelled \in SUBSET Box
  /\ svc \in [Box -> SvcStates]
  /\ watcher \in Box \cup {None}
  /\ sampler \in Box \cup {None}
  /\ pc \in [Caller -> Labels]
  /\ op \in [Caller -> {"none", "start", "stop"}]
  /\ ref \in [Caller -> Box \cup {None}]
  /\ panicked \in BOOLEAN

(***************************************************************************)
(* What the lock gives, panics included                                    *)
(***************************************************************************)
\* No two callers are between Lock and Unlock of StartService or Stop, though the recover
\* handlers unlock before they run (start.go:139-151, stop.go:21-34).
MutualExclusion ==
  \A p, q \in Caller :
    pc[p] \in StartLabels \cup StopLabels /\ pc[q] \in StartLabels \cup StopLabels => p = q

\* startCancel is set only while a start is in flight under the lock, so abortStart is a
\* no-op otherwise, and setStartCancel never meets a leftover (static_data.go:93-117).
CancelOnlyWhileStarting ==
  /\ startCancel # None => lock # None /\ op[lock] = "start"
  /\ \A p \in Caller : At(p, "startRegister") => startCancel = None

(***************************************************************************)
(* What start and stop give, unless something panics                       *)
(***************************************************************************)
\* Whenever no operation holds the lock, on whatever path the last one returned: STARTED
\* exactly when there is a service, and no transient state is left behind.
StatusMatchesService ==
  ~panicked /\ lock = None =>
    /\ CoreState \in {"STOPPED", "STARTED"}
    /\ CoreState = "STARTED" <=> StartedService # None

\* Every running service is the one in static.StartedService, where the next Stop finds
\* and closes it, or the one the start in flight is about to put there (stop.go:50-56).
NothingLeaked ==
  \A b \in Box : svc[b] = "live" =>
    \/ b = StartedService
    \/ \E p \in Caller : At(p, "startInstall") /\ ref[p] = b

\* ... and so it is as long as nothing panics.
NoServiceLeaked == ~panicked => NothingLeaked

\* The mode watcher and the memory sampler never outlive the service they are bound to
\* (stop.go:37-42), and an idle started core has both of the current service.
WatchersMatchService ==
  ~panicked =>
    /\ \A w \in {watcher, sampler} \ {None} : svc[w] = "live"
    /\ lock = None /\ CoreState = "STARTED" =>
         sampler = StartedService /\ (IsIos \/ watcher = StartedService)

\* abortStart may call the cancel function after the start has succeeded; a running service
\* with a dead context exists only as long as a Stop is on its way to close it.
CancelledServiceIsStopping ==
  \A b \in Box : ~panicked /\ svc[b] = "live" /\ b \in cancelled =>
    \E p \in Caller : op[p] = "stop" /\ pc[p] \in StopLabels \cup {"stopLock"}

(***************************************************************************)
(* Liveness                                                                *)
(***************************************************************************)
\* Every Start and every Stop returns, on every path, whatever else runs.
EveryCallReturns == \A p \in Caller : op[p] # "none" ~> op[p] = "none"

\* The core is never left in STARTING or STOPPING, and engines come and go as CoreStatus
\* says: one at a time, up only while STARTING, down only while STOPPING.
Status == INSTANCE CoreStatus WITH state <- CoreState,
                                   engines <- {b \in Box : svc[b] = "live"}
StatusSpec == Status!Spec

-----------------------------------------------------------------------------
(***************************************************************************)
(* The inductive invariants behind them.  LockInv holds with panics and    *)
(* gives the first group; ServiceInv, until something panics, says         *)
(* what StartedService, CoreState and the watchers are at each label.      *)
(***************************************************************************)
LockInv ==
  /\ \A p \in Caller :
       /\ pc[p] \in StartLabels \cup StopLabels => lock = p
       /\ pc[p] \in StartLabels \cup {"startLock"} => op[p] = "start"
       /\ pc[p] \in StopLabels \cup {"stopCancel", "stopLock"} => op[p] = "stop"
       /\ lock = p => pc[p] \in StartLabels \cup StopLabels \cup AlertLabels \cup {"return"}
       /\ lock = p /\ startCancel # None =>
            op[p] = "start" /\ pc[p] \notin {"startBuild", "startRegister"}
  /\ lock = None => startCancel = None

Off     == CoreState = "STOPPED" /\ StartedService = None
On      == /\ CoreState = "STARTED" /\ StartedService # None
           /\ sampler = StartedService /\ (IsIos \/ watcher = StartedService)
Settled == Off \/ On

AtLabel(p) ==
  /\ pc[p] \in StartLabels => CoreState = "STARTING"
  /\ pc[p] \in StopLabels => CoreState = "STOPPING"
  /\ pc[p] = "alert" => CoreState \in {"STARTING", "STOPPING"}
  /\ pc[p] \in {"startBuild", "startRegister", "startNew", "startInstall"} =>
       StartedService = None
  /\ pc[p] \in {"startNew", "startInstall"} => ref[p] # None
  /\ pc[p] = "startNew" => svc[ref[p]] = "building"
  /\ pc[p] = "startInstall" => svc[ref[p]] = "live"
  /\ pc[p] \in {"startWatch", "startPublish"} => StartedService # None
  /\ pc[p] = "startPublish" =>
       sampler = StartedService /\ (IsIos \/ watcher = StartedService)
  /\ pc[p] \in {"stopRead", "stopClose", "stopForget", "stopForgetErr"} =>
       watcher = None /\ sampler = None
  /\ pc[p] \in {"stopClose", "stopForget", "stopForgetErr"} =>
       StartedService # None /\ ref[p] = StartedService
  /\ pc[p] \in {"stopForget", "stopForgetErr"} => svc[ref[p]] = "closed"
  /\ pc[p] \in {"stopPublish"} \cup AlertLabels => StartedService = None
  /\ pc[p] \in {"alertRead", "alertPublish"} => CoreState = "STOPPED"
  /\ pc[p] \notin {"alertClose", "alertForget"}
  /\ pc[p] = "return" => Settled /\ (op[p] = "stop" => Off)
  /\ pc[p] \in AlertLabels \cup {"return"} => lock = p

ServiceInv ==
  /\ lock = None => Settled
  /\ \A p \in Caller : AtLabel(p)
  /\ {watcher, sampler} \subseteq {None, StartedService}
  /\ StartedService # None =>
       \/ svc[StartedService] = "live"
       \/ \E p \in Caller : pc[p] \in {"stopForget", "stopForgetErr"}
  /\ \A b \in Box : svc[b] = "building" => \E p \in Caller : At(p, "startNew") /\ ref[p] = b
  /\ NothingLeaked
  /\ \A b \in cancelled : svc[b] \in {"building", "live"} =>
       \E p \in Caller : op[p] = "stop" /\ pc[p] \in StopLabels \cup {"stopLock"}

SoundInv == ~panicked => ServiceInv
=============================================================================
