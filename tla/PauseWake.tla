------------------------------ MODULE PauseWake ------------------------------
(***************************************************************************)
(* Device sleep and wake (v2/hcore/pause.go) beside the start and stop of  *)
(* CoreLifecycle.  Pause and Wake come from one thread of the host (the    *)
(* iOS Network Extension queue, the Android service) and take no lock but  *)
(* pauseMu, so a Stop or a restart of the core runs between any two of     *)
(* their reads: the box they act on may no longer be the running one.      *)
(* resetPauseState, called by Stop and by StopAndAlert, is what ties the   *)
(* sleep mark and the auto-wake timer to the box that is stopped.          *)
(*                                                                         *)
(* pausedAt is the box that was put to sleep when the mark was made, not a *)
(* time: how long the process was frozen is a choice at Wake (module       *)
(* SleepGate has the clocks).                                              *)
(***************************************************************************)
EXTENDS CoreLifecycle

VARIABLES pausedAt,   \* static.pausedAt: None when zero, else the box put to sleep
          lateMark,   \* the mark was made for a box whose stop had already dropped its marks
          wakeTimer,  \* static.endPauseTimer, armed: the box whose manager its closure wakes
          asleep,     \* boxes whose pause manager is in DevicePause
          host,       \* where the host thread is: idle, or inside Pause or Wake
          hostBox,    \* the box the local variable of Pause holds
          lastCall    \* the last call the host completed

pauseVars == <<pausedAt, lateMark, wakeTimer, asleep>>
hostVars  == <<host, hostBox, lastCall>>
allVars   == <<vars, pauseVars, hostVars>>

PauseInit ==
  /\ Init
  /\ pausedAt = None /\ lateMark = FALSE /\ wakeTimer = None /\ asleep = {}
  /\ host = "idle" /\ hostBox = None /\ lastCall = "none"

-----------------------------------------------------------------------------
\* Mutant: the mark is left behind.
ResetPauseState_TimerOnly == wakeTimer' = None /\ UNCHANGED <<pausedAt, lateMark>>

\* resetPauseState: the mark is dropped, the timer stopped.
ResetPauseState == pausedAt' = None /\ lateMark' = FALSE /\ wakeTimer' = None

\* The box is not, or no longer, one whose stop will still call resetPauseState.
PastReset(b) ==
  \/ b # StartedService
  \/ \E p \in Caller : pc[p] \in StopLabels \ {"stopWatch"}

\* static.Instance(): the daemon's instance, which may be gone once the service is closed.
Instance(b) ==
  \/ b = StartedService
  \/ b = None /\ StartedService # None /\ svc[StartedService] = "closed"

\* Pause reads the running box and puts its manager to sleep ...
PauseRead ==
  /\ host = "idle"
  /\ \E b \in Box \cup {None} :
       /\ Instance(b)
       /\ hostBox' = b
       /\ asleep' = asleep \cup ({b} \ {None})
       /\ host' = IF b = None THEN "idle" ELSE "pauseMark"
       /\ lastCall' = IF b = None THEN "pause" ELSE lastCall
  /\ UNCHANGED <<vars, pausedAt, lateMark, wakeTimer>>

\* Mutant: a timer that exists is rewound instead of being made again.
PauseMark_ResetsTimer ==
  /\ host = "pauseMark"
  /\ pausedAt' = hostBox /\ lateMark' = PastReset(hostBox)
  /\ wakeTimer' = IF IsIos /\ wakeTimer = None THEN hostBox ELSE wakeTimer
  /\ host' = "idle" /\ hostBox' = None /\ lastCall' = "pause"
  /\ UNCHANGED <<vars, asleep>>

\* ... then, under pauseMu, marks the sleep and on iOS replaces the auto-wake timer by one
\* that wakes THIS box.
PauseMark ==
  /\ host = "pauseMark"
  /\ pausedAt' = hostBox /\ lateMark' = PastReset(hostBox)
  /\ wakeTimer' = IF IsIos THEN hostBox ELSE wakeTimer
  /\ host' = "idle" /\ hostBox' = None /\ lastCall' = "pause"
  /\ UNCHANGED <<vars, asleep>>

\* The timer fires: DeviceWake of the manager in its closure.
TimerFires ==
  /\ wakeTimer # None
  /\ asleep' = asleep \ {wakeTimer}
  /\ wakeTimer' = None
  /\ UNCHANGED <<vars, pausedAt, lateMark, hostVars>>

\* Mutant: the wake of iOS is left to the timer, as libbox does.
WakeRead_TimerOnIos ==
  /\ host = "idle"
  /\ \E b \in Box \cup {None} :
       /\ Instance(b)
       /\ asleep' = IF IsIos THEN asleep ELSE asleep \ {b}
  /\ host' = "wakeTake"
  /\ UNCHANGED <<vars, pausedAt, lateMark, wakeTimer, hostBox, lastCall>>

\* Wake reads the running box and wakes its manager ...
WakeRead ==
  /\ host = "idle"
  /\ \E b \in Box \cup {None} : Instance(b) /\ asleep' = asleep \ {b}
  /\ host' = "wakeTake"
  /\ UNCHANGED <<vars, pausedAt, lateMark, wakeTimer, hostBox, lastCall>>

\* ... takes the mark and clears it under pauseMu; without one, or when the process was not
\* frozen for long enough, nothing more happens ...
WakeTake ==
  /\ host = "wakeTake"
  /\ pausedAt' = None /\ lateMark' = FALSE
  /\ \/ pausedAt # None /\ host' = "wakeProbe" /\ UNCHANGED lastCall
     \/ host' = "idle" /\ lastCall' = "wake"
  /\ UNCHANGED <<vars, wakeTimer, asleep, hostBox>>

\* ... otherwise whatever box static.Box() returns by now is probed, by a goroutine.
WakeProbe ==
  /\ host = "wakeProbe"
  /\ host' = "idle" /\ lastCall' = "wake"
  /\ UNCHANGED <<vars, pauseVars, hostBox>>

-----------------------------------------------------------------------------
\* A step of start or stop: Stop and StopAndAlert call resetPauseState, a new box is awake
\* and nothing here refers to it yet.
LifecycleStep ==
  /\ Next
  /\ IF \E p \in Caller : StopWatch(p) \/ Alert(p)
       THEN ResetPauseState
       ELSE UNCHANGED <<pausedAt, lateMark, wakeTimer>>
  /\ IF \E p \in Caller : StartRegister(p)
       THEN /\ startCancel' \notin {pausedAt, wakeTimer, hostBox}
            /\ asleep' = asleep \ {startCancel'}
       ELSE UNCHANGED asleep
  /\ UNCHANGED hostVars

PauseNext == LifecycleStep \/ PauseRead \/ PauseMark \/ TimerFires \/ WakeRead \/ WakeTake \/ WakeProbe

PauseSpec == PauseInit /\ [][PauseNext]_allVars

-----------------------------------------------------------------------------
PauseTypeOK ==
  /\ TypeOK
  /\ {pausedAt, wakeTimer, hostBox} \subseteq Box \cup {None}
  /\ asleep \subseteq Box /\ lateMark \in BOOLEAN
  /\ host \in {"idle", "pauseMark", "wakeTake", "wakeProbe"}
  /\ lastCall \in {"none", "pause", "wake"}

\* A running box that sleeps on iOS has its own timer pending (or Pause is about to arm it):
\* the timer of an earlier box never stands in for it, or it would sleep until the next
\* wake, possibly all night (pause.go:83-92).
SleepingBoxHasItsTimer ==
  \A b \in asleep :
    IsIos /\ b = StartedService /\ svc[b] = "live" =>
      \/ wakeTimer = b
      \/ host = "pauseMark" /\ hostBox = b
      \/ \E p \in Caller : pc[p] \in StopLabels

\* After a Wake the running box is awake, whatever restarted while the host slept, and on
\* iOS too (pause.go:126-129).
WakeResumes ==
  lastCall = "wake" /\ host = "idle" =>
    \A b \in asleep : ~(b = StartedService /\ svc[b] = "live")

\* The mark belongs to the running box, unless Pause wrote it behind the back of the stop
\* that had just dropped it: resetPauseState is enough for every other order of Pause, Wake,
\* Stop and Start (pause.go:107-112, custom.go:17-18).
MarkIsOfRunningBox ==
  pausedAt # None /\ ~lateMark =>
    pausedAt = StartedService /\ svc[pausedAt] = "live"
=============================================================================
