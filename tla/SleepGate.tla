------------------------------ MODULE SleepGate ------------------------------
(***************************************************************************)
(* The gate that decides, when the device wakes, whether long-lived        *)
(* connections are probed (v2/hcore/pause.go: frozenSinceParts,            *)
(* shouldProbeAfterSleep, maybeProbeAfterFrozenSleep).  On iOS the         *)
(* monotonic clock stands still while the SoC sleeps, so the time the      *)
(* process did not run is what the wall clock gained on it since Pause.    *)
(* One unit of time is a fraction of wakeProbeMinFrozen (2 minutes).       *)
(***************************************************************************)
EXTENDS Integers

CONSTANTS MinFrozen,    \* wakeProbeMinFrozen
          MaxTime,      \* bound of the clocks and of a sleep
          Forward,      \* amounts by which somebody sets the wall clock (NTP, the user)
          Back          \* ahead, and back

ASSUME SleepGateAssumption ==
  MinFrozen \in Nat \ {0} /\ MaxTime \in Nat /\ Forward \subseteq Nat /\ Back \subseteq Nat

VARIABLES wall, mono,   \* the two clocks
          mark,         \* static.pausedAt: what both clocks showed at Pause
          marked,       \* whether the mark is set
          slept,        \* for how long the process was really frozen since the mark
          stepped,      \* by how much the wall clock was set since the mark
          verdict,      \* what the last Wake did: "probe", or "skip"
          frozenFor,    \* the real freeze it decided on
          steppedBy     \* and by how much the wall clock had been set

decided == <<verdict, frozenFor, steppedBy>>
vars    == <<wall, mono, mark, marked, slept, stepped, decided>>

Init ==
  /\ wall = 0 /\ mono = 0
  /\ mark = [wall |-> 0, mono |-> 0] /\ marked = FALSE /\ slept = 0 /\ stepped = 0
  /\ verdict = "skip" /\ frozenFor = 0 /\ steppedBy = 0

AtLeastZero(d) == IF d < 0 THEN 0 ELSE d

\* Mutant: the length of the pause is taken for the freeze, as before 2026-09-07.
FrozenSince_PauseLength(m, nowWall, nowMono) == AtLeastZero(nowWall - m.wall)

FrozenSince(m, nowWall, nowMono) == AtLeastZero((nowWall - m.wall) - (nowMono - m.mono))

\* Mutant: strictly longer than the threshold.
ShouldProbe_Strict(frozen) == frozen > MinFrozen

ShouldProbe(frozen) == frozen >= MinFrozen

\* The process runs: both clocks go.
Awake ==
  /\ wall < MaxTime /\ mono < MaxTime
  /\ wall' = wall + 1 /\ mono' = mono + 1
  /\ UNCHANGED <<mark, marked, slept, stepped, decided>>

\* The SoC sleeps: only the wall clock goes.
Frozen ==
  /\ wall < MaxTime /\ slept < MaxTime
  /\ wall' = wall + 1
  /\ slept' = IF marked THEN slept + 1 ELSE slept
  /\ UNCHANGED <<mono, mark, marked, stepped, decided>>

SetClock ==
  /\ \E d \in Forward \cup {-b : b \in Back} :
       /\ wall + d \in 0..MaxTime
       /\ wall' = wall + d
       /\ stepped' = IF marked THEN stepped + d ELSE stepped
  /\ UNCHANGED <<mono, mark, marked, slept, decided>>

Pause ==
  /\ mark' = [wall |-> wall, mono |-> mono] /\ marked' = TRUE
  /\ slept' = 0 /\ stepped' = 0
  /\ UNCHANGED <<wall, mono, decided>>

\* Mutant: the mark is read, not taken.
Wake_KeepsMark ==
  /\ marked
  /\ verdict' = IF ShouldProbe(FrozenSince(mark, wall, mono)) THEN "probe" ELSE "skip"
  /\ frozenFor' = slept /\ steppedBy' = stepped
  /\ slept' = 0 /\ stepped' = 0
  /\ UNCHANGED <<wall, mono, mark, marked>>

\* The mark is taken; without one Wake decides nothing.
Wake ==
  /\ marked
  /\ marked' = FALSE /\ slept' = 0 /\ stepped' = 0
  /\ verdict' = IF ShouldProbe(FrozenSince(mark, wall, mono)) THEN "probe" ELSE "skip"
  /\ frozenFor' = slept /\ steppedBy' = stepped
  /\ UNCHANGED <<wall, mono, mark>>

Next == Awake \/ Frozen \/ SetClock \/ Pause \/ Wake

Spec == Init /\ [][Next]_vars

-----------------------------------------------------------------------------
TypeOK ==
  /\ wall \in Int /\ mono \in Int
  /\ mark \in [wall : Int, mono : Int] /\ marked \in BOOLEAN
  /\ slept \in Nat /\ stepped \in Int
  /\ verdict \in {"probe", "skip"} /\ frozenFor \in Nat /\ steppedBy \in Int

\* Unless somebody set the wall clock, a wake probes exactly when the process was frozen for
\* the threshold since the last Pause, however long the pause and however many pauses came
\* before (pause.go:136-168).
ProbesExactlyAfterFreeze ==
  steppedBy = 0 => (verdict = "probe" <=> frozenFor >= MinFrozen)

\* A clock that was set back on the whole never makes a probe without a freeze: the clamp at
\* pause.go:153-155 is enough for what pause.go:139-140 promises.
NoProbeWithoutFreeze ==
  steppedBy <= 0 => (verdict = "probe" => frozenFor >= MinFrozen)

\* The inductive invariant: what the wall clock gained on the monotonic one since the mark is
\* the time frozen and the amount it was set by, and that decides.
GateInv ==
  /\ marked => (wall - mark.wall) - (mono - mark.mono) = slept + stepped
  /\ verdict = "probe" <=> frozenFor + steppedBy >= MinFrozen
=============================================================================
