--------------------------- MODULE SleepGateProofs ---------------------------
\* Theorems about SleepGate, for every threshold, any length of time and any setting of the
\* wall clock.
EXTENDS SleepGate, TLAPS

\* Every variable keeps its type.
THEOREM TypeCorrect == Spec => []TypeOK
<1> USE SleepGateAssumption
<1>1. Init => TypeOK
  <2> SUFFICES ASSUME Init PROVE TypeOK
    OBVIOUS
  <2>1. wall \in Int /\ mono \in Int /\ slept \in Nat /\ stepped \in Int
    BY DEF Init
  <2>2. frozenFor \in Nat /\ steppedBy \in Int /\ verdict \in {"probe", "skip"}
    BY DEF Init
  <2>3. mark \in [wall : Int, mono : Int]
    BY DEF Init
  <2>4. marked \in BOOLEAN
    BY DEF Init
  <2> QED BY <2>1, <2>2, <2>3, <2>4 DEF TypeOK
<1>2. TypeOK /\ [Next]_vars => TypeOK'
  <2> SUFFICES ASSUME TypeOK, [Next]_vars PROVE TypeOK'
    OBVIOUS
  <2>1. (wall \in Int /\ mono \in Int /\ slept \in Nat /\ stepped \in Int)'
    BY DEF TypeOK, Next, vars, decided, Awake, Frozen, SetClock, Pause, Wake
  <2>2. (frozenFor \in Nat /\ steppedBy \in Int /\ verdict \in {"probe", "skip"})'
    BY DEF TypeOK, Next, vars, decided, Awake, Frozen, SetClock, Pause, Wake
  <2>3. (mark \in [wall : Int, mono : Int])'
    BY DEF TypeOK, Next, vars, decided, Awake, Frozen, SetClock, Pause, Wake
  <2>4. (marked \in BOOLEAN)'
    BY DEF TypeOK, Next, vars, decided, Awake, Frozen, SetClock, Pause, Wake
  <2> QED BY <2>1, <2>2, <2>3, <2>4 DEF TypeOK
<1> QED BY <1>1, <1>2, PTL DEF Spec

\* What the clocks gained since the mark, and what that decided (pause.go:136-168).
THEOREM GateInvHolds == Spec => []GateInv
<1> USE SleepGateAssumption
<1>1. Init => GateInv
  BY DEF Init, GateInv
<1>2. TypeOK /\ GateInv /\ [Next]_vars => GateInv'
  <2> SUFFICES ASSUME TypeOK, GateInv, [Next]_vars PROVE GateInv'
    OBVIOUS
  <2> USE DEF GateInv, TypeOK, decided
  <2>1. CASE Awake
    BY <2>1 DEF Awake
  <2>2. CASE Frozen
    BY <2>2 DEF Frozen
  <2>3. CASE SetClock
    BY <2>3 DEF SetClock
  <2>4. CASE Pause
    BY <2>4 DEF Pause
  <2>5. CASE Wake
    <3>1. verdict' = IF FrozenSince(mark, wall, mono) >= MinFrozen THEN "probe" ELSE "skip"
      BY <2>5 DEF Wake, ShouldProbe
    <3>2. FrozenSince(mark, wall, mono) = IF slept + stepped < 0 THEN 0 ELSE slept + stepped
      BY <2>5 DEF Wake, FrozenSince, AtLeastZero
    <3>3. frozenFor' = slept /\ steppedBy' = stepped /\ ~marked'
      BY <2>5 DEF Wake
    <3> QED BY <3>1, <3>2, <3>3
  <2>6. CASE UNCHANGED vars
    BY <2>6 DEF vars
  <2> QED BY <2>1, <2>2, <2>3, <2>4, <2>5, <2>6 DEF Next
<1> QED BY <1>1, <1>2, TypeCorrect, PTL DEF Spec

\* A device whose clock nobody sets is probed exactly after a real freeze.
THEOREM GateIsExact == Spec => []ProbesExactlyAfterFreeze
<1>1. TypeOK /\ GateInv => ProbesExactlyAfterFreeze
  BY SleepGateAssumption DEF GateInv, TypeOK, ProbesExactlyAfterFreeze
<1> QED BY <1>1, GateInvHolds, TypeCorrect, PTL

\* A clock that is set back never makes a probe without a freeze.
THEOREM ClampIsEnough == Spec => []NoProbeWithoutFreeze
<1>1. TypeOK /\ GateInv => NoProbeWithoutFreeze
  BY SleepGateAssumption DEF GateInv, TypeOK, NoProbeWithoutFreeze
<1> QED BY <1>1, GateInvHolds, TypeCorrect, PTL
=============================================================================
