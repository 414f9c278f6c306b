----------------------------- MODULE CoreStatus -----------------------------
(***************************************************************************)
(* What the core promises to an observer of its status (the app, through   *)
(* CoreInfoListener, and the next Start or Stop): CoreState walks          *)
(*                                                                         *)
(*    STOPPED -> STARTING -> STARTED            a start that succeeds      *)
(*    STARTING -> STOPPED                       a start that fails         *)
(*    STOPPED, STARTED -> STOPPING -> STOPPED   a stop                     *)
(*                                                                         *)
(* and a sing-box engine comes up only while STARTING, is torn down only   *)
(* while STOPPING, and is the only one.  Locks, callers, error paths and   *)
(* the tear-down of helpers belong to the implementation, CoreLifecycle.   *)
(***************************************************************************)
CONSTANT Box          \* identities of sing-box engines

VARIABLES state,      \* the CoreState an observer sees
          engines     \* the engines that run

vars == <<state, engines>>

Init == state = "STOPPED" /\ engines = {}

BeginStart  == state = "STOPPED"  /\ state' = "STARTING" /\ UNCHANGED engines
BringUp     == /\ state = "STARTING" /\ engines = {}
               /\ \E b \in Box : engines' = {b}
               /\ UNCHANGED state
Started     == state = "STARTING" /\ engines # {} /\ state' = "STARTED" /\ UNCHANGED engines
StartFailed == state = "STARTING" /\ engines = {} /\ state' = "STOPPED" /\ UNCHANGED engines
BeginStop   == state \in {"STOPPED", "STARTED"} /\ state' = "STOPPING" /\ UNCHANGED engines
TearDown    == state = "STOPPING" /\ engines # {} /\ engines' = {} /\ UNCHANGED state
Stopped     == state = "STOPPING" /\ engines = {} /\ state' = "STOPPED" /\ UNCHANGED engines

\* The steps that take the core out of a transient state.
Settle == BringUp \/ Started \/ StartFailed \/ TearDown \/ Stopped

Next == BeginStart \/ BeginStop \/ Settle

SafeSpec == Init /\ [][Next]_vars

\* A transient state never lasts: the core is stuck neither in STARTING nor in STOPPING.
Spec == SafeSpec /\ WF_vars(Settle)
=============================================================================
