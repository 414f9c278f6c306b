----------------------------- MODULE SideInstance -----------------------------
(***************************************************************************)
(* The honest ping (v2/hcore/url_test_config.go) and the side instance it  *)
(* runs in (independent_instance.go).  The bring-up of a sing-box service  *)
(* cannot be cancelled, so runInstanceCore leaves it to a worker and waits *)
(* for the worker or for a deadline, and whichever of the two ends up with *)
(* the service closes it.  The probe's dial cannot be cancelled either     *)
(* (probe_helpers.go), and is left to a second goroutine.                  *)
(*                                                                         *)
(* The deadlines are actions that may happen at any time while their       *)
(* context is live: at once, too, as for a tiny or a negative TimeoutMs.   *)
(***************************************************************************)
CONSTANTS Calls,  \* UrlTestConfig calls
          Ports,  \* local ports
          None

\* Why a step failed; "config" would fail a real connection in the same way, "dns" is the
\* resolution of the probe's own host.
BringUpErrors == {"config", "transient", "panic"}
ProbeErrors == {"server", "dns", "probePanic"}

\* DelayMs; Error alone (a red cross); with BringUpFailed (blank); with ConfigRejected too.
Answers == {"delay", "dead", "blank", "rejected"}

ASSUME SideAssumption ==
  None \notin Ports \cup BringUpErrors \cup {"instance"} \cup ProbeErrors \cup Answers

VARIABLES pc,         \* the handler of each call
          worker,     \* its bring-up goroutine
          prober,     \* its probe goroutine
          sent,       \* what the worker offers: an instance or an error
          found,      \* what the probe goroutine put into its buffered channel
          service,    \* the daemon service of the side instance
          port,       \* the port sanitizeSideInstance chose
          bringUp,    \* bringUpCtx
          test,       \* testCtx
          cancelled,  \* the client has cancelled the call
          answer,     \* the response
          panicked    \* history: the bring-up panicked

handler == <<pc, answer>>
bringing == <<worker, sent, service, port, panicked>>
contexts == <<bringUp, test, cancelled>>
vars == <<pc, worker, prober, sent, found, service, port, bringUp, test, cancelled, answer,
          panicked>>

Init ==
  /\ pc = [c \in Calls |-> "idle"] /\ worker = [c \in Calls |-> "none"]
  /\ prober = [c \in Calls |-> "none"] /\ sent = [c \in Calls |-> None]
  /\ found = [c \in Calls |-> None] /\ service = [c \in Calls |-> "none"]
  /\ port = [c \in Calls |-> None] /\ bringUp = [c \in Calls |-> "none"]
  /\ test = [c \in Calls |-> "none"] /\ cancelled = [c \in Calls |-> FALSE]
  /\ answer = [c \in Calls |-> None] /\ panicked = [c \in Calls |-> FALSE]

Answer(c, a) == pc' = [pc EXCEPT ![c] = "done"] /\ answer' = [answer EXCEPT ![c] = a]
Goto(c, step) == pc' = [pc EXCEPT ![c] = step] /\ UNCHANGED answer

\* A context ends at its deadline or with the client's.
Ended(ctx, c) == ctx[c] = "ended" \/ cancelled[c]
Bound == {port[c] : c \in {d \in Calls : service[d] = "open"}}

-----------------------------------------------------------------------------
\* UrlTestConfig: an empty or unparsable configuration, or one without an exit, is rejected
\* before anything is started.
Reject(c) ==
  /\ pc[c] = "idle"
  /\ Answer(c, "rejected")
  /\ UNCHANGED <<prober, found, bringing, contexts>>

\* runInstanceCore starts the worker and the bring-up budget.
Call(c) ==
  /\ pc[c] = "idle"
  /\ Goto(c, "wait")
  /\ worker' = [worker EXCEPT ![c] = "port"]
  /\ bringUp' = [bringUp EXCEPT ![c] = "live"]
  /\ UNCHANGED <<prober, sent, found, service, port, test, cancelled, panicked>>

\* sanitizeSideInstance: the listener that found the port is closed again.
PickPort(c) ==
  /\ worker[c] = "port"
  /\ \E q \in Ports \ Bound : port' = [port EXCEPT ![c] = q]
  /\ worker' = [worker EXCEPT ![c] = "start"]
  /\ service' = [service EXCEPT ![c] = "created"]
  /\ UNCHANGED <<handler, prober, sent, found, contexts, panicked>>

\* StartOrReloadServiceOptions, which no context interrupts ...
Start(c) ==
  /\ worker[c] = "start" /\ port[c] \notin Bound
  /\ service' = [service EXCEPT ![c] = "open"]
  /\ worker' = [worker EXCEPT ![c] = "settle"]
  /\ UNCHANGED <<handler, prober, sent, found, port, contexts, panicked>>

\* ... fails, for one when the port is taken by now (the service's observers are closed) ...
StartFails(c) ==
  /\ worker[c] = "start"
  /\ \E e \in {"config", "transient"} :
       /\ port[c] \in Bound => e = "transient"
       /\ sent' = [sent EXCEPT ![c] = e]
  /\ service' = [service EXCEPT ![c] = "closed"]
  /\ worker' = [worker EXCEPT ![c] = "send"]
  /\ UNCHANGED <<handler, prober, found, port, contexts, panicked>>

\* ... or panics, which the worker turns into an error; what was created is not closed.
StartPanics(c) ==
  /\ worker[c] = "start"
  /\ sent' = [sent EXCEPT ![c] = "panic"]
  /\ panicked' = [panicked EXCEPT ![c] = TRUE]
  /\ worker' = [worker EXCEPT ![c] = "send"]
  /\ UNCHANGED <<handler, prober, found, service, port, contexts>>

\* The settle delay passes ...
Settle(c) ==
  /\ worker[c] = "settle"
  /\ sent' = [sent EXCEPT ![c] = "instance"]
  /\ worker' = [worker EXCEPT ![c] = "send"]
  /\ UNCHANGED <<handler, prober, found, service, port, contexts, panicked>>

\* ... unless the budget ends first.
SettleAborted(c) ==
  /\ worker[c] = "settle" /\ Ended(bringUp, c)
  /\ service' = [service EXCEPT ![c] = "closed"]
  /\ sent' = [sent EXCEPT ![c] = "transient"]
  /\ worker' = [worker EXCEPT ![c] = "send"]
  /\ UNCHANGED <<handler, prober, found, port, contexts, panicked>>

\* Mutant: every failed bring-up is the configuration's fault.
Classify_Any(e) == "rejected"

\* isDeterministicBringUpError decides between rejected and blank.
Classify(e) == IF e = "config" THEN "rejected" ELSE "blank"

\* Mutant: the worker does not end with the delivery.
Deliver_WorkerStays(c) ==
  /\ worker[c] = "send" /\ pc[c] = "wait"
  /\ bringUp' = [bringUp EXCEPT ![c] = "ended"]
  /\ IF sent[c] = "instance" THEN Goto(c, "lookup") ELSE Answer(c, Classify(sent[c]))
  /\ UNCHANGED <<worker, prober, sent, found, service, port, test, cancelled, panicked>>

\* The unbuffered channel: worker and handler meet, and the handler's return from
\* runInstanceCore cancels bringUpCtx.
Deliver(c) ==
  /\ worker[c] = "send" /\ pc[c] = "wait"
  /\ worker' = [worker EXCEPT ![c] = "ended"]
  /\ bringUp' = [bringUp EXCEPT ![c] = "ended"]
  /\ IF sent[c] = "instance" THEN Goto(c, "lookup") ELSE Answer(c, Classify(sent[c]))
  /\ UNCHANGED <<prober, sent, found, service, port, test, cancelled, panicked>>

\* Mutant: the worker leaves its result in a buffer.
WorkerCleanup_Buffered(c) ==
  /\ worker[c] = "send" /\ Ended(bringUp, c)
  /\ worker' = [worker EXCEPT ![c] = "ended"]
  /\ UNCHANGED <<handler, prober, sent, found, service, port, contexts, panicked>>

\* The handler gave up: the instance that came up late is the worker's to close.
WorkerCleanup(c) ==
  /\ worker[c] = "send" /\ Ended(bringUp, c)
  /\ worker' = [worker EXCEPT ![c] = "ended"]
  /\ service' = [service EXCEPT ![c] = IF sent[c] = "instance" THEN "closed" ELSE @]
  /\ UNCHANGED <<handler, prober, sent, found, port, contexts, panicked>>

\* The handler's side of the race: bring-up exceeded its budget.
GiveUp(c) ==
  /\ pc[c] = "wait" /\ Ended(bringUp, c)
  /\ Answer(c, "blank")
  /\ UNCHANGED <<prober, found, bringing, contexts>>

-----------------------------------------------------------------------------
\* The box of the instance and the outbound of the probe; the probe budget starts.
Lookup(c) ==
  /\ pc[c] = "lookup"
  /\ test' = [test EXCEPT ![c] = "live"]
  /\ Goto(c, "ready")
  /\ UNCHANGED <<prober, found, bringing, bringUp, cancelled>>

\* The box is not there (blank), or has no such tag (rejected): the deferred Close runs.
LookupFails(c) ==
  /\ pc[c] = "lookup"
  /\ \E a \in {"blank", "rejected"} : answer' = [answer EXCEPT ![c] = a]
  /\ pc' = [pc EXCEPT ![c] = "close"]
  /\ UNCHANGED <<prober, found, bringing, contexts>>

\* waitDetourReady ends when the endpoint is ready, at the first tick after a third of the
\* budget, or with the context; then the single attempt of splitProbeBudget starts, if the
\* context still lives ...
StartProbe(c) ==
  /\ pc[c] = "ready" /\ ~Ended(test, c)
  /\ prober' = [prober EXCEPT ![c] = "dialing"]
  /\ Goto(c, "probe")
  /\ UNCHANGED <<found, bringing, contexts>>

\* ... and if the budget, or the client, has ended in the wait, the loop breaks before its
\* first attempt and the answer is the error "zero delay" alone, a red cross.
NoAttempt(c) ==
  /\ pc[c] = "ready" /\ Ended(test, c)
  /\ answer' = [answer EXCEPT ![c] = "dead"]
  /\ pc' = [pc EXCEPT ![c] = "close"]
  /\ UNCHANGED <<prober, found, bringing, contexts>>

\* probeThroughDetour ends, whether or not anyone still waits for it: the channel holds one.
ProbeEnds(c) ==
  /\ prober[c] = "dialing"
  /\ \E r \in ProbeErrors \cup {"delay"} : found' = [found EXCEPT ![c] = r]
  /\ prober' = [prober EXCEPT ![c] = "ended"]
  /\ UNCHANGED <<handler, bringing, contexts>>

\* isProbeDNSFailure decides between blank and a red cross.  A panic of the probe goroutine is
\* recovered there and is an error like the others here: it does not reach the handler's own
\* RecoverPanicToError, which would have answered blank.
Verdict(r) == CASE r = "delay" -> "delay" [] r = "dns" -> "blank" [] OTHER -> "dead"

TakeResult(c) ==
  /\ pc[c] = "probe" /\ prober[c] = "ended"
  /\ answer' = [answer EXCEPT ![c] = Verdict(found[c])]
  /\ pc' = [pc EXCEPT ![c] = "close"]
  /\ UNCHANGED <<prober, found, bringing, contexts>>

\* Mutant: the handler waits for the dial.
BudgetGone_Waits(c) ==
  /\ pc[c] = "probe" /\ Ended(test, c) /\ prober[c] = "ended"
  /\ answer' = [answer EXCEPT ![c] = "dead"]
  /\ pc' = [pc EXCEPT ![c] = "close"]
  /\ UNCHANGED <<prober, found, bringing, contexts>>

\* probeThroughDetourGuarded abandons a dial that outlives its budget.
BudgetGone(c) ==
  /\ pc[c] = "probe" /\ Ended(test, c)
  /\ answer' = [answer EXCEPT ![c] = "dead"]
  /\ pc' = [pc EXCEPT ![c] = "close"]
  /\ UNCHANGED <<prober, found, bringing, contexts>>

\* The deferred Close (closeSideService: the box, then the observers).
Close(c) ==
  /\ pc[c] = "close"
  /\ service' = [service EXCEPT ![c] = "closed"]
  /\ Goto(c, "done")
  /\ UNCHANGED <<worker, prober, sent, found, port, contexts, panicked>>

-----------------------------------------------------------------------------
\* The deadlines, and the client that cancels.
BringUpTimer(c) ==
  /\ bringUp[c] = "live"
  /\ bringUp' = [bringUp EXCEPT ![c] = "ended"]
  /\ UNCHANGED <<handler, prober, found, bringing, test, cancelled>>

\* The ticks of waitDetourReady are 100 ms apart, so a short budget also ends in it.
TestTimer(c) ==
  /\ test[c] = "live"
  /\ test' = [test EXCEPT ![c] = "ended"]
  /\ UNCHANGED <<handler, prober, found, bringing, bringUp, cancelled>>

Cancel(c) ==
  /\ pc[c] \notin {"idle", "done"} /\ ~cancelled[c]
  /\ cancelled' = [cancelled EXCEPT ![c] = TRUE]
  /\ UNCHANGED <<handler, prober, found, bringing, bringUp, test>>

Handler(c) == Deliver(c) \/ GiveUp(c) \/ Lookup(c) \/ LookupFails(c) \/ StartProbe(c)
                \/ NoAttempt(c) \/ TakeResult(c) \/ BudgetGone(c) \/ Close(c)

Worker(c) == PickPort(c) \/ Start(c) \/ StartFails(c) \/ StartPanics(c) \/ Settle(c)
               \/ SettleAborted(c) \/ WorkerCleanup(c)

Timer(c) == BringUpTimer(c) \/ TestTimer(c)

Next == \E c \in Calls : Reject(c) \/ Call(c) \/ Handler(c) \/ Worker(c) \/ ProbeEnds(c)
                             \/ Timer(c) \/ Cancel(c)

\* The handler runs and its timers fire; a start or a dial may hang for ever.
Fairness == \A c \in Calls : WF_vars(Handler(c)) /\ WF_vars(Timer(c))

Spec == Init /\ [][Next]_vars /\ Fairness

-----------------------------------------------------------------------------
\* Every variable has its type, and a call has its answer when it is over.
TypeOK ==
  /\ pc \in [Calls -> {"idle", "wait", "lookup", "ready", "probe", "close", "done"}]
  /\ worker \in [Calls -> {"none", "port", "start", "settle", "send", "ended"}]
  /\ prober \in [Calls -> {"none", "dialing", "ended"}]
  /\ sent \in [Calls -> BringUpErrors \cup {"instance", None}]
  /\ found \in [Calls -> ProbeErrors \cup {"delay", None}]
  /\ service \in [Calls -> {"none", "created", "open", "closed"}]
  /\ port \in [Calls -> Ports \cup {None}]
  /\ bringUp \in [Calls -> {"none", "live", "ended"}]
  /\ test \in [Calls -> {"none", "live", "ended"}]
  /\ cancelled \in [Calls -> BOOLEAN] /\ panicked \in [Calls -> BOOLEAN]
  /\ answer \in [Calls -> Answers \cup {None}]
  /\ \A c \in Calls : pc[c] \in {"close", "done"} <=> answer[c] # None

\* The handler never works on an instance that somebody has closed: what is delivered is not
\* the worker's any more, whatever ends bringUpCtx afterwards.
UsedInstanceIsOpen ==
  \A c \in Calls : pc[c] \in {"lookup", "ready", "probe", "close"} => service[c] = "open"

\* "Exactly one of the two owners closes the instance": when the handler has answered and
\* the worker is gone, nothing of the side instance is left, unless the bring-up panicked;
\* and before that, an instance without a handler is in the worker's hands.
NothingLeftOver ==
  \A c \in Calls : pc[c] = "done" /\ ~panicked[c] =>
    \/ service[c] \in {"none", "closed"}
    \/ worker[c] \in {"start", "settle", "send"}

\* The probe was tried, and the server failed it or used up its budget.
Proven(c) == prober[c] # "none" /\ (found[c] = "server" \/ Ended(test, c))

\* The budget, or the client's patience, ended before the probe was tried.
Untried(c) == prober[c] = "none" /\ Ended(test, c)

\* The answers keep to their classes (url_test_config.go:20-27): a red cross is the verdict of
\* a probe through an instance that was up, and neither a failed bring-up nor, in time, the
\* DNS of the probe's own host gives one; a delay is the server's answer; rejected blames the
\* configuration; blank hides no failure of the server that the probe has reported.  The code
\* keeps this but for two crosses that no probe has proven, against url_test_config.go:20-24
\* and "x only ever means proven dead" (probe_helpers.go:206): one without an attempt
\* (Untried), and one for a panic of the probe, "never evidence the server is down" (:48-49).
AnswerIsHonest ==
  \A c \in Calls :
    /\ answer[c] = "dead" =>
         sent[c] = "instance" /\ (Proven(c) \/ Untried(c) \/ found[c] = "probePanic")
    /\ answer[c] = "delay" => found[c] = "delay"
    /\ answer[c] = "rejected" => worker[c] = "none" \/ sent[c] \in {"config", "instance"}
    /\ sent[c] \in {"transient", "panic"} => answer[c] \in {"blank", None}
    /\ answer[c] = "blank" => found[c] \in {"dns", None}

\* Every call is answered, also when the start of the side instance or the dial through the
\* server never returns.
EveryProbeAnswers == \A c \in Calls : pc[c] # "idle" ~> pc[c] = "done"
=============================================================================
