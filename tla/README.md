# TLA+ models of inhive-core

inhive-core is the Go library below the InHive client: it turns a server list or a subscription into a sing-box
configuration, runs one sing-box instance, and answers the app over gRPC. This directory holds TLA+ modules of the
parts whose correctness depends on the order of events, the TLC runs that check them on small instances, and the
proofs (TLAPS) that hold for every instance. Paths below are relative to `src/`.

- [1. The system](#1-the-system)
- [2. Modules](#2-modules)
- [3. Runs, bounds and what they show](#3-runs-bounds-and-what-they-show)
- [4. Fairness](#4-fairness)
- [5. What is proved](#5-what-is-proved)
- [6. Where the code differs from what is written about it](#6-where-the-code-differs-from-what-is-written-about-it)
- [7. What is not modelled](#7-what-is-not-modelled)
- [8. Plan](#8-plan)

## 1. The system

One process holds one *core*: the global `static` (`v2/hcore/static_data.go`). The callers are gRPC handlers, the
exports for desktop and mobile in `platform/`, and timers. Every handler runs on a goroutine of its own. sing-box
itself is a git submodule, which is an empty directory here: its parts are modelled from how the code uses them and
their entries in the map are external.

| Component | State it keeps | Operations | What makes it hard |
|---|---|---|---|
| Core lifecycle (`v2/hcore/start.go`, `stop.go`, `custom.go`, `static_data.go`) | `CoreState`, `StartedService`, `Box`, the lock, the cancel function of a start in progress | `StartService`, `Stop`, `abortStart`, `errorWrapper`, `StopAndAlert` | a stop cancels a start that holds the lock; a panic is recovered after the lock has been released |
| Last start (`start.go`, `v2/db/inhive_db.go`) | three database rows, the cached request, the profile name | load, build, save, replay | three writes without a transaction; errors of the database; a crash between two writes; ping-only starts |
| Device sleep (`pause.go`) | `pausedAt`, the iOS auto-wake timer | `Pause`, `Wake`, `resetPauseState` | not under the lifecycle lock; two clocks that differ while the device is frozen |
| Hot add and remove (`commands.go`) | the managers of sing-box: outbounds, endpoints, members of selectors, helpers | `AddOutbound`, `RemoveOutbound`, `SelectOutbound` | several managers without one lock; roll-back of a failed step; helpers shared by servers |
| Side instances (`independent_instance.go`, `url_test_config.go`, `probe_helpers.go`) | one throw-away instance of a ping | `UrlTestConfig` | a start that cannot be interrupted beside a deadline: two goroutines, one owner |
| Settings (`buildconfighelper.go`, `log_level.go`) | current options, persistent log level, the database row | `ChangeInhiveSettings`, the load in `Setup` | changes are merged and stored under one mutex, the row is read under another; zero values are not stored |
| gRPC servers (`grpc_server.go`, `setup.go`) | map of servers by mode, their listeners | `Setup`, `Close`, `StartGrpcServerByMode` | the map entry precedes the listen that may fail; a late goroutine looks its server up without the lock |
| Mode watcher (`urltest_watcher.go`, `commands.go`) | window of failed cycles, recommended mode | cycle, `SwitchMode`, `ModeStateListener` | a debounce beside a switch; reserved, the app does not call it |
| Streams (`coreinfo.go`, `commands.go`) | subscribers | `CoreInfoListener`, `GetSystemInfo` | broadcaster outside this repository |
| Configuration building (`v2/config/`) | the package variable `OutboundMainDetour` | `ReadSingOptions`, `BuildConfig` | the variable is shared by builds that overlap; salvage of bad entries; two rule lists that must agree |
| Share links (`xray2sing/ray2sing/`) | detour and counter of a parse | `GenerateConfigLite`, `ConvertToShareLinks` | two readers of the same containers, four dialects of the same server, conversion and parse repeated over what is stored |
| Memory sampler, logging, WARP, speed test, platform bindings | little or none | | |

**How they interact.** The bindings and gRPC handlers call the lifecycle directly. A start reads the settings, loads
the last request when it is given none, builds the configuration, creates the daemon service (which brings up
sing-box), saves the request, and starts the mode watcher and memory sampler. `Stop` first cancels a start in
progress, without the lock, then takes the lock, stops the watchers, forgets the device sleep, and closes the service.
Pause, Wake, hot add and streams fetch the running box from `static` and keep a pointer to it, so a stop or a
restart may happen between any two of their steps. Side instances share with the core only the process. The app converts a body of a subscription to records, stores them, and
each start and each ping parses what was stored; the profile that comes out is what `BuildConfig` is given, by a start
under the lifecycle lock and by `BootstrapFetch` without it.

**What makes each correct.**

- *Lifecycle.* Start and stop exclude each other; when nobody holds the lock, state, service and watchers tell the
  same story; no running service is out of reach of the next stop; every call returns.
- *Last start.* What is replayed is the last start that was meant to be replayed: never a ping-only probe, never
  older than what was last saved completely; the name shown is that of the profile that runs, except in replays
  after a save that was cut short before its last row (section 6).
- *Device sleep.* A box that sleeps has something that will wake it; a wake probes when, and only when, the
  device was frozen for long enough; the sleep of one box is never charged to another.
- *Hot add.* Members of a selector exist and are open; what is open can be reached by a later remove; helpers do not
  outlive the servers that need them; an add that answers OK has produced something usable.
- *Side instance.* Exactly one party closes the instance, after its last use; a red cross means that the server was
  tried and failed, but for two cases (section 6): the budget ended before the attempt, or the probe panicked; every request
  gets an answer.
- *Set-up.* A `Setup` that succeeds leaves a server that answers; a port stays open only as long as somebody can close
  it; a setting that was acknowledged survives later changes, set-ups and restarts; a verbose log level does not.

- *Share links.* A conversion and a parse of one body keep the same servers; a server is the same one in every dialect and comes
  back from storage as protected as it was, but for a named list of what the reader of sing-box JSON does not read (`LostInSingbox`,
  section 6); storing and reading again changes nothing more; a bad line
  costs itself only; a chain dials through the hop before it and through nothing else.
- *Configuration building.* A build reads its own main detour; the result names only what it contains and dials in no
  circle; every good server of the profile is offered; a name that leaves directly is resolved directly.

The full list of hazards, each with the line where it bites and the properties about it, is in `PROJECT.json`.

## 2. Modules

| Module | Models | Uses |
|---|---|---|
| `CoreStatus` | abstract specification: what an observer of `CoreState` is promised | |
| `CoreLifecycle` | start, stop, abort, error paths, watchers | `INSTANCE CoreStatus` (refinement) |
| `PauseWake` | Pause, Wake, auto-wake timer, composed with the lifecycle | EXTENDS `CoreLifecycle` |
| `SleepGate` | the clocks and the threshold that decide whether a wake probes | |
| `LastStart` | load, save and replay of the last start, crash and restart | |
| `HotAdd` | AddOutbound, RemoveOutbound, SelectOutbound | |
| `SideInstance` | one ping through a side instance | |
| `CoreSetup` | Setup, Close, the server of a mode, settings, crash and restart | |
| `LinkBase` | maps, links and scalar conversions that the converters share | |
| `LinkParse`, `LinkEndpoint` | from a link, or a wg-quick file, to an outbound or endpoint of sing-box | EXTENDS `LinkBase` |
| `LinkEmit` | from a node in one of four dialects back to a link | EXTENDS `LinkEndpoint` |
| `ShareLinks` | a body on its way: convert, parse hop by hop, parse again what was stored | EXTENDS `LinkEmit`, `INSTANCE LinkChains` (refinement) |
| `LinkChains` | abstract specification: tags and detours of what a parse collects | |
| `ConfigBuild` | `BuildConfig`, by several builders over the package variable | |
| `MC*` | constants, inputs and symmetry sets of the runs | the module named |
| `LifecycleProofs` | theorems about `CoreLifecycle`, `CoreStatus` and `PauseWake` | EXTENDS `PauseWake` |
| `SleepGateProofs`, `LastStartProofs`, `HotAddProofs`, `SideInstanceProofs`, `CoreSetupProofs`, `ShareLinksProofs`, `ConfigBuildProofs` | theorems | EXTENDS the module named |

**CoreLifecycle.** A caller has a program counter `pc[c]` whose labels are the places in `StartService` and `Stop` where
another goroutine can be seen: before and after the lock, around `NewService`, around the observable writes of
`CoreState`. The code between two labels runs under `static.lock` on fields that only lock holders touch, so it is one
step. `startCancel` and the service registry are separate because `abortStart` reaches them without the lock.
`NewService`, `Close` and the builders may fail; with `MayPanic` each call into sing-box may also panic, and then the
recover handler runs after the deferred `Unlock` (deferred functions run last in, first out), as in `start.go:139-150`.
A `Box` is the identity of the daemon service of one start attempt. An identity that nothing refers to any more may stand for a
later attempt, so starts are not bounded in number; a leaked service never gives its identity back.
The history variable `panicked` lets properties say "until something panics".

**CoreStatus** is what the status stream promises: STOPPED, STARTING, STARTED, STOPPING, which may follow which, and
that a transient state is left. `CoreLifecycle` implements it with `status <- CoreState`.

**PauseWake** adds `pausedAt`, the armed timer and the device of `pause.go` to the lifecycle and splits
`Pause` and `Wake` between fetching the box and writing the mark: this is where a stop or a restart slips in.
Time is abstracted to "long enough or not"; **SleepGate** has the arithmetic: a monotonic clock that stops while
the device is frozen, a wall clock that goes on and may be set, and the gate that compares the two differences.

**LastStart** models one start at a time. That is justified by `LockExcludes` of `CoreLifecycle`: everything it models
runs under `static.lock`. It has the three rows (path, content, name) and their separate writes, each of which may fail or
be the last thing the process does. A profile is a model value, either to connect with or to ping with, and an explicit request
for it has any of its content, the path of its file and its name, or none of them: `mobile.go:102-138` sends no name, gRPC may
send everything. The name shown is a cache, which a start fills with the name of its request (`CacheName`) and an observer
with the row, when it is empty (`ReadName`).

**HotAdd** has any number of concurrent handlers. A *main* is a server that a client adds, with an optional *helper*
(detour) brought in by the same content, and a main may be the detour of another. The managers of sing-box are
sets: what is registered, what is open, who is a member of which selector. A handler's steps are its calls into
those managers, each of which locks only itself. The `orderly` history says whether clients have kept so far to what
the code assumes of them: tags are unique (`commands.go:252`) and two calls about related servers do not overlap.

**SideInstance** has one handler per call, the bring-up goroutine it starts, and a deadline. The handler and the goroutine
race for who owns the instance (`independent_instance.go:201-231`). Starts and dials may fail, panic or hang. The
answer is one of delay, cross, blank and rejected, as in `url_test_config.go`. The timer of the budget runs from the moment it
is set, during the readiness wait (`waitDetourReady`) as well as during the probe, and `NoAttempt` is the loop of
`url_test_config.go:158-160` that is left before the first attempt.

**CoreSetup** has threads that call `Setup`, `Close` and `ChangeInhiveSettings`. `pc` names the steps of the holder of `mu`
(stop, delete, start, listen, read, apply) and the store of the holder of `changeSettingsMu`. One mode stands for all of
them, as each has its own slot in the map and its own port. A server has the identity of the listener made for it; an identity
is used again when its goroutine is gone. `Serve` is that goroutine: it takes the server it serves from the map when it
runs, not when it was started. `grpc.Server.Stop`, `Serve` and the listener are external: a stopped server refuses to serve and
closes the listener it is given, a nil server panics and leaves it open. `SetupFails` stands for every early return and recovered panic between
the lock and the load. The gRPC handlers `Setup` and `Close` first look into the map and do nothing, or else are the native
calls. The settings are two: the log level with its rules, and one field with three values, its default, its Go zero value
(what `omitempty` drops) and another one. A change names any subset of them; `RejectChange` is one that cannot be parsed.
The history variables `raced`, `adopted` and `dbFailed` name the situations in which less is promised.

**LinkBase, LinkParse, LinkEndpoint, LinkEmit** are pure: one operator for a function of the code. A JSON object, a YAML
mapping and a Go map are functions from keys to words, nested objects flattened (`"tls.server_name"`), a zero value absent as
with `omitempty`. Words are a small vocabulary, and a conversion is a table of the words it changes. A link is what `url.Parse`
gives, with its query in the spelling of its author. `decoded`, the map that a parser hands to its helpers, is passed on as
changed: `getTransportOptions` leaves a default ALPN in it that `getTLSOptions` then reads as asked for.

**ShareLinks** has the state of one app: the body, the records it was converted to, and the variables of
`GenerateConfigLite` (the chains left, the detour of the next hop, the counter, what was collected). `Convert` is a whole
conversion, as it keeps nothing between lines. A parse takes a chain hop by hop, from its end: `EmitOne` for a server or an
endpoint, `EmitPair` for a server with its helper, `HopFails` for an error. `KeepRecord` and `KeepConfig` take
what was stored, one of the records or the parsed configuration, as the next body.
The collected outbounds implement **LinkChains**, which knows nothing of links: tags are new, and a detour is there.

**ConfigBuild** has one process for each call of `BuildConfig` and a step for each place that reads or writes
`OutboundMainDetour`; the parts built in between are operators of the input and of the value they have read. `alone` tells
whether another build has overlapped. It is the translated path, of a start without `EnableRawConfig` and of
`BootstrapFetch`. A section that has been read is a function of the places of its valid entries, so that a place
keeps its number when an entry before it is dropped. `ProfileAssumption` says what a profile has to be for a build to dial
in no circle: no entry tagged `balance`, and detours that are acyclic and name no generated group. What `GenerateConfigLite` makes is such a
profile (`NothingLost`, `ChainSpec`); a profile written by hand need not be one. That nobody dials himself, and that
the servers carry the traffic, are stated by sets of nodes (among any nodes that dial there is one that dials through none
of them; only servers lead out of a set that holds the final outbound), as a walk along the detours would need recursion.

## 3. Runs, bounds and what they show

| Run | Bounds | Distinct states | Shows |
|---|---|---|---|
| `CoreLifecycle_safety` | 3 callers, 3 boxes, panics | 3,932,463 (by symmetry) | exclusion; state, service and watchers agree; no service is lost; a late abort is followed by its stop |
| `CoreLifecycle_live` | 2 callers, 2 boxes, fair | 2,918 | every call returns; `CoreStatus` is implemented, its liveness included |
| `PauseWake` | 1 caller, 4 boxes, 1 device thread, timer | 13,167 (by symmetry) | sleep and timer, wake resumes, marks belong to the running box |
| `SleepGate` | clocks to 5, threshold 2, set ahead by 2, back by 1 or 3 | 379,512 | when exactly a wake probes |
| `LastStart` | 3 profiles to connect with, 1 to ping | 28,070 (by symmetry) | replay is neither a ping nor stale; name shown |
| `HotAdd` | 3 calls, 2 mains with helpers, 1 selector and the default | 1,079,003 | the managers agree; add and remove keep their promises |
| `SideInstance` | 2 calls, 2 ports | 92,673 | one owner; nothing left over; honest answers; every probe answers |
| `CoreSetup` | 2 threads, 2 servers | 3,273,885 (by symmetry) | a successful Setup leaves a live server; open ports are owned; settings survive |
| `CoreSetup_partial` | 2 threads, 2 servers | violation | a partial change during a Setup can undo other settings (section 6) |
| `ShareLinks` | 58 bodies, 3 rounds of reloading | 4,433 | servers, readers, dialects, protection, cycles, bad lines; `LinkChains` is implemented |
| `ShareLinks_bare` | the same | violation | a named Shadowsocks server in a bare list is lost (section 6) |
| `ConfigBuild` | 2 builders; profiles of up to 2 entries of 8 and 1 endpoint of 2, and one with a server that has no dialer; all rule settings; 49 pairs of DNS addresses | 570,605 | own detour, closed references, no loop, DNS and routes agree, servers offered and used |

Not every invariant needs a run: the type invariants but that of `HotAdd`, and the discipline of `startCancel`, are proved
and not checked again (section 5). `ShareLinks` states none: its states hold links and maps of many shapes.

Why the bounds are enough:

- *Lifecycle.* The interesting pattern has three parts: one holds the lock, one has passed `abortStart` and waits, one comes
  from an error path without the lock. Three callers have all three. Three boxes allow a start, a stop, a restart, and a leak in between.
- *Sleep.* All of `pause.go` relates a box to its successor; four boxes allow a restart while the mark, the timer and the host
  thread still name earlier boxes.
  The run is the iOS case, which is the one with a timer; elsewhere no timer is armed.
- *Gate.* All amounts are small integers around the threshold, below, at and above it; clamping and both signs of a clock
  change occur.
- *Last start.* Three profiles distinguish the last complete save, one cut short since, and the one in flight, with every mixture
  of their rows; one ping is enough as pings are never compared with each other.
- *Hot add.* Two mains distinguish "its own helper" from "the detour of the other"; three calls are the least for add,
  a second add that fails and a remove. After the first disorderly call no new call begins: all conditional properties
  are void from there on.
- *Side instance.* Calls share only the ports; two calls contend for one.
- *Set-up.* Each mutex has a holder and at most one other thread that matters; two servers are a stale one, whose goroutine
  may be late, and its successor. Crashes, changes and set-ups are not bounded in number.

- *Share links.* Data is not enumerated but chosen: each protocol once in every dialect that has it, with each transport and each
  kind of TLS somewhere; every parameter that a parser treats specially in some link; every container shape; chains of two and
  three with a pair, an endpoint and a hop that fails in each position; broken lines between good ones. Three rounds
  let a conversion and a parse of what was stored follow each other in every order.
- *Building.* The start is given every short profile under every WARP mode, and a plain one under every combination of rule settings
  and of two DNS addresses; two entries are enough for a detour, a duplicate of a generated tag and an entry that is dropped. The fetch
  always builds with the defaults, as `BootstrapFetch` does, any number of times beside it.

Runs with `CHECK_DEADLOCK FALSE` are those whose actors come to an end: `HotAdd` and `SideInstance` have finitely
many calls, `ShareLinks` finitely many rounds. In the other runs deadlock is checked, which in `CoreLifecycle` is part of the claim: callers may always
call again, and the lock is never held by a caller that cannot go on.

Every property of a passing run has a mutant in `PROJECT.json`: a plausible defect in one mapped definition with which
TLC finds that property violated.

## 4. Fairness

- `CoreLifecycle!Spec` has weak fairness for the steps of each call that has begun, and strong fairness for taking the
  lock. Go's scheduler runs every runnable goroutine; `sync.Mutex` in starvation mode hands the lock to the longest
  waiter after 1 ms. Whether a call is made is not fair. `NewService` and `Close` are assumed to return in `Spec`: a start
  that hangs holds the lock for ever, which is the reason for `abortStart`. The safety runs use `SafeSpec`, without this assumption.
- `CoreStatus` has weak fairness for leaving a transient state. It is the target of the refinement, not an assumption.
- `SideInstance!Spec` has weak fairness only for the handler's own steps and for the timer of its deadline. The bring-up and
  the dial may hang, and `EveryProbeAnswers` holds all the same: that is the point of the two goroutines.
- The other modules have safety properties only and state no fairness.

## 5. What is proved

TLAPS checks every proof to its leaves; nothing is assumed except the named assumptions on the constants:
`NoneAssumption` and `FlagAssumption` (`None` is neither a caller nor a box, the two flags are Boolean), `SleepGateAssumption`
(threshold and amounts are naturals), `LastStartAssumption` (profiles to connect with and to ping are disjoint and exclude the markers),
`HotAddAssumption` (a marker is none of the things it stands beside, and no server has the tag that the core derives for the helper of
another), `SideAssumption` (`None` is no port, error or answer), `SetupAssumption` (`None` is no thread, server, setting or row),
`InputAssumption` (a build is given a profile and options of their types) and `ProfileAssumption` (above; only
`NobodyDialsHimself` uses it), `BodiesAssumption` and `NoDialerAssumption` (a body has one of the four forms and its lists are lists; the
vless server of a pair may have a detour). `ImplementsStatus`, `SleeperHasTimer` and `MarkIsOwn` also assume that calls into sing-box do not
panic: after a panic `StopAndAlert` writes `CoreState` and drops the service without the lock, and all three fail.

- **LifecycleProofs.** `TypeCorrect` is inductive alone. `LockExcludes` and `CancelDiscipline` follow from `LockInv`: the
  caller recorded in `lock` is exactly the one whose `pc` lies between lock and unlock, and a stored cancel function belongs
  to it. They hold with panics. `StatusMatches`, `NothingLeaks`, `WatchersMatch` and
  `LateAbortIsFollowedByStop` speak about the moments when the lock is free; they are not inductive, as a step that releases
  the lock must know what its holder has done so far. `ServiceInv` says this for every label a holder can be at
  and `SoundInv` couples it to the absence of a panic. `ImplementsStatus` shows that initial states map to initial states and
  every step to a step or a stutter of `CoreStatus`.
  For the composition with the device, `PauseImplementsStart` shows that the composition adds no behaviour to the lifecycle, so that every theorem
  above holds there too. `WakeWakes` rests on `SleepInv`, which says which box sleeps at each step of the device and of a start, panics included.
  `SoundPauseInv` relates the mark, the timer and the step of the device thread to the boxes that run, that close and that
  are gone; `SleeperHasTimer` and `MarkIsOwn` follow, for any number of callers and boxes.
- **SleepGateProofs.** `GateInv` is the conservation law behind the gate: wall difference minus monotonic difference is
  the frozen time plus the amount by which the clock was set. With it, `GateIsExact` holds for every threshold, and
  `ClampIsEnough` says that setting the clock back never makes a probe without a freeze.
- **LastStartProofs.** `PingInv` follows a ping-only request through every step to show that it never reaches a row;
  `FreshInv` orders the versions of the rows; `SavedInv` describes the rows between two writes; `NameInv` says which name
  is cached at each step of a start, and that a replay has read the rows of `last`, the last start whose save ran to its end, unless one was cut short since.
  From these
  `PingNeverReplayed`, `ReplayIsFresh`, `ConnectIsReplayable` and `NameIsShown` follow for all sets of configurations.
- **HotAddProofs.** `TypeCorrect` holds whatever clients do; the rest while they are `orderly`, which no step restores
  (`OrderlyBefore`). `BoxInv` says that what a tag leads to is open and was created under that tag, and that calls in
  progress are about disjoint sets of tags; `StepInv` says what each handler has done to its own tags. The argument is one of
  locality: a step changes the managers at the tags of its own call only (`StepsAreLocal`), so the others keep what they know
  (`OthersKeep`). On these two, `CallsKeepOrder`, rest `SelectorsHoldOpen` (`MemberInv`: a member is what the managers find under its tag),
  `AddedStaysUsable` (`Progress`: which selectors a handler has served so far), and, together in `RemovalsAccount`, `OpenIsReachable` and
  `HelpersAreUsed`: an open outbound that no manager lists is there only after a removal answered FAILED, and a helper whose server is gone
  only after that, or for something that referred to it, or until the removal in progress takes it. For any number of calls,
  servers and selectors.
- **SideInstanceProofs.** `SideInv` is `Owned` (at each pair of handler and bring-up steps, who has the instance) and
  `Judged` (what has happened for each answer to be chosen: a cross comes after a refused attempt, or is one of the two that
  section 6 names). Both are needed: an answer is honest because of what happened before the hand-over. `UsedIsOpen`, `NothingIsLeft` and `AnswersAreHonest` hold for any number of calls.
- **CoreSetupProofs.** `SetupInv` has a half for each mutex. `ServerInv` says what the holder of `mu` knows at each step (after a
  stop, every open listener is a late one; from the read on, the server is live), so that what it leaves behind at unlock is
  `SetupLeavesLiveServer` and `PortIsOwned`. `FieldPart` and `LevelPart` relate row, options and persistent level to what was acknowledged,
  also while a change is published and not yet stored. They are conditional on the same history variables as `FieldSurvives` and
  `LevelIsExplicit`, which follow. They hold for any number of threads and servers.
- **ConfigBuildProofs.** `DetourInv` says of every builder that has been alone that the package variable, and each part of the
  result built so far, holds the detour it wants; `BuildsAreTheirOwn` follows. `BuildInv` says what a result is: each part that is there is
  what its operator makes of the input and the detour read, and a build that failed has a reason. With both, each of the others is a
  statement about operators, for all profiles and settings.
  `NamesGoOneWay` evaluates both rule lists part by part: the first part that decides a name decides it (`VerdictSplits`, `FirstDecides`),
  so the two verdicts are formulas over the settings, and are compared.
  `NamesAreThere` collects the tags each part names: groups from what was counted, rules from the few tags the rule builders use
  (`RulesAreOver`), those of WARP and DNS servers from the modes.
  `TrafficIsCarried` exhibits the closed set from the final outbound down to the servers.
  `NobodyDialsHimself` takes any nodes that dial, and finds one that dials out of them (`SomeNodeDialsOut`): WARP when the
  servers go over it, else a server, by `ProfileAssumption`, and when there is none a group, or WARP alone.
  `ServersAreOffered` shows that a readable server is kept and shown, and that each way to fail is one of the reasons listed.
  All of it by case distinction: sections are functions of places, so that no induction over lists is needed.
- **ShareLinksProofs.** For any bodies and any number of rounds through storage. `ChainsAreSound` is about `LinkChains` alone: from the promises
  made at each step of a parse, in every reachable state tags are distinct and detours resolve and lead to no circle.
  `ImplementsChains` shows that a parse keeps those promises: `TagInv` says that every tag collected carries a number that the counter has passed,
  and that detours, the one kept for the next hop included, are such tags; with it each hop is a step of `LinkChains` (`EmitOneStep`,
  `EmitPairStep`) and everything else a stutter (`OtherSteps`). `ParsedChainsAreSound` puts the two together.
  `BadLinesAreIsolated` rests on `LineInv`: a body stays a body, also one that was stored and taken up again (`RecordsAreLines` goes through
  every form and every ingest); and in a parse of a text each hop of its lines is either still to come or has left in the result what it gives
  alone. Lists are flattened by a recursive function of the community modules; what it returns is proved by the smallest
  counterexample (`Least`, `BuildsExists`, `Flattened`).
  The last three have two premises. `NumbersTell` is a fact about strings, which the provers know nothing of: a numbered tag
  is not empty and tells its tag and its number. It holds because the number is what follows the last ` § `; TLC evaluates it, in
  `TellingAssumption`, for tags chosen to look numbered themselves. `TagsAreText` says that a parser's tag is a
  string, which in Go is its type and in the model follows from the vocabulary; TLC checks it with `ChainSpec`, where tags are typed.

**Only model-checked:** liveness (`EveryCallReturns`, `EveryProbeAnswers`, and the liveness of `CoreStatus`), which needs
ENABLED and fairness; and five properties of `ShareLinks` that compare what converters and parsers make of a server: `NothingLost`, `ReadersAgree`,
`DialectsAgree`, `NeverWeaker` and `CycleIsStable`. They hold by the words of the vocabulary, through tables written with `:>` and `@@`,
which the provers do not know, and for bodies whose links agree with what their provider says (`says`), which is a choice of the instance; no
shorter argument than the evaluation of each table stands behind them.
Every other invariant that a run checks is a theorem.
**Only proved,** in no run: the type invariants but that of `HotAdd`, `CancelDiscipline`, `ConnectIsReplayable`, and the inductive
invariants named above, which TLC confirmed on the bounds of the runs before they were proved.

## 6. Where the code differs from what is written about it

Two runs are meant to end in a violation. Each checks a sentence of the source:

1. `CoreSetup_partial`, `PartialKeepsOthers`. `Setup` starts the server before it loads the settings (`grpc_server.go:151-172`), and
   reads the row without `changeSettingsMu`. A partial change answered before the load is merged over the defaults and stored;
   one answered between the read and the apply is undone in memory, and the next partial change stores that. `buildconfighelper.go:136-144`
   says that a partial change is merged over the current options and that the full state is stored, so that the next
   `Setup` does not come up with defaults.
2. `ShareLinks_bare`, `BareServersKept`. `json_ingest.go:161` admits SIP008 servers in a bare JSON list. Such a server has its name in
   `remarks`, and `entriesFromContainerObject` (`json_ingest.go:200`) takes every object with `remarks` for a Happ container:
   this one has no outbounds, and the server is lost, although `json_ingest.go:97` says "a server is NEVER lost".

Reading the code for the models also showed the following, which is described here and not counted as a finding:

- *Stop.* `stop.go:27-29` says that an ongoing start is interrupted before the lock is taken. The cancel function is stored only when
  the start reaches `start.go:230`; a stop that comes earlier (while the configuration is built, or during `DelayStart`)
  cancels nothing and waits for the whole `NewService`.
- *Panics.* `StartService` and `Stop` register their recover handlers before `defer Unlock`, so the handler runs unlocked.
  `StopAndAlert` may then drop the service that the next start has just installed: it runs on, and no stop reaches it.
  This is why the properties of the lifecycle are stated until something panics.
- *Sleep.* `Pause` fetches the box, `Stop` clears the marks and closes that box, `Pause` then writes its mark for the dead box.
  The next `Wake` after a restart probes the fresh box for the sleep of the old one, which `pause.go:108-109` rules out
  (the exception in `MarkIsOfRunningBox`).
- *Start.* An error of the save is ignored (`start.go:182`), so a start may succeed and the next replay be older.
  `StartedIsReplayable` is stated for saves that did not fail. A desktop start by path (`platform/desktop/custom.go:134-138`) is
  replayed through `start.go:128-130`, where it is parsed in another mode than the one it was first started with.
  Content and name are two rows (`start.go:171-174`): a crash or a failed write between them leaves the new profile under the name of
  the old one. The next replay runs it and shows it so, and, as it saves what it has read, so does every later one until a start
  by the user (the exception in `ShownNameIsRunning`). The mobile binding sends no name (`platform/mobile/mobile.go:119-138`): none is shown.
- *Gate.* A wall clock set ahead between pause and wake counts as a freeze (`pause.go:139-140`): at most a needless probe.
- *Hot add.* A removed server that others use as detour stays open, unlisted, with the answer FAILED; a helper that was
  kept for a referrer is not collected when that referrer goes; adding a tag again under the other kind (endpoint instead of
  outbound) answers with the old one; an add that goes on after its client left may race the remove and put a closed outbound
  into a selector; of a content with several servers, remove takes back the first. All of them need clients that do not
  keep to the unique-tag assumption or overlap related calls; `orderly` says so in the properties.
- *Side instance.* A panic in the probe is answered with a red cross (`probe_helpers.go:118`), while
  `url_test_config.go:48-49` calls a panic "never evidence the server is down". A test whose context ends during the readiness
  wait (`probe_helpers.go:148-166`) leaves the loop before the first attempt (`url_test_config.go:158-160`) and is a red cross as well, though nothing was
  asked of the server: a negative `TimeoutMs`, a client that left, a process suspended in that third of the budget. `AnswerIsHonest` names
  both crosses (`probePanic`, `Untried`) and allows no other. A panic in the bring-up leaves the created service behind; the deferred `Close` runs before the answer is sent,
  so a slow close delays it.
- *Set-up.* A `Setup` that finds no row makes the level in memory persistent (`buildconfighelper.go:208`), also one that the filter of
  the log tab has set, although `change_settings_test.go:188-189` says that after any sequence it is the last explicit one
  (`adopted` in `LevelIsExplicit`). A setting switched to its zero value, such as `false` where the default is `true`, is left out by `omitempty` and is
  the default again after a restart (the second case of `FieldSurvives`). A database that fails to read counts as no row.
  A server stopped before its goroutine reached `Serve` can leave its port open with nobody to close it (`late` in `PortIsOwned`), where
  `grpc_server.go:328-330` says the port is free; the next `Setup` then fails at the port check. A listen that fails leaves the server in
  the map: the gRPC `Setup` answers OK for it, the native one tears it down and tries again. A recovered panic makes `Setup` return no
  error. `setup.go:34`, `pause.go:59` and `grpc_server.go:278` read the map without its mutex.
- *Share links.* The reader of sing-box JSON drops what `LostInSingbox` lists, from a provider's JSON as well as from the app's own store, although
  `singbox_ingest.go:13-14` promises the same outbound as from the share link. `tls.disable_sni`, `min_version`, `max_version` and the mixed-case SNI have no field in
  `singboxTLS` (`singbox_ingest.go:84-110`): a server added by a link with `nosni=1` sends its SNI again after one trip through storage.
  Shadowsocks loses its plugin (`singbox_ingest.go:528-542`) and connects without it; Hysteria 2 and TUIC lose ECH (`singbox_ingest.go:452`);
  naive loses its uTLS fingerprint. `DialectsAgree` and `NeverWeaker` except these by name and nothing else that they compare.
  Moreover, tags take one more ` § n` each time a stored configuration is parsed; the detour of a `utproto` pair is not in its share link
  and is dropped by a second parse; a hop that fails inside a chain is skipped, so that its neighbours are joined without it;
  a line of a wg-quick file that begins with `#` ends the block for the line splitter; an Amnezia configuration with two
  tunnels of one kind has one name for both.
- *Building.* A start with WARP that overlaps a `BootstrapFetch` can lose WARP, or the fetch can point `Final` at a WARP it
  has not got (`alone` in `OwnDetour`). In the mode `proxy_over_warp` `Final` is WARP and WARP dials directly: the servers carry
  nothing unless selected by hand (the exception in `ServersCarryTraffic`). A plain `name:port` as remote DNS address is
  accepted for `dns-remote` and fails the build for `dns-remote-no-warp` (`dns.go:51`). A profile without a server to show
  panics at `tags[0]` (`builder_outbound.go:190`). A detour to an entry that was dropped dangles.
- *Elsewhere.* `speedtest.go:164` divides by a duration in milliseconds that may be zero; `setup.go:42` calls `Error()` on an
  error that may be nil, so that a successful Setup over gRPC is answered FAILED.

## 7. What is not modelled

- sing-box, goleveldb, gRPC and the standard library: external; their calls may succeed, fail and, where it matters, panic or hang.
- Generated code, certificates, log formatting, build scripts: no state.
- Share links: byte order marks, base64 around a body, white space, percent-encoding and the repair of malformed URLs, which are
  string processing; fetching an `ssconf` answer; values outside the vocabulary of `MCShareLinks`.
- Building: inbounds, the Clash API, the log section and NTP, which no other part refers to; the sniff rule and the DNS rule that matches
  nothing; the MTU and the test URLs written back into the shared options; `getIPs`, which reads `ipMaps` without its mutex;
  the detour through which WARP fetches its account (`warp.go:202`); the two reads of the main detour at `dns.go:49-50` are one step;
  the raw path (`EnableRawConfig`).
- WARP accounts: one exchange with an HTTP service. The speed test: one sequential measurement.
- Streams: the broadcaster they subscribe to is outside the repository.
- Within modelled components: several unrelated servers in one content, and contents that mix outbounds
  and endpoints (`HotAdd`); the translated bring-up, which differs from the raw one in its options only, and
  `BootstrapFetch` (`SideInstance`); conversion of C strings in the bindings (`LastStart`).
- The TLS modes with their key pair, the heartbeat, and the directories and log files `Setup` prepares (`CoreSetup`).
- The mode watcher's window and `SwitchMode`, which the code marks as reserved and nothing calls, and rotation of the log: planned.

## 8. Plan

Modules in the order of the importance of what they are about.

1. `CoreStatus`, `CoreLifecycle` and their proofs: everything else is called from inside them or races them. *Done.*
2. `LastStart`, proofs. *Done.*
3. `PauseWake`, `SleepGate`, proofs of both. *Done.*
4. `HotAdd`, proofs. *Done.*
5. `SideInstance`, proofs. *Done.*
6. `CoreSetup`, proofs. *Done.*
7. `ShareLinks` and the modules it is built from, `LinkChains`, proofs. *Done.*
8. `ConfigBuild`, proofs. *Done for the translated path; the raw path is left.*
9. If room is left: the window and debounce of the mode watcher, and rotation of the log.
