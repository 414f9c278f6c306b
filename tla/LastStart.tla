------------------------------ MODULE LastStart ------------------------------
(***************************************************************************)
(* The last start request (v2/hcore/start.go): StartService saves the      *)
(* request it starts in three rows of a goleveldb table, and a start with  *)
(* an empty request (the Android tile, always-on, a service restarted by   *)
(* the system) replays them, in the same process or in a later one.  The   *)
(* rows are written one by one and the result of the save is ignored, so   *)
(* a crash or a failing database leaves any prefix of them.                *)
(*                                                                         *)
(* Starts and stops are serial here: static.lock makes them so             *)
(* (CoreLifecycle, MutualExclusion).  A configuration is a model value and *)
(* stands for a profile: its content, the path of its file, and its name   *)
(* are that value.                                                         *)
(***************************************************************************)
CONSTANTS ConnectConfig,  \* what connect starts are asked for
          PingConfig,     \* what ping-only starts are asked for
          Empty,          \* the empty string
          Missing         \* no such row

Config == ConnectConfig \cup PingConfig

ASSUME LastStartAssumption ==
  /\ {Empty, Missing} \cap Config = {} /\ Empty # Missing
  /\ PingConfig \cap ConnectConfig = {}

VARIABLES rows,        \* the rows lastStartRequestPath, -Content and -Name, on disk
          CoreState,   \* static.CoreState
          pc,          \* the next step of StartService
          request,     \* its request
          cachedName,  \* lastStartNameValue; Missing while not loaded
          fresh,       \* history: the configuration of the last complete save and of the
                       \* saves that were cut short since
          saveFailed,  \* history: the save of the request in flight or running failed
          last         \* history: the last connect request whose save was completed;
                       \* NoRequest if none was, or another one's has written rows since

vars == <<rows, CoreState, pc, request, cachedName, fresh, saveFailed, last>>

Steps == {"idle", "load", "cacheName", "build", "savePath", "saveContent", "saveName", "new"}

\* A StartRequest: a connect start, a ping-only one, or one read back from the rows.
Kinds == {"connect", "ping", "replay"}

Requests == [path : Config \cup {Empty}, content : Config \cup {Empty},
             name : Config \cup {Empty}, kind : Kinds]

NoRequest == [path |-> Empty, content |-> Empty, name |-> Empty, kind |-> "connect"]

\* What a caller sends to start c: its content (gRPC, mobile), its path (the desktop export)
\* or both (mobile.Start); only gRPC also sends the name.
Explicit(c) ==
  [path : {c, Empty}, content : {c, Empty}, name : {c, Empty},
   kind : IF c \in PingConfig THEN {"ping"} ELSE {"connect"}]

\* ReadContent: the content, or else the file at the path (a request without either fails).
Effective(r) == IF r.content # Empty THEN r.content ELSE r.path

Init ==
  /\ rows = [path |-> Missing, content |-> Missing, name |-> Missing]
  /\ CoreState = "STOPPED" /\ pc = "idle" /\ request = NoRequest
  /\ cachedName = Missing /\ fresh = {} /\ saveFailed = FALSE /\ last = NoRequest

-----------------------------------------------------------------------------
\* StartService with the lock held and CoreState STOPPED; a request may be empty.
Start ==
  /\ pc = "idle" /\ CoreState = "STOPPED"
  /\ CoreState' = "STARTING" /\ pc' = "load"
  /\ \E c \in Config : request' \in Explicit(c)
  /\ saveFailed' = FALSE
  /\ UNCHANGED <<rows, cachedName, fresh, last>>

\* errorWrapper: the start is over.
Fail == CoreState' = "STOPPED" /\ pc' = "idle" /\ request' = NoRequest

\* loadLastStartRequestIfNeeded reads the three rows of an empty request (and forces
\* EnableRawConfig) ...
LoadLastStart ==
  /\ pc = "load" /\ Effective(request) = Empty
  /\ Missing \notin {rows.path, rows.content, rows.name}
  /\ request' = [path |-> rows.path, content |-> rows.content, name |-> rows.name,
                 kind |-> "replay"]
  /\ pc' = "cacheName"
  /\ UNCHANGED <<rows, CoreState, cachedName, fresh, saveFailed, last>>

\* ... fails if one is missing or the database does (which it may at any time), and keeps any
\* other request.
LoadFails ==
  /\ pc = "load" /\ Effective(request) = Empty
  /\ Fail
  /\ UNCHANGED <<rows, cachedName, fresh, saveFailed, last>>

KeepRequest ==
  /\ pc = "load" /\ Effective(request) # Empty
  /\ pc' = "cacheName"
  /\ UNCHANGED <<rows, CoreState, request, cachedName, fresh, saveFailed, last>>

\* setCachedLastStartRequestName: what readStatus returns from now on.
CacheName ==
  /\ pc = "cacheName"
  /\ cachedName' = request.name
  /\ pc' = "build"
  /\ UNCHANGED <<rows, CoreState, request, fresh, saveFailed, last>>

\* Mutant: ping-only starts are saved like the others.
Build_SavesPing ==
  /\ pc = "build"
  /\ \/ Effective(request) # Empty /\ pc' = "savePath" /\ UNCHANGED <<CoreState, request>>
     \/ Fail
  /\ UNCHANGED <<rows, cachedName, fresh, saveFailed, last>>

\* BuildConfig, which may fail; a ping-only request is not saved.
Build ==
  /\ pc = "build"
  /\ \/ /\ Effective(request) # Empty
        /\ pc' = IF request.kind = "ping" THEN "new" ELSE "savePath"
        /\ UNCHANGED <<CoreState, request>>
     \/ Fail
  /\ UNCHANGED <<rows, cachedName, fresh, saveFailed, last>>

\* saveLastStartRequest, row by row.
SavePath ==
  /\ pc = "savePath"
  /\ rows' = [rows EXCEPT !.path = request.path]
  /\ fresh' = fresh \cup {Effective(request)}
  /\ last' = IF request.kind = "connect" THEN NoRequest ELSE last
  /\ pc' = "saveContent"
  /\ UNCHANGED <<CoreState, request, cachedName, saveFailed>>

\* Mutant: a field that is empty is not written, as an omitempty encoding would do.
SaveContent_OmitEmpty ==
  /\ pc = "saveContent"
  /\ rows' = IF request.content = Empty /\ rows.content # Missing
               THEN rows ELSE [rows EXCEPT !.content = request.content]
  /\ pc' = "saveName"
  /\ UNCHANGED <<CoreState, request, cachedName, fresh, saveFailed, last>>

SaveContent ==
  /\ pc = "saveContent"
  /\ rows' = [rows EXCEPT !.content = request.content]
  /\ pc' = "saveName"
  /\ UNCHANGED <<CoreState, request, cachedName, fresh, saveFailed, last>>

\* Mutant: an empty name is not written.
SaveName_OmitEmpty ==
  /\ pc = "saveName"
  /\ rows' = IF request.name = Empty /\ rows.name # Missing
               THEN rows ELSE [rows EXCEPT !.name = request.name]
  /\ fresh' = {Effective(request)}
  /\ last' = IF request.kind = "connect" THEN request ELSE last
  /\ pc' = "new"
  /\ UNCHANGED <<CoreState, request, cachedName, saveFailed>>

SaveName ==
  /\ pc = "saveName"
  /\ rows' = [rows EXCEPT !.name = request.name]
  /\ fresh' = {Effective(request)}
  /\ last' = IF request.kind = "connect" THEN request ELSE last
  /\ pc' = "new"
  /\ UNCHANGED <<CoreState, request, cachedName, saveFailed>>

\* The database does not open or a Set fails: the rest is not written and StartService,
\* which ignores the error, goes on.
SaveFails ==
  /\ pc \in {"savePath", "saveContent", "saveName"}
  /\ pc' = "new" /\ saveFailed' = TRUE
  /\ UNCHANGED <<rows, CoreState, request, cachedName, fresh, last>>

NewService ==
  /\ pc = "new"
  /\ \/ CoreState' = "STARTED" /\ pc' = "idle" /\ UNCHANGED request
     \/ Fail
  /\ UNCHANGED <<rows, cachedName, fresh, saveFailed, last>>

Stop ==
  /\ pc = "idle" /\ CoreState = "STARTED"
  /\ CoreState' = "STOPPED" /\ request' = NoRequest
  /\ UNCHANGED <<rows, pc, cachedName, fresh, saveFailed, last>>

\* The process dies between any two steps; the rows stay.
Crash ==
  /\ CoreState' = "STOPPED" /\ pc' = "idle" /\ request' = NoRequest /\ cachedName' = Missing
  /\ UNCHANGED <<rows, fresh, saveFailed, last>>

\* cachedLastStartRequestName, which readStatus may call at any time: a cold cache is filled
\* from the name row, once, and with the empty name if there is none or the database fails.
ReadName ==
  /\ cachedName = Missing
  /\ cachedName' \in {Empty, IF rows.name = Missing THEN Empty ELSE rows.name}
  /\ UNCHANGED <<rows, CoreState, pc, request, fresh, saveFailed, last>>

Next == Start \/ LoadLastStart \/ LoadFails \/ KeepRequest \/ CacheName \/ Build
          \/ SavePath \/ SaveContent \/ SaveName \/ SaveFails \/ NewService \/ Stop \/ Crash
          \/ ReadName

Spec == Init /\ [][Next]_vars

-----------------------------------------------------------------------------
TypeOK ==
  /\ rows \in [path : Config \cup {Empty, Missing}, content : Config \cup {Empty, Missing},
               name : Config \cup {Empty, Missing}]
  /\ CoreState \in {"STOPPED", "STARTING", "STARTED"}
  /\ pc \in Steps
  /\ request \in Requests
  /\ cachedName \in Config \cup {Empty, Missing}
  /\ fresh \in SUBSET Config
  /\ saveFailed \in BOOLEAN
  /\ last \in Requests

\* What the next replay would run.
Replayable == Missing \notin {rows.path, rows.content, rows.name} /\ Effective(rows) # Empty

\* A ping-only configuration, which has no tunnel, is never replayed: the tile would be lit
\* with the traffic outside the VPN (start.go:74-81, start_ping_only_test.go:15-18).
NoPingReplayed == request.kind = "replay" => Effective(request) \notin PingConfig

\* Whatever crashed or failed half-way, a replay runs the configuration of the last complete
\* save or of one begun since -- a row left over from an earlier start never resurrects an
\* older one -- or it fails (start.go:89-103).
ReplayIsNotStale ==
  request.kind = "replay" /\ Effective(request) # Empty => Effective(request) \in fresh

\* The name readStatus shows for a running core is that of the profile that runs, or empty
\* (start.go:171-174): an explicit start shows the name it came with, and a replay runs and
\* shows one and the same start, the last one that was saved.  The exception is a save cut
\* short between the row of the content and that of the name: what replays until the next
\* complete save runs the new profile under the old one's name.
ShownNameIsRunning ==
  CoreState = "STARTED" /\ (request.kind = "replay" => last # NoRequest) =>
    /\ cachedName \in {Empty, Effective(request)}
    /\ request.kind = "replay" =>
         Effective(request) = Effective(last) /\ cachedName = last.name

\* What start_ping_only_test.go:86-87 asks, as long as the database does not fail (the error
\* is ignored, start.go:182): a running connect start is what the next replay runs, whatever
\* crashed before.
StartedIsReplayable ==
  CoreState = "STARTED" /\ request.kind # "ping" /\ ~saveFailed =>
    Replayable /\ Effective(rows) = Effective(request)

-----------------------------------------------------------------------------
(***************************************************************************)
(* The inductive invariants behind the four properties.                    *)
(***************************************************************************)
SaveSteps == {"savePath", "saveContent", "saveName"}

SavesSomething == pc \in SaveSteps => Effective(request) # Empty

\* Neither the rows nor a request that may be saved holds a ping-only configuration.
PingInv ==
  /\ {rows.path, rows.content} \cap PingConfig = {}
  /\ request.kind # "ping" => {request.path, request.content} \cap PingConfig = {}
  /\ pc \in SaveSteps => request.kind # "ping"

\* What a replay of the rows would run is fresh at every point of a save.
FreshInv ==
  /\ rows.content \in Config => rows.content \in fresh
  /\ rows.content = Empty /\ rows.path \in Config => rows.path \in fresh
  /\ pc \in {"saveContent", "saveName"} =>
       rows.path = request.path /\ Effective(request) \in fresh
  /\ pc = "saveName" => rows.content = request.content
  /\ IF request.kind = "replay"
       THEN rows.path = request.path /\ rows.content = request.content
       ELSE request.path = request.content \/ Empty \in {request.path, request.content}
  /\ ReplayIsNotStale

\* From the end of a save that did not fail on, the rows are those of the request.
SavedInv ==
  /\ pc \in SaveSteps \cup {"new"} => Effective(request) # Empty
  /\ pc \in {"saveContent", "saveName"} => rows.path = request.path
  /\ pc = "saveName" => rows.content = request.content
  /\ CoreState = "STARTED" => pc = "idle" /\ Effective(request) # Empty
  /\ request.kind # "ping" /\ ~saveFailed /\ (pc = "new" \/ CoreState = "STARTED") =>
       rows = [path |-> request.path, content |-> request.content, name |-> request.name]

Rows(r) == [path |-> r.path, content |-> r.content, name |-> r.name]

\* From CacheName until the next start, a request that is there has its name in the cache;
\* the rows are those of a replay that is under way, and of the last start that was saved.
NameInv ==
  /\ pc \in SaveSteps \cup {"build", "new"} \/ CoreState = "STARTED" =>
       cachedName = request.name
  /\ pc \in SaveSteps \cup {"new"} \/ CoreState = "STARTED" => Effective(request) # Empty
  /\ CoreState = "STARTED" => pc = "idle"
  /\ pc \in SaveSteps => request.kind # "ping"
  /\ pc \in {"saveContent", "saveName"} =>
       rows.path = request.path /\ (request.kind = "connect" => last = NoRequest)
  /\ pc = "saveName" => rows.content = request.content
  /\ request.kind = "replay" => rows = Rows(request)
  /\ request.kind # "replay" /\ Effective(request) # Empty =>
       request.name \in {Empty, Effective(request)}
  /\ last # NoRequest => rows = Rows(last) /\ last.name \in {Empty, Effective(last)}
=============================================================================
