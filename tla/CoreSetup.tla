------------------------------- MODULE CoreSetup -------------------------------
(***************************************************************************)
(* Setup, Close and the gRPC server of a mode (v2/hcore/grpc_server.go),   *)
(* and the settings that Setup loads and ChangeInhiveSettings changes      *)
(* (buildconfighelper.go).  Setup starts the server BEFORE it reads the    *)
(* settings, and Serve runs in a goroutine of its own that finds the       *)
(* server in the map, without the lock.                                    *)
(*                                                                         *)
(* The settings are the log level and one other field, which has its       *)
(* default, its Go zero value (what `omitempty` leaves out), or another    *)
(* value.  The gRPC Setup and Close first look into the map and do nothing *)
(* when a server is there, or is not; else they are the native calls.      *)
(***************************************************************************)
EXTENDS FiniteSets

CONSTANTS Thread,   \* threads that call Setup, Close and ChangeInhiveSettings
          Server,   \* identities of gRPC servers, each with the listener made for it
          None      \* nil, no row, the empty string

Levels   == {"debug", "trace", "warn"}
Verbose  == {"debug", "trace"}
Settings == [level : Levels, field : {"default", "zero", "other"}]
Default  == [level |-> "debug", field |-> "default"]   \* DefaultInhiveOptions
Rows     == [level : Levels, field : {"default", "other", None}]   \* a zero value is left out

ASSUME SetupAssumption ==
  None \notin Thread \cup Server \cup Settings \cup Rows \cup Levels \cup {"default", "zero", "other"}

VARIABLES mu,              \* mu: held by Setup and CloseGrpcServer
          grpcServer,      \* grpcServer[mode]
          stopped,         \* servers whose Stop was called
          listening,       \* servers whose listener is open
          pending,         \* servers whose goroutine has not reached Serve
          serving,         \* servers whose listener is served
          changeMu,        \* changeSettingsMu
          options,         \* static.InhiveOptions
          persistedLevel,  \* persistedLogLevel()
          row,             \* the row InHiveSettingsJson, on disk
          pc, request,     \* the next step of each thread, and its request
          seen,            \* the row Setup has read
          up,              \* history: the last call about the mode was a Setup that succeeded
          late,            \* history: servers stopped before their goroutine reached Serve
          acked, explicit, \* history: the field as acknowledged, the last level set explicitly
          raced,           \* history: settings changed between a start and its load
          adopted,         \* history: Setup without a row took over a level of the filter
          dbFailed         \* history: the database failed

servers  == <<grpcServer, stopped, listening, pending, serving, late>>
loaded   == <<options, persistedLevel>>
promised == <<acked, explicit, dbFailed>>
history  == <<raced, adopted>>
vars == <<mu, servers, changeMu, loaded, row, pc, request, seen, up, promised, history>>

\* An absent key keeps what is there: json.Unmarshal into a copy of the current options.
Current == IF options = None THEN Default ELSE options
Merge(base, change) == [key \in DOMAIN base |-> IF change[key] = None THEN base[key] ELSE change[key]]
Nothing == [level |-> None, field |-> None]

\* Mutant: the level of the options is stored, as before 2026-09-23.
Stored_CurrentLevel(o, level) ==
  [level |-> o.level, field |-> IF o.field = "zero" THEN None ELSE o.field]

\* The JSON of a copy of the options with the persistent level; omitempty drops zero values.
Stored(o, level) == [level |-> level, field |-> IF o.field = "zero" THEN None ELSE o.field]

Changes == [level : Levels \cup {None}, field : {"default", "zero", "other", None}]

Init ==
  /\ mu = None /\ grpcServer = None /\ changeMu = None
  /\ stopped = {} /\ listening = {} /\ pending = {} /\ serving = {} /\ late = {}
  /\ options = None /\ persistedLevel = None /\ row = None
  /\ pc = [p \in Thread |-> "idle"] /\ request = [p \in Thread |-> Nothing]
  /\ seen = [p \in Thread |-> None] /\ up = FALSE
  /\ acked = Default.field /\ explicit = Default.level
  /\ raced = FALSE /\ adopted = FALSE /\ dbFailed = FALSE

Goto(p, step) == pc' = [pc EXCEPT ![p] = step]

-----------------------------------------------------------------------------
(***************************************************************************)
(* Setup and Close                                                         *)
(***************************************************************************)
\* Mutant: a stale server of the mode is left alone, as before the tear-down was added.
Lock_KeepsStale(p, step) ==
  /\ pc[p] = "idle" /\ mu = None
  /\ mu' = p /\ up' = FALSE
  /\ Goto(p, step)
  /\ UNCHANGED <<servers, changeMu, loaded, row, request, seen, promised, history>>

\* The lock is taken; a server of the mode is torn down first (closeGrpcServerLocked).
Lock(p, step) ==
  /\ pc[p] = "idle" /\ mu = None
  /\ mu' = p /\ up' = FALSE
  /\ Goto(p, IF grpcServer = None THEN step ELSE IF step = "start" THEN "restop" ELSE "stop")
  /\ UNCHANGED <<servers, changeMu, loaded, row, request, seen, promised, history>>

Setup(p) == Lock(p, "start")
Close(p) == Lock(p, "return")

\* Mutant: the listener is left to the goroutine that serves it.
StopServer_KeepsListener(p) ==
  /\ pc[p] \in {"restop", "stop"}
  /\ stopped' = stopped \cup {grpcServer}
  /\ late' = late \cup ({grpcServer} \cap pending)
  /\ serving' = serving \ {grpcServer}
  /\ Goto(p, IF pc[p] = "restop" THEN "redelete" ELSE "delete")
  /\ UNCHANGED <<mu, grpcServer, pending, listening, changeMu, loaded, row, request, seen, up, promised, history>>

\* server.Stop() closes the listener it serves; a server that does not serve yet will refuse.
StopServer(p) ==
  /\ pc[p] \in {"restop", "stop"}
  /\ stopped' = stopped \cup {grpcServer}
  /\ late' = late \cup ({grpcServer} \cap pending)
  /\ listening' = listening \ ({grpcServer} \cap serving)
  /\ serving' = serving \ {grpcServer}
  /\ Goto(p, IF pc[p] = "restop" THEN "redelete" ELSE "delete")
  /\ UNCHANGED <<mu, grpcServer, pending, changeMu, loaded, row, request, seen, up, promised, history>>

DeleteServer(p) ==
  /\ pc[p] \in {"redelete", "delete"}
  /\ grpcServer' = None
  /\ Goto(p, IF pc[p] = "redelete" THEN "start" ELSE "return")
  /\ UNCHANGED <<mu, stopped, listening, pending, serving, late, changeMu, loaded, row, request, seen, up,
                 promised, history>>

\* StartGrpcServerByMode: the port is free (IsPortInUse) and the server is put into the map;
\* one that is there is kept.  Setup in the mode OLD has no server.
StartServer(p) ==
  /\ pc[p] = "start" /\ listening = {}
  /\ IF grpcServer # None
     THEN Goto(p, "read") /\ UNCHANGED <<grpcServer, stopped>>
     ELSE /\ \E s \in Server \ pending : grpcServer' = s /\ stopped' = stopped \ {s}
          /\ Goto(p, "listen")
  /\ UNCHANGED <<mu, listening, pending, serving, late, changeMu, loaded, row, request, seen, up, promised, history>>

Listen(p) ==
  /\ pc[p] = "listen"
  /\ listening' = listening \cup {grpcServer} /\ pending' = pending \cup {grpcServer}
  /\ late' = late \ {grpcServer}
  /\ Goto(p, "read")
  /\ UNCHANGED <<mu, grpcServer, stopped, serving, changeMu, loaded, row, request, seen, up, promised, history>>

\* A port in use, a certificate, a listen that fails (the server stays in the map) or a panic
\* anywhere: the lock is released.
SetupFails(p) ==
  /\ pc[p] \in {"start", "listen", "read", "apply"}
  /\ mu' = None /\ Goto(p, "idle") /\ seen' = [seen EXCEPT ![p] = None]
  /\ UNCHANGED <<servers, changeMu, loaded, row, request, up, promised, history>>

Return(p) ==
  /\ pc[p] = "return"
  /\ mu' = None /\ Goto(p, "idle")
  /\ UNCHANGED <<servers, changeMu, loaded, row, request, seen, up, promised, history>>

\* The goroutine serves the listener of s with what the map holds now: nothing (a panic that
\* is recovered and leaves the listener open), a stopped server (which closes it), or s.
Serve(s) ==
  /\ s \in pending
  /\ pending' = pending \ {s}
  /\ listening' = IF grpcServer # None /\ grpcServer \in stopped THEN listening \ {s} ELSE listening
  /\ serving' = IF grpcServer # None /\ grpcServer \notin stopped THEN serving \cup {s} ELSE serving
  /\ UNCHANGED <<mu, grpcServer, stopped, late, changeMu, loaded, row, pc, request, seen, up, promised, history>>

-----------------------------------------------------------------------------
(***************************************************************************)
(* Settings                                                                *)
(***************************************************************************)
\* Setup reads the row, under mu only; a failing database reads like an absent row.
ReadRow(p) ==
  /\ pc[p] = "read"
  /\ \/ seen' = [seen EXCEPT ![p] = row] /\ UNCHANGED dbFailed
     \/ row # None /\ seen' = [seen EXCEPT ![p] = None] /\ dbFailed' = TRUE
  /\ Goto(p, "apply")
  /\ UNCHANGED <<mu, servers, changeMu, loaded, row, request, up, acked, explicit, history>>

\* ChangeInhiveSettings(row, insert = false): what is loaded is what is persistent.
ApplyRow(p) ==
  /\ pc[p] = "apply" /\ changeMu = None
  /\ LET o == Merge(Current, IF seen[p] = None THEN Nothing ELSE seen[p])
     IN options' = o /\ persistedLevel' = o.level
  /\ adopted' = (adopted \/ (seen[p] = None /\ Current.level # explicit))
  /\ mu' = None /\ up' = TRUE /\ Goto(p, "idle") /\ seen' = [seen EXCEPT ![p] = None]
  /\ UNCHANGED <<servers, changeMu, row, request, promised, raced>>

\* Only the level, from the filter of the log tab, and a verbose one: it stays in memory.
VerboseFilter(change) == change.field = None /\ change.level \in Verbose

\* A change between ReadRow and ApplyRow of a Setup.
Overtakes == raced \/ \E q \in Thread : pc[q] = "apply"

\* The first change of a process takes the persistent level from the options.
FirstLevel == IF persistedLevel = None THEN Current.level ELSE persistedLevel

\* Mutant: a change replaces all settings, the regression of 4.7.30.
Change_ReplaceAll(p) ==
  /\ pc[p] = "idle" /\ serving # {} /\ changeMu = None
  /\ \E change \in Changes :
       /\ options' = Merge(Default, change)
       /\ persistedLevel' = IF change.level # None /\ ~VerboseFilter(change)
                            THEN change.level ELSE FirstLevel
       /\ \/ (change = Nothing \/ VerboseFilter(change))
             /\ UNCHANGED <<changeMu, pc, request>>
          \/ ~VerboseFilter(change)
             /\ changeMu' = p /\ Goto(p, "store") /\ request' = [request EXCEPT ![p] = change]
  /\ raced' = (Overtakes \/ (options = None /\ row # None))
  /\ UNCHANGED <<mu, servers, row, seen, up, promised, adopted>>

\* The RPC ChangeInhiveSettings (insert = true), on a server that serves: the change is merged
\* into a copy and the copy published; an empty request stops there, `{}` is stored too ...
Change(p) ==
  /\ pc[p] = "idle" /\ serving # {} /\ changeMu = None
  /\ \E change \in Changes :
       /\ options' = Merge(Current, change)
       /\ persistedLevel' = IF change.level # None /\ ~VerboseFilter(change)
                            THEN change.level ELSE FirstLevel
       /\ \/ (change = Nothing \/ VerboseFilter(change))
             /\ UNCHANGED <<changeMu, pc, request>>
          \/ ~VerboseFilter(change)
             /\ changeMu' = p /\ Goto(p, "store") /\ request' = [request EXCEPT ![p] = change]
  /\ raced' = (Overtakes \/ (options = None /\ row # None))
  /\ UNCHANGED <<mu, servers, row, seen, up, promised, adopted>>

\* A change that cannot be parsed answers an error; the copy is dropped.
RejectChange(p) ==
  /\ pc[p] = "idle" /\ serving # {} /\ changeMu = None
  /\ persistedLevel' = FirstLevel
  /\ UNCHANGED <<mu, servers, changeMu, options, row, pc, request, seen, up, promised, history>>

\* ... and stored, except that an error of the database is ignored.
Store(p) ==
  /\ pc[p] = "store"
  /\ \/ row' = Stored(options, persistedLevel) /\ UNCHANGED dbFailed
     \/ dbFailed' = TRUE /\ UNCHANGED row
  /\ acked' = IF request[p].field = None THEN acked ELSE request[p].field
  /\ explicit' = IF request[p].level = None THEN explicit ELSE request[p].level
  /\ changeMu' = None /\ Goto(p, "idle") /\ request' = [request EXCEPT ![p] = Nothing]
  /\ raced' = Overtakes
  /\ UNCHANGED <<mu, servers, loaded, seen, up, adopted>>

-----------------------------------------------------------------------------
\* The process dies; the row stays.
Crash ==
  /\ mu' = None /\ grpcServer' = None /\ changeMu' = None
  /\ stopped' = {} /\ listening' = {} /\ pending' = {} /\ serving' = {} /\ late' = {}
  /\ options' = None /\ persistedLevel' = None
  /\ pc' = [p \in Thread |-> "idle"] /\ request' = [p \in Thread |-> Nothing]
  /\ seen' = [p \in Thread |-> None] /\ up' = FALSE
  /\ UNCHANGED <<row, promised, history>>

Next ==
  \/ \E p \in Thread : \/ Setup(p) \/ Close(p) \/ StopServer(p) \/ DeleteServer(p) \/ StartServer(p)
                       \/ Listen(p) \/ SetupFails(p) \/ Return(p) \/ ReadRow(p) \/ ApplyRow(p)
                       \/ Change(p) \/ RejectChange(p) \/ Store(p)
  \/ \E s \in Server : Serve(s)
  \/ Crash

Spec == Init /\ [][Next]_vars

-----------------------------------------------------------------------------
ServerTypes ==
  /\ mu \in Thread \cup {None} /\ changeMu \in Thread \cup {None}
  /\ grpcServer \in Server \cup {None}
  /\ stopped \subseteq Server /\ listening \subseteq Server /\ pending \subseteq Server
  /\ serving \subseteq Server /\ late \subseteq Server
  /\ pc \in [Thread -> {"idle", "restop", "redelete", "stop", "delete", "start", "listen",
                         "read", "apply", "return", "store"}]

SettingsTypes ==
  /\ options \in Settings \cup {None} /\ persistedLevel \in Levels \cup {None}
  /\ row \in Rows \cup {None}
  /\ request \in [Thread -> Changes] /\ seen \in [Thread -> Rows \cup {None}]
  /\ acked \in {"default", "zero", "other"} /\ explicit \in Levels

FlagTypes == up \in BOOLEAN /\ raced \in BOOLEAN /\ adopted \in BOOLEAN /\ dbFailed \in BOOLEAN

TypeOK == ServerTypes /\ SettingsTypes /\ FlagTypes

\* "Setup ALWAYS leaves a live server on this Mode, with no zombie" (grpc_server.go:54-55):
\* after a Setup that succeeded, and until the next call about the mode, the server in the map
\* is not stopped, its listener is open, and it serves or its goroutine is on its way to.
SetupLeavesLiveServer ==
  up => /\ grpcServer \in listening /\ grpcServer \notin stopped
        /\ grpcServer \in serving \cup pending

\* An open listener belongs to the server in the map, which the next Setup or Close closes
\* (grpc_server.go:328-330), except one whose server was stopped before its goroutine came to
\* serve it: that one is served by nobody and may never be closed.
PortIsOwned == listening \subseteq {grpcServer} \cup late

\* A field that was changed keeps the value across other changes, Setups and restarts, unless
\* a change got between the start of a server and the load, or the database failed; and a
\* zero value, which is not stored, may give way to the default (buildconfighelper.go:136-144).
FieldSurvives ==
  ~raced /\ ~dbFailed /\ changeMu = None /\ options # None =>
    \/ options.field = acked
    \/ acked = "zero" /\ options.field = "default"

\* "In any sequence of verbose filters and other settings the persistent level is the last
\* explicit one" (change_settings_test.go:188-189): so it is until a Setup that finds no row
\* takes over what the filter has set.
LevelIsExplicit ==
  ~raced /\ ~adopted /\ ~dbFailed /\ changeMu = None /\ row # None => row.level = explicit

\* What buildconfighelper.go:136-144 says: a partial change is merged over the current options,
\* and the full state is stored, never the defaults.
PartialKeepsOthers ==
  ~dbFailed /\ changeMu = None /\ row # None /\ acked = "other" => row.field = "other"

-----------------------------------------------------------------------------
(***************************************************************************)
(* The inductive invariants behind them.                                   *)
(***************************************************************************)
Locked == {"restop", "redelete", "stop", "delete", "start", "listen", "read", "apply", "return"}

MuInv ==
  /\ \A p \in Thread : pc[p] \in Locked => mu = p
  /\ \A p \in Thread : pc[p] = "store" => changeMu = p
  /\ up => mu = None

Live == /\ grpcServer \in listening /\ grpcServer \notin stopped
        /\ grpcServer \in serving \cup pending

\* What the holder of mu knows of the server at each step.
ServerInv ==
  /\ MuInv
  /\ PortIsOwned
  /\ grpcServer \in listening => grpcServer \in serving \cup pending
  /\ up => Live
  /\ \A p \in Thread :
       /\ pc[p] \in {"restop", "redelete", "stop", "delete"} => grpcServer # None
       /\ pc[p] \in {"redelete", "delete"} => listening \subseteq late
       /\ pc[p] = "start" => grpcServer = None
       /\ pc[p] = "listen" => grpcServer # None /\ grpcServer \notin stopped /\ listening = {}
       /\ pc[p] \in {"read", "apply"} => Live

Kept(f) == f = acked \/ (acked = "zero" /\ f = "default")

\* The row, the options and the change in progress agree on the field.
FieldInv ==
  /\ row = None => acked = "default"
  /\ row # None => IF row.field = None THEN acked = "zero" ELSE Kept(row.field)
  /\ changeMu = None /\ options # None => Kept(options.field)
  /\ \A p \in Thread : pc[p] = "store" =>
       /\ options # None
       /\ IF request[p].field = None THEN Kept(options.field) ELSE options.field = request[p].field
  /\ \A p \in Thread : pc[p] = "apply" => seen[p] = row

\* The row, the persistent level and the change in progress agree on the level.
LevelInv ==
  /\ row = None => explicit = Default.level
  /\ row # None => row.level = explicit
  /\ options # None => persistedLevel # None
  /\ changeMu = None /\ options # None => persistedLevel = explicit
  /\ options = None /\ persistedLevel # None => persistedLevel = Default.level
  /\ \A p \in Thread : pc[p] = "store" =>
       persistedLevel = IF request[p].level = None THEN explicit ELSE request[p].level
  /\ \A p \in Thread : pc[p] = "apply" => seen[p] = row

SettingsInv ==
  /\ MuInv
  /\ ~raced /\ ~dbFailed => FieldInv
  /\ ~raced /\ ~dbFailed /\ ~adopted => LevelInv
=============================================================================
