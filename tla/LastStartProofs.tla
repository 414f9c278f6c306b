--------------------------- MODULE LastStartProofs ---------------------------
\* Theorems about LastStart, for any sets of configurations, however often the process
\* crashes and the database fails.
EXTENDS LastStart, TLAPS

-----------------------------------------------------------------------------
\* Every variable keeps its type: the rows, the request and the cached name hold
\* configurations, the empty string or nothing, and a request that is being saved holds one.
THEOREM TypeCorrect == Spec => [](TypeOK /\ SavesSomething)
<1> USE LastStartAssumption DEF Config, Kinds
<1>1. Init => TypeOK /\ SavesSomething
  <2> SUFFICES ASSUME Init PROVE TypeOK /\ SavesSomething
    OBVIOUS
  <2>1. saveFailed \in BOOLEAN
    BY DEF Init
  <2>2. request \in Requests /\ last \in Requests /\ SavesSomething
    BY DEF Init, NoRequest, Requests, SavesSomething, SaveSteps
  <2>3. rows \in [path : Config \cup {Empty, Missing}, content : Config \cup {Empty, Missing},
                  name : Config \cup {Empty, Missing}]
    BY DEF Init
  <2> QED BY <2>1, <2>2, <2>3 DEF Init, TypeOK, Steps
<1>2. TypeOK /\ SavesSomething /\ [Next]_vars => (TypeOK /\ SavesSomething)'
  <2> SUFFICES ASSUME TypeOK, SavesSomething, [Next]_vars PROVE (TypeOK /\ SavesSomething)'
    OBVIOUS
  <2> USE DEF TypeOK, Steps, SavesSomething, SaveSteps, Effective
  <2>0. NoRequest \in Requests
    BY DEF NoRequest, Requests
  <2>00. Effective(request) # Empty => Effective(request) \in Config
    BY DEF Requests
  <2>1. CASE Start
    <3>1. \A c \in Config : Explicit(c) \subseteq Requests
      BY DEF Explicit, Requests
    <3> QED BY <2>0, <2>1, <3>1 DEF Start
  <2>2. CASE LoadLastStart
    BY <2>2 DEF LoadLastStart, Requests
  <2>3. CASE LoadFails
    BY <2>0, <2>3 DEF LoadFails, Fail
  <2>4. CASE KeepRequest
    BY <2>4 DEF KeepRequest
  <2>5. CASE CacheName
    BY <2>5 DEF CacheName, Requests
  <2>6. CASE Build
    BY <2>0, <2>6 DEF Build, Fail
  <2>7. CASE SavePath
    BY <2>0, <2>7, <2>00 DEF SavePath, Requests
  <2>8. CASE SaveContent
    BY <2>8 DEF SaveContent, Requests
  <2>9. CASE SaveName
    BY <2>9, <2>00 DEF SaveName, Requests
  <2>10. CASE SaveFails
    BY <2>10 DEF SaveFails
  <2>11. CASE NewService
    BY <2>0, <2>11 DEF NewService, Fail
  <2>12. CASE Stop
    BY <2>0, <2>12 DEF Stop
  <2>13. CASE Crash
    BY <2>0, <2>13 DEF Crash
  <2>14. CASE ReadName
    BY <2>14 DEF ReadName
  <2>15. CASE UNCHANGED vars
    BY <2>15 DEF vars
  <2> QED BY <2>1, <2>2, <2>3, <2>4, <2>5, <2>6, <2>7, <2>8, <2>9, <2>10, <2>11, <2>12, <2>13,
             <2>14, <2>15 DEF Next
<1> QED BY <1>1, <1>2, PTL DEF Spec
-----------------------------------------------------------------------------
\* A ping-only configuration is never replayed (saveLastStartRequest, start.go:82-104).
THEOREM PingNeverReplayed == Spec => []NoPingReplayed
<1> USE LastStartAssumption DEF Config, Kinds
<1>1. Init => PingInv
  BY DEF Init, NoRequest, PingInv, SaveSteps
<1>2. TypeOK /\ SavesSomething /\ PingInv /\ [Next]_vars => PingInv'
  <2> SUFFICES ASSUME TypeOK, SavesSomething, PingInv, [Next]_vars PROVE PingInv'
    OBVIOUS
  <2> USE DEF TypeOK, SavesSomething, PingInv, SaveSteps, Effective
  <2>1. CASE Start
    BY <2>1 DEF Start, Explicit, NoRequest, Requests
  <2>2. CASE LoadLastStart
    BY <2>2 DEF LoadLastStart, Requests
  <2>3. CASE LoadFails
    BY <2>3 DEF LoadFails, Fail, NoRequest, Requests
  <2>4. CASE KeepRequest
    BY <2>4 DEF KeepRequest, Requests
  <2>5. CASE CacheName
    BY <2>5 DEF CacheName, Requests
  <2>6. CASE Build
    BY <2>6 DEF Build, Fail, NoRequest, Requests
  <2>7. CASE SavePath
    BY <2>7 DEF SavePath, Requests
  <2>8. CASE SaveContent
    BY <2>8 DEF SaveContent, Requests
  <2>9. CASE SaveName
    BY <2>9 DEF SaveName, Requests
  <2>10. CASE SaveFails
    BY <2>10 DEF SaveFails, Requests
  <2>11. CASE NewService
    BY <2>11 DEF NewService, Fail, NoRequest, Requests
  <2>12. CASE Stop
    BY <2>12 DEF Stop, NoRequest, Requests
  <2>13. CASE Crash
    BY <2>13 DEF Crash, NoRequest, Requests
  <2>14. CASE ReadName
    BY <2>14 DEF ReadName
  <2>15. CASE UNCHANGED vars
    BY <2>15 DEF vars
  <2> QED BY <2>1, <2>2, <2>3, <2>4, <2>5, <2>6, <2>7,
             <2>8, <2>9, <2>10, <2>11, <2>12, <2>13, <2>14, <2>15 DEF Next
<1>3. TypeOK /\ PingInv => NoPingReplayed
  BY DEF TypeOK, PingInv, NoPingReplayed, Effective, Requests
<1> QED BY <1>1, <1>2, <1>3, TypeCorrect, PTL DEF Spec

-----------------------------------------------------------------------------
\* Whatever failed or crashed half-way, a replay runs a configuration that is not older than
\* the last complete save, or none (start.go:89-136).
THEOREM ReplayIsFresh == Spec => []ReplayIsNotStale
<1> USE LastStartAssumption DEF Config, Kinds
<1>1. Init => FreshInv
  BY DEF Init, NoRequest, FreshInv, ReplayIsNotStale, Effective
<1>2. TypeOK /\ SavesSomething /\ FreshInv /\ [Next]_vars => FreshInv'
  <2> SUFFICES ASSUME TypeOK, SavesSomething, FreshInv, [Next]_vars PROVE FreshInv'
    OBVIOUS
  <2> USE DEF TypeOK, SavesSomething, FreshInv, ReplayIsNotStale, SaveSteps, Effective
  <2>1. CASE Start
    BY <2>1 DEF Start, Explicit, NoRequest, Requests
  <2>2. CASE LoadLastStart
    BY <2>2 DEF LoadLastStart, Requests
  <2>3. CASE LoadFails
    BY <2>3 DEF LoadFails, Fail, NoRequest, Requests
  <2>4. CASE KeepRequest
    BY <2>4 DEF KeepRequest, Requests
  <2>5. CASE CacheName
    BY <2>5 DEF CacheName, Requests
  <2>6. CASE Build
    BY <2>6 DEF Build, Fail, NoRequest, Requests
  <2>7. CASE SavePath
    BY <2>7 DEF SavePath, Requests
  <2>8. CASE SaveContent
    BY <2>8 DEF SaveContent, Requests
  <2>9. CASE SaveName
    BY <2>9 DEF SaveName, Requests
  <2>10. CASE SaveFails
    BY <2>10 DEF SaveFails, Requests
  <2>11. CASE NewService
    BY <2>11 DEF NewService, Fail, NoRequest, Requests
  <2>12. CASE Stop
    BY <2>12 DEF Stop, NoRequest, Requests
  <2>13. CASE Crash
    BY <2>13 DEF Crash, NoRequest, Requests
  <2>14. CASE ReadName
    BY <2>14 DEF ReadName
  <2>15. CASE UNCHANGED vars
    BY <2>15 DEF vars
  <2> QED BY <2>1, <2>2, <2>3, <2>4, <2>5, <2>6, <2>7,
             <2>8, <2>9, <2>10, <2>11, <2>12, <2>13, <2>14, <2>15 DEF Next
<1>3. FreshInv => ReplayIsNotStale
  BY DEF FreshInv
<1> QED BY <1>1, <1>2, <1>3, TypeCorrect, PTL DEF Spec

-----------------------------------------------------------------------------
\* Unless its save failed, a running connect start is what the next replay runs, crashes
\* of earlier saves notwithstanding (start.go:182, start_ping_only_test.go:86-87).
THEOREM ConnectIsReplayable == Spec => []StartedIsReplayable
<1> USE LastStartAssumption DEF Config, Kinds
<1>1. Init => SavedInv
  BY DEF Init, NoRequest, SavedInv, SaveSteps
<1>2. TypeOK /\ SavesSomething /\ SavedInv /\ [Next]_vars => SavedInv'
  <2> SUFFICES ASSUME TypeOK, SavesSomething, SavedInv, [Next]_vars PROVE SavedInv'
    OBVIOUS
  <2> USE DEF TypeOK, SavesSomething, SavedInv, SaveSteps, Effective
  <2>1. CASE Start
    BY <2>1 DEF Start, Explicit, NoRequest, Requests
  <2>2. CASE LoadLastStart
    BY <2>2 DEF LoadLastStart, Requests
  <2>3. CASE LoadFails
    BY <2>3 DEF LoadFails, Fail, NoRequest, Requests
  <2>4. CASE KeepRequest
    BY <2>4 DEF KeepRequest, Requests
  <2>5. CASE CacheName
    BY <2>5 DEF CacheName, Requests
  <2>6. CASE Build
    BY <2>6 DEF Build, Fail, NoRequest, Requests
  <2>7. CASE SavePath
    BY <2>7 DEF SavePath, Requests
  <2>8. CASE SaveContent
    BY <2>8 DEF SaveContent, Requests
  <2>9. CASE SaveName
    BY <2>9 DEF SaveName, Requests
  <2>10. CASE SaveFails
    BY <2>10 DEF SaveFails, Requests
  <2>11. CASE NewService
    BY <2>11 DEF NewService, Fail, NoRequest, Requests
  <2>12. CASE Stop
    BY <2>12 DEF Stop, NoRequest, Requests
  <2>13. CASE Crash
    BY <2>13 DEF Crash, NoRequest, Requests
  <2>14. CASE ReadName
    BY <2>14 DEF ReadName
  <2>15. CASE UNCHANGED vars
    BY <2>15 DEF vars
  <2> QED BY <2>1, <2>2, <2>3, <2>4, <2>5, <2>6, <2>7,
             <2>8, <2>9, <2>10, <2>11, <2>12, <2>13, <2>14, <2>15 DEF Next
<1>3. TypeOK /\ SavedInv => StartedIsReplayable
  BY DEF TypeOK, SavedInv, StartedIsReplayable, Replayable, Effective, Requests
<1> QED BY <1>1, <1>2, <1>3, TypeCorrect, PTL DEF Spec

-----------------------------------------------------------------------------
\* The name the app shows for a running core is that of the profile that runs, or empty; a
\* replay runs and shows the start that was saved last, unless another start's save was cut
\* short since (start.go:171-174).
THEOREM NameIsShown == Spec => []ShownNameIsRunning
<1> USE LastStartAssumption DEF Config, Kinds
<1>1. Init => NameInv
  BY DEF Init, NoRequest, NameInv, SaveSteps, Effective
<1>2. TypeOK /\ SavesSomething /\ NameInv /\ [Next]_vars => NameInv'
  <2> SUFFICES ASSUME TypeOK, SavesSomething, NameInv, [Next]_vars PROVE NameInv'
    OBVIOUS
  <2> USE DEF TypeOK, SavesSomething, NameInv, SaveSteps, Effective, Rows
  <2>1. CASE Start
    BY <2>1 DEF Start, Explicit, NoRequest, Requests
  <2>2. CASE LoadLastStart
    BY <2>2 DEF LoadLastStart, Requests
  <2>3. CASE LoadFails
    BY <2>3 DEF LoadFails, Fail, NoRequest, Requests
  <2>4. CASE KeepRequest
    BY <2>4 DEF KeepRequest, Requests
  <2>5. CASE CacheName
    BY <2>5 DEF CacheName, Requests
  <2>6. CASE Build
    BY <2>6 DEF Build, Fail, NoRequest, Requests
  <2>7. CASE SavePath
    BY <2>7 DEF SavePath, NoRequest, Requests
  <2>8. CASE SaveContent
    BY <2>8 DEF SaveContent, NoRequest, Requests
  <2>9. CASE SaveName
    BY <2>9 DEF SaveName, NoRequest, Requests
  <2>10. CASE SaveFails
    BY <2>10 DEF SaveFails, Requests
  <2>11. CASE NewService
    BY <2>11 DEF NewService, Fail, NoRequest, Requests
  <2>12. CASE Stop
    BY <2>12 DEF Stop, NoRequest, Requests
  <2>13. CASE Crash
    BY <2>13 DEF Crash, NoRequest, Requests
  <2>14. CASE ReadName
    BY <2>14 DEF ReadName, Requests
  <2>15. CASE UNCHANGED vars
    BY <2>15 DEF vars
  <2> QED BY <2>1, <2>2, <2>3, <2>4, <2>5, <2>6, <2>7,
             <2>8, <2>9, <2>10, <2>11, <2>12, <2>13, <2>14, <2>15 DEF Next
<1>3. TypeOK /\ NameInv => ShownNameIsRunning
  <2> SUFFICES ASSUME TypeOK, NameInv, CoreState = "STARTED",
                      request.kind = "replay" => last # NoRequest
               PROVE  /\ cachedName \in {Empty, Effective(request)}
                      /\ request.kind = "replay" =>
                           Effective(request) = Effective(last) /\ cachedName = last.name
    BY DEF ShownNameIsRunning
  <2>1. CASE request.kind = "replay"
    BY <2>1 DEF TypeOK, NameInv, Rows, Effective, Requests
  <2>2. CASE request.kind # "replay"
    BY <2>2 DEF TypeOK, NameInv, Effective, Requests
  <2> QED BY <2>1, <2>2
<1> QED BY <1>1, <1>2, <1>3, TypeCorrect, PTL DEF Spec
=============================================================================
