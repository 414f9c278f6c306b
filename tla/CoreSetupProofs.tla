---------------------------- MODULE CoreSetupProofs ----------------------------
(***************************************************************************)
(* Theorems about CoreSetup, for any number of threads and of servers.     *)
(* The holder of mu knows the state of the server at each of its steps,    *)
(* and the holder of changeMu what its change has made of the settings;    *)
(* what is left of both when the locks are released are the properties.    *)
(***************************************************************************)
EXTENDS CoreSetup, TLAPS

\* A change that is to be stored has set the options and the persistent level.
Storing == \A p \in Thread : pc[p] = "store" => options # None /\ persistedLevel # None

LEMMA ServerTypesStep == ServerTypes /\ ServerInv /\ [Next]_vars => ServerTypes'
<1> SUFFICES ASSUME ServerTypes, ServerInv, [Next]_vars PROVE ServerTypes'
  OBVIOUS
<1> USE SetupAssumption DEF ServerTypes, servers, loaded, promised, history, Goto
<1>1. ASSUME NEW p \in Thread, Setup(p) PROVE ServerTypes' BY <1>1 DEF Setup, Lock
<1>2. ASSUME NEW p \in Thread, Close(p) PROVE ServerTypes' BY <1>2 DEF Close, Lock
<1>3. ASSUME NEW p \in Thread, StopServer(p) PROVE ServerTypes'
  <2>1. grpcServer \in Server
    BY <1>3 DEF ServerInv, StopServer
  <2> QED BY <1>3, <2>1 DEF StopServer
<1>4. ASSUME NEW p \in Thread, DeleteServer(p) PROVE ServerTypes' BY <1>4 DEF DeleteServer
<1>5. ASSUME NEW p \in Thread, StartServer(p) PROVE ServerTypes' BY <1>5 DEF StartServer
<1>6. ASSUME NEW p \in Thread, Listen(p) PROVE ServerTypes'
  <2>1. grpcServer \in Server
    BY <1>6 DEF ServerInv, Listen
  <2> QED BY <1>6, <2>1 DEF Listen
<1>7. ASSUME NEW p \in Thread, SetupFails(p) PROVE ServerTypes' BY <1>7 DEF SetupFails
<1>8. ASSUME NEW p \in Thread, Return(p) PROVE ServerTypes' BY <1>8 DEF Return
<1>9. ASSUME NEW p \in Thread, ReadRow(p) PROVE ServerTypes' BY <1>9 DEF ReadRow
<1>10. ASSUME NEW p \in Thread, ApplyRow(p) PROVE ServerTypes' BY <1>10 DEF ApplyRow
<1>11. ASSUME NEW p \in Thread, Change(p) PROVE ServerTypes' BY <1>11 DEF Change
<1>12. ASSUME NEW p \in Thread, Store(p) PROVE ServerTypes' BY <1>12 DEF Store
<1>13. ASSUME NEW p \in Thread, RejectChange(p) PROVE ServerTypes' BY <1>13 DEF RejectChange
<1>14. ASSUME NEW s \in Server, Serve(s) PROVE ServerTypes' BY <1>14 DEF Serve
<1>15. CASE Crash BY <1>15 DEF Crash
<1>16. CASE UNCHANGED vars BY <1>16 DEF vars
<1> QED
  BY <1>1, <1>2, <1>3, <1>4, <1>5, <1>6, <1>7, <1>8,
     <1>9, <1>10, <1>11, <1>12, <1>13, <1>14, <1>15, <1>16 DEF Next

LEMMA SettingsTypesStep == SettingsTypes /\ Storing /\ [Next]_vars => SettingsTypes'
<1> SUFFICES ASSUME SettingsTypes, Storing, [Next]_vars PROVE SettingsTypes'
  OBVIOUS
<1> USE SetupAssumption DEF SettingsTypes, servers, loaded, promised, history, Goto,
                              Settings, Levels, Verbose, Default, Rows, Changes, Nothing, Current, Merge,
                              Stored, VerboseFilter, FirstLevel
<1>1. ASSUME NEW p \in Thread, Setup(p) PROVE SettingsTypes' BY <1>1 DEF Setup, Lock
<1>2. ASSUME NEW p \in Thread, Close(p) PROVE SettingsTypes' BY <1>2 DEF Close, Lock
<1>3. ASSUME NEW p \in Thread, StopServer(p) PROVE SettingsTypes' BY <1>3 DEF StopServer
<1>4. ASSUME NEW p \in Thread, DeleteServer(p) PROVE SettingsTypes' BY <1>4 DEF DeleteServer
<1>5. ASSUME NEW p \in Thread, StartServer(p) PROVE SettingsTypes' BY <1>5 DEF StartServer
<1>6. ASSUME NEW p \in Thread, Listen(p) PROVE SettingsTypes' BY <1>6 DEF Listen
<1>7. ASSUME NEW p \in Thread, SetupFails(p) PROVE SettingsTypes' BY <1>7 DEF SetupFails
<1>8. ASSUME NEW p \in Thread, Return(p) PROVE SettingsTypes' BY <1>8 DEF Return
<1>9. ASSUME NEW p \in Thread, ReadRow(p) PROVE SettingsTypes' BY <1>9 DEF ReadRow
<1>10. ASSUME NEW p \in Thread, ApplyRow(p) PROVE SettingsTypes' BY <1>10 DEF ApplyRow
<1>11. ASSUME NEW p \in Thread, Change(p) PROVE SettingsTypes' BY <1>11 DEF Change
<1>12. ASSUME NEW p \in Thread, Store(p) PROVE SettingsTypes'
  <2>1. options \in Settings /\ persistedLevel \in Levels
    BY <1>12 DEF Storing, Store
  <2>2. Stored(options, persistedLevel) \in Rows
    BY <2>1
  <2>3. row' \in Rows \cup {None}
    BY <1>12, <2>2 DEF Store
  <2>4. acked' \in {"default", "zero", "other"} /\ explicit' \in Levels
    BY <1>12 DEF Store
  <2>5. request' \in [Thread -> Changes]
    BY <1>12 DEF Store
  <2> QED BY <1>12, <2>3, <2>4, <2>5 DEF Store
<1>13. ASSUME NEW p \in Thread, RejectChange(p) PROVE SettingsTypes' BY <1>13 DEF RejectChange
<1>14. ASSUME NEW s \in Server, Serve(s) PROVE SettingsTypes' BY <1>14 DEF Serve
<1>15. CASE Crash BY <1>15 DEF Crash
<1>16. CASE UNCHANGED vars BY <1>16 DEF vars
<1> QED
  BY <1>1, <1>2, <1>3, <1>4, <1>5, <1>6, <1>7, <1>8,
     <1>9, <1>10, <1>11, <1>12, <1>13, <1>14, <1>15, <1>16 DEF Next

LEMMA FlagTypesStep == FlagTypes /\ [Next]_vars => FlagTypes'
<1> SUFFICES ASSUME FlagTypes, [Next]_vars PROVE FlagTypes'
  OBVIOUS
<1> USE SetupAssumption DEF FlagTypes, Overtakes, servers, loaded, promised, history, Goto
<1>1. ASSUME NEW p \in Thread, Setup(p) PROVE FlagTypes' BY <1>1 DEF Setup, Lock
<1>2. ASSUME NEW p \in Thread, Close(p) PROVE FlagTypes' BY <1>2 DEF Close, Lock
<1>3. ASSUME NEW p \in Thread, StopServer(p) PROVE FlagTypes' BY <1>3 DEF StopServer
<1>4. ASSUME NEW p \in Thread, DeleteServer(p) PROVE FlagTypes' BY <1>4 DEF DeleteServer
<1>5. ASSUME NEW p \in Thread, StartServer(p) PROVE FlagTypes' BY <1>5 DEF StartServer
<1>6. ASSUME NEW p \in Thread, Listen(p) PROVE FlagTypes' BY <1>6 DEF Listen
<1>7. ASSUME NEW p \in Thread, SetupFails(p) PROVE FlagTypes' BY <1>7 DEF SetupFails
<1>8. ASSUME NEW p \in Thread, Return(p) PROVE FlagTypes' BY <1>8 DEF Return
<1>9. ASSUME NEW p \in Thread, ReadRow(p) PROVE FlagTypes' BY <1>9 DEF ReadRow
<1>10. ASSUME NEW p \in Thread, ApplyRow(p) PROVE FlagTypes' BY <1>10 DEF ApplyRow
<1>11. ASSUME NEW p \in Thread, Change(p) PROVE FlagTypes' BY <1>11 DEF Change
<1>12. ASSUME NEW p \in Thread, Store(p) PROVE FlagTypes' BY <1>12 DEF Store
<1>13. ASSUME NEW p \in Thread, RejectChange(p) PROVE FlagTypes' BY <1>13 DEF RejectChange
<1>14. ASSUME NEW s \in Server, Serve(s) PROVE FlagTypes' BY <1>14 DEF Serve
<1>15. CASE Crash BY <1>15 DEF Crash
<1>16. CASE UNCHANGED vars BY <1>16 DEF vars
<1> QED
  BY <1>1, <1>2, <1>3, <1>4, <1>5, <1>6, <1>7, <1>8,
     <1>9, <1>10, <1>11, <1>12, <1>13, <1>14, <1>15, <1>16 DEF Next

LEMMA StoringStep == ServerTypes /\ SettingsTypes /\ Storing /\ [Next]_vars => Storing'
<1> SUFFICES ASSUME ServerTypes, SettingsTypes, Storing, [Next]_vars PROVE Storing'
  OBVIOUS
<1> USE SetupAssumption DEF Storing, ServerTypes, SettingsTypes, servers, loaded, promised, history, Goto,
                              Settings, Levels, Verbose, Default, Rows, Changes, Nothing, Current, Merge,
                              Stored, VerboseFilter, FirstLevel
<1>1. ASSUME NEW p \in Thread, Setup(p) PROVE Storing' BY <1>1 DEF Setup, Lock
<1>2. ASSUME NEW p \in Thread, Close(p) PROVE Storing' BY <1>2 DEF Close, Lock
<1>3. ASSUME NEW p \in Thread, StopServer(p) PROVE Storing' BY <1>3 DEF StopServer
<1>4. ASSUME NEW p \in Thread, DeleteServer(p) PROVE Storing' BY <1>4 DEF DeleteServer
<1>5. ASSUME NEW p \in Thread, StartServer(p) PROVE Storing' BY <1>5 DEF StartServer
<1>6. ASSUME NEW p \in Thread, Listen(p) PROVE Storing' BY <1>6 DEF Listen
<1>7. ASSUME NEW p \in Thread, SetupFails(p) PROVE Storing' BY <1>7 DEF SetupFails
<1>8. ASSUME NEW p \in Thread, Return(p) PROVE Storing' BY <1>8 DEF Return
<1>9. ASSUME NEW p \in Thread, ReadRow(p) PROVE Storing' BY <1>9 DEF ReadRow
<1>10. ASSUME NEW p \in Thread, ApplyRow(p) PROVE Storing' BY <1>10 DEF ApplyRow
<1>11. ASSUME NEW p \in Thread, Change(p) PROVE Storing' BY <1>11 DEF Change
<1>12. ASSUME NEW p \in Thread, Store(p) PROVE Storing' BY <1>12 DEF Store
<1>13. ASSUME NEW p \in Thread, RejectChange(p) PROVE Storing' BY <1>13 DEF RejectChange
<1>14. ASSUME NEW s \in Server, Serve(s) PROVE Storing' BY <1>14 DEF Serve
<1>15. CASE Crash BY <1>15 DEF Crash
<1>16. CASE UNCHANGED vars BY <1>16 DEF vars
<1> QED
  BY <1>1, <1>2, <1>3, <1>4, <1>5, <1>6, <1>7, <1>8,
     <1>9, <1>10, <1>11, <1>12, <1>13, <1>14, <1>15, <1>16 DEF Next

LEMMA MuStep == ServerTypes /\ FlagTypes /\ MuInv /\ [Next]_vars => MuInv'
<1> SUFFICES ASSUME ServerTypes, FlagTypes, MuInv, [Next]_vars PROVE MuInv'
  OBVIOUS
<1> USE SetupAssumption DEF MuInv, ServerTypes, FlagTypes, Locked, servers, loaded, promised, history, Goto
<1>1. ASSUME NEW p \in Thread, Setup(p) PROVE MuInv' BY <1>1 DEF Setup, Lock
<1>2. ASSUME NEW p \in Thread, Close(p) PROVE MuInv' BY <1>2 DEF Close, Lock
<1>3. ASSUME NEW p \in Thread, StopServer(p) PROVE MuInv' BY <1>3 DEF StopServer
<1>4. ASSUME NEW p \in Thread, DeleteServer(p) PROVE MuInv' BY <1>4 DEF DeleteServer
<1>5. ASSUME NEW p \in Thread, StartServer(p) PROVE MuInv' BY <1>5 DEF StartServer
<1>6. ASSUME NEW p \in Thread, Listen(p) PROVE MuInv' BY <1>6 DEF Listen
<1>7. ASSUME NEW p \in Thread, SetupFails(p) PROVE MuInv' BY <1>7 DEF SetupFails
<1>8. ASSUME NEW p \in Thread, Return(p) PROVE MuInv' BY <1>8 DEF Return
<1>9. ASSUME NEW p \in Thread, ReadRow(p) PROVE MuInv' BY <1>9 DEF ReadRow
<1>10. ASSUME NEW p \in Thread, ApplyRow(p) PROVE MuInv' BY <1>10 DEF ApplyRow
<1>11. ASSUME NEW p \in Thread, Change(p) PROVE MuInv' BY <1>11 DEF Change
<1>12. ASSUME NEW p \in Thread, Store(p) PROVE MuInv' BY <1>12 DEF Store
<1>13. ASSUME NEW p \in Thread, RejectChange(p) PROVE MuInv' BY <1>13 DEF RejectChange
<1>14. ASSUME NEW s \in Server, Serve(s) PROVE MuInv' BY <1>14 DEF Serve
<1>15. CASE Crash BY <1>15 DEF Crash
<1>16. CASE UNCHANGED vars BY <1>16 DEF vars
<1> QED
  BY <1>1, <1>2, <1>3, <1>4, <1>5, <1>6, <1>7, <1>8,
     <1>9, <1>10, <1>11, <1>12, <1>13, <1>14, <1>15, <1>16 DEF Next

LEMMA ServerInvStep == ServerTypes /\ FlagTypes /\ ServerInv /\ [Next]_vars => ServerInv'
<1> SUFFICES ASSUME ServerTypes, FlagTypes, ServerInv, [Next]_vars PROVE ServerInv'
  OBVIOUS
<1> USE SetupAssumption DEF ServerInv, MuInv, PortIsOwned, Live, Locked, ServerTypes, FlagTypes,
                              servers, loaded, promised, history, Goto
<1>1. ASSUME NEW p \in Thread, Setup(p) PROVE ServerInv' BY <1>1 DEF Setup, Lock
<1>2. ASSUME NEW p \in Thread, Close(p) PROVE ServerInv' BY <1>2 DEF Close, Lock
<1>3. ASSUME NEW p \in Thread, StopServer(p) PROVE ServerInv' BY <1>3 DEF StopServer
<1>4. ASSUME NEW p \in Thread, DeleteServer(p) PROVE ServerInv' BY <1>4 DEF DeleteServer
<1>5. ASSUME NEW p \in Thread, StartServer(p) PROVE ServerInv' BY <1>5 DEF StartServer
<1>6. ASSUME NEW p \in Thread, Listen(p) PROVE ServerInv' BY <1>6 DEF Listen
<1>7. ASSUME NEW p \in Thread, SetupFails(p) PROVE ServerInv' BY <1>7 DEF SetupFails
<1>8. ASSUME NEW p \in Thread, Return(p) PROVE ServerInv' BY <1>8 DEF Return
<1>9. ASSUME NEW p \in Thread, ReadRow(p) PROVE ServerInv' BY <1>9 DEF ReadRow
<1>10. ASSUME NEW p \in Thread, ApplyRow(p) PROVE ServerInv' BY <1>10 DEF ApplyRow
<1>11. ASSUME NEW p \in Thread, Change(p) PROVE ServerInv' BY <1>11 DEF Change
<1>12. ASSUME NEW p \in Thread, Store(p) PROVE ServerInv' BY <1>12 DEF Store
<1>13. ASSUME NEW p \in Thread, RejectChange(p) PROVE ServerInv' BY <1>13 DEF RejectChange
<1>14. ASSUME NEW s \in Server, Serve(s) PROVE ServerInv' BY <1>14 DEF Serve
<1>15. CASE Crash BY <1>15 DEF Crash
<1>16. CASE UNCHANGED vars BY <1>16 DEF vars
<1> QED
  BY <1>1, <1>2, <1>3, <1>4, <1>5, <1>6, <1>7, <1>8,
     <1>9, <1>10, <1>11, <1>12, <1>13, <1>14, <1>15, <1>16 DEF Next

\* The two halves of SettingsInv, each as long as its exceptions did not occur.
FieldPart == ~raced /\ ~dbFailed => FieldInv
LevelPart == ~raced /\ ~dbFailed /\ ~adopted => LevelInv

LEMMA FieldStep == TypeOK /\ Storing /\ MuInv /\ FieldPart /\ [Next]_vars => FieldPart'
<1> SUFFICES ASSUME TypeOK, Storing, MuInv, FieldPart, [Next]_vars PROVE FieldPart'
  OBVIOUS
<1> USE SetupAssumption DEF FieldPart, FieldInv, MuInv, Locked, Kept, Overtakes, TypeOK, ServerTypes,
                              SettingsTypes, FlagTypes, Storing, servers, loaded, promised, history, Goto,
                              Settings, Levels, Verbose, Default, Rows, Changes, Nothing, Current, Merge,
                              Stored, VerboseFilter, FirstLevel
<1>1. ASSUME NEW p \in Thread, Setup(p) PROVE FieldPart' BY <1>1 DEF Setup, Lock
<1>2. ASSUME NEW p \in Thread, Close(p) PROVE FieldPart' BY <1>2 DEF Close, Lock
<1>3. ASSUME NEW p \in Thread, StopServer(p) PROVE FieldPart' BY <1>3 DEF StopServer
<1>4. ASSUME NEW p \in Thread, DeleteServer(p) PROVE FieldPart' BY <1>4 DEF DeleteServer
<1>5. ASSUME NEW p \in Thread, StartServer(p) PROVE FieldPart' BY <1>5 DEF StartServer
<1>6. ASSUME NEW p \in Thread, Listen(p) PROVE FieldPart' BY <1>6 DEF Listen
<1>7. ASSUME NEW p \in Thread, SetupFails(p) PROVE FieldPart' BY <1>7 DEF SetupFails
<1>8. ASSUME NEW p \in Thread, Return(p) PROVE FieldPart' BY <1>8 DEF Return
<1>9. ASSUME NEW p \in Thread, ReadRow(p) PROVE FieldPart' BY <1>9 DEF ReadRow
<1>10. ASSUME NEW p \in Thread, ApplyRow(p) PROVE FieldPart' BY <1>10 DEF ApplyRow
<1>11. ASSUME NEW p \in Thread, Change(p) PROVE FieldPart'
  <2> SUFFICES ASSUME ~raced', ~dbFailed' PROVE FieldInv'
    BY DEF FieldPart
  <2>1. PICK change \in Changes :
          /\ options' = Merge(Current, change)
          /\ persistedLevel' = IF change.level # None /\ ~VerboseFilter(change)
                               THEN change.level ELSE FirstLevel
          /\ \/ (change = Nothing \/ VerboseFilter(change))
                /\ UNCHANGED <<changeMu, pc, request>>
             \/ ~VerboseFilter(change)
                /\ changeMu' = p /\ Goto(p, "store") /\ request' = [request EXCEPT ![p] = change]
    BY <1>11 DEF Change
  <2>2. /\ changeMu = None /\ row' = row /\ acked' = acked /\ explicit' = explicit /\ seen' = seen
        /\ ~raced /\ ~dbFailed /\ FieldInv /\ (options = None => row = None)
        /\ \A q \in Thread : pc[q] # "apply" /\ pc[q] # "store"
    <3>1. changeMu = None /\ row' = row /\ acked' = acked /\ explicit' = explicit /\ seen' = seen
      BY <1>11 DEF Change
    <3>2. ~raced /\ ~dbFailed /\ (options = None => row = None) /\ \A q \in Thread : pc[q] # "apply"
      BY <1>11 DEF Change
    <3> QED BY <3>1, <3>2 DEF FieldPart
  <2>3. Current \in Settings /\ options' \in Settings
    BY <2>1
  <2>4. options'.field = (IF change.field = None THEN Current.field ELSE change.field) /\ options' # None
    BY <2>1, <2>3
  <2>5. Kept(Current.field)
    BY <2>2
  <2>6. CASE (change = Nothing \/ VerboseFilter(change)) /\ UNCHANGED <<changeMu, pc, request>>
    BY <2>1, <2>2, <2>4, <2>5, <2>6
  <2>7. CASE ~VerboseFilter(change) /\ changeMu' = p /\ Goto(p, "store")
               /\ request' = [request EXCEPT ![p] = change]
    BY <2>1, <2>2, <2>4, <2>5, <2>7
  <2> QED BY <2>1, <2>6, <2>7
<1>12. ASSUME NEW p \in Thread, Store(p) PROVE FieldPart'
  <2> SUFFICES ASSUME ~raced', ~dbFailed' PROVE FieldInv'
    BY DEF FieldPart
  <2>1. ~raced /\ ~dbFailed /\ FieldInv /\ (\A q \in Thread : pc[q] # "apply")
    BY <1>12 DEF Store
  <2>2. /\ row' = Stored(options, persistedLevel) /\ options' = options /\ seen' = seen
        /\ options \in Settings /\ persistedLevel \in Levels
        /\ acked' = IF request[p].field = None THEN acked ELSE request[p].field
        /\ pc[p] = "store" /\ changeMu = p /\ pc' = [pc EXCEPT ![p] = "idle"]
    BY <1>12 DEF Store
  <2>3. IF request[p].field = None THEN Kept(options.field) ELSE options.field = request[p].field
    BY <2>1, <2>2
  <2>4. Kept(options.field)'
    BY <2>2, <2>3
  <2>5. row'.field = IF options.field = "zero" THEN None ELSE options.field
    BY <2>2
  <2>6. row' # None /\ options' # None
    BY <2>2
  <2>7. \A q \in Thread : pc'[q] \notin {"store", "apply"}
    BY <2>1, <2>2
  <2> QED BY <2>2, <2>4, <2>5, <2>6, <2>7
<1>13. ASSUME NEW p \in Thread, RejectChange(p) PROVE FieldPart' BY <1>13 DEF RejectChange
<1>14. ASSUME NEW s \in Server, Serve(s) PROVE FieldPart' BY <1>14 DEF Serve
<1>15. CASE Crash BY <1>15 DEF Crash
<1>16. CASE UNCHANGED vars BY <1>16 DEF vars
<1> QED
  BY <1>1, <1>2, <1>3, <1>4, <1>5, <1>6, <1>7, <1>8,
     <1>9, <1>10, <1>11, <1>12, <1>13, <1>14, <1>15, <1>16 DEF Next

LEMMA LevelStep == TypeOK /\ Storing /\ MuInv /\ LevelPart /\ [Next]_vars => LevelPart'
<1> SUFFICES ASSUME TypeOK, Storing, MuInv, LevelPart, [Next]_vars PROVE LevelPart'
  OBVIOUS
<1> USE SetupAssumption DEF LevelPart, LevelInv, MuInv, Locked, Overtakes, TypeOK, ServerTypes,
                              SettingsTypes, FlagTypes, Storing, servers, loaded, promised, history, Goto,
                              Settings, Levels, Verbose, Default, Rows, Changes, Nothing, Current, Merge,
                              Stored, VerboseFilter, FirstLevel
<1>1. ASSUME NEW p \in Thread, Setup(p) PROVE LevelPart' BY <1>1 DEF Setup, Lock
<1>2. ASSUME NEW p \in Thread, Close(p) PROVE LevelPart' BY <1>2 DEF Close, Lock
<1>3. ASSUME NEW p \in Thread, StopServer(p) PROVE LevelPart' BY <1>3 DEF StopServer
<1>4. ASSUME NEW p \in Thread, DeleteServer(p) PROVE LevelPart' BY <1>4 DEF DeleteServer
<1>5. ASSUME NEW p \in Thread, StartServer(p) PROVE LevelPart' BY <1>5 DEF StartServer
<1>6. ASSUME NEW p \in Thread, Listen(p) PROVE LevelPart' BY <1>6 DEF Listen
<1>7. ASSUME NEW p \in Thread, SetupFails(p) PROVE LevelPart' BY <1>7 DEF SetupFails
<1>8. ASSUME NEW p \in Thread, Return(p) PROVE LevelPart' BY <1>8 DEF Return
<1>9. ASSUME NEW p \in Thread, ReadRow(p) PROVE LevelPart'
  <2> SUFFICES ASSUME ~raced', ~dbFailed', ~adopted' PROVE LevelInv'
    BY DEF LevelPart
  <2>1. pc[p] = "read" /\ pc' = [pc EXCEPT ![p] = "apply"] /\ seen' = [seen EXCEPT ![p] = row]
    BY <1>9 DEF ReadRow
  <2>2. UNCHANGED <<options, persistedLevel, row, changeMu, request, explicit>>
    BY <1>9 DEF ReadRow
  <2>3. LevelInv
    BY <1>9 DEF ReadRow
  <2>4. \A q \in Thread : pc'[q] = "store" => pc[q] = "store"
    BY <2>1
  <2>5. \A q \in Thread : pc'[q] = "apply" => seen'[q] = row
    BY <2>1, <2>3
  <2> QED BY <2>2, <2>3, <2>4, <2>5
<1>10. ASSUME NEW p \in Thread, ApplyRow(p) PROVE LevelPart'
  <2> SUFFICES ASSUME ~raced', ~dbFailed', ~adopted' PROVE LevelInv'
    BY DEF LevelPart
  <2>1. /\ pc[p] = "apply" /\ changeMu = None /\ pc' = [pc EXCEPT ![p] = "idle"]
        /\ seen' = [seen EXCEPT ![p] = None]
        /\ options' = Merge(Current, IF seen[p] = None THEN Nothing ELSE seen[p])
        /\ persistedLevel' = options'.level
    BY <1>10 DEF ApplyRow
  <2>2. UNCHANGED <<row, changeMu, request, explicit>>
    BY <1>10 DEF ApplyRow
  <2>3. LevelInv /\ seen[p] = row /\ (seen[p] = None => Current.level = explicit)
    BY <1>10 DEF ApplyRow
  <2>4. options' \in Settings /\ options'.level = explicit
    BY <2>1, <2>3
  <2>5. \A q \in Thread : /\ pc'[q] # "store"
                         /\ pc'[q] = "apply" => seen'[q] = row
    BY <2>1, <2>3
  <2> QED BY <2>1, <2>2, <2>3, <2>4, <2>5
<1>11. ASSUME NEW p \in Thread, Change(p) PROVE LevelPart'
  <2> SUFFICES ASSUME ~raced', ~dbFailed', ~adopted' PROVE LevelInv'
    BY DEF LevelPart
  <2>1. PICK change \in Changes :
          /\ options' = Merge(Current, change)
          /\ persistedLevel' = IF change.level # None /\ ~VerboseFilter(change)
                               THEN change.level ELSE FirstLevel
          /\ \/ (change = Nothing \/ VerboseFilter(change))
                /\ UNCHANGED <<changeMu, pc, request>>
             \/ ~VerboseFilter(change)
                /\ changeMu' = p /\ Goto(p, "store") /\ request' = [request EXCEPT ![p] = change]
    BY <1>11 DEF Change
  <2>2. /\ changeMu = None /\ row' = row /\ acked' = acked /\ explicit' = explicit /\ seen' = seen
        /\ ~raced /\ ~dbFailed /\ ~adopted /\ LevelInv /\ (options = None => row = None)
        /\ \A q \in Thread : pc[q] # "apply" /\ pc[q] # "store"
    <3>1. changeMu = None /\ row' = row /\ acked' = acked /\ explicit' = explicit /\ seen' = seen
      BY <1>11 DEF Change
    <3>2. ~raced /\ ~dbFailed /\ ~adopted /\ (options = None => row = None) /\ \A q \in Thread : pc[q] # "apply"
      BY <1>11 DEF Change
    <3> QED BY <3>1, <3>2 DEF LevelPart
  <2>3. Current \in Settings /\ options' \in Settings
    BY <2>1
  <2>4. Current.level \in Levels /\ options' # None
    BY <2>3
  <2>5. FirstLevel = explicit
    BY <2>2
  <2>6. persistedLevel' = IF change.level # None /\ ~VerboseFilter(change) THEN change.level ELSE explicit
    BY <2>1, <2>5
  <2>7. CASE (change = Nothing \/ VerboseFilter(change)) /\ UNCHANGED <<changeMu, pc, request>>
    BY <2>1, <2>2, <2>4, <2>6, <2>7
  <2>8. CASE ~VerboseFilter(change) /\ changeMu' = p /\ Goto(p, "store")
               /\ request' = [request EXCEPT ![p] = change]
    BY <2>1, <2>2, <2>4, <2>6, <2>8
  <2> QED BY <2>1, <2>7, <2>8
<1>12. ASSUME NEW p \in Thread, Store(p) PROVE LevelPart'
  <2> SUFFICES ASSUME ~raced', ~dbFailed', ~adopted' PROVE LevelInv'
    BY DEF LevelPart
  <2>1. ~raced /\ ~dbFailed /\ ~adopted /\ LevelInv /\ (\A q \in Thread : pc[q] # "apply")
    BY <1>12 DEF Store
  <2>2. /\ row' = Stored(options, persistedLevel) /\ options' = options /\ seen' = seen
        /\ persistedLevel' = persistedLevel
        /\ options \in Settings /\ persistedLevel \in Levels
        /\ explicit' = IF request[p].level = None THEN explicit ELSE request[p].level
        /\ pc[p] = "store" /\ changeMu = p /\ pc' = [pc EXCEPT ![p] = "idle"]
    BY <1>12 DEF Store
  <2>3. persistedLevel = explicit'
    BY <2>1, <2>2
  <2>4. row'.level = persistedLevel /\ row' # None
    BY <2>2
  <2>5. \A q \in Thread : pc'[q] \notin {"store", "apply"}
    BY <2>1, <2>2
  <2> QED BY <2>2, <2>3, <2>4, <2>5
<1>13. ASSUME NEW p \in Thread, RejectChange(p) PROVE LevelPart' BY <1>13 DEF RejectChange
<1>14. ASSUME NEW s \in Server, Serve(s) PROVE LevelPart' BY <1>14 DEF Serve
<1>15. CASE Crash BY <1>15 DEF Crash
<1>16. CASE UNCHANGED vars BY <1>16 DEF vars
<1> QED
  BY <1>1, <1>2, <1>3, <1>4, <1>5, <1>6, <1>7, <1>8,
     <1>9, <1>10, <1>11, <1>12, <1>13, <1>14, <1>15, <1>16 DEF Next

\* SetupInv is inductive: the types, the server as the holder of mu knows it, and the two
\* halves of the settings.
SetupInv == TypeOK /\ ServerInv /\ Storing /\ FieldPart /\ LevelPart

THEOREM SetupInvHolds == Spec => []SetupInv
<1>1. Init => SetupInv
  <2> SUFFICES ASSUME Init PROVE SetupInv
    OBVIOUS
  <2> USE SetupAssumption DEF Init, Default, Levels, Nothing
  <2>1. TypeOK
    BY DEF TypeOK, ServerTypes, SettingsTypes, FlagTypes, Settings, Rows, Changes
  <2>2. ServerInv
    BY DEF ServerInv, MuInv, PortIsOwned, Live, Locked
  <2>3. Storing /\ FieldPart /\ LevelPart
    BY DEF Storing, FieldPart, LevelPart, FieldInv, LevelInv
  <2> QED BY <2>1, <2>2, <2>3 DEF SetupInv
<1>2. SetupInv /\ [Next]_vars => SetupInv'
  BY ServerTypesStep, SettingsTypesStep, FlagTypesStep, StoringStep, ServerInvStep, FieldStep, LevelStep
     DEF SetupInv, TypeOK, ServerInv
<1> QED BY <1>1, <1>2, PTL DEF Spec

\* Every variable keeps its type.
THEOREM TypeCorrect == Spec => []TypeOK
<1>1. SetupInv => TypeOK
  BY DEF SetupInv
<1> QED BY <1>1, SetupInvHolds, PTL

\* A Setup that succeeded has left a live server until the next call about the mode.
THEOREM SetupIsLive == Spec => []SetupLeavesLiveServer
<1>1. SetupInv => SetupLeavesLiveServer
  BY DEF SetupInv, ServerInv, Live, SetupLeavesLiveServer
<1> QED BY <1>1, SetupInvHolds, PTL

\* An open listener belongs to the server in the map or was overtaken by a stop.
THEOREM PortsAreOwned == Spec => []PortIsOwned
<1>1. SetupInv => PortIsOwned
  BY DEF SetupInv, ServerInv
<1> QED BY <1>1, SetupInvHolds, PTL

\* A field keeps what was acknowledged, across changes, Setups and restarts.
THEOREM FieldIsKept == Spec => []FieldSurvives
<1>1. SetupInv => FieldSurvives
  BY DEF SetupInv, FieldPart, FieldInv, Kept, FieldSurvives
<1> QED BY <1>1, SetupInvHolds, PTL

\* The stored level is the last one that was set explicitly.
THEOREM LevelIsKept == Spec => []LevelIsExplicit
<1>1. SetupInv => LevelIsExplicit
  BY DEF SetupInv, LevelPart, LevelInv, LevelIsExplicit
<1> QED BY <1>1, SetupInvHolds, PTL
=============================================================================
