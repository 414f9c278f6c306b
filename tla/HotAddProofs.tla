----------------------------- MODULE HotAddProofs -----------------------------
(***************************************************************************)
(* Theorems about HotAdd for any number of calls, servers and selectors.   *)
(* The types are proved for whatever clients do; the other invariants      *)
(* while they keep to what AddOutbound assumes.                            *)
(***************************************************************************)
EXTENDS HotAdd, TLAPS

\* Where a call creates, and what a tag of the managers names, is a tag of the box.
LEMMA TagsAreTags ==
  ASSUME NEW c \in Calls, op[c] \in Requests
  PROVE  /\ op[c].tag \in Mains /\ op[c].tag \in Tags /\ HelperOf(op[c].tag) \in Tags
         /\ op[c].kind \in AddKinds \cup {"remove"}
         /\ op[c].selectors \subseteq Selectors \cup {Unknown}
         /\ op[c].detour \in Tags \cup {None}
         /\ <<c, "main">> \in Objects /\ <<c, "helper">> \in Objects
         /\ TagOf(<<c, "main">>) = op[c].tag /\ TagOf(<<c, "helper">>) = HelperOf(op[c].tag)
  BY DEF Requests, Tags, Objects, TagOf

\* What the members of the selectors are after one of them changes.
LEMMA MembersUpdated ==
  ASSUME NEW M \in [Selectors -> [Mains -> Objects \cup {None}]],
         NEW s, NEW m \in Mains, NEW v \in Objects \cup {None}
  PROVE  /\ [M EXCEPT ![s][m] = v] \in [Selectors -> [Mains -> Objects \cup {None}]]
         /\ \A x \in Selectors, y \in Mains :
              [M EXCEPT ![s][m] = v][x][y] = IF x = s /\ y = m THEN v ELSE M[x][y]
<1>1. CASE s \in Selectors
  <2>1. [M[s] EXCEPT ![m] = v] \in [Mains -> Objects \cup {None}]
    BY <1>1
  <2> QED BY <1>1, <2>1
<1>2. CASE s \notin Selectors
  BY <1>2
<1> QED BY <1>1, <1>2

-----------------------------------------------------------------------------
\* Every variable keeps its type, whatever the clients do, and a handler that reaches the
\* selectors has an outbound to add (commands.go:198-420).
THEOREM TypeCorrect == Spec => [](TypeOK /\ CallsInv)
<1>1. Init => TypeOK /\ CallsInv
  BY DEF Init, TypeOK, CallsInv, AddSteps, RemoveSteps
<1>2. TypeOK /\ CallsInv /\ [Next]_vars => (TypeOK /\ CallsInv)'
  <2> SUFFICES ASSUME TypeOK, CallsInv, [Next]_vars PROVE (TypeOK /\ CallsInv)'
    OBVIOUS
  <2> USE DEF TypeOK, CallsInv, AddSteps, RemoveSteps, Goto, Answer, managers, groups
  <2>1. ASSUME NEW c \in Calls, AddCall(c) PROVE (TypeOK /\ CallsInv)'
    <3>1. PICK kind \in AddKinds, m \in Mains, S \in SUBSET (Selectors \cup {Unknown}),
               d \in Tags \cup {None} :
            /\ Call(c, [kind |-> kind, tag |-> m, detour |-> d, selectors |-> S])
            /\ todo' = [todo EXCEPT ![c] = S]
      BY <2>1 DEF AddCall
    <3>2. [kind |-> kind, tag |-> m, detour |-> d, selectors |-> S] \in Requests
      BY DEF Requests
    <3> QED BY <2>1, <3>1, <3>2 DEF AddCall, Call
  <2>2. ASSUME NEW c \in Calls, AddMain(c) PROVE (TypeOK /\ CallsInv)'
    <3>1. op[c] \in Requests
      BY <2>2 DEF AddMain
    <3>2. /\ op[c].tag \in Mains /\ op[c].tag \in Tags /\ HelperOf(op[c].tag) \in Tags
          /\ <<c, "main">> \in Objects /\ <<c, "helper">> \in Objects
          /\ TagOf(<<c, "main">>) = op[c].tag /\ TagOf(<<c, "helper">>) = HelperOf(op[c].tag)
      BY <3>1, TagsAreTags
    <3>3. CASE op[c].kind = "endpoint"
      BY <2>2, <3>1, <3>2, <3>3 DEF AddMain, Create
    <3>4. CASE op[c].kind # "endpoint"
      BY <2>2, <3>1, <3>2, <3>4 DEF AddMain, Create
    <3> QED BY <3>3, <3>4
  <2>3. ASSUME NEW c \in Calls, AddHelper(c) PROVE (TypeOK /\ CallsInv)'
    <3>1. op[c] \in Requests
      BY <2>3 DEF AddHelper
    <3>2. /\ op[c].tag \in Mains /\ op[c].tag \in Tags /\ HelperOf(op[c].tag) \in Tags
          /\ <<c, "main">> \in Objects /\ <<c, "helper">> \in Objects
          /\ TagOf(<<c, "main">>) = op[c].tag /\ TagOf(<<c, "helper">>) = HelperOf(op[c].tag)
      BY <3>1, TagsAreTags
    <3> QED BY <2>3, <3>1, <3>2 DEF AddHelper, Create
  <2>4. ASSUME NEW c \in Calls, CreateFails(c) PROVE (TypeOK /\ CallsInv)'
    BY <2>4 DEF CreateFails
  <2>5. ASSUME NEW c \in Calls, AddLookup(c) PROVE (TypeOK /\ CallsInv)'
    <3>1. op[c] \in Requests
      BY <2>5 DEF AddLookup
    <3>2. /\ op[c].tag \in Mains /\ op[c].tag \in Tags /\ HelperOf(op[c].tag) \in Tags
          /\ <<c, "main">> \in Objects /\ <<c, "helper">> \in Objects
          /\ TagOf(<<c, "main">>) = op[c].tag /\ TagOf(<<c, "helper">>) = HelperOf(op[c].tag)
      BY <3>1, TagsAreTags
    <3> QED BY <2>5, <3>1, <3>2 DEF AddLookup, AddNext, Lookup
  <2>6. ASSUME NEW c \in Calls, AddToSelector(c) PROVE (TypeOK /\ CallsInv)'
    <3>1. op[c] \in Requests
      BY <2>6 DEF AddToSelector
    <3>2. /\ op[c].tag \in Mains /\ op[c].tag \in Tags /\ HelperOf(op[c].tag) \in Tags
          /\ <<c, "main">> \in Objects /\ <<c, "helper">> \in Objects
          /\ TagOf(<<c, "main">>) = op[c].tag /\ TagOf(<<c, "helper">>) = HelperOf(op[c].tag)
      BY <3>1, TagsAreTags
    <3>3. PICK s \in todo[c] :
            /\ todo' = [todo EXCEPT ![c] = @ \ {s}]
            /\ IF s = Unknown
               THEN Answer(c, "failed") /\ UNCHANGED members
               ELSE /\ members' = [members EXCEPT ![s][op[c].tag] = created[c]]
                    /\ AddNext(c, todo[c] \ {s})
      BY <2>6 DEF AddToSelector
    <3>4. todo' \in [Calls -> SUBSET (Selectors \cup {Unknown})]
      BY <3>3
    <3>5. created[c] \in Objects /\ s \in Selectors \cup {Unknown}
      BY <2>6, <3>3 DEF AddToSelector
    <3>6. members' \in [Selectors -> [Mains -> Objects \cup {None}]]
      <4>1. CASE s = Unknown
        BY <3>3, <4>1
      <4>2. CASE s # Unknown
        <5>1. members' = [members EXCEPT ![s][op[c].tag] = created[c]]
          BY <3>3, <4>2
        <5> QED BY <3>2, <3>5, <5>1, MembersUpdated
      <4> QED BY <4>1, <4>2
    <3>7. Goto(c, "members") \/ Answer(c, "ok") \/ Answer(c, "failed")
      BY <3>3 DEF AddNext
    <3> QED BY <2>6, <3>1, <3>4, <3>5, <3>6, <3>7 DEF AddToSelector
  <2>7. ASSUME NEW c \in Calls, RemoveCall(c) PROVE (TypeOK /\ CallsInv)'
    <3>1. PICK m \in Mains :
            /\ Call(c, [kind |-> "remove", tag |-> m, detour |-> None, selectors |-> {}])
            /\ helper' = [helper EXCEPT ![c] =
                            Lookup(m) # None /\ HelperOf(m) \in Dependencies(Lookup(m))]
      BY <2>7 DEF RemoveCall
    <3>2. [kind |-> "remove", tag |-> m, detour |-> None, selectors |-> {}] \in Requests
      BY DEF Requests
    <3> QED BY <2>7, <3>1, <3>2 DEF RemoveCall, Call
  <2>8. ASSUME NEW c \in Calls, RemoveFromSelector(c) PROVE (TypeOK /\ CallsInv)'
    <3>1. op[c] \in Requests
      BY <2>8 DEF RemoveFromSelector
    <3>2. /\ op[c].tag \in Mains /\ op[c].tag \in Tags /\ HelperOf(op[c].tag) \in Tags
          /\ <<c, "main">> \in Objects /\ <<c, "helper">> \in Objects
          /\ TagOf(<<c, "main">>) = op[c].tag /\ TagOf(<<c, "helper">>) = HelperOf(op[c].tag)
      BY <3>1, TagsAreTags
    <3>3. PICK s \in todo[c] :
            /\ todo' = [todo EXCEPT ![c] = @ \ {s}]
            /\ members' = [members EXCEPT ![s][op[c].tag] = None]
            /\ selected' = [selected EXCEPT ![s] = IF @ = op[c].tag THEN Default ELSE @]
            /\ Goto(c, IF todo[c] = {s} THEN "removeMain" ELSE "removeMembers")
      BY <2>8 DEF RemoveFromSelector
    <3>4. members' \in [Selectors -> [Mains -> Objects \cup {None}]]
      BY <3>2, <3>3, MembersUpdated
    <3> QED BY <2>8, <3>1, <3>3, <3>4 DEF RemoveFromSelector
  <2>9. ASSUME NEW c \in Calls, RemoveMain(c) PROVE (TypeOK /\ CallsInv)'
    <3>1. op[c] \in Requests
      BY <2>9 DEF RemoveMain
    <3>2. /\ op[c].tag \in Mains /\ op[c].tag \in Tags /\ HelperOf(op[c].tag) \in Tags
          /\ <<c, "main">> \in Objects /\ <<c, "helper">> \in Objects
          /\ TagOf(<<c, "main">>) = op[c].tag /\ TagOf(<<c, "helper">>) = HelperOf(op[c].tag)
      BY <3>1, TagsAreTags
    <3>3. /\ outbounds' \in [Tags -> Objects \cup {None}]
          /\ endpoints' \in [Tags -> Objects \cup {None}] /\ open' \subseteq Objects
      BY <2>9, <3>2 DEF RemoveMain, RemoveOutboundTag
    <3>4. Goto(c, "checkHelper") \/ Answer(c, "ok") \/ Answer(c, "failed")
      BY <2>9 DEF RemoveMain
    <3>5. /\ pc[c] = "removeMain"
          /\ UNCHANGED <<op, created, todo, helper, members, selected, orderly, kept>>
      BY <2>9 DEF RemoveMain
    <3> QED BY <3>1, <3>3, <3>4, <3>5
  <2>10. ASSUME NEW c \in Calls, CheckHelper(c) PROVE (TypeOK /\ CallsInv)'
    <3>1. op[c] \in Requests
      BY <2>10 DEF CheckHelper
    <3>2. /\ op[c].tag \in Mains /\ op[c].tag \in Tags /\ HelperOf(op[c].tag) \in Tags
          /\ <<c, "main">> \in Objects /\ <<c, "helper">> \in Objects
          /\ TagOf(<<c, "main">>) = op[c].tag /\ TagOf(<<c, "helper">>) = HelperOf(op[c].tag)
      BY <3>1, TagsAreTags
    <3> QED BY <2>10, <3>1, <3>2 DEF CheckHelper
  <2>11. ASSUME NEW c \in Calls, RemoveHelper(c) PROVE (TypeOK /\ CallsInv)'
    <3>1. op[c] \in Requests
      BY <2>11 DEF RemoveHelper
    <3>2. /\ op[c].tag \in Mains /\ op[c].tag \in Tags /\ HelperOf(op[c].tag) \in Tags
          /\ <<c, "main">> \in Objects /\ <<c, "helper">> \in Objects
          /\ TagOf(<<c, "main">>) = op[c].tag /\ TagOf(<<c, "helper">>) = HelperOf(op[c].tag)
      BY <3>1, TagsAreTags
    <3> QED BY <2>11, <3>1, <3>2 DEF RemoveHelper, RemoveOutboundTag
  <2>12. ASSUME NEW s \in Selectors, NEW m \in Mains, SelectOutbound(s, m)
         PROVE (TypeOK /\ CallsInv)'
    BY <2>12 DEF SelectOutbound
  <2>13. CASE UNCHANGED vars
    BY <2>13 DEF vars
  <2> QED BY <2>1, <2>2, <2>3, <2>4, <2>5, <2>6, <2>7, <2>8, <2>9, <2>10, <2>11, <2>12, <2>13
          DEF Next, Add, Remove
<1> QED BY <1>1, <1>2, PTL DEF Spec

-----------------------------------------------------------------------------
(***************************************************************************)
(* What a step of one call leaves alone                                    *)
(***************************************************************************)
\* A step of a call is none of another call, and starts the call or goes on with it.
LEMMA StepsAreLocal ==
  ASSUME TypeOK, NEW c \in Calls, Add(c) \/ Remove(c)
  PROVE  /\ \A d \in Calls \ {c} :
              /\ op'[d] = op[d] /\ pc'[d] = pc[d] /\ result'[d] = result[d]
              /\ created'[d] = created[d] /\ todo'[d] = todo[d] /\ helper'[d] = helper[d]
         /\ pc'[c] # "idle" /\ pc[c] # "done"
         /\ pc[c] # "idle" => UNCHANGED <<op, orderly>>
<1> USE DEF TypeOK, Goto, Answer
<1>1. CASE AddCall(c)
  BY <1>1 DEF AddCall, Call
<1>2. CASE AddMain(c)
  BY <1>2 DEF AddMain
<1>3. CASE AddHelper(c)
  BY <1>3 DEF AddHelper
<1>4. CASE CreateFails(c)
  BY <1>4 DEF CreateFails
<1>5. CASE AddLookup(c)
  BY <1>5 DEF AddLookup, AddNext
<1>6. CASE AddToSelector(c)
  BY <1>6 DEF AddToSelector, AddNext
<1>7. CASE RemoveCall(c)
  BY <1>7 DEF RemoveCall, Call
<1>8. CASE RemoveFromSelector(c)
  BY <1>8 DEF RemoveFromSelector
<1>9. CASE RemoveMain(c)
  BY <1>9 DEF RemoveMain
<1>10. CASE CheckHelper(c)
  BY <1>10 DEF CheckHelper
<1>11. CASE RemoveHelper(c)
  BY <1>11 DEF RemoveHelper
<1> QED BY <1>1, <1>2, <1>3, <1>4, <1>5, <1>6, <1>7, <1>8, <1>9, <1>10, <1>11 DEF Add, Remove

\* A call that starts changes nothing but itself, and is about no tag of a call in progress.
LEMMA CallsStart ==
  ASSUME TypeOK, NEW c \in Calls, pc[c] = "idle", Add(c) \/ Remove(c), orderly'
  PROVE  /\ orderly /\ UNCHANGED <<managers, groups, kept, created>>
         /\ \/ pc'[c] = "main" /\ op'[c].kind \in AddKinds /\ Lookup(op'[c].tag) = None
                                /\ todo'[c] = op'[c].selectors
            \/ /\ pc'[c] = "removeMembers" /\ op'[c].kind = "remove" /\ todo'[c] = Selectors
               /\ helper'[c] = (Lookup(op'[c].tag) # None
                                  /\ HelperOf(op'[c].tag) \in Dependencies(Lookup(op'[c].tag)))
         /\ \A d \in Calls : Running(d) => TagsOf(op[d]) \cap TagsOf(op'[c]) = {}
<1> USE DEF TypeOK, Goto, Call
<1>1. AddCall(c) \/ RemoveCall(c)
  BY DEF Add, Remove, AddMain, AddHelper, CreateFails, AddLookup, AddToSelector,
         RemoveFromSelector, RemoveMain, CheckHelper, RemoveHelper
<1>2. CASE AddCall(c)
  <2>1. PICK kind \in AddKinds, m \in Mains, S \in SUBSET (Selectors \cup {Unknown}),
             d \in Tags \cup {None} :
          /\ Call(c, [kind |-> kind, tag |-> m, detour |-> d, selectors |-> S])
          /\ todo' = [todo EXCEPT ![c] = S]
    BY <1>2 DEF AddCall
  <2> DEFINE r == [kind |-> kind, tag |-> m, detour |-> d, selectors |-> S]
  <2>2. op'[c] = r /\ todo'[c] = S /\ r.kind # "remove"
    BY <2>1 DEF AddKinds
  <2>3. orderly /\ (\A e \in Calls : Running(e) => TagsOf(op[e]) \cap TagsOf(r) = {})
                /\ Lookup(r.tag) = None
    BY <2>1, <2>2
  <2> QED BY <1>2, <2>2, <2>3 DEF AddCall
<1>3. CASE RemoveCall(c)
  <2>1. PICK m \in Mains :
          /\ Call(c, [kind |-> "remove", tag |-> m, detour |-> None, selectors |-> {}])
          /\ helper' = [helper EXCEPT ![c] =
                          Lookup(m) # None /\ HelperOf(m) \in Dependencies(Lookup(m))]
    BY <1>3 DEF RemoveCall
  <2> DEFINE r == [kind |-> "remove", tag |-> m, detour |-> None, selectors |-> {}]
  <2>2. op'[c] = r /\ r.tag = m
    BY <2>1
  <2>3. orderly /\ (\A e \in Calls : Running(e) => TagsOf(op[e]) \cap TagsOf(r) = {})
    BY <2>1
  <2> QED BY <1>3, <2>1, <2>2, <2>3 DEF RemoveCall
<1> QED BY <1>1, <1>2, <1>3

\* A call in progress changes what its own tags lead to, and the members of that name.
LEMMA TagsAreApart ==
  ASSUME TypeOK, CallsInv, NEW c \in Calls, pc[c] # "idle", Add(c) \/ Remove(c)
  PROVE  /\ \A t \in Tags \ {op[c].tag, HelperOf(op[c].tag)} :
              outbounds'[t] = outbounds[t] /\ endpoints'[t] = endpoints[t]
         /\ \A s \in Selectors, m \in Mains \ {op[c].tag} : members'[s][m] = members[s][m]
<1> USE DEF TypeOK, Goto, Answer, CallsInv, managers, groups
<1>1. op[c] \in Requests /\ op[c].tag \in Mains
  BY TagsAreTags
<1>2. CASE CreateFails(c) \/ AddLookup(c) \/ CheckHelper(c)
  BY <1>2 DEF CreateFails, AddLookup, CheckHelper
<1>3. CASE AddMain(c)
  BY <1>1, <1>3, TagsAreTags DEF AddMain, Create
<1>4. CASE AddHelper(c)
  BY <1>1, <1>4, TagsAreTags DEF AddHelper, Create
<1>5. CASE AddToSelector(c)
  <2>1. PICK s \in todo[c] :
          \/ UNCHANGED members
          \/ pc[c] = "members" /\ members' = [members EXCEPT ![s][op[c].tag] = created[c]]
    BY <1>5 DEF AddToSelector
  <2>2. CASE UNCHANGED members
    BY <1>5, <2>2 DEF AddToSelector
  <2>3. CASE pc[c] = "members" /\ members' = [members EXCEPT ![s][op[c].tag] = created[c]]
    <3>1. \A x \in Selectors, y \in Mains \ {op[c].tag} : members'[x][y] = members[x][y]
      BY <1>1, <2>3, MembersUpdated
    <3> QED BY <1>5, <3>1 DEF AddToSelector
  <2> QED BY <2>1, <2>2, <2>3
<1>6. CASE RemoveFromSelector(c)
  <2>1. PICK s \in todo[c] : members' = [members EXCEPT ![s][op[c].tag] = None]
    BY <1>6 DEF RemoveFromSelector
  <2>2. \A x \in Selectors, y \in Mains \ {op[c].tag} : members'[x][y] = members[x][y]
    BY <1>1, <2>1, MembersUpdated
  <2> QED BY <1>6, <2>2 DEF RemoveFromSelector
<1>7. CASE RemoveMain(c)
  BY <1>7 DEF RemoveMain, RemoveOutboundTag
<1>8. CASE RemoveHelper(c)
  BY <1>8 DEF RemoveHelper, RemoveOutboundTag
<1> QED BY <1>2, <1>3, <1>4, <1>5, <1>6, <1>7, <1>8
        DEF Add, Remove, AddCall, RemoveCall, Call

-----------------------------------------------------------------------------
(***************************************************************************)
(* The box, while the calls in progress are about different tags           *)
(***************************************************************************)
\* A call in progress stays apart from the others.
LEMMA CallsStayApart ==
  ASSUME TypeOK, CallsInv, orderly', BoxInv, NEW c \in Calls, Add(c) \/ Remove(c)
  PROVE  (\A d, e \in Calls : Running(d) /\ Running(e) /\ d # e =>
                              TagsOf(op[d]) \cap TagsOf(op[e]) = {})'
<1> SUFFICES ASSUME NEW d \in Calls, NEW e \in Calls, Running(d)', Running(e)', d # e
             PROVE  TagsOf(op'[d]) \cap TagsOf(op'[e]) = {}
  BY DEF TagsOf
<1>1. CASE pc[c] # "idle"
  <2>1. Running(d) /\ Running(e) /\ op' = op
    BY <1>1, StepsAreLocal DEF Running
  <2> QED BY <2>1 DEF BoxInv
<1>2. CASE pc[c] = "idle"
  <2>1. \A x \in Calls \ {c} : op'[x] = op[x] /\ pc'[x] = pc[x]
    BY StepsAreLocal
  <2>2. \A x \in Calls : Running(x) => TagsOf(op[x]) \cap TagsOf(op'[c]) = {}
    BY <1>2, CallsStart
  <2>3. CASE d = c
    BY <2>1, <2>2, <2>3 DEF Running
  <2>4. CASE e = c
    BY <2>1, <2>2, <2>4 DEF Running
  <2>5. CASE d # c /\ e # c
    BY <2>1, <2>5 DEF Running, BoxInv
  <2> QED BY <2>3, <2>4, <2>5
<1> QED BY <1>1, <1>2

\* The tag of an object that is open is settled.
LEMMA TagsStay ==
  ASSUME TypeOK, BoxInv, NEW c \in Calls, Add(c) \/ Remove(c), NEW o \in open
  PROVE  /\ o \in Objects /\ op'[o[1]] = op[o[1]] /\ TagOf(o)' = TagOf(o)
         /\ pc[o[1]] # "idle" /\ pc'[o[1]] # "idle"
         /\ Dependencies(o)' = Dependencies(o)
<1>1. o \in Objects /\ o[1] \in Calls /\ pc[o[1]] # "idle"
  BY DEF TypeOK, BoxInv, Objects
<1>2. op'[o[1]] = op[o[1]] /\ pc'[o[1]] # "idle"
  BY <1>1, StepsAreLocal
<1> QED BY <1>1, <1>2 DEF TagOf, Dependencies

\* A removal takes a tag out of both managers, and closes at most what it led to.
TakenOut(t) ==
  /\ \A x \in Tags \ {t} : outbounds'[x] = outbounds[x] /\ endpoints'[x] = endpoints[x]
  /\ outbounds'[t] = None /\ endpoints'[t] = None
  /\ open' \in {open, open \ {Lookup(t)}}

LEMMA RemovalsTakeOut ==
  ASSUME TypeOK, CallsInv, BoxInv, NEW c \in Calls
  PROVE  /\ RemoveMain(c) => op[c].tag \in Tags /\ TakenOut(op[c].tag)
         /\ RemoveHelper(c) => HelperOf(op[c].tag) \in Tags /\ TakenOut(HelperOf(op[c].tag))
<1> USE HotAddAssumption DEF TypeOK, TakenOut, Lookup, managers
<1>1. ASSUME RemoveMain(c)
      PROVE  op[c].tag \in Tags /\ TakenOut(op[c].tag)
  <2>1. op[c].tag \in Tags
    BY <1>1, TagsAreTags DEF RemoveMain, CallsInv, RemoveSteps
  <2>2. outbounds[op[c].tag] # None => endpoints[op[c].tag] = None
    BY <2>1 DEF BoxInv
  <2> QED BY <1>1, <2>1, <2>2 DEF RemoveMain, RemoveOutboundTag
<1>2. ASSUME RemoveHelper(c)
      PROVE  HelperOf(op[c].tag) \in Tags /\ TakenOut(HelperOf(op[c].tag))
  <2>1. HelperOf(op[c].tag) \in Tags /\ HelperOf(op[c].tag) \notin Mains
    BY <1>2, TagsAreTags DEF RemoveHelper, CallsInv, RemoveSteps
  <2>2. endpoints[HelperOf(op[c].tag)] = None
    BY <2>1 DEF BoxInv
  <2> QED BY <1>2, <2>1, <2>2 DEF RemoveHelper, RemoveOutboundTag
<1> QED BY <1>1, <1>2

\* What a tag leads to stays open as long as the tag leads to it.
LEMMA BoxStep ==
  ASSUME TypeOK, CallsInv, orderly', BoxInv, StepInv, NEW c \in Calls, Add(c) \/ Remove(c)
  PROVE  BoxInv'
<1> USE HotAddAssumption DEF managers, Goto, Answer
<1>0. /\ op[c] \in Requests =>
           /\ op[c].tag \in Mains /\ op[c].tag \in Tags /\ HelperOf(op[c].tag) \in Tags
           /\ HelperOf(op[c].tag) \notin Mains
           /\ <<c, "main">> \in Objects /\ <<c, "main">> # None /\ <<c, "helper">> # None
           /\ TagOf(<<c, "main">>) = op[c].tag /\ TagOf(<<c, "helper">>) = HelperOf(op[c].tag)
  BY TagsAreTags
<1>1. CASE UNCHANGED managers
  BY <1>1, TagsStay, CallsStayApart DEF BoxInv, Holds
<1>2. ASSUME op[c] \in Requests, UNCHANGED op, pc'[c] # "idle",
             NEW o \in {<<c, "main">>, <<c, "helper">>}, UNCHANGED endpoints,
             Create(outbounds, o), endpoints[TagOf(o)] = None
      PROVE  BoxInv'
  <2>1. TagOf(o) \in Tags /\ o[1] = c /\ o \in Objects /\ o # None /\ TagOf(o)' = TagOf(o)
    BY <1>0, <1>2 DEF TagOf, Objects
  <2>2. \A t \in Tags : outbounds'[t] = IF t = TagOf(o) THEN o ELSE outbounds[t]
    BY <1>2, <2>1 DEF Create, TypeOK
  <2>3. \A x \in open' : x = o \/ x \in open
    BY <1>2 DEF Create
  <2>4. o \in open' /\ \A x \in open : x # outbounds[TagOf(o)] => x \in open'
    BY <1>2 DEF Create
  <2>5. ASSUME NEW t \in Tags, NEW x \in Objects, outbounds'[t] = x
        PROVE  Holds(x, t)' /\ endpoints'[t] = None
    <3>1. CASE t = TagOf(o)
      BY <1>2, <2>1, <2>2, <2>4, <2>5, <3>1 DEF Holds
    <3>2. CASE t # TagOf(o)
      <4>1. Holds(x, t) /\ endpoints[t] = None
        BY <2>2, <2>5, <3>2 DEF BoxInv
      <4>2. x # outbounds[TagOf(o)]
        BY <2>1, <3>2, <4>1 DEF BoxInv, Holds
      <4> QED BY <1>2, <2>4, <4>1, <4>2, TagsStay DEF Holds
    <3> QED BY <3>1, <3>2
  <2>6. ASSUME NEW t \in Tags, NEW x \in Objects, endpoints'[t] = x
        PROVE  Holds(x, t)' /\ t \in Mains
    <3>1. Holds(x, t) /\ t \in Mains
      BY <1>2, <2>6 DEF BoxInv
    <3>2. x # outbounds[TagOf(o)]
      BY <1>2, <2>1, <2>6, <3>1 DEF BoxInv, Holds
    <3> QED BY <2>4, <3>1, <3>2, TagsStay DEF Holds
  <2>7. \A x \in open' : pc'[x[1]] # "idle"
    BY <1>2, <2>1, <2>3, TagsStay
  <2> QED BY <2>5, <2>6, <2>7, CallsStayApart DEF BoxInv
<1>3. CASE AddMain(c)
  <2>1. /\ outbounds[op[c].tag] = None /\ endpoints[op[c].tag] = None /\ op[c] \in Requests
        /\ pc[c] = "main" /\ pc'[c] # "idle" /\ UNCHANGED op
    BY <1>3, StepsAreLocal DEF AddMain, StepInv, OnCourse, Lookup, CallsInv
  <2>2. CASE op[c].kind # "endpoint"
    BY <1>0, <1>2, <1>3, <2>1, <2>2 DEF AddMain
  <2>3. CASE op[c].kind = "endpoint"
    <3>1. /\ \A t \in Tags : endpoints'[t] = IF t = op[c].tag THEN <<c, "main">> ELSE endpoints[t]
          /\ open' = open \cup {<<c, "main">>} /\ UNCHANGED outbounds
      BY <1>0, <1>3, <2>1, <2>3 DEF AddMain, Create, TypeOK
    <3>2. TagOf(<<c, "main">>)' = op[c].tag
      BY <1>0, <2>1 DEF TagOf
    <3>3. \A x \in open : x \in open' /\ TagOf(x)' = TagOf(x) /\ pc'[x[1]] # "idle"
      BY <3>1, TagsStay
    <3>4. ASSUME NEW t \in Tags, NEW x \in Objects, outbounds'[t] = x
          PROVE  Holds(x, t)' /\ endpoints'[t] = None
      BY <1>0, <2>1, <3>1, <3>3, <3>4 DEF BoxInv, Holds
    <3>5. ASSUME NEW t \in Tags, NEW x \in Objects, endpoints'[t] = x
          PROVE  Holds(x, t)' /\ t \in Mains
      BY <1>0, <2>1, <3>1, <3>2, <3>3, <3>5 DEF BoxInv, Holds
    <3>6. \A x \in open' : pc'[x[1]] # "idle"
      BY <2>1, <3>1, <3>3
    <3> QED BY <3>4, <3>5, <3>6, CallsStayApart DEF BoxInv
  <2> QED BY <2>2, <2>3
<1>7. CASE AddHelper(c)
  <2>1. op[c] \in Requests /\ pc'[c] # "idle" /\ UNCHANGED op
    BY <1>7, StepsAreLocal DEF AddHelper, CallsInv
  <2>2. endpoints[TagOf(<<c, "helper">>)] = None
    BY <1>0, <2>1 DEF BoxInv, TypeOK
  <2> QED BY <1>2, <1>7, <2>1, <2>2 DEF AddHelper
<1>4. CASE RemoveMain(c) \/ RemoveHelper(c)
  <2>1. PICK t \in Tags : TakenOut(t)
    BY <1>4, RemovalsTakeOut
  <2>2. \A x \in open : x \in open' \/ x = Lookup(t)
    BY <2>1 DEF TakenOut
  <2>3. ASSUME NEW y \in Tags, NEW x \in Objects, outbounds'[y] = x \/ endpoints'[y] = x
        PROVE  /\ Holds(x, y)'
               /\ outbounds'[y] = x => endpoints'[y] = None
               /\ endpoints'[y] = x => y \in Mains
    <3>1. /\ y # t /\ Holds(x, y) /\ x \in open
          /\ outbounds'[y] = outbounds[y] /\ endpoints'[y] = endpoints[y]
      BY <2>1, <2>3 DEF TakenOut, BoxInv, Holds
    <3>2. x # Lookup(t)
      BY <3>1 DEF BoxInv, Holds, Lookup
    <3>3. Holds(x, y)'
      BY <2>2, <3>1, <3>2, TagsStay DEF Holds
    <3> QED BY <3>1, <3>3 DEF BoxInv
  <2>4. \A x \in open' : pc'[x[1]] # "idle"
    BY <2>1, TagsStay DEF TakenOut
  <2> QED BY <2>3, <2>4, CallsStayApart DEF BoxInv
<1>6. AddCall(c) \/ CreateFails(c) \/ AddLookup(c) \/ AddToSelector(c) \/ RemoveCall(c)
        \/ RemoveFromSelector(c) \/ CheckHelper(c) => UNCHANGED managers
  BY DEF AddCall, CreateFails, AddLookup, AddToSelector, RemoveCall, RemoveFromSelector,
         CheckHelper
<1> QED BY <1>1, <1>3, <1>4, <1>6, <1>7 DEF Add, Remove

-----------------------------------------------------------------------------
(***************************************************************************)
(* The calls in progress, and the members of the selectors                 *)
(***************************************************************************)
\* A step of one call changes nothing that another call in progress is about.
LEMMA OthersKeep ==
  ASSUME TypeOK, CallsInv, orderly', BoxInv, NEW c \in Calls, Add(c) \/ Remove(c),
         NEW d \in Calls, d # c, Running(d)
  PROVE  /\ op'[d] = op[d] /\ pc'[d] = pc[d] /\ op[d].tag \in Mains
         /\ \A t \in {op[d].tag, HelperOf(op[d].tag)} :
              t \in Tags /\ outbounds'[t] = outbounds[t] /\ endpoints'[t] = endpoints[t]
         /\ \A s \in Selectors : members'[s][op[d].tag] = members[s][op[d].tag]
<1>1. /\ op'[d] = op[d] /\ pc'[d] = pc[d] /\ op[d] \in Requests
      /\ op[d].tag \in Mains /\ op[d].tag \in Tags /\ HelperOf(op[d].tag) \in Tags
  BY StepsAreLocal, TagsAreTags DEF CallsInv, Running
<1>2. CASE pc[c] = "idle"
  BY <1>1, <1>2, CallsStart DEF managers, groups
<1>3. CASE pc[c] # "idle"
  <2>1. Running(c)
    BY <1>3, StepsAreLocal DEF Running
  <2>2. TagsOf(op[c]) \cap TagsOf(op[d]) = {}
    BY <2>1 DEF BoxInv
  <2>3. \A t \in {op[d].tag, HelperOf(op[d].tag)} : t \notin {op[c].tag, HelperOf(op[c].tag)}
    BY <2>2 DEF TagsOf
  <2> QED BY <1>1, <1>3, <2>3, TagsAreApart
<1> QED BY <1>2, <1>3

\* What a creation leaves under the tags of its call.
LEMMA CreationsPutIn ==
  ASSUME TypeOK, CallsInv, BoxInv, StepInv, NEW c \in Calls
  PROVE  /\ AddMain(c) => Lookup(op[c].tag)' = <<c, "main">>
         /\ AddHelper(c) => /\ Lookup(op[c].tag)' = Lookup(op[c].tag)
                            /\ outbounds'[HelperOf(op[c].tag)] = <<c, "helper">>
<1> USE HotAddAssumption DEF TypeOK, Lookup
<1>1. ASSUME AddMain(c)
      PROVE  Lookup(op[c].tag)' = <<c, "main">>
  <2>1. /\ op[c].tag \in Tags /\ TagOf(<<c, "main">>) = op[c].tag /\ <<c, "main">> # None
        /\ outbounds[op[c].tag] = None /\ UNCHANGED op
    BY <1>1, TagsAreTags DEF AddMain, CallsInv, StepInv, OnCourse
  <2>2. CASE op[c].kind = "endpoint"
    BY <1>1, <2>1, <2>2 DEF AddMain, Create
  <2>3. CASE op[c].kind # "endpoint"
    BY <1>1, <2>1, <2>3 DEF AddMain, Create
  <2> QED BY <2>2, <2>3
<1>2. ASSUME AddHelper(c)
      PROVE  /\ Lookup(op[c].tag)' = Lookup(op[c].tag)
             /\ outbounds'[HelperOf(op[c].tag)] = <<c, "helper">>
  <2>1. /\ op[c].tag \in Mains \cap Tags /\ HelperOf(op[c].tag) \in Tags
        /\ TagOf(<<c, "helper">>) = HelperOf(op[c].tag) /\ UNCHANGED op
        /\ HelperOf(op[c].tag) \notin Mains
    BY <1>2, TagsAreTags DEF AddHelper, CallsInv
  <2> QED BY <1>2, <2>1 DEF AddHelper, Create
<1> QED BY <1>1, <1>2

\* What is known of a call in progress under its main tag.
LEMMA StepStep ==
  ASSUME TypeOK, CallsInv, orderly', BoxInv, StepInv, NEW c \in Calls, Add(c) \/ Remove(c)
  PROVE  StepInv'
<1>1. ASSUME NEW d \in Calls, d # c
      PROVE  OnCourse(d)'
  <2>1. CASE Running(d)
    <3>1. /\ op'[d] = op[d] /\ pc'[d] = pc[d] /\ created'[d] = created[d] /\ todo'[d] = todo[d]
          /\ \A s \in Selectors : members'[s][op[d].tag] = members[s][op[d].tag]
      BY <1>1, <2>1, OthersKeep, StepsAreLocal
    <3>2. Lookup(op[d].tag)' = Lookup(op[d].tag)
      BY <1>1, <2>1, OthersKeep DEF Lookup
    <3> QED BY <3>1, <3>2 DEF StepInv, OnCourse
  <2>2. CASE ~Running(d)
    <3>1. pc'[d] \in {"idle", "done"}
      BY <1>1, <2>2, StepsAreLocal DEF Running
    <3> QED BY <3>1 DEF OnCourse
  <2> QED BY <2>1, <2>2
<1>2. ASSUME pc[c] = "idle"
      PROVE  OnCourse(c)'
  BY <1>2, CallsStart DEF OnCourse, Lookup, managers, groups
<1>3. ASSUME pc[c] # "idle"
      PROVE  OnCourse(c)'
  <2> USE DEF TypeOK, Goto, Answer, managers, groups
  <2>1. UNCHANGED op
    BY <1>3, StepsAreLocal
  <2>2. CASE AddMain(c)
    <3>1. pc'[c] \in {"helper", "lookup"}
      BY <2>2 DEF AddMain
    <3> QED BY <2>1, <2>2, <3>1, CreationsPutIn DEF OnCourse
  <2>3. CASE AddHelper(c)
    <3>1. pc'[c] = "lookup" /\ pc[c] = "helper"
      BY <2>3 DEF AddHelper
    <3> QED BY <2>1, <2>3, <3>1, CreationsPutIn DEF StepInv, OnCourse
  <2>4. CASE CreateFails(c)
    BY <2>4 DEF CreateFails, OnCourse
  <2>5. CASE AddLookup(c)
    BY <2>1, <2>5 DEF AddLookup, AddNext, StepInv, OnCourse, Lookup
  <2>6. CASE AddToSelector(c)
    BY <2>1, <2>6 DEF AddToSelector, AddNext, StepInv, OnCourse, Lookup
  <2>7. CASE RemoveFromSelector(c)
    <3>1. PICK s \in todo[c] :
            /\ todo' = [todo EXCEPT ![c] = @ \ {s}]
            /\ members' = [members EXCEPT ![s][op[c].tag] = None]
            /\ Goto(c, IF todo[c] = {s} THEN "removeMain" ELSE "removeMembers")
      BY <2>7 DEF RemoveFromSelector
    <3>2. op[c].tag \in Mains /\ pc[c] = "removeMembers"
      BY <2>7, TagsAreTags DEF RemoveFromSelector, CallsInv
    <3>3. \A x \in Selectors : members'[x][op[c].tag] =
                               IF x = s THEN None ELSE members[x][op[c].tag]
      BY <3>1, <3>2, MembersUpdated
    <3>4. \A x \in Selectors \ todo'[c] : members'[x][op[c].tag] = None
      BY <3>1, <3>2, <3>3 DEF StepInv, OnCourse
    <3>5. pc'[c] = "removeMembers" \/ (pc'[c] = "removeMain" /\ todo'[c] = {})
      BY <3>1
    <3> QED BY <2>1, <3>4, <3>5 DEF OnCourse
  <2>8. CASE RemoveMain(c)
    <3>1. pc'[c] \in {"checkHelper", "done"}
      BY <2>8 DEF RemoveMain
    <3> QED BY <3>1 DEF OnCourse
  <2>9. CASE CheckHelper(c) \/ RemoveHelper(c)
    <3>1. pc'[c] \in {"removeHelper", "done"}
      BY <2>9 DEF CheckHelper, RemoveHelper
    <3> QED BY <3>1 DEF OnCourse
  <2> QED BY <1>3, <2>2, <2>3, <2>4, <2>5, <2>6, <2>7, <2>8, <2>9
          DEF Add, Remove, AddCall, RemoveCall, Call
<1>4. OnCourse(c)'
  BY <1>2, <1>3
<1> QED BY <1>1, <1>4 DEF StepInv

\* A step of a call keeps every member what the managers find under its tag.
LEMMA MemberStep ==
  ASSUME TypeOK, CallsInv, orderly', BoxInv, StepInv, MemberInv,
         NEW c \in Calls, Add(c) \/ Remove(c)
  PROVE  MemberInv'
<1> USE HotAddAssumption DEF TypeOK, managers, groups
<1>1. CASE pc[c] = "idle"
  BY <1>1, CallsStart DEF MemberInv, Lookup
<1>2. CASE pc[c] # "idle"
  <2>1. /\ op[c].tag \in Mains /\ op[c].tag \in Tags /\ Mains \subseteq Tags
        /\ HelperOf(op[c].tag) \notin Mains
    BY <1>2, TagsAreTags DEF CallsInv, Tags
  <2>0. UNCHANGED op
    BY <1>2, StepsAreLocal
  <2>2. ASSUME NEW s \in Selectors, NEW m \in Mains \ {op[c].tag}
        PROVE  members'[s][m] = members[s][m] /\ Lookup(m)' = Lookup(m)
    BY <1>2, <2>1, TagsAreApart DEF Lookup
  <2>3. ASSUME NEW s \in Selectors, members'[s][op[c].tag] # None
        PROVE  members'[s][op[c].tag] = Lookup(op[c].tag)'
    <3> DEFINE m == op[c].tag
    <3>0. UNCHANGED op
      BY <2>0
    <3>1. CASE AddMain(c)
      BY <2>1, <2>3, <3>1 DEF AddMain, StepInv, OnCourse, MemberInv
    <3>2. CASE AddHelper(c)
      BY <2>1, <2>3, <3>2, CreationsPutIn DEF AddHelper, MemberInv
    <3>3. CASE AddToSelector(c)
      <4>1. /\ created[c] = Lookup(m) /\ pc[c] = "members" /\ created[c] \in Objects
            /\ UNCHANGED managers
        BY <3>3 DEF AddToSelector, StepInv, OnCourse
      <4>2. PICK x \in todo[c] : \/ UNCHANGED members
                                 \/ members' = [members EXCEPT ![x][m] = created[c]]
        BY <3>3 DEF AddToSelector
      <4>3. CASE UNCHANGED members
        BY <2>1, <2>3, <3>0, <4>1, <4>3 DEF MemberInv, Lookup
      <4>4. CASE members' = [members EXCEPT ![x][m] = created[c]]
        <5>1. members'[s][m] = IF s = x THEN created[c] ELSE members[s][m]
          BY <2>1, <4>1, <4>4, MembersUpdated
        <5> QED BY <2>1, <2>3, <3>0, <4>1, <5>1 DEF MemberInv, Lookup
      <4> QED BY <4>2, <4>3, <4>4
    <3>4. CASE RemoveFromSelector(c)
      <4>1. PICK x \in todo[c] : members' = [members EXCEPT ![x][m] = None]
        BY <3>4 DEF RemoveFromSelector
      <4>2. members'[s][m] = IF s = x THEN None ELSE members[s][m]
        BY <2>1, <4>1, MembersUpdated
      <4> QED BY <2>1, <2>3, <3>0, <3>4, <4>2 DEF RemoveFromSelector, MemberInv, Lookup
    <3>5. CASE RemoveMain(c)
      BY <2>1, <2>3, <3>5 DEF RemoveMain, StepInv, OnCourse
    <3>6. CASE RemoveHelper(c)
      <4>1. TakenOut(HelperOf(m)) /\ m \in Tags \ {HelperOf(m)}
        BY <2>1, <3>6, RemovalsTakeOut
      <4>2. Lookup(m)' = Lookup(m)
        BY <3>0, <4>1 DEF TakenOut, Lookup
      <4>3. UNCHANGED members
        BY <3>6 DEF RemoveHelper
      <4> QED BY <2>1, <2>3, <4>2, <4>3 DEF MemberInv
    <3>7. CASE CreateFails(c) \/ AddLookup(c) \/ CheckHelper(c)
      <4>1. UNCHANGED <<managers, members>>
        BY <3>7 DEF CreateFails, AddLookup, CheckHelper
      <4>2. Lookup(m)' = Lookup(m)
        BY <3>0, <4>1 DEF Lookup
      <4> QED BY <2>1, <2>3, <4>1, <4>2 DEF MemberInv
    <3> QED BY <1>2, <3>1, <3>2, <3>3, <3>4, <3>5, <3>6, <3>7
            DEF Add, Remove, AddCall, RemoveCall, Call
  <2>4. \A s \in Selectors, m \in Mains : members'[s][m] # None => members'[s][m] = Lookup(m)'
    BY <2>0, <2>2, <2>3 DEF MemberInv, Lookup
  <2>5. ASSUME NEW s \in Selectors, selected'[s] # Default
        PROVE  members'[s][selected'[s]] # None
    <3> DEFINE m == op[c].tag
    <3>1. CASE AddToSelector(c)
      <4>1. PICK x \in todo[c] : \/ UNCHANGED members
                                 \/ members' = [members EXCEPT ![x][m] = created[c]]
        BY <3>1 DEF AddToSelector
      <4>2. created[c] \in Objects /\ UNCHANGED selected
        BY <3>1 DEF AddToSelector
      <4>3. CASE members' = [members EXCEPT ![x][m] = created[c]]
        <5>1. \A y \in Mains : members'[s][y] = IF s = x /\ y = m THEN created[c] ELSE members[s][y]
          BY <2>1, <4>2, <4>3, MembersUpdated
        <5>2. selected'[s] \in Mains /\ members[s][selected'[s]] # None
          BY <2>5, <4>2 DEF MemberInv
        <5> QED BY <4>2, <5>1, <5>2
      <4>4. CASE UNCHANGED members
        BY <2>5, <4>2, <4>4 DEF MemberInv
      <4> QED BY <4>1, <4>3, <4>4
    <3>2. CASE RemoveFromSelector(c)
      <4>1. PICK x \in todo[c] :
              /\ members' = [members EXCEPT ![x][m] = None]
              /\ selected' = [selected EXCEPT ![x] = IF @ = m THEN Default ELSE @]
        BY <3>2 DEF RemoveFromSelector
      <4>2. \A y \in Mains : members'[s][y] = IF s = x /\ y = m THEN None ELSE members[s][y]
        BY <2>1, <4>1, MembersUpdated
      <4>3. selected'[s] = selected[s] /\ (s = x => selected[s] # m)
        BY <2>5, <4>1
      <4> QED BY <2>5, <4>2, <4>3 DEF MemberInv
    <3>3. CASE ~AddToSelector(c) /\ ~RemoveFromSelector(c)
      <4>1. UNCHANGED groups
        BY <1>2, <3>3 DEF Add, Remove, AddCall, RemoveCall, Call, AddMain, AddHelper, CreateFails,
                         AddLookup, RemoveMain, CheckHelper, RemoveHelper
      <4> QED BY <2>5, <4>1 DEF MemberInv
    <3> QED BY <3>1, <3>2, <3>3
  <2> QED BY <2>4, <2>5 DEF MemberInv
<1> QED BY <1>1, <1>2

-----------------------------------------------------------------------------
(***************************************************************************)
(* What clients can rely on                                                *)
(***************************************************************************)
\* A client that has broken the assumption of AddOutbound has broken it for good.
LEMMA OrderlyBefore == ASSUME [Next]_vars, orderly' PROVE orderly
<1> USE DEF managers, groups
<1>1. ASSUME NEW c \in Calls, Add(c) \/ Remove(c) PROVE orderly
  BY <1>1 DEF Add, Remove, AddCall, RemoveCall, Call, AddMain, AddHelper, CreateFails,
     AddLookup, AddToSelector, RemoveFromSelector, RemoveMain, CheckHelper, RemoveHelper
<1> QED BY <1>1 DEF Next, SelectOutbound, vars

\* The box, the calls in progress and the members keep in step.
OrderlyInv == orderly => BoxInv /\ StepInv /\ MemberInv

THEOREM CallsKeepOrder == Spec => []OrderlyInv
<1>1. Init => OrderlyInv
  BY HotAddAssumption
     DEF Init, OrderlyInv, BoxInv, StepInv, OnCourse, MemberInv, Running
<1>2. TypeOK /\ CallsInv /\ OrderlyInv /\ [Next]_vars => OrderlyInv'
  <2> SUFFICES ASSUME TypeOK, CallsInv, OrderlyInv, [Next]_vars, orderly'
               PROVE  (BoxInv /\ StepInv /\ MemberInv)'
    BY DEF OrderlyInv
  <2>1. BoxInv /\ StepInv /\ MemberInv
    BY OrderlyBefore DEF OrderlyInv
  <2>2. ASSUME NEW c \in Calls, Add(c) \/ Remove(c) PROVE (BoxInv /\ StepInv /\ MemberInv)'
    BY <2>1, <2>2, BoxStep, StepStep, MemberStep
  <2>3. ASSUME NEW s \in Selectors, NEW m \in Mains, SelectOutbound(s, m)
        PROVE  (BoxInv /\ StepInv /\ MemberInv)'
    <3> USE DEF SelectOutbound, managers
    <3>1. BoxInv'
      BY <2>1, <2>3 DEF BoxInv, Holds, TagOf, Running, TagsOf
    <3>2. StepInv'
      BY <2>1, <2>3 DEF StepInv, OnCourse, Lookup
    <3>3. MemberInv'
      BY <2>1, <2>3 DEF MemberInv, Lookup, TypeOK
    <3> QED BY <3>1, <3>2, <3>3
  <2>4. CASE UNCHANGED vars
    <3> USE DEF vars, managers, groups
    <3>1. BoxInv'
      BY <2>1, <2>4 DEF BoxInv, Holds, TagOf, Running, TagsOf
    <3>2. StepInv' /\ MemberInv'
      BY <2>1, <2>4 DEF StepInv, OnCourse, Lookup, MemberInv
    <3> QED BY <3>1, <3>2
  <2> QED BY <2>2, <2>3, <2>4 DEF Next
<1> QED BY <1>1, <1>2, TypeCorrect, PTL DEF Spec

\* No selector dials or holds an outbound that is closed, whatever fails and whatever other
\* calls are in progress (commands.go:351-420).
THEOREM SelectorsHoldOpen == Spec => []MembersAreOpen
<1>1. TypeOK /\ OrderlyInv => MembersAreOpen
  <2> SUFFICES ASSUME TypeOK, BoxInv, MemberInv, NEW s \in Selectors, NEW m \in Mains,
                      members[s][m] # None
               PROVE  members[s][m] \in open
    BY DEF OrderlyInv, MembersAreOpen, MemberInv
  <2>1. Lookup(m) \in Objects /\ members[s][m] = Lookup(m) /\ m \in Tags
    BY DEF TypeOK, MemberInv, Tags
  <2> QED BY <2>1 DEF BoxInv, Holds, Lookup
<1> QED BY <1>1, CallsKeepOrder, TypeCorrect, PTL

-----------------------------------------------------------------------------
(***************************************************************************)
(* What AddOutbound adds                                                   *)
(***************************************************************************)
\* What a step of AddToSelector does to its selector.
LEMMA SelectorJoined ==
  ASSUME TypeOK, CallsInv, StepInv, NEW c \in Calls, AddToSelector(c)
  PROVE  \E s \in todo[c] :
           /\ todo'[c] = todo[c] \ {s}
           /\ \/ pc'[c] = "done" /\ result'[c] = "failed"
              \/ /\ s \in Selectors
                 /\ \A x \in Selectors : members'[x][op[c].tag] =
                      IF x = s THEN <<c, "main">> ELSE members[x][op[c].tag]
                 /\ \/ pc'[c] = "done" /\ result'[c] = "ok" /\ todo[c] = {s}
                    \/ pc'[c] = "members" /\ result'[c] = result[c]
<1> USE DEF TypeOK
<1>1. PICK s \in todo[c] :
        /\ todo' = [todo EXCEPT ![c] = @ \ {s}]
        /\ IF s = Unknown
           THEN Answer(c, "failed") /\ UNCHANGED members
           ELSE /\ members' = [members EXCEPT ![s][op[c].tag] = created[c]]
                /\ AddNext(c, todo[c] \ {s})
  BY DEF AddToSelector
<1>2. op[c].tag \in Mains /\ created[c] = <<c, "main">> /\ created[c] \in Objects
  BY TagsAreTags DEF AddToSelector, CallsInv, StepInv, OnCourse
<1>3. CASE s = Unknown
  BY <1>1, <1>3 DEF Answer
<1>4. CASE s # Unknown
  <2>1. s \in Selectors
    BY <1>4
  <2>2. \A x \in Selectors : members'[x][op[c].tag] =
          IF x = s THEN created[c] ELSE members[x][op[c].tag]
    <3>1. members' = [members EXCEPT ![s][op[c].tag] = created[c]]
      BY <1>1, <1>4
    <3> QED BY <1>2, <3>1, MembersUpdated
  <2>3. \/ pc'[c] = "done" /\ result'[c] = "ok" /\ todo[c] = {s}
        \/ pc'[c] = "members" /\ result'[c] = result[c]
    <3>1. CASE todo[c] \ {s} = {}
      BY <1>1, <1>4, <3>1 DEF AddNext, Answer
    <3>2. CASE todo[c] \ {s} # {}
      BY <1>1, <1>4, <3>2 DEF AddNext, Goto, AddToSelector
    <3> QED BY <3>1, <3>2
  <2> QED BY <1>1, <1>2, <2>1, <2>2, <2>3
<1> QED BY <1>3, <1>4

\* A call in progress goes on with what it has added.
LEMMA ProgressStep ==
  ASSUME TypeOK, CallsInv, orderly', BoxInv, StepInv, AddedInv,
         NEW c \in Calls, Add(c) \/ Remove(c), NEW d \in Calls
  PROVE  Progress(d)'
<1>1. CASE d # c /\ Running(d)
  <2>1. /\ op'[d] = op[d] /\ pc'[d] = pc[d] /\ todo'[d] = todo[d]
        /\ outbounds'[HelperOf(op[d].tag)] = outbounds[HelperOf(op[d].tag)]
        /\ \A s \in Selectors : members'[s][op[d].tag] = members[s][op[d].tag]
    BY <1>1, OthersKeep, StepsAreLocal
  <2> QED BY <2>1 DEF AddedInv, Progress
<1>2. CASE d # c /\ ~Running(d)
  <2>1. pc'[d] \in {"idle", "done"}
    BY <1>2, StepsAreLocal DEF Running
  <2> QED BY <2>1 DEF Progress
<1>3. CASE d = c /\ pc[c] = "idle"
  BY <1>3, CallsStart DEF Progress
<1>4. CASE d = c /\ pc[c] # "idle"
  <2> USE DEF TypeOK, Goto, Answer
  <2>0. UNCHANGED op /\ Progress(c)
    BY <1>4, StepsAreLocal DEF AddedInv
  <2>1. CASE AddMain(c)
    <3>1. pc'[c] = (IF op[c].kind = "pair" THEN "helper" ELSE "lookup") /\ UNCHANGED todo
          /\ pc[c] = "main"
      BY <2>1 DEF AddMain
    <3> QED BY <1>4, <2>0, <3>1 DEF Progress
  <2>2. CASE AddHelper(c)
    <3>1. pc'[c] = "lookup" /\ UNCHANGED todo /\ pc[c] = "helper"
      BY <2>2 DEF AddHelper
    <3> QED BY <1>4, <2>0, <2>2, <3>1, CreationsPutIn DEF Progress
  <2>3. CASE AddLookup(c)
    <3>1. /\ pc'[c] \in {"members", "done"} /\ pc[c] = "lookup" /\ UNCHANGED <<todo, outbounds>>
      BY <2>3 DEF AddLookup, AddNext, managers
    <3> QED BY <1>4, <2>0, <3>1 DEF Progress
  <2>4. CASE AddToSelector(c)
    <3>1. UNCHANGED outbounds /\ pc[c] = "members"
      BY <2>4 DEF AddToSelector, managers
    <3>2. PICK s \in todo[c] :
            /\ todo'[c] = todo[c] \ {s}
            /\ \/ pc'[c] = "done"
               \/ /\ s \in Selectors /\ pc'[c] = "members"
                  /\ \A x \in Selectors : members'[x][op[c].tag] =
                       IF x = s THEN <<c, "main">> ELSE members[x][op[c].tag]
      BY <2>4, SelectorJoined
    <3> QED BY <1>4, <2>0, <3>1, <3>2 DEF Progress
  <2>5. CASE CreateFails(c) \/ RemoveFromSelector(c) \/ RemoveMain(c) \/ CheckHelper(c)
               \/ RemoveHelper(c)
    <3>1. pc'[c] \in RemoveSteps \cup {"done"}
      BY <2>5 DEF CreateFails, RemoveFromSelector, RemoveMain, CheckHelper, RemoveHelper,
                  RemoveSteps
    <3> QED BY <1>4, <3>1 DEF Progress, RemoveSteps
  <2> QED BY <1>4, <2>1, <2>2, <2>3, <2>4, <2>5 DEF Add, Remove, AddCall, RemoveCall, Call
<1> QED BY <1>1, <1>2, <1>3, <1>4

\* A server that was added stays usable while no other call names it.
LEMMA AddedStep ==
  ASSUME TypeOK, CallsInv, CallsInv', orderly', BoxInv, StepInv, AddedInv,
         NEW c \in Calls, Add(c) \/ Remove(c)
  PROVE  AddedIsUsable'
<1> USE HotAddAssumption
<1> SUFFICES ASSUME NEW e \in Calls, result'[e] = "ok", op'[e].kind \in AddKinds,
                    \A d \in Calls : pc'[d] # "idle" /\ op'[d].tag = op'[e].tag => d = e
             PROVE  Usable(e)'
  BY DEF AddedIsUsable
<1>0. /\ orderly /\ \A x \in Calls : Progress(x)
      /\ result[e] # None => pc[e] = "done"
  BY OrderlyBefore DEF AddedInv, CallsInv, Next
<1>1. CASE e # c
  <2>1. result[e] = "ok" /\ op'[e] = op[e] /\ pc[e] = "done" /\ op[e] \in Requests
    BY <1>0, <1>1, StepsAreLocal DEF CallsInv
  <2>2. ASSUME NEW d \in Calls, pc[d] # "idle", op[d].tag = op[e].tag
        PROVE  d = e
    BY <2>1, <2>2, StepsAreLocal
  <2>3. Usable(e)
    BY <1>0, <2>1, <2>2 DEF AddedInv, AddedIsUsable
  <2>4. CASE pc[c] = "idle"
    BY <2>1, <2>3, <2>4, CallsStart DEF Usable, Lookup, managers, groups
  <2>5. CASE pc[c] # "idle"
    <3>1. /\ op[c].tag \in Mains /\ op[c].tag # op[e].tag
          /\ op[e].tag \in Mains /\ op[e].tag \in Tags /\ HelperOf(op[e].tag) \in Tags
      BY <1>1, <2>1, <2>2, <2>5, TagsAreTags DEF CallsInv
    <3>2. /\ op[e].tag \in Mains \ {op[c].tag}
          /\ op[e].tag \in Tags \ {op[c].tag, HelperOf(op[c].tag)}
          /\ HelperOf(op[e].tag) \in Tags \ {op[c].tag, HelperOf(op[c].tag)}
      BY <3>1 DEF HelperOf
    <3>3. /\ \A t \in {op[e].tag, HelperOf(op[e].tag)} :
               outbounds'[t] = outbounds[t] /\ endpoints'[t] = endpoints[t]
          /\ \A s \in Selectors : members'[s][op[e].tag] = members[s][op[e].tag]
      BY <2>5, <3>1, <3>2, TagsAreApart
    <3> QED BY <2>1, <2>3, <3>3 DEF Usable, Lookup
  <2> QED BY <2>4, <2>5
<1>2. CASE e = c
  <2> USE DEF TypeOK, Goto, Answer
  <2>1. result[c] = None
    BY <1>0, <1>2, StepsAreLocal DEF CallsInv
  <2>2. pc[c] # "idle" /\ UNCHANGED op
    BY <1>2, <2>1, StepsAreLocal DEF Add, Remove, AddCall, RemoveCall, AddMain, AddHelper,
       CreateFails, AddLookup, AddToSelector, RemoveFromSelector, RemoveMain, CheckHelper,
       RemoveHelper
  <2>3. pc[c] \notin RemoveSteps
    BY <1>2, <2>2 DEF CallsInv, AddKinds
  <2>4. AddLookup(c) \/ AddToSelector(c)
    BY <1>2, <2>1, <2>2, <2>3 DEF Add, Remove, AddCall, RemoveCall, Call, AddMain, AddHelper,
       CreateFails, RemoveFromSelector, RemoveMain, CheckHelper, RemoveHelper, RemoveSteps
  <2>5. CASE AddLookup(c)
    <3>1. todo[c] = {} /\ UNCHANGED managers /\ pc[c] = "lookup"
      BY <1>2, <2>1, <2>5 DEF AddLookup, AddNext
    <3>2. op[c].selectors = {} /\ Lookup(op[c].tag) = <<c, "main">>
          /\ (op[c].kind = "pair" => outbounds[HelperOf(op[c].tag)] = <<c, "helper">>)
      BY <1>0, <3>1 DEF Progress, StepInv, OnCourse
    <3> QED BY <1>2, <2>2, <3>1, <3>2 DEF Usable, Lookup, managers
  <2>6. CASE AddToSelector(c)
    <3>1. UNCHANGED managers /\ pc[c] = "members"
      BY <2>6 DEF AddToSelector
    <3>2. PICK s \in todo[c] :
            /\ s \in Selectors /\ todo[c] = {s}
            /\ \A x \in Selectors : members'[x][op[c].tag] =
                 IF x = s THEN <<c, "main">> ELSE members[x][op[c].tag]
      BY <1>2, <2>1, <2>6, SelectorJoined
    <3>3. \A x \in op[c].selectors : x \in Selectors /\ members'[x][op[c].tag] = <<c, "main">>
      BY <1>0, <3>1, <3>2 DEF Progress
    <3>4. Lookup(op[c].tag) = <<c, "main">>
          /\ (op[c].kind = "pair" => outbounds[HelperOf(op[c].tag)] = <<c, "helper">>)
      BY <1>0, <3>1 DEF Progress, StepInv, OnCourse
    <3> QED BY <1>2, <2>2, <3>1, <3>3, <3>4 DEF Usable, Lookup, managers
  <2> QED BY <2>4, <2>5, <2>6
<1> QED BY <1>1, <1>2

\* An AddOutbound that answers OK has put its server, in every selector it named, and its
\* helper in the box, and no call about another tag takes them away (commands.go:198-345).
THEOREM AddedStaysUsable == Spec => []AddedIsUsable
<1>1. Init => (orderly => AddedInv)
  BY HotAddAssumption DEF Init, AddedInv, AddedIsUsable, Progress
<1>2. TypeOK /\ CallsInv /\ CallsInv' /\ OrderlyInv /\ (orderly => AddedInv) /\ [Next]_vars
        => (orderly => AddedInv)'
  <2> SUFFICES ASSUME TypeOK, CallsInv, CallsInv', OrderlyInv, orderly => AddedInv, [Next]_vars,
                      orderly'
               PROVE  AddedInv'
    OBVIOUS
  <2>1. BoxInv /\ StepInv /\ AddedInv
    BY OrderlyBefore DEF OrderlyInv
  <2>2. ASSUME NEW c \in Calls, Add(c) \/ Remove(c) PROVE AddedInv'
    BY <2>1, <2>2, ProgressStep, AddedStep DEF AddedInv
  <2>3. ASSUME NEW s \in Selectors, NEW m \in Mains, SelectOutbound(s, m) PROVE AddedInv'
    BY <2>1, <2>3 DEF SelectOutbound, managers, AddedInv, AddedIsUsable, Usable, Progress, Lookup
  <2>4. CASE UNCHANGED vars
    BY <2>1, <2>4 DEF vars, managers, groups, AddedInv, AddedIsUsable, Usable, Progress, Lookup
  <2> QED BY <2>2, <2>3, <2>4 DEF Next
<1>3. (orderly => AddedInv) => AddedIsUsable
  BY DEF AddedInv, AddedIsUsable
<1> QED BY <1>1, <1>2, <1>3, TypeCorrect, CallsKeepOrder, PTL DEF Spec

-----------------------------------------------------------------------------
(***************************************************************************)
(* What RemoveOutbound leaves                                              *)
(***************************************************************************)
\* A removal that answered with an error is remembered.
LEMMA FailuresStay ==
  ASSUME TypeOK, CallsInv, NEW c \in Calls, Add(c) \/ Remove(c), NEW m, RemovalFailed(m)
  PROVE  RemovalFailed(m)'
<1>1. PICK d \in Calls : op[d] # None /\ op[d].kind = "remove" /\ op[d].tag = m
                           /\ result[d] = "failed"
  BY DEF RemovalFailed
<1>2. d # c
  BY <1>1, StepsAreLocal, HotAddAssumption DEF CallsInv
<1> QED BY <1>1, <1>2, StepsAreLocal DEF RemovalFailed

\* The removal that answers with an error is one.
LEMMA FailuresCount ==
  ASSUME TypeOK, CallsInv, NEW c \in Calls, RemoveMain(c), Answer(c, "failed")
  PROVE  RemovalFailed(op[c].tag)'
<1>1. op' = op /\ op[c] \in Requests /\ op[c].kind = "remove" /\ result'[c] = "failed"
  BY DEF RemoveMain, CallsInv, RemoveSteps, Answer, TypeOK
<1> QED BY <1>1, HotAddAssumption DEF RemovalFailed

\* A call manages nothing new but what it creates, in progress.
LEMMA ManagedGrows ==
  ASSUME TypeOK, CallsInv, orderly', NEW c \in Calls, Add(c) \/ Remove(c),
         NEW o \in Managed', o \notin Managed
  PROVE  pc[c] # "idle" /\ o \in {<<c, "main">>, <<c, "helper">>}
<1> USE DEF TypeOK, Managed, managers, groups
<1>1. CASE pc[c] = "idle"
  BY <1>1, CallsStart
<1>2. CASE AddMain(c)
  <2>1. op[c].tag \in Tags /\ TagOf(<<c, "main">>) = op[c].tag
    BY <1>2, TagsAreTags DEF AddMain, CallsInv
  <2>2. CASE op[c].kind = "endpoint"
    BY <1>2, <2>1, <2>2 DEF AddMain, Create
  <2>3. CASE op[c].kind # "endpoint"
    BY <1>2, <2>1, <2>3 DEF AddMain, Create
  <2> QED BY <2>2, <2>3
<1>3. CASE AddHelper(c)
  <2>1. HelperOf(op[c].tag) \in Tags /\ TagOf(<<c, "helper">>) = HelperOf(op[c].tag)
    BY <1>3, TagsAreTags DEF AddHelper, CallsInv
  <2> QED BY <1>3, <2>1 DEF AddHelper, Create
<1>4. CASE RemoveMain(c) \/ RemoveHelper(c)
  <2>1. \A t \in Tags : /\ outbounds'[t] \in {outbounds[t], None}
                        /\ endpoints'[t] \in {endpoints[t], None}
    BY <1>4 DEF RemoveMain, RemoveHelper, RemoveOutboundTag
  <2> QED BY <2>1
<1>5. CASE CreateFails(c) \/ AddLookup(c) \/ AddToSelector(c) \/ RemoveFromSelector(c)
             \/ CheckHelper(c)
  BY <1>5 DEF CreateFails, AddLookup, AddToSelector, RemoveFromSelector, CheckHelper
<1> QED BY <1>1, <1>2, <1>3, <1>4, <1>5 DEF Add, Remove, AddCall, RemoveCall, Call

\* What is managed is open.
LEMMA ManagedIsOpen ==
  ASSUME TypeOK, BoxInv, NEW o \in Managed
  PROVE  o \in open /\ TagOf(o) \in Tags /\ (outbounds[TagOf(o)] = o \/ endpoints[TagOf(o)] = o)
BY DEF TypeOK, Managed, BoxInv, Holds

\* What a call creates depends on no tag of another call in progress.
LEMMA DependenciesAreApart ==
  ASSUME TypeOK, CallsInv, BoxInv, NEW c \in Calls, NEW d \in Calls, c # d,
         Running(c), Running(d), NEW o \in {<<c, "main">>, <<c, "helper">>}
  PROVE  HelperOf(op[d].tag) \notin Dependencies(o)
<1>1. /\ HelperOf(op[d].tag) \in TagsOf(op[d]) /\ HelperOf(op[d].tag) # None
      /\ TagsOf(op[c]) \cap TagsOf(op[d]) = {}
  <2>1. HelperOf(op[d].tag) \in Tags
    BY TagsAreTags DEF CallsInv, Running
  <2> QED BY <2>1, HotAddAssumption DEF BoxInv, TagsOf
<1>2. Dependencies(o) \subseteq TagsOf(op[c]) \cup {None}
  BY DEF Dependencies, TagsOf
<1> QED BY <1>1, <1>2

\* Nothing comes to refer to a helper that is about to be removed.
LEMMA HelperStaysUnreferenced ==
  ASSUME TypeOK, CallsInv, orderly', BoxInv, UnreachableInv, NEW c \in Calls, Add(c) \/ Remove(c),
         NEW d \in Calls, pc'[d] = "removeHelper"
  PROVE  ~Referenced(HelperOf(op[d].tag))'
<1>1. CASE d = c
  <2>1. CheckHelper(c)
    BY <1>1 DEF Add, Remove, AddCall, RemoveCall, AddMain, AddHelper, CreateFails, AddLookup,
       AddNext, AddToSelector, RemoveFromSelector, RemoveMain, CheckHelper, RemoveHelper,
       Goto, Answer, TypeOK
  <2>2. ~Referenced(HelperOf(op[c].tag)) /\ UNCHANGED <<op, managers>>
    BY <1>1, <2>1 DEF CheckHelper, Answer, TypeOK
  <2> QED BY <1>1, <2>2 DEF Referenced, Managed, managers, TagOf, Dependencies
<1>2. CASE d # c
  <2>1. pc[d] = "removeHelper" /\ Running(d) /\ op'[d] = op[d]
    BY <1>2, StepsAreLocal DEF Running
  <2>2. ~Referenced(HelperOf(op[d].tag))
    BY <2>1 DEF UnreachableInv
  <2> SUFFICES ASSUME NEW o \in Managed', TagOf(o)' # HelperOf(op[d].tag),
                      HelperOf(op[d].tag) \in Dependencies(o)'
               PROVE  FALSE
    BY <2>1 DEF Referenced
  <2>3. CASE o \in Managed
    BY <2>2, <2>3, ManagedIsOpen, TagsStay DEF Referenced
  <2>4. CASE o \notin Managed
    <3>1. pc[c] # "idle" /\ o \in {<<c, "main">>, <<c, "helper">>}
      BY <2>4, ManagedGrows
    <3>2. Running(c) /\ UNCHANGED op
      BY <3>1, StepsAreLocal DEF Running
    <3>3. Dependencies(o)' = Dependencies(o)
      BY <3>2 DEF Dependencies
    <3> QED BY <1>2, <2>1, <3>1, <3>2, <3>3, DependenciesAreApart
  <2> QED BY <2>3, <2>4
<1> QED BY <1>1, <1>2

\* An object leaves the managers when it is closed, or with an answer that tells.
LEMMA UnreachableStep ==
  ASSUME TypeOK, TypeOK', CallsInv, orderly', BoxInv, StepInv, UnreachableInv,
         NEW c \in Calls, Add(c) \/ Remove(c)
  PROVE  UnreachableInv'
<1>1. ASSUME NEW x \in open', x \notin Managed'
      PROVE  RemovalFailed(TagOf(x))'
  <2>1. CASE x \in open /\ x \notin Managed
    <3>1. RemovalFailed(TagOf(x))
      BY <2>1, StepsAreLocal, CallsStart DEF UnreachableInv, NothingUnreachable
    <3> QED BY <2>1, <3>1, FailuresStay, TagsStay
  <2>2. CASE x \in Managed
    <3> DEFINE t == TagOf(x)
    <3>1. /\ x \in open /\ t \in Tags /\ (outbounds[t] = x \/ endpoints[t] = x)
          /\ t' = t /\ x \in Objects /\ x # None
      BY <2>2, ManagedIsOpen, TagsStay, HotAddAssumption
    <3>2. outbounds'[t] # x /\ endpoints'[t] # x
      BY <1>1, <3>1 DEF Managed
    <3>3. pc[c] # "idle"
      BY <3>1, <3>2, CallsStart DEF managers
    <3>4. op[c] \in Requests /\ t \in {op[c].tag, HelperOf(op[c].tag)}
      BY <3>1, <3>2, <3>3, TagsAreApart DEF CallsInv
    <3>5. x = Lookup(t)
      BY <3>1 DEF Lookup, BoxInv, TypeOK
    <3>6. CASE AddMain(c)
      <4>1. /\ Lookup(op[c].tag) = None
            /\ \A y \in Tags \ {op[c].tag} :
                 outbounds'[y] = outbounds[y] /\ endpoints'[y] = endpoints[y]
        <5>1. Lookup(op[c].tag) = None /\ TagOf(<<c, "main">>) = op[c].tag
          BY <3>4, <3>6, TagsAreTags DEF AddMain, StepInv, OnCourse
        <5> QED BY <3>6, <5>1 DEF AddMain, Create, TypeOK
      <4> QED BY <3>1, <3>2, <3>5, <4>1
    <3>7. CASE AddHelper(c)
      <4>1. TagOf(<<c, "helper">>) = HelperOf(op[c].tag) /\ HelperOf(op[c].tag) \in Tags
        BY <3>4, TagsAreTags
      <4>2. CASE t = HelperOf(op[c].tag)
        <5>1. endpoints[t] = None
          BY <3>1, <3>4, <4>2, TagsAreTags, HotAddAssumption DEF BoxInv, TypeOK
        <5>2. x # <<c, "helper">> /\ x = outbounds[t]
          BY <3>1, <3>2, <3>7, <4>1, <4>2, <5>1 DEF AddHelper, Create, TypeOK
        <5> QED BY <1>1, <3>7, <4>1, <4>2, <5>2 DEF AddHelper, Create
      <4>3. CASE t # HelperOf(op[c].tag)
        BY <3>1, <3>2, <3>7, <4>1, <4>3 DEF AddHelper, Create, TypeOK
      <4> QED BY <4>2, <4>3
    <3>8. CASE RemoveMain(c)
      <4>1. TakenOut(op[c].tag) /\ op[c].tag \in Tags
        BY <3>8, RemovalsTakeOut
      <4>2. t = op[c].tag
        BY <3>1, <3>2, <4>1 DEF TakenOut
      <4>3. x \notin open' \/ Answer(c, "failed")
        BY <3>1, <3>5, <3>8, <4>2 DEF RemoveMain, RemoveOutboundTag, Lookup
      <4>4. Answer(c, "failed") => RemovalFailed(op[c].tag)'
        BY <3>8, FailuresCount
      <4>5. UNCHANGED op
        BY <3>3, StepsAreLocal
      <4> QED BY <1>1, <3>1, <4>2, <4>3, <4>4, <4>5 DEF RemovalFailed
    <3>9. CASE RemoveHelper(c)
      <4>1. TakenOut(HelperOf(op[c].tag)) /\ HelperOf(op[c].tag) \in Tags
        BY <3>9, RemovalsTakeOut
      <4>2. t = HelperOf(op[c].tag)
        BY <3>1, <3>2, <4>1 DEF TakenOut
      <4>3. endpoints[t] = None
        BY <3>1, <3>4, <4>2, TagsAreTags, HotAddAssumption DEF BoxInv, TypeOK
      <4>4. ~Referenced(t)
        BY <3>9, <4>2 DEF RemoveHelper, UnreachableInv
      <4>5. x \notin open'
        BY <3>1, <3>9, <4>2, <4>3, <4>4 DEF RemoveHelper, RemoveOutboundTag
      <4> QED BY <1>1, <4>5
    <3>10. CASE UNCHANGED managers
      BY <3>1, <3>2, <3>10 DEF managers
    <3> QED BY <3>3, <3>6, <3>7, <3>8, <3>9, <3>10 DEF Add, Remove, AddCall, RemoveCall, Call,
            CreateFails, AddLookup, AddToSelector, RemoveFromSelector, CheckHelper, managers
  <2>3. CASE x \notin open
    <3>1. PICK o \in {<<c, "main">>, <<c, "helper">>} :
            x = o /\ (Create(outbounds, o) \/ Create(endpoints, o)) /\ (AddMain(c) \/ AddHelper(c))
      BY <1>1, <2>3 DEF Add, Remove, AddCall, AddMain, AddHelper, CreateFails, AddLookup,
         AddToSelector, RemoveCall, RemoveFromSelector, RemoveMain, CheckHelper, RemoveHelper,
         RemoveOutboundTag, Create, managers
    <3>2. TagOf(o) \in Tags /\ o # None
      BY <3>1, TagsAreTags, HotAddAssumption DEF AddMain, AddHelper, CallsInv
    <3> QED BY <1>1, <3>1, <3>2 DEF Create, Managed, TypeOK
  <2> QED BY <2>1, <2>2, <2>3
<1> QED BY <1>1, HelperStaysUnreferenced DEF UnreachableInv, NothingUnreachable

\* Whether a server uses its helper is settled with what its tag leads to.
LEMMA UseStays ==
  ASSUME TypeOK, BoxInv, NEW c \in Calls, Add(c) \/ Remove(c), NEW m \in Mains,
         Lookup(m)' = Lookup(m)
  PROVE  UsesHelper(m)' <=> UsesHelper(m)
<1>1. CASE Lookup(m) = None
  BY <1>1 DEF UsesHelper
<1>2. CASE Lookup(m) # None
  <2>1. Lookup(m) \in open
    BY <1>2 DEF Lookup, TypeOK, BoxInv, Holds, Tags
  <2>2. Dependencies(Lookup(m))' = Dependencies(Lookup(m))
    BY <2>1, TagsStay DEF Dependencies
  <2> QED BY <2>2 DEF UsesHelper
<1> QED BY <1>1, <1>2

\* A removal in progress knows whether the server it is about uses its helper.
LEMMA RemovalKnowsHelper ==
  ASSUME TypeOK, CallsInv, orderly', BoxInv, HelperInv, NEW c \in Calls, Add(c) \/ Remove(c),
         NEW d \in Calls, NEW m \in Mains, pc'[d] \in {"removeMembers", "removeMain"},
         op'[d].tag = m
  PROVE  helper'[d] <=> UsesHelper(m)'
<1>1. CASE d # c
  <2>1. /\ pc[d] \in {"removeMembers", "removeMain"} /\ Running(d) /\ helper'[d] = helper[d]
        /\ op[d].tag = m
    BY <1>1, StepsAreLocal DEF Running
  <2>2. Lookup(m)' = Lookup(m)
    BY <1>1, <2>1, OthersKeep DEF Lookup
  <2> QED BY <2>1, <2>2, UseStays DEF HelperInv
<1>2. CASE d = c /\ pc[c] = "idle"
  <2>1. (helper'[c] <=> UsesHelper(m)) /\ UNCHANGED managers
    BY <1>2, CallsStart DEF UsesHelper
  <2>2. Lookup(m)' = Lookup(m)
    BY <2>1 DEF managers, Lookup
  <2> QED BY <1>2, <2>1, <2>2, UseStays
<1>3. CASE d = c /\ pc[c] # "idle"
  <2>1. RemoveFromSelector(c)
    BY <1>3 DEF Add, Remove, AddCall, RemoveCall, Call, AddMain, AddHelper, CreateFails, AddLookup,
       AddNext, AddToSelector, RemoveMain, CheckHelper, RemoveHelper, Goto, Answer, TypeOK
  <2>2. /\ pc[c] = "removeMembers" /\ op[c].tag = m /\ helper'[c] = helper[c]
        /\ Lookup(m)' = Lookup(m)
    BY <1>3, <2>1 DEF RemoveFromSelector, managers, Lookup
  <2> QED BY <1>3, <2>2, UseStays DEF HelperInv
<1> QED BY <1>1, <1>2, <1>3

\* A helper loses its server only to a removal that goes on to it, or answers with an error.
LEMMA HelperStep ==
  ASSUME TypeOK, CallsInv, orderly', BoxInv, StepInv, HelperInv, NEW c \in Calls,
         Add(c) \/ Remove(c), NEW m \in Mains, outbounds'[HelperOf(m)] # None
  PROVE  \/ UsesHelper(m)' \/ HelperOf(m) \in kept' \/ RemovalFailed(m)'
         \/ \E d \in Calls : pc'[d] \in {"checkHelper", "removeHelper"} /\ op'[d].tag = m
<1> USE DEF managers, Goto, Answer
<1>0. /\ m \in Tags /\ HelperOf(m) \in Tags /\ m # HelperOf(m)
      /\ kept \subseteq kept' /\ (RemovalFailed(m) => RemovalFailed(m)')
  <2>1. kept \subseteq kept'
    BY DEF Add, Remove, AddCall, RemoveCall, AddMain, AddHelper, CreateFails, AddLookup,
       AddToSelector, RemoveFromSelector, RemoveMain, CheckHelper, RemoveHelper
  <2> QED BY <2>1, FailuresStay, HotAddAssumption DEF Tags
<1>1. CASE Lookup(m)' = Lookup(m) /\ outbounds'[HelperOf(m)] = outbounds[HelperOf(m)]
             /\ (Running(c) => op[c].tag # m)
  <2>1. (UsesHelper(m) => UsesHelper(m)') /\ outbounds[HelperOf(m)] # None
    BY <1>1, UseStays
  <2>2. ASSUME NEW d \in Calls, pc[d] \in {"checkHelper", "removeHelper"}, op[d].tag = m
        PROVE  pc'[d] \in {"checkHelper", "removeHelper"} /\ op'[d].tag = m
    BY <1>1, <2>2, StepsAreLocal DEF Running
  <2> QED BY <1>0, <2>1, <2>2 DEF HelperInv
<1>2. CASE pc[c] = "idle"
  <2>1. Lookup(m)' = Lookup(m) /\ UNCHANGED outbounds
    BY <1>2, CallsStart DEF Lookup
  <2> QED BY <1>1, <1>2, <2>1 DEF Running
<1>3. CASE pc[c] # "idle" /\ op[c].tag # m
  <2>1. op[c].tag \in Mains
    BY <1>3, TagsAreTags DEF CallsInv
  <2>2. /\ m \in Tags \ {op[c].tag, HelperOf(op[c].tag)}
        /\ HelperOf(m) \in Tags \ {op[c].tag, HelperOf(op[c].tag)}
    BY <1>0, <1>3, <2>1, HotAddAssumption DEF HelperOf
  <2>3. Lookup(m)' = Lookup(m) /\ outbounds'[HelperOf(m)] = outbounds[HelperOf(m)]
    BY <1>3, <2>2, TagsAreApart DEF Lookup
  <2> QED BY <1>1, <1>3, <2>3
<1>4. CASE pc[c] # "idle" /\ op[c].tag = m
  <2>1. UNCHANGED op /\ Running(c)
    BY <1>4, StepsAreLocal DEF Running
  <2>2. ASSUME NEW d \in Calls, pc[d] \in {"checkHelper", "removeHelper"}, op[d].tag = m
        PROVE  d = c
    BY <1>4, <2>1, <2>2 DEF BoxInv, Running, TagsOf
  <2>3. CASE AddMain(c)
    <3>1. ~UsesHelper(m) /\ pc[c] = "main"
      BY <1>4, <2>3 DEF UsesHelper, StepInv, OnCourse, AddMain
    <3>2. outbounds'[HelperOf(m)] = outbounds[HelperOf(m)]
      <4>1. TagOf(<<c, "main">>) = m
        BY <1>4, TagsAreTags DEF CallsInv
      <4> QED BY <1>0, <2>3, <4>1 DEF AddMain, Create, TypeOK
    <3> QED BY <1>0, <2>2, <3>1, <3>2 DEF HelperInv
  <2>4. CASE AddHelper(c)
    <3>1. op[c].kind = "pair" /\ pc[c] = "helper"
      BY <2>4 DEF AddHelper, CallsInv
    <3>2. Lookup(m)' = <<c, "main">> /\ op[c] \in Requests
      BY <1>4, <2>1, <2>4, <3>1, CreationsPutIn DEF StepInv, OnCourse, CallsInv, Lookup
    <3>3. HelperOf(m) \in Dependencies(<<c, "main">>)'
      BY <1>4, <2>1, <3>1 DEF Dependencies
    <3>4. <<c, "main">> # None
      BY <3>2, TagsAreTags, HotAddAssumption
    <3> QED BY <3>2, <3>3, <3>4 DEF UsesHelper
  <2>5. CASE RemoveMain(c)
    <3>1. /\ outbounds'[HelperOf(m)] = outbounds[HelperOf(m)] /\ pc[c] = "removeMain"
      BY <1>0, <1>4, <2>5 DEF RemoveMain, RemoveOutboundTag, TypeOK
    <3>2. UsesHelper(m) => helper[c]
      BY <1>4, <3>1 DEF HelperInv
    <3>3. UsesHelper(m) => pc'[c] = "checkHelper" \/ Answer(c, "failed")
      BY <2>5, <3>2 DEF RemoveMain, TypeOK
    <3>4. Answer(c, "failed") => RemovalFailed(m)'
      BY <1>4, <2>1, <2>5, FailuresCount DEF RemovalFailed
    <3> QED BY <1>0, <1>4, <2>1, <2>2, <3>1, <3>3, <3>4 DEF HelperInv
  <2>6. CASE CheckHelper(c)
    BY <1>4, <2>1, <2>6 DEF CheckHelper, TypeOK
  <2>7. CASE RemoveHelper(c)
    BY <1>4, <2>7, RemovalsTakeOut DEF TakenOut
  <2>8. CASE CreateFails(c) \/ AddLookup(c) \/ AddToSelector(c) \/ RemoveFromSelector(c)
    <3>1. UNCHANGED managers /\ pc[c] \notin {"checkHelper", "removeHelper"}
      BY <2>8 DEF CreateFails, AddLookup, AddToSelector, RemoveFromSelector
    <3>2. Lookup(m)' = Lookup(m)
      BY <3>1 DEF Lookup
    <3>3. UsesHelper(m) => UsesHelper(m)'
      BY <3>2, UseStays
    <3> QED BY <1>0, <2>2, <3>1, <3>3 DEF HelperInv
  <2> QED BY <1>4, <2>3, <2>4, <2>5, <2>6, <2>7, <2>8 DEF Add, Remove, AddCall, RemoveCall, Call
<1> QED BY <1>2, <1>3, <1>4

\* What removals leave open, and the helpers they leave in the box, is accounted for.
LeftInv == orderly => UnreachableInv /\ HelperInv

THEOREM RemovalsAccount == Spec => []LeftInv
<1> USE DEF LeftInv
<1>1. Init => LeftInv
  BY HotAddAssumption DEF Init, UnreachableInv, NothingUnreachable, HelperInv, Tags
<1>2. TypeOK /\ TypeOK' /\ CallsInv /\ OrderlyInv /\ LeftInv /\ [Next]_vars => LeftInv'
  <2> SUFFICES ASSUME TypeOK, TypeOK', CallsInv, OrderlyInv, LeftInv, [Next]_vars, orderly'
               PROVE  (UnreachableInv /\ HelperInv)'
    OBVIOUS
  <2>1. BoxInv /\ StepInv /\ UnreachableInv /\ HelperInv
    BY OrderlyBefore DEF OrderlyInv
  <2>2. ASSUME NEW c \in Calls, Add(c) \/ Remove(c) PROVE (UnreachableInv /\ HelperInv)'
    <3>1. HelperInv'
      BY <2>1, <2>2, HelperStep, RemovalKnowsHelper DEF HelperInv
    <3> QED BY <2>1, <2>2, <3>1, UnreachableStep
  <2>3. CASE (\E s \in Selectors, m \in Mains : SelectOutbound(s, m)) \/ UNCHANGED vars
    <3>1. UNCHANGED <<op, pc, result, helper, managers, orderly, kept>>
      BY <2>3 DEF SelectOutbound, vars
    <3> USE DEF managers
    <3>2. UnreachableInv'
      BY <2>1, <3>1 DEF UnreachableInv, NothingUnreachable, RemovalFailed, TagOf, Managed,
         Referenced, Dependencies
    <3>3. HelperInv'
      BY <2>1, <3>1 DEF HelperInv, UsesHelper, RemovalFailed, Lookup, Dependencies
    <3> QED BY <3>2, <3>3
  <2> QED BY <2>2, <2>3 DEF Next
<1> QED BY <1>1, <1>2, TypeCorrect, CallsKeepOrder, PTL DEF Spec

\* Nothing stays started that no tag leads to, whatever failed and whatever other calls were
\* in progress, unless a removal about that tag answered with an error (commands.go:360-420).
THEOREM OpenIsReachable == Spec => []NothingUnreachable
<1>1. LeftInv => NothingUnreachable
  BY DEF LeftInv, UnreachableInv, NothingUnreachable
<1> QED BY <1>1, RemovalsAccount, PTL

\* Once no call about a server is in progress, its helper is in the box with the server, or
\* something referred to it, or a removal answered with an error (commands.go:231-420).
THEOREM HelpersAreUsed == Spec => []NoOrphanHelper
<1>1. LeftInv => NoOrphanHelper
  BY DEF LeftInv, HelperInv, NoOrphanHelper, UsesHelper, Running
<1> QED BY <1>1, RemovalsAccount, PTL
=============================================================================
