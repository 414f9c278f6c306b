-------------------------------- MODULE HotAdd --------------------------------
(***************************************************************************)
(* Hot add and remove (v2/hcore/commands.go): AddOutbound, RemoveOutbound  *)
(* and SelectOutbound change the outbounds of the running box, each in a   *)
(* gRPC handler of its own and under no lock of the core; only the single  *)
(* calls into sing-box's managers and selectors are atomic.                *)
(*                                                                         *)
(* AddOutbound says what it assumes: "mainTag is already unique in the     *)
(* live box" (commands.go:252).  `orderly` holds while clients keep to     *)
(* that and no two calls about the same tags overlap; a client that gives  *)
(* up on a call and issues the next one breaks it, since the handlers do   *)
(* not see the client's context.                                           *)
(***************************************************************************)
CONSTANTS Calls,      \* RPC calls; each is made at most once
          Mains,      \* tags of hot-added servers
          Selectors,  \* the selectors of the running box
          Unknown,    \* a selector tag that is not there, or not a selector
          Default,    \* the static first member of every selector
          None

VARIABLES op,         \* the request of each call
          pc,         \* the next step of its handler
          result,     \* its answer
          created,    \* AddOutbound: what it looked up under the main tag
          todo,       \* the selectors still to visit
          helper,     \* RemoveOutbound: main had its helper among its dependencies
          outbounds,  \* OutboundManager: tag -> outbound
          endpoints,  \* EndpointManager: tag -> endpoint
          open,       \* what is started and not closed
          members,    \* the dynamic members of each selector: tag -> what it dials
          selected,   \* the selected tag of each selector
          orderly,    \* history, see above
          kept        \* history: helpers left in place because something referred to them

managers == <<outbounds, endpoints, open>>
groups == <<members, selected>>
vars == <<op, pc, result, created, todo, helper, managers, groups, orderly, kept>>

HelperOf(m) == <<m, "helper">>   \* mainTag + " · " + type
Tags == Mains \cup {HelperOf(m) : m \in Mains}

\* What a call creates; an object is known by the call that created it.
Objects == Calls \X {"main", "helper"}

AddKinds == {"plain",     \* one outbound
             "pair",      \* an outbound with a detour to a helper from the same content
             "chain",     \* an outbound with a detour to a tag of the box
             "endpoint"}  \* wireguard or awg

Requests == [kind : AddKinds \cup {"remove"}, tag : Mains, detour : Tags \cup {None},
             selectors : SUBSET (Selectors \cup {Unknown})]

\* The three sentinels are none of what they stand in for, and no server has the tag that the
\* core derives for the helper of another.
ASSUME HotAddAssumption ==
  /\ Unknown \notin Selectors
  /\ Default \notin Mains
  /\ None \notin Tags \cup Objects \cup Requests \cup {"ok", "failed"}
  /\ \A m \in Mains : HelperOf(m) \notin Mains

TagOf(o) == IF o[2] = "main" THEN op[o[1]].tag ELSE HelperOf(op[o[1]].tag)

Dependencies(o) ==
  CASE o[2] = "main" /\ op[o[1]].kind = "pair"  -> {HelperOf(op[o[1]].tag)}
    [] o[2] = "main" /\ op[o[1]].kind = "chain" -> {op[o[1]].detour}
    [] OTHER                                    -> {}

Managed == ({outbounds[t] : t \in Tags} \cup {endpoints[t] : t \in Tags}) \ {None}

\* outboundTagReferenced, and the manager's own "is depended by".
Referenced(t) == \E o \in Managed : TagOf(o) # t /\ t \in Dependencies(o)

\* OutboundManager.Outbound falls back to the endpoints.
Lookup(t) == IF outbounds[t] # None THEN outbounds[t] ELSE endpoints[t]

Running(c) == pc[c] \notin {"idle", "done"}
TagsOf(r) == {r.tag, HelperOf(r.tag)} \cup ({r.detour} \ {None})

Init ==
  /\ op = [c \in Calls |-> None] /\ pc = [c \in Calls |-> "idle"]
  /\ result = [c \in Calls |-> None] /\ created = [c \in Calls |-> None]
  /\ todo = [c \in Calls |-> {}] /\ helper = [c \in Calls |-> FALSE]
  /\ outbounds = [t \in Tags |-> None] /\ endpoints = [t \in Tags |-> None] /\ open = {}
  /\ members = [s \in Selectors |-> [m \in Mains |-> None]]
  /\ selected = [s \in Selectors |-> Default]
  /\ orderly = TRUE /\ kept = {}

-----------------------------------------------------------------------------
\* Create starts the new object, and closes the one it replaces.
Create(manager, o) ==
  /\ manager' = [manager EXCEPT ![TagOf(o)] = o]
  /\ open' = (open \ {manager[TagOf(o)]}) \cup {o}

\* OutboundManager.Remove takes a tag out of the map before it answers "is depended by", and
\* does not close it then.
RemoveOutboundTag(t) ==
  /\ outbounds' = [outbounds EXCEPT ![t] = None]
  /\ open' = IF Referenced(t) THEN open ELSE open \ {outbounds[t]}
  /\ UNCHANGED endpoints

Answer(c, r) == pc' = [pc EXCEPT ![c] = "done"] /\ result' = [result EXCEPT ![c] = r]
Goto(c, step) == pc' = [pc EXCEPT ![c] = step] /\ UNCHANGED result

\* A client makes a call.  Bound: none is made after the first that breaks the assumption, as
\* nothing but TypeOK is claimed from there on; the calls in progress run to their end.
Call(c, r) ==
  /\ pc[c] = "idle" /\ orderly
  /\ op' = [op EXCEPT ![c] = r]
  /\ orderly' = (/\ orderly
                 /\ \A d \in Calls : Running(d) => TagsOf(op[d]) \cap TagsOf(r) = {}
                 /\ r.kind = "remove" \/ Lookup(r.tag) = None)

-----------------------------------------------------------------------------
\* AddOutbound reads the box and parses the content (a content it rejects changes nothing).
AddCall(c) ==
  /\ \E kind \in AddKinds, m \in Mains, S \in SUBSET (Selectors \cup {Unknown}), d \in Tags \cup {None} :
       /\ IF kind = "chain" THEN d \in Tags \ {m, HelperOf(m)} /\ Lookup(d) # None ELSE d = None
       /\ Call(c, [kind |-> kind, tag |-> m, detour |-> d, selectors |-> S])
       /\ todo' = [todo EXCEPT ![c] = S]
  /\ Goto(c, "main")
  /\ UNCHANGED <<created, helper, managers, groups, kept>>

\* Mutant: the helper is created before the main.
AddMain_HelperFirst(c) ==
  /\ pc[c] = "main"
  /\ IF op[c].kind = "pair" THEN Create(outbounds, <<c, "helper">>) ELSE UNCHANGED <<outbounds, open>>
  /\ Goto(c, "helper")
  /\ UNCHANGED <<op, created, todo, helper, endpoints, groups, orderly, kept>>

\* The main outbound, or the endpoint when the content has no outbound.
AddMain(c) ==
  /\ pc[c] = "main"
  /\ IF op[c].kind = "endpoint"
     THEN Create(endpoints, <<c, "main">>) /\ UNCHANGED outbounds
     ELSE Create(outbounds, <<c, "main">>) /\ UNCHANGED endpoints
  /\ Goto(c, IF op[c].kind = "pair" THEN "helper" ELSE "lookup")
  /\ UNCHANGED <<op, created, todo, helper, groups, orderly, kept>>

\* The helper, under the tag derived from the main's.
AddHelper(c) ==
  /\ pc[c] = "helper"
  /\ Create(outbounds, <<c, "helper">>)
  /\ Goto(c, "lookup")
  /\ UNCHANGED <<op, created, todo, helper, endpoints, groups, orderly, kept>>

\* Mutant: a failing Create is passed over.
CreateFails_Continues(c) ==
  /\ pc[c] \in {"main", "helper"}
  /\ Goto(c, IF pc[c] = "main" /\ op[c].kind = "pair" THEN "helper" ELSE "lookup")
  /\ UNCHANGED <<op, created, todo, helper, managers, groups, orderly, kept>>

\* Create fails: what was created before it stays.
CreateFails(c) ==
  /\ pc[c] \in {"main", "helper"}
  /\ Answer(c, "failed")
  /\ UNCHANGED <<op, created, todo, helper, managers, groups, orderly, kept>>

\* With no selector left to visit, AddOutbound answers.
AddNext(c, rest) == IF rest = {} THEN Answer(c, "ok") ELSE Goto(c, "members")

\* Mutant: the answer of the lookup is not checked.
AddLookup_Unchecked(c) ==
  /\ pc[c] = "lookup"
  /\ created' = [created EXCEPT ![c] = Lookup(op[c].tag)]
  /\ AddNext(c, todo[c])
  /\ UNCHANGED <<op, todo, helper, managers, groups, orderly, kept>>

\* "created outbound vanished" is an error.
AddLookup(c) ==
  /\ pc[c] = "lookup"
  /\ created' = [created EXCEPT ![c] = Lookup(op[c].tag)]
  /\ IF Lookup(op[c].tag) = None THEN Answer(c, "failed") ELSE AddNext(c, todo[c])
  /\ UNCHANGED <<op, todo, helper, managers, groups, orderly, kept>>

\* Selector.AddMember for the requested selectors, in the order of the request; one that is
\* not there ends the call and leaves the memberships before it.
AddToSelector(c) ==
  /\ pc[c] = "members"
  /\ \E s \in todo[c] :
       /\ todo' = [todo EXCEPT ![c] = @ \ {s}]
       /\ IF s = Unknown
          THEN Answer(c, "failed") /\ UNCHANGED members
          ELSE /\ members' = [members EXCEPT ![s][op[c].tag] = created[c]]
               /\ AddNext(c, todo[c] \ {s})
  /\ UNCHANGED <<op, created, helper, managers, selected, orderly, kept>>

-----------------------------------------------------------------------------
\* Mutant: main is removed and the selectors are left alone.
RemoveCall_KeepsMembers(c) ==
  /\ \E m \in Mains :
       /\ Call(c, [kind |-> "remove", tag |-> m, detour |-> None, selectors |-> {}])
       /\ helper' = [helper EXCEPT ![c] =
                       Lookup(m) # None /\ HelperOf(m) \in Dependencies(Lookup(m))]
  /\ Goto(c, "removeMain")
  /\ UNCHANGED <<todo, created, managers, groups, kept>>

\* Mutant: helpers are never collected.
RemoveCall_NoHelpers(c) ==
  /\ \E m \in Mains :
       Call(c, [kind |-> "remove", tag |-> m, detour |-> None, selectors |-> {}])
  /\ todo' = [todo EXCEPT ![c] = Selectors]
  /\ Goto(c, "removeMembers")
  /\ UNCHANGED <<created, helper, managers, groups, kept>>

\* RemoveOutbound reads the box, and main's helpers while main is there to be asked.
RemoveCall(c) ==
  /\ \E m \in Mains :
       /\ Call(c, [kind |-> "remove", tag |-> m, detour |-> None, selectors |-> {}])
       /\ helper' = [helper EXCEPT ![c] =
                       Lookup(m) # None /\ HelperOf(m) \in Dependencies(Lookup(m))]
  /\ todo' = [todo EXCEPT ![c] = Selectors]
  /\ Goto(c, "removeMembers")
  /\ UNCHANGED <<created, managers, groups, kept>>

\* Selector.RemoveMember on every selector; a selected member yields to the default one.
RemoveFromSelector(c) ==
  /\ pc[c] = "removeMembers"
  /\ \E s \in todo[c] :
       /\ todo' = [todo EXCEPT ![c] = @ \ {s}]
       /\ members' = [members EXCEPT ![s][op[c].tag] = None]
       /\ selected' = [selected EXCEPT ![s] = IF @ = op[c].tag THEN Default ELSE @]
       /\ Goto(c, IF todo[c] = {s} THEN "removeMain" ELSE "removeMembers")
  /\ UNCHANGED <<op, created, helper, managers, orderly, kept>>

\* OutboundManager.Remove; a tag it does not know is tried as an endpoint.
RemoveMain(c) ==
  /\ pc[c] = "removeMain"
  /\ LET t == op[c].tag
         done == IF helper[c] THEN Goto(c, "checkHelper") ELSE Answer(c, "ok")
     IN \/ /\ outbounds[t] # None
           /\ RemoveOutboundTag(t)
           /\ IF Referenced(t) THEN Answer(c, "failed") ELSE done
        \/ /\ outbounds[t] = None /\ endpoints[t] # None
           /\ endpoints' = [endpoints EXCEPT ![t] = None]
           /\ open' = open \ {endpoints[t]}
           /\ done
           /\ UNCHANGED outbounds
        \/ /\ outbounds[t] = None /\ endpoints[t] = None
           /\ Answer(c, "failed")
           /\ UNCHANGED managers
  /\ UNCHANGED <<op, created, todo, helper, groups, orderly, kept>>

\* Mutant: the helper is removed whether or not something refers to it.
CheckHelper_Always(c) ==
  /\ pc[c] = "checkHelper"
  /\ Goto(c, "removeHelper")
  /\ UNCHANGED <<op, created, todo, helper, managers, groups, orderly, kept>>

\* outboundTagReferenced: a helper that something still refers to stays.
CheckHelper(c) ==
  /\ pc[c] = "checkHelper"
  /\ IF Referenced(HelperOf(op[c].tag))
     THEN Answer(c, "ok") /\ kept' = kept \cup {HelperOf(op[c].tag)}
     ELSE Goto(c, "removeHelper") /\ UNCHANGED kept
  /\ UNCHANGED <<op, created, todo, helper, managers, groups, orderly>>

\* A helper that is no longer there, or a failure, is only logged.
RemoveHelper(c) ==
  /\ pc[c] = "removeHelper"
  /\ IF outbounds[HelperOf(op[c].tag)] = None THEN UNCHANGED managers
                                              ELSE RemoveOutboundTag(HelperOf(op[c].tag))
  /\ Answer(c, "ok")
  /\ UNCHANGED <<op, created, todo, helper, groups, orderly, kept>>

\* SelectOutbound: only a member can be selected.
SelectOutbound(s, m) ==
  /\ members[s][m] # None
  /\ selected' = [selected EXCEPT ![s] = m]
  /\ UNCHANGED <<op, pc, result, created, todo, helper, managers, members, orderly, kept>>

-----------------------------------------------------------------------------
Add(c) == AddCall(c) \/ AddMain(c) \/ AddHelper(c) \/ CreateFails(c) \/ AddLookup(c)
            \/ AddToSelector(c)

Remove(c) == RemoveCall(c) \/ RemoveFromSelector(c) \/ RemoveMain(c) \/ CheckHelper(c)
               \/ RemoveHelper(c)

Next == \/ \E c \in Calls : Add(c) \/ Remove(c)
        \/ \E s \in Selectors, m \in Mains : SelectOutbound(s, m)

Spec == Init /\ [][Next]_vars

-----------------------------------------------------------------------------
\* Every variable has its type, and a handler adds to selectors what it found.
TypeOK ==
  /\ op \in [Calls -> Requests \cup {None}]
  /\ pc \in [Calls -> {"idle", "main", "helper", "lookup", "members", "removeMembers",
                       "removeMain", "checkHelper", "removeHelper", "done"}]
  /\ result \in [Calls -> {"ok", "failed", None}]
  /\ created \in [Calls -> Objects \cup {None}]
  /\ todo \in [Calls -> SUBSET (Selectors \cup {Unknown})] /\ helper \in [Calls -> BOOLEAN]
  /\ outbounds \in [Tags -> Objects \cup {None}] /\ endpoints \in [Tags -> Objects \cup {None}]
  /\ open \subseteq Objects
  /\ members \in [Selectors -> [Mains -> Objects \cup {None}]]
  /\ selected \in [Selectors -> Mains \cup {Default}]
  /\ orderly \in BOOLEAN /\ kept \subseteq Tags
  /\ \A c \in Calls : pc[c] = "members" => created[c] \in Objects

\* A removal of m answered with an error.
RemovalFailed(m) ==
  \E c \in Calls : op[c] # None /\ op[c].kind = "remove" /\ op[c].tag = m /\ result[c] = "failed"

\* A selector never holds, as the selected member or another, an outbound that is closed:
\* the order RemoveOutbound calls mandatory (commands.go:351), over any sequence of failing
\* and succeeding calls, with unrelated ones in between.
MembersAreOpen ==
  orderly => /\ \A s \in Selectors, m \in Mains : members[s][m] \in open \cup {None}
             /\ \A s \in Selectors : selected[s] # Default => members[s][selected[s]] # None

\* Nothing stays started that no tag of the managers reaches, except what a call that
\* answered with an error left behind: what it was asked to remove had dependents.
NothingUnreachable ==
  orderly => \A o \in open \ Managed : RemovalFailed(TagOf(o))

\* When no call about a server is running, its helper is in the box only together with the
\* server, whatever step of its AddOutbound failed, or because something referred to it when
\* the server was removed, or because the removal answered with an error.
NoOrphanHelper ==
  orderly => \A m \in Mains :
    (outbounds[HelperOf(m)] # None /\ \A c \in Calls : Running(c) => op[c].tag # m) =>
       Lookup(m) # None \/ HelperOf(m) \in kept \/ RemovalFailed(m)

\* What c added is in place.
Usable(c) ==
  /\ Lookup(op[c].tag) = <<c, "main">>
  /\ \A s \in op[c].selectors : s \in Selectors /\ members[s][op[c].tag] = <<c, "main">>
  /\ op[c].kind = "pair" => outbounds[HelperOf(op[c].tag)] = <<c, "helper">>

\* A server whose AddOutbound answered OK is, until a RemoveOutbound names it, in every
\* selector of the request, what they dial is what the manager finds under its tag, and the
\* helper its detour leads to is in the box, whatever unrelated calls did meanwhile.
AddedIsUsable ==
  orderly => \A c \in Calls :
    (/\ result[c] = "ok" /\ op[c].kind \in AddKinds
     /\ \A d \in Calls : pc[d] # "idle" /\ op[d].tag = op[c].tag => d = c) => Usable(c)

-----------------------------------------------------------------------------
(***************************************************************************)
(* The inductive invariants behind the properties.  CallsInv holds always, *)
(* the others while clients keep to what AddOutbound assumes.              *)
(***************************************************************************)
AddSteps == {"main", "helper", "lookup", "members"}
RemoveSteps == {"removeMembers", "removeMain", "checkHelper", "removeHelper"}

\* The request of a call is known from its first step on, and its step fits its kind.
CallsInv ==
  \A c \in Calls :
    /\ pc[c] # "idle" => op[c] \in Requests
    /\ pc[c] \in AddSteps => op[c].kind \in AddKinds
    /\ pc[c] = "helper" => op[c].kind = "pair"
    /\ pc[c] \in RemoveSteps => op[c].kind = "remove"
    /\ result[c] # None => pc[c] = "done"

\* What a tag leads to is open and was created under that tag, which no other call in progress
\* is about.
Holds(o, t) == o \in open /\ TagOf(o) = t

BoxInv ==
  /\ \A c, d \in Calls : Running(c) /\ Running(d) /\ c # d =>
                          TagsOf(op[c]) \cap TagsOf(op[d]) = {}
  /\ \A t \in Tags, o \in Objects : outbounds[t] = o => Holds(o, t) /\ endpoints[t] = None
  /\ \A t \in Tags, o \in Objects : endpoints[t] = o => Holds(o, t) /\ t \in Mains
  /\ \A o \in open : pc[o[1]] # "idle"

\* What a call has done so far under its main tag.
OnCourse(c) ==
  /\ pc[c] = "main" => Lookup(op[c].tag) = None
  /\ pc[c] \in {"helper", "lookup", "members"} => Lookup(op[c].tag) = <<c, "main">>
  /\ pc[c] = "members" => created[c] = <<c, "main">>
  /\ pc[c] = "removeMembers" => \A s \in Selectors \ todo[c] : members[s][op[c].tag] = None
  /\ pc[c] = "removeMain" => \A s \in Selectors : members[s][op[c].tag] = None

StepInv == \A c \in Calls : OnCourse(c)

\* A member is what the managers find under its tag.
MemberInv ==
  /\ \A s \in Selectors, m \in Mains : members[s][m] # None => members[s][m] = Lookup(m)
  /\ \A s \in Selectors : selected[s] # Default => members[s][selected[s]] # None

\* Nothing refers to a helper between the check and the removal.
UnreachableInv ==
  /\ NothingUnreachable
  /\ \A c \in Calls : pc[c] = "removeHelper" => ~Referenced(HelperOf(op[c].tag))

\* m is there and depends on its helper.
UsesHelper(m) == Lookup(m) # None /\ HelperOf(m) \in Dependencies(Lookup(m))

\* A helper is used by its server, or was left by a removal, or is about to be removed.
HelperInv ==
  /\ \A m \in Mains : outbounds[HelperOf(m)] # None =>
       \/ UsesHelper(m) \/ HelperOf(m) \in kept \/ RemovalFailed(m)
       \/ \E c \in Calls : pc[c] \in {"checkHelper", "removeHelper"} /\ op[c].tag = m
  /\ \A c \in Calls, m \in Mains :
       pc[c] \in {"removeMembers", "removeMain"} /\ op[c].tag = m => (helper[c] <=> UsesHelper(m))

\* What an add has done so far in the selectors, and for its helper.
Progress(c) ==
  /\ pc[c] \in {"main", "helper", "lookup"} => todo[c] = op[c].selectors
  /\ pc[c] = "members" => \A s \in op[c].selectors \ todo[c] :
                            s \in Selectors /\ members[s][op[c].tag] = <<c, "main">>
  /\ pc[c] \in {"lookup", "members"} /\ op[c].kind = "pair" =>
       outbounds[HelperOf(op[c].tag)] = <<c, "helper">>

AddedInv == AddedIsUsable /\ \A c \in Calls : Progress(c)
=============================================================================
