-------------------------- MODULE ConfigBuildProofs --------------------------
\* A build that runs alone owns the package variable: for any number of builders, any profiles and
\* any options.
EXTENDS ConfigBuild, FiniteSetTheorems, TLAPS

Steps == {"idle", "read", "reset", "warp", "groups", "dns", "rules", "final", "done", "failed"}
AnyInput == {None} \cup UNION {Inputs[b] : b \in Builders}

TypeOK ==
  /\ pc \in [Builders -> Steps]
  /\ input \in [Builders -> AnyInput]
  /\ seen \in [Builders -> [{"groups", "dns", "rule", "final"} -> {NoTag, Select, WARP}]]
  /\ alone \in [Builders -> BOOLEAN]
  /\ OutboundMainDetour \in {Select, WARP}

\* A running build that is alone is the only one that runs.
AloneIsOnly == \A b, c \in Builders : Running(b) /\ alone[b] /\ Running(c) => c = b

\* What the package variable holds for such a build at each step, and what the build has read.
HoldsOwn == \A b \in Builders : alone[b] =>
  /\ pc[b] = "warp" => OutboundMainDetour = Select
  /\ pc[b] \in {"groups", "dns", "rules", "final"} => OutboundMainDetour = Wanted(Opt(b))

ReadOwn == \A b \in Builders : alone[b] =>
  /\ pc[b] \in {"dns", "rules", "final", "done"} => seen[b]["groups"] = Wanted(Opt(b))
  /\ pc[b] \in {"rules", "final", "done"} => seen[b]["dns"] = Wanted(Opt(b))
  /\ pc[b] \in {"final", "done"} => seen[b]["rule"] = Wanted(Opt(b))
  /\ pc[b] = "done" => seen[b]["final"] = Wanted(Opt(b))

DetourInv == TypeOK /\ AloneIsOnly /\ HoldsOwn /\ ReadOwn

\* The inductive invariant holds at the start.
LEMMA InitDetour == Init => DetourInv
  BY DEF Init, DetourInv, TypeOK, AloneIsOnly, HoldsOwn, ReadOwn, Running, Steps, AnyInput, Nothing

\* Every step of every builder keeps it.
LEMMA NextDetour == DetourInv /\ [Next]_vars => DetourInv'
<1> SUFFICES ASSUME DetourInv, [Next]_vars PROVE DetourInv'
  OBVIOUS
<1> USE DEF DetourInv, TypeOK, AloneIsOnly, HoldsOwn, ReadOwn, Running, Steps, Wanted, Opt
<1>1. ASSUME NEW b \in Builders, NEW in \in Inputs[b], Begin(b, in) PROVE DetourInv'
  <2>1. in \in AnyInput
    BY DEF AnyInput
  <2> QED
    BY <1>1, <2>1 DEF Begin, Goto
<1>2. ASSUME NEW b \in Builders, ReadSingOptions(b) PROVE DetourInv'
  BY <1>2 DEF ReadSingOptions, Goto
<1>3. ASSUME NEW b \in Builders, ResetDetours(b) PROVE DetourInv'
  BY <1>3 DEF ResetDetours, Goto
<1>4. ASSUME NEW b \in Builders, AddWarp(b) PROVE DetourInv'
  BY <1>4 DEF AddWarp, Goto
<1>5. ASSUME NEW b \in Builders, AddGroups(b) PROVE DetourInv'
  BY <1>5 DEF AddGroups, Goto, Read
<1>6. ASSUME NEW b \in Builders, NoServers(b) PROVE DetourInv'
  BY <1>6 DEF NoServers, Goto
<1>7. ASSUME NEW b \in Builders, setDns(b) PROVE DetourInv'
  BY <1>7 DEF setDns, Goto, Read
<1>8. ASSUME NEW b \in Builders, BadDnsAddress(b) PROVE DetourInv'
  BY <1>8 DEF BadDnsAddress, Goto
<1>9. ASSUME NEW b \in Builders, AddRules(b) PROVE DetourInv'
  BY <1>9 DEF AddRules, Goto, Read
<1>10. ASSUME NEW b \in Builders, SetFinal(b) PROVE DetourInv'
  BY <1>10 DEF SetFinal, Goto, Read
<1>11. ASSUME NEW b \in Builders, Return(b) PROVE DetourInv'
  BY <1>11 DEF Return, Goto, Nothing, AnyInput
<1>12. CASE UNCHANGED vars
  BY <1>12 DEF vars
<1> QED
  BY <1>1, <1>2, <1>3, <1>4, <1>5, <1>6, <1>7, <1>8, <1>9, <1>10, <1>11, <1>12 DEF Next

\* The package variable belongs to the build that runs alone (builder_outbound.go:19, :77).
THEOREM DetourInvHolds == Spec => []DetourInv
  BY InitDetour, NextDetour, PTL DEF Spec

\* OwnDetour for every set of builders and inputs: without an overlap, groups, DNS servers and route
\* of a result use the one main detour its options ask for.
THEOREM BuildsAreTheirOwn == Spec => []OwnDetour
<1>1. DetourInv => OwnDetour
  BY DEF DetourInv, ReadOwn, OwnDetour, Quiet, Done
<1> QED
  BY <1>1, DetourInvHolds, PTL

-----------------------------------------------------------------------------
\* What a build has been given and has passed, which its pc remembers.

Given(b) == pc[b] # "idle" => input[b] \in Inputs[b]

Passed(b) ==
  /\ pc[b] \in {"dns", "rules", "final", "done"} => TagCount(Profile(b), Opt(b)) > 0 /\ seen[b]["groups"] # NoTag
  /\ pc[b] \in {"rules", "final", "done"} => ~DnsFails(Opt(b))
  /\ pc[b] \in {"final", "done"} => seen[b]["rule"] # NoTag
  /\ pc[b] = "done" => seen[b]["final"] # NoTag

HasReason(b) == pc[b] = "failed" =>
  ~Readable(input[b].profile) \/ TagCount(Profile(b), Opt(b)) = 0 \/ DnsFails(Opt(b))

BuildInv == TypeOK /\ \A b \in Builders : Given(b) /\ Passed(b) /\ HasReason(b)

LEMMA InitBuild == Init => BuildInv
  BY InitDetour DEF Init, BuildInv, DetourInv, Given, Passed, HasReason

\* The tags differ, and are tags.
LEMMA TagsDiffer == NoTag # Select /\ NoTag # WARP
  BY DEF NoTag, Select, WARP

\* A step of b does not touch what others have been given, and where they are.
LEMMA OthersBuildOn ==
  ASSUME BuildInv, NEW b \in Builders, NEW c \in Builders, c # b,
         pc'[c] = pc[c], input'[c] = input[c], seen'[c] = seen[c]
  PROVE  (Given(c) /\ Passed(c) /\ HasReason(c))'
  BY DEF BuildInv, Given, Passed, HasReason, Profile, Opt

LEMMA NextBuild == BuildInv /\ DetourInv' /\ [Next]_vars => BuildInv'
<1> SUFFICES ASSUME BuildInv, DetourInv', [Next]_vars PROVE BuildInv'
  OBVIOUS
<1>t. TypeOK /\ TypeOK'
  BY DEF BuildInv, DetourInv
<1>1. ASSUME NEW b \in Builders, NEW in \in Inputs[b], Begin(b, in) PROVE BuildInv'
  <2>1. \A c \in Builders \ {b} : (Given(c) /\ Passed(c) /\ HasReason(c))'
    BY <1>1, <1>t, OthersBuildOn DEF Begin, Goto, TypeOK
  <2>2. (Given(b) /\ Passed(b) /\ HasReason(b))'
    BY <1>1, <1>t DEF Begin, Goto, TypeOK, Given, Passed, HasReason
  <2> QED
    BY <2>1, <2>2, <1>t DEF BuildInv
<1>2. ASSUME NEW b \in Builders, ReadSingOptions(b) PROVE BuildInv'
  <2>1. \A c \in Builders \ {b} : (Given(c) /\ Passed(c) /\ HasReason(c))'
    BY <1>2, <1>t, OthersBuildOn DEF ReadSingOptions, Goto, TypeOK
  <2>2. (Given(b) /\ Passed(b) /\ HasReason(b))'
    BY <1>2, <1>t DEF ReadSingOptions, Goto, TypeOK, BuildInv, Given, Passed, HasReason, Profile, Opt
  <2> QED
    BY <2>1, <2>2, <1>t DEF BuildInv
<1>3. ASSUME NEW b \in Builders, ResetDetours(b) PROVE BuildInv'
  <2>1. \A c \in Builders \ {b} : (Given(c) /\ Passed(c) /\ HasReason(c))'
    BY <1>3, <1>t, OthersBuildOn DEF ResetDetours, Goto, TypeOK
  <2>2. (Given(b) /\ Passed(b) /\ HasReason(b))'
    BY <1>3, <1>t DEF ResetDetours, Goto, TypeOK, BuildInv, Given, Passed, HasReason, Profile, Opt
  <2> QED
    BY <2>1, <2>2, <1>t DEF BuildInv
<1>4. ASSUME NEW b \in Builders, AddWarp(b) PROVE BuildInv'
  <2>1. \A c \in Builders \ {b} : (Given(c) /\ Passed(c) /\ HasReason(c))'
    BY <1>4, <1>t, OthersBuildOn DEF AddWarp, Goto, TypeOK
  <2>2. (Given(b) /\ Passed(b) /\ HasReason(b))'
    BY <1>4, <1>t DEF AddWarp, Goto, TypeOK, BuildInv, Given, Passed, HasReason, Profile, Opt
  <2> QED
    BY <2>1, <2>2, <1>t DEF BuildInv
<1>5. ASSUME NEW b \in Builders, AddGroups(b) PROVE BuildInv'
  <2>1. \A c \in Builders \ {b} : (Given(c) /\ Passed(c) /\ HasReason(c))'
    BY <1>5, <1>t, OthersBuildOn DEF AddGroups, Goto, Read, TypeOK
  <2>2. (Given(b) /\ Passed(b) /\ HasReason(b))'
    BY <1>5, <1>t, TagsDiffer DEF AddGroups, Goto, Read, TypeOK, BuildInv, Given, Passed, HasReason, Profile, Opt
  <2> QED
    BY <2>1, <2>2, <1>t DEF BuildInv
<1>6. ASSUME NEW b \in Builders, NoServers(b) PROVE BuildInv'
  <2>1. \A c \in Builders \ {b} : (Given(c) /\ Passed(c) /\ HasReason(c))'
    BY <1>6, <1>t, OthersBuildOn DEF NoServers, Goto, TypeOK
  <2>2. (Given(b) /\ Passed(b) /\ HasReason(b))'
    BY <1>6, <1>t DEF NoServers, Goto, TypeOK, BuildInv, Given, Passed, HasReason, Profile, Opt
  <2> QED
    BY <2>1, <2>2, <1>t DEF BuildInv
<1>7. ASSUME NEW b \in Builders, setDns(b) PROVE BuildInv'
  <2>1. \A c \in Builders \ {b} : (Given(c) /\ Passed(c) /\ HasReason(c))'
    BY <1>7, <1>t, OthersBuildOn DEF setDns, Goto, Read, TypeOK
  <2>2. (Given(b) /\ Passed(b) /\ HasReason(b))'
    BY <1>7, <1>t, TagsDiffer DEF setDns, Goto, Read, TypeOK, BuildInv, Given, Passed, HasReason, Profile, Opt
  <2> QED
    BY <2>1, <2>2, <1>t DEF BuildInv
<1>8. ASSUME NEW b \in Builders, BadDnsAddress(b) PROVE BuildInv'
  <2>1. \A c \in Builders \ {b} : (Given(c) /\ Passed(c) /\ HasReason(c))'
    BY <1>8, <1>t, OthersBuildOn DEF BadDnsAddress, Goto, TypeOK
  <2>2. (Given(b) /\ Passed(b) /\ HasReason(b))'
    BY <1>8, <1>t DEF BadDnsAddress, Goto, TypeOK, BuildInv, Given, Passed, HasReason, Profile, Opt
  <2> QED
    BY <2>1, <2>2, <1>t DEF BuildInv
<1>9. ASSUME NEW b \in Builders, AddRules(b) PROVE BuildInv'
  <2>1. \A c \in Builders \ {b} : (Given(c) /\ Passed(c) /\ HasReason(c))'
    BY <1>9, <1>t, OthersBuildOn DEF AddRules, Goto, Read, TypeOK
  <2>2. (Given(b) /\ Passed(b) /\ HasReason(b))'
    BY <1>9, <1>t, TagsDiffer DEF AddRules, Goto, Read, TypeOK, BuildInv, Given, Passed, HasReason, Profile, Opt
  <2> QED
    BY <2>1, <2>2, <1>t DEF BuildInv
<1>10. ASSUME NEW b \in Builders, SetFinal(b) PROVE BuildInv'
  <2>1. \A c \in Builders \ {b} : (Given(c) /\ Passed(c) /\ HasReason(c))'
    BY <1>10, <1>t, OthersBuildOn DEF SetFinal, Goto, Read, TypeOK
  <2>2. (Given(b) /\ Passed(b) /\ HasReason(b))'
    BY <1>10, <1>t, TagsDiffer DEF SetFinal, Goto, Read, TypeOK, BuildInv, Given, Passed, HasReason, Profile, Opt
  <2> QED
    BY <2>1, <2>2, <1>t DEF BuildInv
<1>11. ASSUME NEW b \in Builders, Return(b) PROVE BuildInv'
  <2>1. \A c \in Builders \ {b} : (Given(c) /\ Passed(c) /\ HasReason(c))'
    BY <1>11, <1>t, OthersBuildOn DEF Return, Goto, TypeOK
  <2>2. (Given(b) /\ Passed(b) /\ HasReason(b))'
    BY <1>11, <1>t DEF Return, Goto, TypeOK, BuildInv, Given, Passed, HasReason, Profile, Opt
  <2> QED
    BY <2>1, <2>2, <1>t DEF BuildInv
<1>12. CASE UNCHANGED vars
  BY <1>12, <1>t DEF vars, BuildInv, Given, Passed, HasReason, Profile, Opt
<1> QED
  BY <1>1, <1>2, <1>3, <1>4, <1>5, <1>6, <1>7, <1>8, <1>9, <1>10, <1>11, <1>12 DEF Next

\* A build that goes on has passed its checks, and one that failed has met one of the three.
THEOREM BuildInvHolds == Spec => []BuildInv
  BY InitBuild, NextBuild, DetourInvHolds, PTL DEF Spec

-----------------------------------------------------------------------------
\* Rules.  The first rule that applies exists in every list below, so that a list of rules can be
\* read one part after the other.

Attributes == {"warp api", "test host", "ads", "suffix", "geosite", "geoip", "address",
               "dns", "block page", "private", "quic"}
Targets == {"dns-remote-no-warp", "dns-direct", "dns-fake", Refused, Reject, "hijack-dns", Select, WARP, Direct}
RuleType == [match : SUBSET Attributes, to : Targets]
Applies(rules, attributes) == {i \in DOMAIN rules : rules[i].match \cap attributes # {}}
IsFirst(i, rules, attributes) == i \in Applies(rules, attributes) /\ \A j \in Applies(rules, attributes) : i <= j
HasFirst(rules, attributes) == Applies(rules, attributes) = {} \/ \E i \in Nat : IsFirst(i, rules, attributes)
Decides(rules, attributes) == rules \in Seq(RuleType) /\ HasFirst(rules, attributes)

LEMMA FirstDecides ==
  ASSUME NEW rules \in Seq(RuleType), NEW a, NEW f, NEW i \in Nat, IsFirst(i, rules, a)
  PROVE  Verdict(rules, a, f) = rules[i].to
<1> DEFINE A == Applies(rules, a)
<1>1. A # {} /\ A \subseteq Nat /\ i \in A
  BY DEF IsFirst, Applies
<1>2. (CHOOSE k \in A : \A j \in A : k <= j) = i
  <2>1. \A k \in A : (\A j \in A : k <= j) => k = i
    BY <1>1 DEF IsFirst
  <2>2. \A j \in A : i <= j
    BY DEF IsFirst
  <2> HIDE DEF A
  <2> QED
    BY <1>1, <2>1, <2>2
<1> QED
  BY <1>1, <1>2 DEF Verdict, Applies

LEMMA NoneDecides ==
  ASSUME NEW rules, NEW a, NEW f, Applies(rules, a) = {}
  PROVE  Verdict(rules, a, f) = f
  BY DEF Verdict, Applies

\* Of two lists after each other, the second decides what the first leaves open.
LEMMA VerdictSplits ==
  ASSUME NEW r, NEW s, NEW a, NEW f, Decides(r, a), Decides(s, a)
  PROVE  Decides(r \o s, a) /\ Verdict(r \o s, a, f) = Verdict(r, a, Verdict(s, a, f))
<1>1. r \in Seq(RuleType) /\ s \in Seq(RuleType) /\ r \o s \in Seq(RuleType)
  BY DEF Decides
<1>2. /\ DOMAIN (r \o s) = 1..(Len(r) + Len(s)) /\ DOMAIN r = 1..Len(r) /\ DOMAIN s = 1..Len(s)
      /\ Len(r) \in Nat /\ Len(s) \in Nat
      /\ \A i \in 1..Len(r) : (r \o s)[i] = r[i]
      /\ \A i \in 1..Len(s) : (r \o s)[i + Len(r)] = s[i]
  BY <1>1
<1>3. \A i \in 1..(Len(r) + Len(s)) :
        i \in Applies(r \o s, a) <=>
          IF i <= Len(r) THEN i \in Applies(r, a) ELSE (i - Len(r)) \in Applies(s, a)
  <2> SUFFICES ASSUME NEW i \in 1..(Len(r) + Len(s))
               PROVE  i \in Applies(r \o s, a) <=>
                        IF i <= Len(r) THEN i \in Applies(r, a) ELSE (i - Len(r)) \in Applies(s, a)
    OBVIOUS
  <2>1. CASE i <= Len(r)
    BY <2>1, <1>2 DEF Applies
  <2>2. CASE ~(i <= Len(r))
    <3>1. i - Len(r) \in 1..Len(s) /\ (i - Len(r)) + Len(r) = i
      BY <2>2, <1>2
    <3>2. (r \o s)[i] = s[i - Len(r)]
      BY <3>1, <1>2
    <3> QED
      BY <2>2, <3>1, <3>2, <1>2 DEF Applies
  <2> QED
    BY <2>1, <2>2
<1>4. Applies(r, a) \subseteq 1..Len(r) /\ Applies(s, a) \subseteq 1..Len(s) /\ Applies(r \o s, a) \subseteq 1..(Len(r) + Len(s))
  BY <1>2 DEF Applies
<1>5. CASE Applies(r, a) # {}
  <2>1. PICK i \in Nat : IsFirst(i, r, a)
    BY <1>5 DEF Decides, HasFirst
  <2>2. i \in 1..Len(r) /\ i \in Applies(r, a) /\ \A j \in Applies(r, a) : i <= j
    BY <2>1, <1>4 DEF IsFirst
  <2>3. IsFirst(i, r \o s, a)
    <3>1. i \in Applies(r \o s, a)
      BY <2>2, <1>3, <1>2
    <3>2. ASSUME NEW j \in Applies(r \o s, a) PROVE i <= j
      <4>1. j \in 1..(Len(r) + Len(s))
        BY <1>4
      <4> QED
        BY <4>1, <2>2, <1>3, <1>2
    <3> QED
      BY <3>1, <3>2 DEF IsFirst
  <2>4. Verdict(r \o s, a, f) = (r \o s)[i].to /\ Verdict(r, a, Verdict(s, a, f)) = r[i].to
    BY <2>1, <2>3, <1>1, FirstDecides
  <2> QED
    BY <2>2, <2>3, <2>4, <1>1, <1>2 DEF Decides, HasFirst
<1>6. CASE Applies(r, a) = {} /\ Applies(s, a) # {}
  <2>1. PICK i \in Nat : IsFirst(i, s, a)
    BY <1>6 DEF Decides, HasFirst
  <2>2. i \in 1..Len(s) /\ i \in Applies(s, a) /\ \A j \in Applies(s, a) : i <= j
    BY <2>1, <1>4 DEF IsFirst
  <2> DEFINE k == i + Len(r)
  <2>3. k \in 1..(Len(r) + Len(s)) /\ ~(k <= Len(r)) /\ k - Len(r) = i /\ k \in Nat
    BY <2>2, <1>2
  <2>4. IsFirst(k, r \o s, a)
    <3>1. k \in Applies(r \o s, a)
      BY <2>2, <2>3, <1>3
    <3>2. ASSUME NEW j \in Applies(r \o s, a) PROVE k <= j
      <4>1. j \in 1..(Len(r) + Len(s)) /\ ~(j <= Len(r)) /\ (j - Len(r)) \in Applies(s, a)
        BY <1>3, <1>4, <1>6
      <4>2. i <= j - Len(r)
        BY <4>1, <2>2
      <4> QED
        BY <4>1, <4>2, <2>2, <1>2
    <3> QED
      BY <3>1, <3>2 DEF IsFirst
  <2>5. Verdict(r \o s, a, f) = (r \o s)[k].to /\ Verdict(s, a, f) = s[i].to
    BY <2>1, <2>3, <2>4, <1>1, FirstDecides
  <2>6. Verdict(r, a, Verdict(s, a, f)) = Verdict(s, a, f)
    BY <1>6, NoneDecides
  <2>7. (r \o s)[k] = s[i]
    BY <2>2, <1>2
  <2> QED
    BY <2>3, <2>4, <2>5, <2>6, <2>7, <1>1 DEF Decides, HasFirst
<1>7. CASE Applies(r, a) = {} /\ Applies(s, a) = {}
  <2>1. Applies(r \o s, a) = {}
    <3> SUFFICES ASSUME NEW i \in Applies(r \o s, a) PROVE FALSE
      OBVIOUS
    <3> QED
      BY <1>3, <1>4, <1>7
  <2> QED
    BY <2>1, <1>7, <1>1, NoneDecides DEF Decides, HasFirst
<1> QED
  BY <1>5, <1>6, <1>7

\* A single rule, and one that an option switches on.
LEMMA OneRule ==
  ASSUME NEW match \in SUBSET Attributes, NEW to \in Targets, NEW a
  PROVE  /\ Decides(Rule(match, to), a)
         /\ \A f : Verdict(Rule(match, to), a, f) = IF match \cap a # {} THEN to ELSE f
<1> DEFINE r == Rule(match, to)
<1>1. r \in Seq(RuleType) /\ DOMAIN r = {1} /\ r[1].match = match /\ r[1].to = to
  BY DEF Rule, RuleType
<1>2. CASE match \cap a # {}
  <2>1. IsFirst(1, r, a)
    BY <1>1, <1>2 DEF IsFirst, Applies
  <2> QED
    BY <1>1, <1>2, <2>1, FirstDecides DEF Decides, HasFirst
<1>3. CASE match \cap a = {}
  <2>1. Applies(r, a) = {}
    BY <1>1, <1>3 DEF Applies
  <2> QED
    BY <1>1, <1>3, <2>1, NoneDecides DEF Decides, HasFirst
<1> QED
  BY <1>2, <1>3

LEMMA SwitchedRules ==
  ASSUME NEW condition \in BOOLEAN, NEW r, NEW a, Decides(r, a)
  PROVE  /\ Decides(If(condition, r), a)
         /\ \A f : Verdict(If(condition, r), a, f) = IF condition THEN Verdict(r, a, f) ELSE f
<1>1. <<>> \in Seq(RuleType) /\ Applies(<<>>, a) = {}
  BY DEF Applies
<1> QED
  BY <1>1, NoneDecides DEF If, Decides, HasFirst

\* What the DNS rules make of a name with the attributes a, and what the route does with it.
LEMMA DnsVerdict ==
  ASSUME NEW opt \in InhiveOptions, NEW a \in SUBSET {"ads", "suffix", "geosite", "address", "other"}
  PROVE  Verdict(DnsRules(opt), a, "dns-remote") =
           IF opt.BlockAds /\ "ads" \in a THEN Refused
           ELSE IF opt.Region # "other" /\ ("suffix" \in a \/ "geosite" \in a) THEN "dns-direct"
           ELSE IF opt.EnableFakeDNS /\ "address" \in a THEN "dns-fake"
           ELSE "dns-remote"
<1> DEFINE apis  == {"warp api"}
           tests == {"warp api", "test host"}
           adses == {"ads"}
           ends  == {"suffix"}
           sites == {"geosite"}
           addrs == {"address"}
<1>m. /\ apis \in SUBSET Attributes /\ apis \cap a = {}
      /\ tests \in SUBSET Attributes /\ tests \cap a = {}
      /\ adses \in SUBSET Attributes /\ (adses \cap a # {} <=> "ads" \in a)
      /\ ends \in SUBSET Attributes /\ (ends \cap a # {} <=> "suffix" \in a)
      /\ sites \in SUBSET Attributes /\ (sites \cap a # {} <=> "geosite" \in a)
      /\ addrs \in SUBSET Attributes /\ (addrs \cap a # {} <=> "address" \in a)
  BY DEF Attributes
<1>t. {"dns-remote-no-warp", "dns-direct", "dns-fake", Refused} \subseteq Targets
  BY DEF Targets
<1> DEFINE api   == Rule(apis, "dns-remote-no-warp")
           test  == Rule(tests, "dns-direct")
           ads   == Rule(adses, Refused)
           local == Rule(ends, "dns-direct")
           site  == Rule(sites, "dns-direct")
           fake  == Rule(addrs, "dns-fake")
           Ads   == If(opt.BlockAds, ads)
           regional == opt.Region # "other"
           Local == If(regional, local \o site)
           Fake  == If(opt.EnableFakeDNS, fake)
<1> HIDE DEF apis, tests, adses, ends, sites, addrs
<1>o. opt.BlockAds \in BOOLEAN /\ opt.EnableFakeDNS \in BOOLEAN /\ regional \in BOOLEAN /\ (regional <=> opt.Region # "other")
  BY DEF InhiveOptions
<1> HIDE DEF regional
<1>1. Decides(api, a) /\ \A f : Verdict(api, a, f) = f
  BY <1>m, <1>t, OneRule
<1>2. Decides(test, a) /\ \A f : Verdict(test, a, f) = f
  BY <1>m, <1>t, OneRule
<1>3. Decides(ads, a) /\ \A f : Verdict(ads, a, f) = IF "ads" \in a THEN Refused ELSE f
  BY <1>m, <1>t, OneRule
<1>4. Decides(local, a) /\ \A f : Verdict(local, a, f) = IF "suffix" \in a THEN "dns-direct" ELSE f
  BY <1>m, <1>t, OneRule
<1>5. Decides(site, a) /\ \A f : Verdict(site, a, f) = IF "geosite" \in a THEN "dns-direct" ELSE f
  BY <1>m, <1>t, OneRule
<1>6. Decides(fake, a) /\ \A f : Verdict(fake, a, f) = IF "address" \in a THEN "dns-fake" ELSE f
  BY <1>m, <1>t, OneRule
<1> HIDE DEF api, test, ads, local, site, fake
<1>7. Decides(Ads, a) /\ \A f : Verdict(Ads, a, f) = IF opt.BlockAds THEN Verdict(ads, a, f) ELSE f
  BY <1>o, <1>3, SwitchedRules
<1>8. Decides(local \o site, a) /\ \A f : Verdict(local \o site, a, f) = Verdict(local, a, Verdict(site, a, f))
  BY <1>4, <1>5, VerdictSplits
<1>9. /\ Decides(Local, a)
      /\ \A f : Verdict(Local, a, f) = IF regional THEN Verdict(local \o site, a, f) ELSE f
  BY <1>o, <1>8, SwitchedRules
<1>10. Decides(Fake, a) /\ \A f : Verdict(Fake, a, f) = IF opt.EnableFakeDNS THEN Verdict(fake, a, f) ELSE f
  BY <1>o, <1>6, SwitchedRules
<1> HIDE DEF Ads, Local, Fake
<1>11. Decides(api \o test, a) /\ \A f : Verdict(api \o test, a, f) = f
  <2>1. Decides(api, a) /\ Decides(test, a)
    BY <1>1, <1>2
  <2>2. Decides(api \o test, a) /\ \A f : Verdict(api \o test, a, f) = Verdict(api, a, Verdict(test, a, f))
    BY <2>1, VerdictSplits
  <2> QED
    BY <2>2, <1>1, <1>2
<1>12. /\ Decides(api \o test \o Ads, a)
       /\ \A f : Verdict(api \o test \o Ads, a, f) = Verdict(api \o test, a, Verdict(Ads, a, f))
  BY <1>7, <1>11, VerdictSplits
<1>13. /\ Decides(api \o test \o Ads \o Local, a)
       /\ \A f : Verdict(api \o test \o Ads \o Local, a, f) = Verdict(api \o test \o Ads, a, Verdict(Local, a, f))
  BY <1>9, <1>12, VerdictSplits
<1>14. \A f : Verdict(api \o test \o Ads \o Local \o Fake, a, f)
                = Verdict(api \o test \o Ads \o Local, a, Verdict(Fake, a, f))
  BY <1>10, <1>13, VerdictSplits
<1>15. DnsRules(opt) = api \o test \o Ads \o Local \o Fake
  BY DEF DnsRules, addForceDirect, api, test, Ads, Local, Fake, ads, local, site, fake, regional,
         apis, tests, adses, ends, sites, addrs
<1>16. \A f : Verdict(DnsRules(opt), a, f) = Verdict(Ads, a, Verdict(Local, a, Verdict(Fake, a, f)))
  BY <1>11, <1>12, <1>13, <1>14, <1>15
<1> QED
  BY <1>o, <1>3, <1>4, <1>5, <1>6, <1>7, <1>8, <1>9, <1>10, <1>16

LEMMA RouteVerdict ==
  ASSUME NEW opt \in InhiveOptions, NEW main, main \in {Select, WARP}, NEW final, NEW a \in SUBSET {"ads", "suffix", "geosite"}
  PROVE  Verdict(RouteRules(opt, main), a, final) =
           IF opt.BlockAds /\ "ads" \in a THEN Reject
           ELSE IF opt.Region # "other" /\ ("suffix" \in a \/ "geosite" \in a) THEN Direct
           ELSE final
<1> DEFINE asks  == {"dns"}
           pages == {"block page"}
           lans  == {"private"}
           adses == {"ads"}
           ends  == {"suffix"}
           sites == {"geosite", "geoip"}
           quics == {"quic"}
<1>m. /\ asks \in SUBSET Attributes /\ asks \cap a = {}
      /\ pages \in SUBSET Attributes /\ pages \cap a = {}
      /\ lans \in SUBSET Attributes /\ lans \cap a = {}
      /\ quics \in SUBSET Attributes /\ quics \cap a = {}
      /\ adses \in SUBSET Attributes /\ (adses \cap a # {} <=> "ads" \in a)
      /\ ends \in SUBSET Attributes /\ (ends \cap a # {} <=> "suffix" \in a)
      /\ sites \in SUBSET Attributes /\ (sites \cap a # {} <=> "geosite" \in a)
  BY DEF Attributes
<1>t. "hijack-dns" \in Targets /\ main \in Targets /\ Direct \in Targets /\ Reject \in Targets
  BY DEF Targets
<1> DEFINE dns   == Rule(asks, "hijack-dns")
           page  == Rule(pages, main)
           lan   == Rule(lans, Direct)
           ads   == Rule(adses, Reject)
           local == Rule(ends, Direct)
           site  == Rule(sites, Direct)
           quic  == Rule(quics, Reject)
           Lan   == If(opt.BypassLAN, lan)
           Ads   == If(opt.BlockAds, ads)
           regional == opt.Region # "other"
           Local == If(regional, local \o site)
           Quic  == If(opt.BlockQuic, quic)
<1> HIDE DEF asks, pages, lans, adses, ends, sites, quics
<1>o. /\ opt.BlockAds \in BOOLEAN /\ opt.BypassLAN \in BOOLEAN /\ opt.BlockQuic \in BOOLEAN
      /\ regional \in BOOLEAN /\ (regional <=> opt.Region # "other")
  BY DEF InhiveOptions
<1> HIDE DEF regional
<1>1. Decides(dns, a) /\ \A f : Verdict(dns, a, f) = f
  BY <1>m, <1>t, OneRule
<1>2. Decides(page, a) /\ \A f : Verdict(page, a, f) = f
  <2>1. pages \in SUBSET Attributes /\ pages \cap a = {} /\ main \in Targets
    BY <1>m, <1>t
  <2> HIDE DEF Targets, Attributes
  <2> QED
    BY <2>1, OneRule
<1>3. Decides(lan, a) /\ \A f : Verdict(lan, a, f) = f
  BY <1>m, <1>t, OneRule
<1>4. Decides(ads, a) /\ \A f : Verdict(ads, a, f) = IF "ads" \in a THEN Reject ELSE f
  BY <1>m, <1>t, OneRule
<1>5. Decides(local, a) /\ \A f : Verdict(local, a, f) = IF "suffix" \in a THEN Direct ELSE f
  BY <1>m, <1>t, OneRule
<1>6. Decides(site, a) /\ \A f : Verdict(site, a, f) = IF "geosite" \in a THEN Direct ELSE f
  BY <1>m, <1>t, OneRule
<1>7. Decides(quic, a) /\ \A f : Verdict(quic, a, f) = f
  BY <1>m, <1>t, OneRule
<1> HIDE DEF dns, page, lan, ads, local, site, quic
<1>8. Decides(Lan, a) /\ \A f : Verdict(Lan, a, f) = f
  BY <1>o, <1>3, SwitchedRules
<1>9. Decides(Ads, a) /\ \A f : Verdict(Ads, a, f) = IF opt.BlockAds THEN Verdict(ads, a, f) ELSE f
  BY <1>o, <1>4, SwitchedRules
<1>10. Decides(local \o site, a) /\ \A f : Verdict(local \o site, a, f) = Verdict(local, a, Verdict(site, a, f))
  BY <1>5, <1>6, VerdictSplits
<1>11. /\ Decides(Local, a)
       /\ \A f : Verdict(Local, a, f) = IF regional THEN Verdict(local \o site, a, f) ELSE f
  BY <1>o, <1>10, SwitchedRules
<1>12. Decides(Quic, a) /\ \A f : Verdict(Quic, a, f) = f
  BY <1>o, <1>7, SwitchedRules
<1> HIDE DEF Lan, Ads, Local, Quic
<1>13. Decides(dns \o page, a) /\ \A f : Verdict(dns \o page, a, f) = f
  BY <1>1, <1>2, VerdictSplits
<1>14. Decides(dns \o page \o Lan, a) /\ \A f : Verdict(dns \o page \o Lan, a, f) = f
  BY <1>8, <1>13, VerdictSplits
<1>15. Decides(dns \o page \o Lan \o Ads, a) /\ \A f : Verdict(dns \o page \o Lan \o Ads, a, f) = Verdict(Ads, a, f)
  BY <1>9, <1>14, VerdictSplits
<1>16. /\ Decides(dns \o page \o Lan \o Ads \o Local, a)
       /\ \A f : Verdict(dns \o page \o Lan \o Ads \o Local, a, f) = Verdict(Ads, a, Verdict(Local, a, f))
  BY <1>11, <1>15, VerdictSplits
<1>17. \A f : Verdict(dns \o page \o Lan \o Ads \o Local \o Quic, a, f) = Verdict(Ads, a, Verdict(Local, a, f))
  BY <1>12, <1>16, VerdictSplits
<1>18. RouteRules(opt, main) = dns \o page \o Lan \o Ads \o Local \o Quic
  BY DEF RouteRules, dns, page, Lan, Ads, Local, Quic, lan, ads, local, site, quic, regional,
         asks, pages, lans, adses, ends, sites, quics
<1> QED
  BY <1>o, <1>4, <1>5, <1>6, <1>9, <1>10, <1>11, <1>17, <1>18

\* DnsAgreesWithRoute for every set of builders and inputs, overlapping builds included.
THEOREM NamesGoOneWay == Spec => []DnsAgreesWithRoute
<1>1. BuildInv => DnsAgreesWithRoute
  <2> SUFFICES ASSUME BuildInv, NEW b \in Builders, Done(b),
                      NEW name \in SUBSET {"ads", "suffix", "geosite"}, NEW kind \in {"address", "other"}
               PROVE  LET asked  == Verdict(DnsRules(Opt(b)), name \cup {kind}, "dns-remote")
                          routed == Verdict(RouteRules(Opt(b), seen[b].rule), name, seen[b].final)
                      IN  /\ asked = Refused <=> routed = Reject
                          /\ asked = "dns-direct" <=> routed = Direct
                          /\ asked \in {"dns-remote", "dns-fake"} <=> routed = seen[b].final
    BY DEF DnsAgreesWithRoute
  <2>1. Opt(b) \in InhiveOptions
    BY InputAssumption DEF BuildInv, Given, Done, Opt
  <2>2. seen[b].final \in {Select, WARP} /\ seen[b].rule \in {Select, WARP}
    BY TagsDiffer DEF BuildInv, TypeOK, Passed, Done
  <2>3. Verdict(DnsRules(Opt(b)), name \cup {kind}, "dns-remote") =
          IF Opt(b).BlockAds /\ "ads" \in name THEN Refused
          ELSE IF Opt(b).Region # "other" /\ ("suffix" \in name \/ "geosite" \in name) THEN "dns-direct"
          ELSE IF Opt(b).EnableFakeDNS /\ kind = "address" THEN "dns-fake"
          ELSE "dns-remote"
    <3>1. /\ name \cup {kind} \in SUBSET {"ads", "suffix", "geosite", "address", "other"}
          /\ \A x \in {"ads", "suffix", "geosite"} : x \in name \cup {kind} <=> x \in name
          /\ "address" \in name \cup {kind} <=> kind = "address"
      OBVIOUS
    <3> QED
      BY <2>1, <3>1, DnsVerdict
  <2>4. Verdict(RouteRules(Opt(b), seen[b].rule), name, seen[b].final) =
          IF Opt(b).BlockAds /\ "ads" \in name THEN Reject
          ELSE IF Opt(b).Region # "other" /\ ("suffix" \in name \/ "geosite" \in name) THEN Direct
          ELSE seen[b].final
    BY <2>1, <2>2, RouteVerdict
  <2>5. /\ Refused \notin {"dns-direct", "dns-fake", "dns-remote"} /\ Reject # Direct
        /\ Select \notin {Reject, Direct} /\ WARP \notin {Reject, Direct}
    BY DEF Refused, Reject, Direct, Select, WARP
  <2> QED
    BY <2>2, <2>3, <2>4, <2>5
<1> QED
  BY <1>1, BuildInvHolds, PTL

-----------------------------------------------------------------------------
\* The servers of a profile, and their tags.

\* Reading a section drops what is not valid and nothing else.
LEMMA SalvageKeeps ==
  ASSUME NEW p \in SingBoxOptions
  PROVE  LET q == salvageSingOptions(p)
         IN  /\ DOMAIN q.outbounds = {i \in DOMAIN p.outbounds : p.outbounds[i].valid}
             /\ DOMAIN q.endpoints = {i \in DOMAIN p.endpoints : p.endpoints[i].valid}
             /\ \A i \in DOMAIN q.outbounds : q.outbounds[i] = p.outbounds[i]
             /\ \A i \in DOMAIN q.endpoints : q.endpoints[i] = p.endpoints[i]
  BY DEF SingBoxOptions, salvageSingOptions, Survivors

LEMMA NodeFields ==
  ASSUME NEW tag, NEW via
  PROVE  /\ Group(tag, via).tag = tag /\ Group(tag, via).via = via
         /\ Node(tag, via).tag = tag /\ Node(tag, via).via = via \ {NoTag}
  BY DEF Group, Node

LEMMA TagIsThere ==
  ASSUME NEW nodes, NEW n \in nodes
  PROVE  n.tag \in NodeTags(nodes)
  BY DEF NodeTags

LEMMA TagHasNode ==
  ASSUME NEW nodes, NEW t \in NodeTags(nodes)
  PROVE  \E n \in nodes : n.tag = t
  BY DEF NodeTags

\* A shown entry is a server of the result, and has none of the tags that the build uses itself.
LEMMA ShownAreServers ==
  ASSUME NEW p, NEW opt
  PROVE  Tags(p, opt) \subseteq NodeTags(Servers(p, opt))
<1> SUFFICES ASSUME NEW t \in Tags(p, opt) PROVE t \in NodeTags(Servers(p, opt))
  OBVIOUS
<1>1. CASE t \in TagsOf(p.outbounds, KeptOutbounds(p))
  <2>1. PICK i \in KeptOutbounds(p) : t = p.outbounds[i].tag
    BY <1>1 DEF TagsOf, Shown
  <2>2. Node(p.outbounds[i].tag, {patchWarpFromConfig(p.outbounds[i], opt)}) \in Servers(p, opt)
    BY DEF Servers
  <2> QED
    BY <2>1, <2>2, NodeFields, TagIsThere
<1>2. CASE t \in TagsOf(p.endpoints, KeptEndpoints(p, opt))
  <2>1. PICK i \in KeptEndpoints(p, opt) : t = p.endpoints[i].tag
    BY <1>2 DEF TagsOf, Shown
  <2>2. Node(p.endpoints[i].tag, {p.endpoints[i].detour}) \in Servers(p, opt)
    BY DEF Servers
  <2> QED
    BY <2>1, <2>2, NodeFields, TagIsThere
<1> QED
  BY <1>1, <1>2 DEF Tags

LEMMA ServersHaveOwnTags ==
  ASSUME NEW p, NEW opt
  PROVE  NodeTags(Servers(p, opt)) \cap PredefinedOutboundTags = {}
  BY DEF NodeTags, Servers, Node, Group, KeptOutbounds, KeptEndpoints, Skipped

\* With a tag collected there is one to choose.
LEMMA CountedTagsExist ==
  ASSUME NEW p, NEW opt, TagCount(p, opt) > 0
  PROVE  Tags(p, opt) # {}
<1>1. Cardinality({}) = 0
  BY FS_EmptySet
<1>2. Shown(p.outbounds, KeptOutbounds(p)) # {} \/ Shown(p.endpoints, KeptEndpoints(p, opt)) # {}
  BY <1>1 DEF TagCount
<1> QED
  BY <1>2 DEF Tags, TagsOf

-----------------------------------------------------------------------------
\* What a build names, its result has.

\* The tags a result has for certain.
LEMMA BuiltTags ==
  ASSUME NEW p, NEW opt, NEW main
  PROVE  {Select, Direct, Fragment} \cup Tags(p, opt) \cup GroupTags(p, opt, main)
           \subseteq NodeTags(Nodes(p, opt, main))
<1> DEFINE nodes == Nodes(p, opt, main)
<1>1. Tags(p, opt) \subseteq NodeTags(nodes)
  BY ShownAreServers DEF Nodes, NodeTags
<1>2. ASSUME NEW g \in GroupTags(p, opt, main) PROVE g \in NodeTags(nodes)
  <2>1. Group(g, Tags(p, opt)) \in nodes
    BY DEF Nodes, Groups
  <2> QED
    BY <2>1, NodeFields, TagIsThere
<1>3. Select \in NodeTags(nodes)
  <2>1. Group(Select, Tags(p, opt) \cup GroupTags(p, opt, main)) \in nodes
    BY DEF Nodes, Groups
  <2> QED
    BY <2>1, NodeFields, TagIsThere
<1>4. Node(Direct, {}) \in nodes /\ Node(Fragment, {}) \in nodes
  BY DEF Nodes
<1>5. Direct \in NodeTags(nodes) /\ Fragment \in NodeTags(nodes)
  BY <1>4, NodeFields, TagIsThere
<1> QED
  BY <1>1, <1>2, <1>3, <1>5

LEMMA GroupsResolve ==
  ASSUME NEW p, NEW opt, NEW main
  PROVE  \A n \in Groups(p, opt, main) \cup WarpEndpoint(opt) : n.via \subseteq NodeTags(Nodes(p, opt, main))
<1> DEFINE tags == NodeTags(Nodes(p, opt, main))
<1>1. ASSUME NEW n \in Groups(p, opt, main) PROVE n.via \subseteq Tags(p, opt) \cup GroupTags(p, opt, main)
  BY NodeFields DEF Groups
<1>2. ASSUME NEW n \in WarpEndpoint(opt) PROVE n.via \subseteq {Select, Direct}
  BY NodeFields DEF WarpEndpoint
<1> QED
  BY <1>1, <1>2, BuiltTags

LEMMA DefaultResolves ==
  ASSUME NEW p, NEW opt, NEW main, TagCount(p, opt) > 0
  PROVE  SelectorDefault(p, opt, main) \in NodeTags(Nodes(p, opt, main)) \cup {DefaultMark}
<1>1. (CHOOSE t \in Tags(p, opt) : TRUE) \in Tags(p, opt)
  BY CountedTagsExist
<1>2. SelectorDefault(p, opt, main) \in Tags(p, opt) \cup GroupTags(p, opt, main) \cup {DefaultMark}
  BY <1>1 DEF SelectorDefault
<1> QED
  BY <1>2, BuiltTags

LEMMA DnsResolves ==
  ASSUME NEW opt, NEW main, NEW tags, main \in tags, Fragment \in tags,
         NEW s \in DnsServers(opt, main)
  PROVE  s.detour \in tags \cup {NoTag} /\ s.resolver \in NodeTags(DnsServers(opt, main)) \cup {NoTag}
<1>1. "dns-direct" \in NodeTags(DnsServers(opt, main)) /\ "dns-local" \in NodeTags(DnsServers(opt, main))
  <2>1. ASSUME NEW t, NEW a, NEW resolver, NEW detour PROVE getDNSServerOptions(t, a, resolver, detour).tag = t
    BY DEF getDNSServerOptions
  <2> DEFINE Name   == [scheme |-> "other", host |-> "name", port |-> FALSE]
             detour == IF opt.DirectDnsAddress.scheme \in {"none", "udp"} THEN NoTag ELSE Fragment
  <2>2. /\ getDNSServerOptions("dns-direct", opt.DirectDnsAddress, "dns-local", detour) \in DnsServers(opt, main)
        /\ getDNSServerOptions("dns-local", Name, NoTag, NoTag) \in DnsServers(opt, main)
    BY DEF DnsServers
  <2> QED
    BY <2>1, <2>2, TagIsThere
<1>2. s.detour \in {NoTag, main, Fragment} /\ s.resolver \in {NoTag, "dns-direct", "dns-local"}
  BY DEF DnsServers, getDNSServerOptions
<1> QED
  BY <1>1, <1>2

\* Lists of rules that name attributes of `over` and lead to one of `targets`.
RulesOver(over, targets) == Seq([match : SUBSET over, to : targets])

LEMMA RuleOver ==
  ASSUME NEW over, NEW targets, NEW match \in SUBSET over, NEW to \in targets
  PROVE  Rule(match, to) \in RulesOver(over, targets)
  BY DEF Rule, RulesOver

LEMMA JoinOver ==
  ASSUME NEW over, NEW targets, NEW r \in RulesOver(over, targets), NEW s \in RulesOver(over, targets)
  PROVE  r \o s \in RulesOver(over, targets)
  BY DEF RulesOver

LEMMA IfOver ==
  ASSUME NEW over, NEW targets, NEW condition \in BOOLEAN, NEW r,
         condition => r \in RulesOver(over, targets)
  PROVE  If(condition, r) \in RulesOver(over, targets)
  BY DEF If, RulesOver

LEMMA RulesAreOver ==
  ASSUME NEW over, NEW targets, NEW r \in RulesOver(over, targets), NEW i \in DOMAIN r
  PROVE  r[i].match \subseteq over /\ r[i].to \in targets
<1> DEFINE T == [match : SUBSET over, to : targets]
<1>1. r[i] \in T
  <2>1. r \in Seq(T)
    BY DEF RulesOver
  <2> HIDE DEF T
  <2> QED
    BY <2>1
<1> QED
  BY <1>1

\* What the DNS rules and the route rules ask for and lead to, under the options.
DnsOver(opt)     == {"warp api", "test host", "suffix", "address"} \cup RuleSets(opt)
DnsTargets(opt)  == {"dns-remote-no-warp", "dns-direct", Refused}
                    \cup (IF opt.EnableFakeDNS THEN {"dns-fake"} ELSE {})
RouteOver(opt)   == {"dns", "block page", "private", "suffix", "quic"} \cup RuleSets(opt)
RouteTargets(main) == {"hijack-dns", main, Direct, Reject}

LEMMA DnsRulesAreOver ==
  ASSUME NEW opt \in InhiveOptions
  PROVE  DnsRules(opt) \in RulesOver(DnsOver(opt), DnsTargets(opt))
<1> DEFINE M == DnsOver(opt)
           D == DnsTargets(opt)
           apis  == {"warp api"}
           tests == {"warp api", "test host"}
           adses == {"ads"}
           ends  == {"suffix"}
           sites == {"geosite"}
           addrs == {"address"}
           regional == opt.Region # "other"
<1>o. opt.BlockAds \in BOOLEAN /\ opt.EnableFakeDNS \in BOOLEAN /\ regional \in BOOLEAN
  BY DEF InhiveOptions
<1>m. /\ apis \in SUBSET M /\ tests \in SUBSET M /\ ends \in SUBSET M /\ addrs \in SUBSET M
      /\ opt.BlockAds => adses \in SUBSET M
      /\ regional => sites \in SUBSET M
  BY DEF DnsOver, RuleSets
<1>t. /\ "dns-remote-no-warp" \in D /\ "dns-direct" \in D /\ Refused \in D
      /\ opt.EnableFakeDNS => "dns-fake" \in D
  BY DEF DnsTargets
<1> HIDE DEF M, D, apis, tests, adses, ends, sites, addrs, regional
<1>1. Rule(apis, "dns-remote-no-warp") \in RulesOver(M, D)
  BY <1>m, <1>t, RuleOver
<1>2. Rule(tests, "dns-direct") \in RulesOver(M, D)
  BY <1>m, <1>t, RuleOver
<1>3. If(opt.BlockAds, Rule(adses, Refused)) \in RulesOver(M, D)
  <2>1. opt.BlockAds => Rule(adses, Refused) \in RulesOver(M, D)
    BY <1>m, <1>t, RuleOver
  <2> QED
    BY <2>1, <1>o, IfOver
<1>4. If(regional, Rule(ends, "dns-direct") \o Rule(sites, "dns-direct")) \in RulesOver(M, D)
  <2>1. regional => Rule(ends, "dns-direct") \in RulesOver(M, D) /\ Rule(sites, "dns-direct") \in RulesOver(M, D)
    BY <1>m, <1>t, RuleOver
  <2>2. regional => Rule(ends, "dns-direct") \o Rule(sites, "dns-direct") \in RulesOver(M, D)
    BY <2>1, JoinOver
  <2> QED
    BY <2>2, <1>o, IfOver
<1>5. If(opt.EnableFakeDNS, Rule(addrs, "dns-fake")) \in RulesOver(M, D)
  <2>1. opt.EnableFakeDNS => Rule(addrs, "dns-fake") \in RulesOver(M, D)
    BY <1>m, <1>t, RuleOver
  <2> QED
    BY <2>1, <1>o, IfOver
<1> DEFINE a == Rule(apis, "dns-remote-no-warp")
           b == Rule(tests, "dns-direct")
           c == If(opt.BlockAds, Rule(adses, Refused))
           d == If(regional, Rule(ends, "dns-direct") \o Rule(sites, "dns-direct"))
           e == If(opt.EnableFakeDNS, Rule(addrs, "dns-fake"))
<1>6. DnsRules(opt) = a \o b \o c \o d \o e
  BY DEF DnsRules, addForceDirect, apis, tests, adses, ends, sites, addrs, regional
<1>7. /\ a \in RulesOver(M, D) /\ b \in RulesOver(M, D) /\ c \in RulesOver(M, D)
      /\ d \in RulesOver(M, D) /\ e \in RulesOver(M, D)
  BY <1>1, <1>2, <1>3, <1>4, <1>5
<1> HIDE DEF a, b, c, d, e
<1>8. a \o b \o c \in RulesOver(M, D)
  BY <1>7, JoinOver
<1>9. a \o b \o c \o d \o e \in RulesOver(M, D)
  BY <1>7, <1>8, JoinOver
<1> QED
  BY <1>6, <1>9 DEF M, D

LEMMA RouteRulesAreOver ==
  ASSUME NEW opt \in InhiveOptions, NEW main
  PROVE  RouteRules(opt, main) \in RulesOver(RouteOver(opt), RouteTargets(main))
<1> DEFINE M == RouteOver(opt)
           D == RouteTargets(main)
           asks  == {"dns"}
           pages == {"block page"}
           lans  == {"private"}
           adses == {"ads"}
           ends  == {"suffix"}
           sites == {"geosite", "geoip"}
           quics == {"quic"}
           regional == opt.Region # "other"
<1>o. opt.BlockAds \in BOOLEAN /\ opt.BypassLAN \in BOOLEAN /\ opt.BlockQuic \in BOOLEAN /\ regional \in BOOLEAN
  BY DEF InhiveOptions
<1>m. /\ asks \in SUBSET M /\ pages \in SUBSET M /\ lans \in SUBSET M /\ ends \in SUBSET M /\ quics \in SUBSET M
      /\ opt.BlockAds => adses \in SUBSET M
      /\ regional => sites \in SUBSET M
  BY DEF RouteOver, RuleSets
<1>t. "hijack-dns" \in D /\ main \in D /\ Direct \in D /\ Reject \in D
  BY DEF RouteTargets
<1> HIDE DEF M, D, asks, pages, lans, adses, ends, sites, quics, regional
<1>1. Rule(asks, "hijack-dns") \in RulesOver(M, D) /\ Rule(pages, main) \in RulesOver(M, D)
  BY <1>m, <1>t, RuleOver
<1>2. If(opt.BypassLAN, Rule(lans, Direct)) \in RulesOver(M, D)
  <2>1. Rule(lans, Direct) \in RulesOver(M, D)
    BY <1>m, <1>t, RuleOver
  <2> QED
    BY <2>1, <1>o, IfOver
<1>3. If(opt.BlockAds, Rule(adses, Reject)) \in RulesOver(M, D)
  <2>1. opt.BlockAds => Rule(adses, Reject) \in RulesOver(M, D)
    BY <1>m, <1>t, RuleOver
  <2> QED
    BY <2>1, <1>o, IfOver
<1>4. If(regional, Rule(ends, Direct) \o Rule(sites, Direct)) \in RulesOver(M, D)
  <2>1. regional => Rule(ends, Direct) \in RulesOver(M, D) /\ Rule(sites, Direct) \in RulesOver(M, D)
    BY <1>m, <1>t, RuleOver
  <2>2. regional => Rule(ends, Direct) \o Rule(sites, Direct) \in RulesOver(M, D)
    BY <2>1, JoinOver
  <2> QED
    BY <2>2, <1>o, IfOver
<1>5. If(opt.BlockQuic, Rule(quics, Reject)) \in RulesOver(M, D)
  <2>1. Rule(quics, Reject) \in RulesOver(M, D)
    BY <1>m, <1>t, RuleOver
  <2> QED
    BY <2>1, <1>o, IfOver
<1> DEFINE a == Rule(asks, "hijack-dns")
           b == Rule(pages, main)
           c == If(opt.BypassLAN, Rule(lans, Direct))
           d == If(opt.BlockAds, Rule(adses, Reject))
           e == If(regional, Rule(ends, Direct) \o Rule(sites, Direct))
           f == If(opt.BlockQuic, Rule(quics, Reject))
<1>6. RouteRules(opt, main) = a \o b \o c \o d \o e \o f
  BY DEF RouteRules, asks, pages, lans, adses, ends, sites, quics, regional
<1>7. /\ a \in RulesOver(M, D) /\ b \in RulesOver(M, D) /\ c \in RulesOver(M, D)
      /\ d \in RulesOver(M, D) /\ e \in RulesOver(M, D) /\ f \in RulesOver(M, D)
  BY <1>1, <1>2, <1>3, <1>4, <1>5
<1> HIDE DEF a, b, c, d, e, f
<1>8. a \o b \o c \in RulesOver(M, D)
  BY <1>7, JoinOver
<1>9. a \o b \o c \o d \o e \in RulesOver(M, D)
  BY <1>7, <1>8, JoinOver
<1>10. a \o b \o c \o d \o e \o f \in RulesOver(M, D)
  BY <1>7, <1>9, JoinOver
<1> QED
  BY <1>6, <1>10 DEF M, D

LEMMA DnsTargetsAreThere ==
  ASSUME NEW opt, NEW main
  PROVE  DnsTargets(opt) \subseteq NodeTags(DnsServers(opt, main)) \cup {Refused}
<1> DEFINE servers == DnsServers(opt, main)
           IP      == [scheme |-> "other", host |-> "ip", port |-> FALSE]
           detour  == IF opt.DirectDnsAddress.scheme \in {"none", "udp"} THEN NoTag ELSE Fragment
<1>1. ASSUME NEW t, NEW a, NEW resolver, NEW via PROVE getDNSServerOptions(t, a, resolver, via).tag = t
  BY DEF getDNSServerOptions
<1>2. /\ getDNSServerOptions("dns-direct", opt.DirectDnsAddress, "dns-local", detour) \in servers
      /\ getDNSServerOptions("dns-remote-no-warp", opt.RemoteDnsAddress, "dns-direct", Fragment) \in servers
      /\ opt.EnableFakeDNS => getDNSServerOptions("dns-fake", IP, NoTag, NoTag) \in servers
  BY DEF DnsServers
<1> HIDE DEF servers, IP, detour
<1>3. /\ "dns-direct" \in NodeTags(servers) /\ "dns-remote-no-warp" \in NodeTags(servers)
      /\ opt.EnableFakeDNS => "dns-fake" \in NodeTags(servers)
  BY <1>1, <1>2, TagIsThere
<1> QED
  BY <1>3 DEF DnsTargets, servers

\* ReferencesResolve for every set of builders and inputs.
THEOREM NamesAreThere == Spec => []ReferencesResolve
<1>1. BuildInv /\ ReadOwn => ReferencesResolve
  <2> SUFFICES ASSUME BuildInv, ReadOwn, NEW b \in Builders, Quiet(b)
               PROVE  LET p == Profile(b)
                          o == Opt(b)
                          tags == NodeTags(NodesOf(b))
                          dns == DnsServers(o, seen[b].dns)
                          rules == DnsRules(o)
                          route == RouteRules(o, seen[b].rule)
                          named == UNION {r.match : r \in {rules[i] : i \in DOMAIN rules} \cup {route[i] : i \in DOMAIN route}}
                      IN  /\ \A n \in Groups(p, o, seen[b].groups) \cup WarpEndpoint(o) : n.via \subseteq tags
                          /\ SelectorDefault(p, o, seen[b].groups) \in tags \cup {DefaultMark}
                          /\ \A s \in dns : s.detour \in tags \cup {NoTag} /\ s.resolver \in NodeTags(dns) \cup {NoTag}
                          /\ \A i \in DOMAIN rules : rules[i].to \in NodeTags(dns) \cup {Refused}
                          /\ \A i \in DOMAIN route : route[i].to \in tags \cup {"hijack-dns", Reject}
                          /\ seen[b].final \in tags
                          /\ named \cap {"ads", "geosite", "geoip"} \subseteq RuleSets(o)
    BY DEF ReferencesResolve
  <2> DEFINE p == Profile(b)
             o == Opt(b)
             t == Wanted(o)
             tags == NodeTags(Nodes(p, o, t))
             dns == DnsServers(o, t)
             rules == DnsRules(o)
             route == RouteRules(o, t)
             named == UNION {r.match : r \in {rules[i] : i \in DOMAIN rules} \cup {route[i] : i \in DOMAIN route}}
  <2>1. seen[b].groups = t /\ seen[b].dns = t /\ seen[b].rule = t /\ seen[b].final = t
    BY DEF ReadOwn, Quiet, Done
  <2>2. o \in InhiveOptions
    BY InputAssumption DEF BuildInv, Given, Quiet, Done, Opt
  <2>3. TagCount(p, o) > 0
    BY DEF BuildInv, Passed, Quiet, Done
  <2>4. {Select, Direct, Fragment} \subseteq tags
    BY BuiltTags
  <2>5. t \in tags
    <3>1. CASE o.EnableWarp
      <4>1. Node(WARP, {IF o.Mode = "warp_over_proxy" THEN Select ELSE Direct}) \in Nodes(p, o, t)
        BY <3>1 DEF Nodes, WarpEndpoint
      <4> QED
        BY <3>1, <4>1, NodeFields, TagIsThere DEF Wanted
    <3>2. CASE ~o.EnableWarp
      BY <3>2, <2>4 DEF Wanted
    <3> QED
      BY <3>1, <3>2
  <2>6. \A n \in Groups(p, o, t) \cup WarpEndpoint(o) : n.via \subseteq tags
    BY GroupsResolve
  <2>7. SelectorDefault(p, o, t) \in tags \cup {DefaultMark}
    BY <2>3, DefaultResolves
  <2> HIDE DEF p, o, t, tags
  <2>8. \A s \in dns : s.detour \in tags \cup {NoTag} /\ s.resolver \in NodeTags(dns) \cup {NoTag}
    BY <2>4, <2>5, DnsResolves
  <2>9. \A i \in DOMAIN rules : rules[i].match \subseteq DnsOver(o) /\ rules[i].to \in DnsTargets(o)
    BY <2>2, DnsRulesAreOver, RulesAreOver
  <2>10. \A i \in DOMAIN route : route[i].match \subseteq RouteOver(o) /\ route[i].to \in RouteTargets(t)
    BY <2>2, RouteRulesAreOver, RulesAreOver
  <2>11. \A i \in DOMAIN rules : rules[i].to \in NodeTags(dns) \cup {Refused}
    BY <2>9, DnsTargetsAreThere
  <2>12. \A i \in DOMAIN route : route[i].to \in tags \cup {"hijack-dns", Reject}
    BY <2>4, <2>5, <2>10 DEF RouteTargets
  <2>13. named \cap {"ads", "geosite", "geoip"} \subseteq RuleSets(o)
    <3>1. named \subseteq DnsOver(o) \cup RouteOver(o)
      BY <2>9, <2>10
    <3>2. (DnsOver(o) \cup RouteOver(o)) \cap {"ads", "geosite", "geoip"} \subseteq RuleSets(o)
      BY DEF DnsOver, RouteOver
    <3> HIDE DEF named
    <3> QED
      BY <3>1, <3>2
  <2> HIDE DEF dns, rules, route, named
  <2> QED
    BY <2>1, <2>5, <2>6, <2>7, <2>8, <2>11, <2>12, <2>13
    DEF p, o, tags, dns, rules, route, named, NodesOf
<1> QED
  BY <1>1, BuildInvHolds, DetourInvHolds, PTL DEF DetourInv

-----------------------------------------------------------------------------
\* Who dials through whom.

LEMMA NodesByKind ==
  ASSUME NEW p, NEW opt, NEW main, NEW n \in Nodes(p, opt, main)
  PROVE  \/ n \in Servers(p, opt)
         \/ n \in Groups(p, opt, main)
         \/ n \in WarpEndpoint(opt)
         \/ n.tag \in {Direct, Fragment} /\ n.via = {}
<1>1. CASE n \in {Node(Direct, {}), Node(Fragment, {})}
  BY <1>1, NodeFields
<1> QED
  BY <1>1 DEF Nodes

LEMMA GroupsByTag ==
  ASSUME NEW p, NEW opt, NEW main, NEW n \in Groups(p, opt, main)
  PROVE  \/ n.tag = Select /\ n.via = Tags(p, opt) \cup GroupTags(p, opt, main)
         \/ n.tag \in GroupTags(p, opt, main) /\ n.via = Tags(p, opt)
  BY NodeFields DEF Groups

LEMMA GroupTagsAreTwo ==
  ASSUME NEW p, NEW opt, NEW main
  PROVE  GroupTags(p, opt, main) \subseteq {URLTest, Balance}
  BY DEF GroupTags

LEMMA WarpDials ==
  ASSUME NEW opt, NEW n \in WarpEndpoint(opt)
  PROVE  opt.EnableWarp /\ n.tag = WARP /\ n.via = {IF opt.Mode = "warp_over_proxy" THEN Select ELSE Direct}
<1>1. opt.EnableWarp /\ n = Node(WARP, {IF opt.Mode = "warp_over_proxy" THEN Select ELSE Direct})
  BY DEF WarpEndpoint
<1>2. Select # NoTag /\ Direct # NoTag
  BY DEF Select, Direct, NoTag
<1> QED
  BY <1>1, <1>2, NodeFields

LEMMA BuiltTagsDiffer ==
  /\ Select \notin {URLTest, Balance, WARP, Direct, Fragment}
  /\ WARP \notin {URLTest, Balance, Direct, Fragment}
  /\ {URLTest, Balance} \cap {Direct, Fragment} = {}
  /\ {Direct, Fragment, Select, URLTest, WARP} \subseteq PredefinedOutboundTags
  BY DEF Select, URLTest, Balance, WARP, Direct, Fragment, PredefinedOutboundTags

\* The tags that final leads to, over groups and WARP, end at servers.
LEMMA TrafficReachesServers ==
  ASSUME NEW p, NEW opt \in InhiveOptions, NEW main, TagCount(p, opt) > 0,
         opt.EnableWarp => opt.Mode = "warp_over_proxy"
  PROVE  EndsAtServers(Nodes(p, opt, main), Servers(p, opt), Wanted(opt))
<1> DEFINE others  == Nodes(p, opt, main) \ Servers(p, opt)
           tags    == Tags(p, opt)
           groups  == GroupTags(p, opt, main)
           reached == {Select} \cup tags \cup groups \cup (IF opt.EnableWarp THEN {WARP} ELSE {})
<1>1. tags # {} /\ groups \subseteq {URLTest, Balance}
  BY CountedTagsExist, GroupTagsAreTwo
<1>2. tags \cap {Direct, Fragment, Select, URLTest, WARP} = {}
  BY ShownAreServers, ServersHaveOwnTags, BuiltTagsDiffer
<1>3. Direct \notin reached /\ Fragment \notin reached
  BY <1>1, <1>2, BuiltTagsDiffer
<1>4. reached \subseteq NodeTags(Nodes(p, opt, main))
  <2>1. opt.EnableWarp => WARP \in NodeTags(Nodes(p, opt, main))
    <3>1. opt.EnableWarp => Node(WARP, {IF opt.Mode = "warp_over_proxy" THEN Select ELSE Direct}) \in Nodes(p, opt, main)
      BY DEF Nodes, WarpEndpoint
    <3> QED
      BY <3>1, NodeFields, TagIsThere
  <2> QED
    BY <2>1, BuiltTags
<1>5. ASSUME NEW n \in others PROVE n.tag \in reached => n.via # {} /\ n.via \subseteq reached
  <2>1. CASE n \in Groups(p, opt, main)
    BY <2>1, <1>1, GroupsByTag
  <2>2. CASE n \in WarpEndpoint(opt)
    BY <2>2, WarpDials
  <2>3. CASE n.tag \in {Direct, Fragment}
    BY <2>3, <1>3
  <2> QED
    BY <2>1, <2>2, <2>3, NodesByKind
<1>6. Wanted(opt) \in reached
  BY DEF Wanted
<1> HIDE DEF reached
<1>7. reached \cap NodeTags({n \in others : n.via = {}}) = {}
  BY <1>5 DEF NodeTags
<1> QED
  BY <1>4, <1>5, <1>6, <1>7 DEF EndsAtServers

\* ServersCarryTraffic for every set of builders and inputs.
THEOREM TrafficIsCarried == Spec => []ServersCarryTraffic
<1>1. BuildInv /\ ReadOwn => ServersCarryTraffic
  <2> SUFFICES ASSUME BuildInv, ReadOwn, NEW b \in Builders, Quiet(b),
                      Opt(b).EnableWarp => Opt(b).Mode = "warp_over_proxy"
               PROVE  /\ EndsAtServers(NodesOf(b), ServersOf(b), seen[b].final)
                      /\ \A s \in DnsServers(Opt(b), seen[b].dns) :
                           s.tag \in {"dns-remote", "dns-remote-fallback"} => s.detour = seen[b].final
    BY DEF ServersCarryTraffic
  <2> DEFINE t == Wanted(Opt(b))
  <2>1. seen[b].groups = t /\ seen[b].dns = t /\ seen[b].final = t
    BY DEF ReadOwn, Quiet, Done
  <2>2. Opt(b) \in InhiveOptions
    BY InputAssumption DEF BuildInv, Given, Quiet, Done, Opt
  <2>3. TagCount(Profile(b), Opt(b)) > 0
    BY DEF BuildInv, Passed, Quiet, Done
  <2>4. ASSUME NEW s \in DnsServers(Opt(b), t), s.tag \in {"dns-remote", "dns-remote-fallback"}
        PROVE  s.detour = t
    BY <2>4 DEF DnsServers, getDNSServerOptions
  <2>5. EndsAtServers(Nodes(Profile(b), Opt(b), t), Servers(Profile(b), Opt(b)), t)
    BY <2>2, <2>3, TrafficReachesServers
  <2> HIDE DEF t
  <2> QED
    BY <2>1, <2>4, <2>5 DEF NodesOf, ServersOf
<1> QED
  BY <1>1, BuildInvHolds, DetourInvHolds, PTL DEF DetourInv

\* A server dials by the detour of its entry, or through WARP in the mode "proxy_over_warp".
OverWarp(opt) == opt.EnableWarp /\ opt.Mode = "proxy_over_warp"
Dials(n, e, opt) == n.tag = e.tag /\ n.via \subseteq ({e.detour} \ {NoTag}) \cup (IF OverWarp(opt) THEN {WARP} ELSE {})

LEMMA ServerHasEntry ==
  ASSUME NEW p, NEW opt, NEW n \in Servers(p, opt)
  PROVE  \E e \in Entries(p) : Dials(n, e, opt)
<1>1. CASE \E i \in KeptOutbounds(p) : n = Node(p.outbounds[i].tag, {patchWarpFromConfig(p.outbounds[i], opt)})
  <2>1. PICK i \in KeptOutbounds(p) : n = Node(p.outbounds[i].tag, {patchWarpFromConfig(p.outbounds[i], opt)})
    BY <1>1
  <2>2. p.outbounds[i] \in Entries(p)
    BY DEF KeptOutbounds, Entries
  <2>3. n.tag = p.outbounds[i].tag /\ n.via = {patchWarpFromConfig(p.outbounds[i], opt)} \ {NoTag}
    BY <2>1, NodeFields
  <2>4. \/ patchWarpFromConfig(p.outbounds[i], opt) = p.outbounds[i].detour
        \/ OverWarp(opt) /\ patchWarpFromConfig(p.outbounds[i], opt) = WARP
    BY DEF patchWarpFromConfig, OverWarp
  <2>5. Dials(n, p.outbounds[i], opt)
    BY <2>3, <2>4 DEF Dials
  <2> QED
    BY <2>2, <2>5
<1>2. CASE \E i \in KeptEndpoints(p, opt) : n = Node(p.endpoints[i].tag, {p.endpoints[i].detour})
  <2>1. PICK i \in KeptEndpoints(p, opt) : n = Node(p.endpoints[i].tag, {p.endpoints[i].detour})
    BY <1>2
  <2>2. p.endpoints[i] \in Entries(p)
    BY DEF KeptEndpoints, Entries
  <2>3. Dials(n, p.endpoints[i], opt)
    BY <2>1, NodeFields DEF Dials
  <2> QED
    BY <2>2, <2>3
<1> QED
  BY <1>1, <1>2 DEF Servers

\* Among any nodes that dial there is one that dials through none of them.
LEMMA SomeNodeDialsOut ==
  ASSUME NEW p, LoopFree(p), NEW opt, NEW main,
         NEW nodes, nodes \subseteq Nodes(p, opt, main), \A n \in nodes : n.via # {}, nodes # {}
  PROVE  \E n \in nodes : n.via \cap NodeTags(nodes) = {}
<1> DEFINE servers == {n \in nodes : n \in Servers(p, opt)}
           core    == {Select, URLTest, Balance, WARP}
<1>1. ASSUME NEW n \in nodes
      PROVE  n \in Servers(p, opt) \/ n \in Groups(p, opt, main) \/ n \in WarpEndpoint(opt)
  BY NodesByKind
<1>2. ASSUME NEW n \in Servers(p, opt) PROVE n.tag \notin core \cup {Direct, Fragment}
  <2>1. n.tag \notin PredefinedOutboundTags
    BY ServersHaveOwnTags, TagIsThere
  <2>2. n.tag # Balance
    BY ServerHasEntry DEF Dials, LoopFree
  <2> QED
    BY <2>1, <2>2, BuiltTagsDiffer
<1>3. ASSUME NEW n \in nodes, n \notin Servers(p, opt) PROVE n.tag \in core
  BY <1>1, <1>3, GroupsByTag, GroupTagsAreTwo, WarpDials
<1>4. NodeTags(nodes) \subseteq NodeTags(servers) \cup core
  BY <1>3 DEF NodeTags
<1>5. NodeTags(servers) \cap (core \cup {Direct, Fragment}) = {}
  BY <1>2 DEF NodeTags
<1>6. Direct \notin NodeTags(nodes) /\ Direct \notin core
  BY <1>4, <1>5, BuiltTagsDiffer
<1>7. Tags(p, opt) \cap core = {}
  BY <1>2, ShownAreServers, TagHasNode
<1> HIDE DEF servers, core
<1>8. CASE OverWarp(opt) /\ WARP \in NodeTags(nodes)
  <2>1. PICK n \in nodes : n.tag = WARP
    BY <1>8, TagHasNode
  <2>2. n \in WarpEndpoint(opt)
    BY <2>1, <1>1, <1>2, GroupsByTag, GroupTagsAreTwo, BuiltTagsDiffer DEF core
  <2>3. n.via = {Direct}
    BY <2>2, <1>8, WarpDials DEF OverWarp
  <2> QED
    BY <2>3, <1>6
<1>9. CASE ~(OverWarp(opt) /\ WARP \in NodeTags(nodes)) /\ servers # {}
  <2> DEFINE entries == {e \in Entries(p) : \E n \in servers : Dials(n, e, opt)}
             tags    == {d.tag : d \in entries}
  <2>1. servers \subseteq nodes /\ servers \subseteq Servers(p, opt)
    BY DEF servers
  <2>2. entries \in SUBSET Entries(p) /\ entries # {}
    BY <1>9, <2>1, ServerHasEntry
  <2>3. NodeTags(servers) \subseteq tags
    <3> SUFFICES ASSUME NEW t \in NodeTags(servers) PROVE t \in tags
      OBVIOUS
    <3>1. PICK n \in servers : n.tag = t
      BY TagHasNode
    <3>2. PICK e \in Entries(p) : Dials(n, e, opt)
      BY <2>1, ServerHasEntry
    <3>3. e \in entries /\ e.tag = t
      BY <3>1, <3>2 DEF Dials
    <3> QED
      BY <3>3
  <2>4. PICK e \in entries : e.detour = NoTag \/ e.detour \notin tags
    BY <2>2 DEF LoopFree
  <2>5. PICK n \in servers : Dials(n, e, opt)
    OBVIOUS
  <2>6. e.detour \notin core
    BY <2>2 DEF LoopFree, core
  <2> HIDE DEF entries, tags
  <2>7. ASSUME NEW t \in n.via PROVE t \notin NodeTags(nodes)
    <3>1. CASE OverWarp(opt) /\ t = WARP
      BY <3>1, <1>9
    <3>2. CASE t = e.detour /\ t # NoTag
      BY <3>2, <2>3, <2>4, <2>6, <1>4
    <3> QED
      BY <3>1, <3>2, <2>5 DEF Dials
  <2> QED
    BY <2>1, <2>5, <2>7
<1>10. CASE servers = {}
  <2>1. \A n \in nodes : n \in Groups(p, opt, main) \/ n \in WarpEndpoint(opt)
    BY <1>1, <1>10 DEF servers
  <2>2. NodeTags(nodes) \subseteq core
    BY <1>4, <1>10 DEF NodeTags
  <2>3. CASE \E n \in nodes : n.tag \in {URLTest, Balance}
    <3>1. PICK n \in nodes : n.tag \in {URLTest, Balance}
      BY <2>3
    <3>2. n.via = Tags(p, opt)
      BY <3>1, <2>1, GroupsByTag, WarpDials, BuiltTagsDiffer
    <3> QED
      BY <3>2, <2>2, <1>7
  <2>4. CASE (\A n \in nodes : n.tag \notin {URLTest, Balance}) /\ \E n \in nodes : n.tag = Select
    <3>1. PICK n \in nodes : n.tag = Select
      BY <2>4
    <3>2. n.via = Tags(p, opt) \cup GroupTags(p, opt, main)
      BY <3>1, <2>1, GroupsByTag, GroupTagsAreTwo, WarpDials, BuiltTagsDiffer
    <3>3. NodeTags(nodes) \subseteq {Select, WARP}
      BY <2>2, <2>4 DEF NodeTags, core
    <3>4. (Tags(p, opt) \cup GroupTags(p, opt, main)) \cap {Select, WARP} = {}
      BY <1>7, GroupTagsAreTwo, BuiltTagsDiffer DEF core
    <3> QED
      BY <3>2, <3>3, <3>4
  <2>5. CASE \A n \in nodes : n.tag \notin {URLTest, Balance, Select}
    <3>1. NodeTags(nodes) \subseteq {WARP}
      BY <2>2, <2>5 DEF NodeTags, core
    <3>2. PICK n \in nodes : TRUE
      OBVIOUS
    <3>3. n \in WarpEndpoint(opt)
      BY <2>1, <2>5, <3>2, GroupsByTag, GroupTagsAreTwo
    <3>4. n.via \subseteq {Select, Direct}
      BY <3>3, WarpDials
    <3> QED
      BY <3>1, <3>4, BuiltTagsDiffer
  <2> QED
    BY <2>3, <2>4, <2>5
<1> QED
  BY <1>8, <1>9, <1>10

\* NoDialLoop for every set of builders and inputs, overlapping builds included.
THEOREM NobodyDialsHimself == Spec => []NoDialLoop
<1>1. BuildInv => NoDialLoop
  <2> SUFFICES ASSUME BuildInv, NEW b \in Builders, Done(b),
                      NEW nodes \in SUBSET {n \in NodesOf(b) : n.via # {}}, nodes # {}
               PROVE  \E n \in nodes : n.via \cap NodeTags(nodes) = {}
    BY DEF NoDialLoop
  <2>1. LoopFree(Profile(b))
    BY ProfileAssumption DEF BuildInv, Given, Done, Profile
  <2>2. nodes \subseteq Nodes(Profile(b), Opt(b), seen[b].groups) /\ \A n \in nodes : n.via # {}
    BY DEF NodesOf
  <2> QED
    BY <2>1, <2>2, SomeNodeDialsOut
<1> QED
  BY <1>1, BuildInvHolds, PTL

-----------------------------------------------------------------------------
\* Every server is offered.

\* What EveryServerIsOffered calls of use, by place; none of it is lost in the result.
Useful(e) == e.valid /\ ~Skipped(e) /\ e.type # "psiphon"
UsefulEntries(p) ==
  {e \in {p.outbounds[i] : i \in DOMAIN p.outbounds} : Useful(e)}
    \cup {e \in {p.endpoints[i] : i \in DOMAIN p.endpoints} : Useful(e) /\ e.id # "own"}

LEMMA UsefulIsKept ==
  ASSUME NEW p \in SingBoxOptions, NEW opt, NEW e \in UsefulEntries(p)
  PROVE  LET q == salvageSingOptions(p)
         IN  \/ \E i \in KeptOutbounds(q) : q.outbounds[i] = e
             \/ \E i \in KeptEndpoints(q, opt) : q.endpoints[i] = e
<1> DEFINE q == salvageSingOptions(p)
<1>0. /\ DOMAIN q.outbounds = {i \in DOMAIN p.outbounds : p.outbounds[i].valid}
      /\ DOMAIN q.endpoints = {i \in DOMAIN p.endpoints : p.endpoints[i].valid}
      /\ \A i \in DOMAIN q.outbounds : q.outbounds[i] = p.outbounds[i]
      /\ \A i \in DOMAIN q.endpoints : q.endpoints[i] = p.endpoints[i]
  BY SalvageKeeps
<1> HIDE DEF q
<1>1. CASE e \in {p.outbounds[i] : i \in DOMAIN p.outbounds} /\ Useful(e)
  <2>1. PICK i \in DOMAIN p.outbounds : e = p.outbounds[i]
    BY <1>1
  <2>2. i \in DOMAIN q.outbounds /\ q.outbounds[i] = e
    BY <1>0, <1>1, <2>1 DEF Useful
  <2>3. i \in KeptOutbounds(q)
    BY <1>1, <2>2 DEF KeptOutbounds, Useful
  <2> QED
    BY <2>2, <2>3 DEF q
<1>2. CASE e \in {p.endpoints[i] : i \in DOMAIN p.endpoints} /\ Useful(e) /\ e.id # "own"
  <2>1. PICK i \in DOMAIN p.endpoints : e = p.endpoints[i]
    BY <1>2
  <2>2. i \in DOMAIN q.endpoints /\ q.endpoints[i] = e
    BY <1>0, <1>2, <2>1 DEF Useful
  <2>3. i \in KeptEndpoints(q, opt)
    BY <1>2, <2>2 DEF KeptEndpoints, Useful, Skipped
  <2> QED
    BY <2>2, <2>3 DEF q
<1> QED
  BY <1>1, <1>2 DEF UsefulEntries

LEMMA UsefulIsServer ==
  ASSUME NEW p \in SingBoxOptions, NEW opt, NEW e \in UsefulEntries(p)
  PROVE  LET q == salvageSingOptions(p)
         IN  /\ e.tag \in NodeTags(Servers(q, opt))
             /\ e.tag \notin HideTags => e.tag \in Tags(q, opt)
<1> DEFINE q == salvageSingOptions(p)
<1>0. \/ \E i \in KeptOutbounds(q) : q.outbounds[i] = e
      \/ \E i \in KeptEndpoints(q, opt) : q.endpoints[i] = e
  BY UsefulIsKept
<1> HIDE DEF q
<1>1. CASE \E i \in KeptOutbounds(q) : q.outbounds[i] = e
  <2>1. PICK i \in KeptOutbounds(q) : q.outbounds[i] = e
    BY <1>1
  <2>2. Node(q.outbounds[i].tag, {patchWarpFromConfig(q.outbounds[i], opt)}) \in Servers(q, opt)
    BY DEF Servers
  <2>3. e.tag \in NodeTags(Servers(q, opt))
    BY <2>1, <2>2, NodeFields, TagIsThere
  <2>4. e.tag \notin HideTags => e.tag \in TagsOf(q.outbounds, KeptOutbounds(q))
    BY <2>1 DEF TagsOf, Shown
  <2> QED
    BY <2>3, <2>4 DEF Tags, q
<1>2. CASE \E i \in KeptEndpoints(q, opt) : q.endpoints[i] = e
  <2>1. PICK i \in KeptEndpoints(q, opt) : q.endpoints[i] = e
    BY <1>2
  <2>2. Node(q.endpoints[i].tag, {q.endpoints[i].detour}) \in Servers(q, opt)
    BY DEF Servers
  <2>3. e.tag \in NodeTags(Servers(q, opt))
    BY <2>1, <2>2, NodeFields, TagIsThere
  <2>4. e.tag \notin HideTags => e.tag \in TagsOf(q.endpoints, KeptEndpoints(q, opt))
    BY <2>1 DEF TagsOf, Shown
  <2> QED
    BY <2>3, <2>4 DEF Tags, q
<1> QED
  BY <1>0, <1>1, <1>2

\* A profile that cannot be read is broken, or has nothing of use.
LEMMA UnreadableIsUseless ==
  ASSUME NEW p \in SingBoxOptions, ~Readable(p), p.rest
  PROVE  UsefulEntries(p) = {}
<1> DEFINE q == salvageSingOptions(p)
<1>1. DOMAIN q.outbounds = {} /\ DOMAIN q.endpoints = {}
  BY DEF Readable
<1>2. /\ DOMAIN q.outbounds = {i \in DOMAIN p.outbounds : p.outbounds[i].valid}
      /\ DOMAIN q.endpoints = {i \in DOMAIN p.endpoints : p.endpoints[i].valid}
  BY SalvageKeeps
<1> HIDE DEF q
<1> SUFFICES ASSUME NEW e \in UsefulEntries(p) PROVE FALSE
  OBVIOUS
<1>3. CASE \E i \in DOMAIN p.outbounds : e = p.outbounds[i] /\ e.valid
  BY <1>1, <1>2, <1>3
<1>4. CASE \E i \in DOMAIN p.endpoints : e = p.endpoints[i] /\ e.valid
  BY <1>1, <1>2, <1>4
<1> QED
  BY <1>3, <1>4 DEF UsefulEntries, Useful

\* Where no tag is collected there is no tag.
LEMMA NoTagsAreCounted ==
  ASSUME NEW p \in SingBoxOptions, NEW opt, TagCount(salvageSingOptions(p), opt) = 0
  PROVE  Tags(salvageSingOptions(p), opt) = {}
<1> DEFINE q == salvageSingOptions(p)
           a == Shown(q.outbounds, KeptOutbounds(q))
           b == Shown(q.endpoints, KeptEndpoints(q, opt))
<1>1. /\ DOMAIN q.outbounds \subseteq DOMAIN p.outbounds
      /\ DOMAIN q.endpoints \subseteq DOMAIN p.endpoints
  BY SalvageKeeps
<1>2. /\ p.outbounds \in Seq(EntryType) /\ p.endpoints \in Seq(EntryType)
  BY DEF SingBoxOptions
<1>3. /\ DOMAIN p.outbounds = 1..Len(p.outbounds) /\ Len(p.outbounds) \in Nat
      /\ DOMAIN p.endpoints = 1..Len(p.endpoints) /\ Len(p.endpoints) \in Nat
  BY <1>2
<1>4. IsFiniteSet(DOMAIN p.outbounds) /\ IsFiniteSet(DOMAIN p.endpoints)
  BY <1>3, FS_Interval
<1>5. a \subseteq DOMAIN p.outbounds /\ b \subseteq DOMAIN p.endpoints
  BY <1>1 DEF Shown, KeptOutbounds, KeptEndpoints
<1>6. TagCount(q, opt) = Cardinality(a) + Cardinality(b)
  BY DEF TagCount
<1>7. Tags(q, opt) = {q.outbounds[i].tag : i \in a} \cup {q.endpoints[i].tag : i \in b}
  BY DEF Tags, TagsOf
<1> HIDE DEF a, b
<1>8. IsFiniteSet(a) /\ IsFiniteSet(b)
  BY <1>4, <1>5, FS_Subset
<1>9. Cardinality(a) \in Nat /\ Cardinality(b) \in Nat
  BY <1>8, FS_CardinalityType
<1>10. a = {} /\ b = {}
  BY <1>6, <1>8, <1>9, FS_EmptySet
<1> QED
  BY <1>7, <1>10

LEMMA DnsFailsForAnAddress ==
  ASSUME NEW opt \in InhiveOptions, DnsFails(opt)
  PROVE  Unsupported(opt.RemoteDnsAddress) \/ Unsupported(opt.DirectDnsAddress)
<1>1. opt.RemoteDnsAddress \in DnsAddress
  BY DEF InhiveOptions
<1>2. Unsupported(getDnsAddress(opt.RemoteDnsAddress)) => Unsupported(opt.RemoteDnsAddress)
  BY <1>1 DEF Unsupported, getDnsAddress, DnsAddress
<1> QED
  BY <1>2 DEF DnsFails

\* EveryServerIsOffered for every set of builders and inputs, overlapping builds included.
THEOREM ServersAreOffered == Spec => []EveryServerIsOffered
<1>1. BuildInv => EveryServerIsOffered
  <2> SUFFICES ASSUME BuildInv, NEW b \in Builders
               PROVE  LET p == input[b].profile
                          o == Opt(b)
                          usable == UsefulEntries(p)
                          shown == {e.tag : e \in usable} \ HideTags
                      IN  /\ Done(b) => /\ NodeTags(usable) \subseteq NodeTags(NodesOf(b))
                                        /\ \A g \in Groups(Profile(b), o, seen[b].groups) : shown \subseteq g.via
                          /\ pc[b] = "failed" =>
                               ~p.rest \/ shown = {} \/ Unsupported(o.RemoteDnsAddress) \/ Unsupported(o.DirectDnsAddress)
    BY DEF EveryServerIsOffered, UsefulEntries, Useful
  <2> DEFINE p == input[b].profile
             o == Opt(b)
             usable == UsefulEntries(p)
             shown == {e.tag : e \in usable} \ HideTags
  <2>1. pc[b] # "idle" => p \in SingBoxOptions /\ o \in InhiveOptions
    BY InputAssumption DEF BuildInv, Given, Opt
  <2>2. Profile(b) = salvageSingOptions(p)
    BY DEF Profile
  <2> HIDE DEF p, o
  <2>3. ASSUME pc[b] # "idle", NEW e \in usable
        PROVE  /\ e.tag \in NodeTags(Servers(Profile(b), o))
               /\ e.tag \notin HideTags => e.tag \in Tags(Profile(b), o)
    BY <2>1, <2>2, <2>3, UsefulIsServer
  <2> HIDE DEF usable
  <2>4. ASSUME Done(b), NEW t \in NodeTags(usable) PROVE t \in NodeTags(NodesOf(b))
    <3>1. PICK e \in usable : e.tag = t
      BY <2>4, TagHasNode
    <3>2. t \in NodeTags(Servers(Profile(b), o))
      BY <2>3, <2>4, <3>1 DEF Done
    <3>3. Servers(Profile(b), o) \subseteq NodesOf(b)
      BY DEF NodesOf, Nodes, o
    <3> QED
      BY <3>2, <3>3, TagHasNode, TagIsThere
  <2>5. ASSUME Done(b), NEW g \in Groups(Profile(b), o, seen[b].groups) PROVE shown \subseteq g.via
    <3>1. shown \subseteq Tags(Profile(b), o)
      BY <2>3, <2>5 DEF Done
    <3>2. Tags(Profile(b), o) \subseteq g.via
      BY <2>5, GroupsByTag
    <3> QED
      BY <3>1, <3>2
  <2>6. ASSUME pc[b] = "failed"
        PROVE  ~p.rest \/ shown = {} \/ Unsupported(o.RemoteDnsAddress) \/ Unsupported(o.DirectDnsAddress)
    <3>1. ~Readable(p) \/ TagCount(Profile(b), o) = 0 \/ DnsFails(o)
      BY <2>6 DEF BuildInv, HasReason, p, o
    <3>2. CASE ~Readable(p) /\ p.rest
      <4>1. usable = {}
        BY <3>2, <2>1, <2>6, UnreadableIsUseless DEF usable
      <4> QED
        BY <4>1
    <3>3. CASE TagCount(Profile(b), o) = 0
      <4>1. Tags(Profile(b), o) = {}
        BY <3>3, <2>1, <2>2, <2>6, NoTagsAreCounted
      <4>2. shown \subseteq Tags(Profile(b), o)
        BY <2>3, <2>6
      <4> QED
        BY <4>1, <4>2
    <3>4. CASE DnsFails(o)
      BY <3>4, <2>1, <2>6, DnsFailsForAnAddress
    <3> QED
      BY <3>1, <3>2, <3>3, <3>4
  <2> QED
    BY <2>4, <2>5, <2>6 DEF p, o, usable
<1> QED
  BY <1>1, BuildInvHolds, PTL
=============================================================================
