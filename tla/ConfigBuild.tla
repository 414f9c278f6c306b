----------------------------- MODULE ConfigBuild -----------------------------
(***************************************************************************)
(* The translated build of a configuration (v2/config/builder*.go, dns.go, *)
(* config.go): BuildConfig reads a profile, keeps what the core can use,   *)
(* wraps it into groups, adds WARP and the DNS servers, and writes the DNS *)
(* and route rules.  OutboundMainDetour, the tag that traffic leaves by,   *)
(* is a package variable that every build writes and reads several times:  *)
(* StartService builds under its lock, BootstrapFetch beside it.           *)
(***************************************************************************)
EXTENDS Naturals, Sequences, FiniteSets

CONSTANTS Builders,     \* calls of BuildConfig
          Inputs,       \* what each may be given: [profile |-> ..., opt |-> ...]
          HideTags,     \* tags that contain "§hide§"
          DefaultTags,  \* tags that contain "§default§"
          NoDialer,     \* types whose options have no dialer, and so no detour (external: sing-box)
          None          \* no input

VARIABLES OutboundMainDetour,   \* the package variable
          pc,                   \* the next step of each builder
          input,                \* what it was given
          seen,                 \* the main detour as each part of its result has read it
          alone                 \* history: no other build has overlapped it

vars == <<OutboundMainDetour, pc, input, seen, alone>>

Direct   == "direct §hide§"
Fragment == "direct-fragment §hide§"
Select   == "select"
URLTest  == "lowest"
Balance  == "balance"
WARP     == "WARP"
PredefinedOutboundTags ==
  {Direct, "bypass §hide§", Select, URLTest, "dns-out §hide§", Fragment, WARP}

NoTag == ""             \* no detour, no resolver
DefaultMark == "§default§"

\* The main detour that a build with these options sets and means to use.
Wanted(opt) == IF opt.EnableWarp THEN WARP ELSE Select

-----------------------------------------------------------------------------
\* What a build is given.  `id` of an entry tells the account of a WARP or WireGuard endpoint;
\* `rest` says that everything but the entries is well-formed.  An address has the scheme "none"
\* when it is plain, "other" when it is encrypted, "junk" when sing-box does not know it.

EntryType  == [tag : STRING, type : STRING, valid : BOOLEAN, detour : STRING, id : STRING]
SingBoxOptions == [outbounds : Seq(EntryType), endpoints : Seq(EntryType), rest : BOOLEAN]

DnsAddress == [scheme : STRING, host : {"ip", "name"}, port : BOOLEAN]
InhiveOptions ==
  [EnableWarp : BOOLEAN, Mode : STRING, BypassLAN : BOOLEAN, BlockAds : BOOLEAN, BlockQuic : BOOLEAN,
   Region : STRING, EnableFakeDNS : BOOLEAN,
   RemoteDnsAddress : DnsAddress, DirectDnsAddress : DnsAddress]

ASSUME InputAssumption ==
  \A b \in Builders : Inputs[b] \subseteq [profile : SingBoxOptions, opt : InhiveOptions]

-----------------------------------------------------------------------------
\* Reading the profile.  The entries of a section that was read are a function of their places.

Survivors(entries) == [i \in {j \in DOMAIN entries : entries[j].valid} |-> entries[i]]

\* Mutant: one invalid entry ends the loop over its section.
salvageSingOptions_StopsAtFirst(p) ==
  LET UpToFirst(s) == [i \in {j \in DOMAIN s : \A k \in 1..j : s[k].valid} |-> s[i]]
  IN  [p EXCEPT !.outbounds = UpToFirst(@), !.endpoints = UpToFirst(@)]

salvageSingOptions(p) ==
  [p EXCEPT !.outbounds = Survivors(@), !.endpoints = Survivors(@)]

\* What a profile is expected to be when it has been read: its detours lead to entries of its own or
\* out directly, never around, and none of its entries has the tag of the balancer, which
\* PredefinedOutboundTags lacks.
Entries(p) == {p.outbounds[i] : i \in DOMAIN p.outbounds} \cup {p.endpoints[i] : i \in DOMAIN p.endpoints}

LoopFree(p) ==
  /\ \A e \in Entries(p) : e.tag # Balance /\ e.detour \notin {Select, URLTest, Balance, WARP}
  /\ \A es \in SUBSET Entries(p) : es # {} =>
       \E e \in es : e.detour = NoTag \/ e.detour \notin {d.tag : d \in es}

ASSUME ProfileAssumption ==
  \A b \in Builders : \A in \in Inputs[b] : LoopFree(salvageSingOptions(in.profile))

Readable(p) ==
  /\ p.rest
  /\ \/ salvageSingOptions(p) = p
     \/ DOMAIN salvageSingOptions(p).outbounds \cup DOMAIN salvageSingOptions(p).endpoints # {}

-----------------------------------------------------------------------------
\* Outbounds and endpoints.

Skipped(out) ==
  \/ out.tag \in PredefinedOutboundTags \cup {"direct", "bypass", "block"}
  \/ out.type \in {"block", "dns", "selector", "urltest", "custom"}

\* The outbounds that are kept, by their place; of several Psiphon outbounds the first.
KeptOutbounds(p) ==
  {i \in DOMAIN p.outbounds :
     /\ ~Skipped(p.outbounds[i])
     /\ p.outbounds[i].type = "psiphon" =>
          \A j \in DOMAIN p.outbounds :
            j < i /\ p.outbounds[j].type = "psiphon" => Skipped(p.outbounds[j])}

\* With WARP on, the profile's copies of the own account are left out.
KeptEndpoints(p, opt) ==
  {i \in DOMAIN p.endpoints :
     /\ p.endpoints[i].tag \notin PredefinedOutboundTags
     /\ ~(/\ opt.EnableWarp
          /\ p.endpoints[i].type \in {"warp", "wireguard"} /\ p.endpoints[i].id = "own")}

Shown(entries, kept) == {i \in kept : entries[i].tag \notin HideTags}
TagsOf(entries, kept) == {entries[i].tag : i \in Shown(entries, kept)}

\* How many tags setOutbounds collects, and which.
TagCount(p, opt) == Cardinality(Shown(p.outbounds, KeptOutbounds(p)))
                    + Cardinality(Shown(p.endpoints, KeptEndpoints(p, opt)))

Tags(p, opt) == TagsOf(p.outbounds, KeptOutbounds(p)) \cup TagsOf(p.endpoints, KeptEndpoints(p, opt))

HasDialer(out) == out.type \notin NoDialer \cup {"psiphon"}

\* Mutant: proxies go over WARP in every mode.
patchWarpFromConfig_AnyMode(out, opt) ==
  IF HasDialer(out) /\ opt.EnableWarp THEN WARP ELSE out.detour

\* The detour of a kept outbound: "proxy_over_warp" sends every dialer through WARP.
patchWarpFromConfig(out, opt) ==
  IF HasDialer(out) /\ opt.EnableWarp /\ opt.Mode = "proxy_over_warp" THEN WARP ELSE out.detour

\* A node of the result: its tag, and the tags it dials through.
Group(tag, members) == [tag |-> tag, via |-> members]
Node(tag, via) == Group(tag, via \ {NoTag})

\* Mutant: the endpoint is added in the two modes that have a name only.
WarpEndpoint_KnownModes(opt) ==
  CASE opt.EnableWarp /\ opt.Mode = "warp_over_proxy" -> {Node(WARP, {Select})}
    [] opt.EnableWarp /\ opt.Mode = "proxy_over_warp" -> {Node(WARP, {Direct})}
    [] OTHER                                          -> {}

\* Mutant: the detours of the two modes are swapped.
WarpEndpoint_Swapped(opt) ==
  IF ~opt.EnableWarp THEN {}
  ELSE {Node(WARP, {IF opt.Mode = "warp_over_proxy" THEN Direct ELSE Select})}

\* GenerateWarpSingboxNew as setOutbounds changes it.  `via` is what the tunnel dials through; what the
\* account is registered through (patchWarp: always Fragment) is left out.
WarpEndpoint(opt) ==
  IF ~opt.EnableWarp THEN {}
  ELSE {Node(WARP, {IF opt.Mode = "warp_over_proxy" THEN Select ELSE Direct})}

\* The groups beside the selector, as the main detour that was read decides.
GroupTags(p, opt, main) ==
  IF TagCount(p, opt) <= 1 THEN {}
  ELSE IF main = WARP THEN {URLTest} ELSE {URLTest, Balance}

\* selector.Default; the mark is the literal that the code puts there for a marked server.
SelectorDefault(p, opt, main) ==
  CASE Balance \in GroupTags(p, opt, main)  -> Balance
    [] GroupTags(p, opt, main) = {URLTest}  -> URLTest
    [] Tags(p, opt) \cap DefaultTags # {}   -> DefaultMark
    [] OTHER                                -> CHOOSE t \in Tags(p, opt) : TRUE

Groups(p, opt, main) ==
  {Group(Select, Tags(p, opt) \cup GroupTags(p, opt, main))}
    \cup {Group(g, Tags(p, opt)) : g \in GroupTags(p, opt, main)}

Servers(p, opt) ==
  {Node(p.outbounds[i].tag, {patchWarpFromConfig(p.outbounds[i], opt)}) : i \in KeptOutbounds(p)}
    \cup {Node(p.endpoints[i].tag, {p.endpoints[i].detour}) : i \in KeptEndpoints(p, opt)}

Nodes(p, opt, main) ==
  Groups(p, opt, main) \cup Servers(p, opt) \cup WarpEndpoint(opt)
    \cup {Node(Direct, {}), Node(Fragment, {})}

-----------------------------------------------------------------------------
\* DNS servers.

getDnsAddress(a) == IF a.scheme = "none" THEN [a EXCEPT !.scheme = "udp"] ELSE a

\* url.Parse takes the name of a plain "name:port" for a scheme.
Unsupported(a) == a.scheme = "junk" \/ (a.scheme = "none" /\ a.host = "name" /\ a.port)

\* getHostnameIfNotIP is empty for a bare IP only: with a port, an IP is taken for a name.
getDNSServerOptions(tag, a, resolver, detour) ==
  [tag |-> tag, detour |-> detour, resolver |-> IF a.host = "ip" /\ ~a.port THEN NoTag ELSE resolver]

DnsFails(opt) ==
  Unsupported(getDnsAddress(opt.RemoteDnsAddress)) \/ Unsupported(opt.RemoteDnsAddress)
    \/ Unsupported(opt.DirectDnsAddress)

DnsServers(opt, main) ==
  LET IP     == [scheme |-> "other", host |-> "ip", port |-> FALSE]
      Name   == [scheme |-> "other", host |-> "name", port |-> FALSE]
      detour == IF opt.DirectDnsAddress.scheme \in {"none", "udp"} THEN NoTag ELSE Fragment
  IN  {getDNSServerOptions("dns-static", IP, NoTag, NoTag),
       getDNSServerOptions("dns-remote", getDnsAddress(opt.RemoteDnsAddress), "dns-direct", main),
       getDNSServerOptions("dns-remote-fallback", IP, "dns-direct", main),
       getDNSServerOptions("dns-remote-no-warp", opt.RemoteDnsAddress, "dns-direct", Fragment),
       getDNSServerOptions("dns-direct", opt.DirectDnsAddress, "dns-local", detour),
       getDNSServerOptions("dns-trick-direct", Name, "dns-direct", Fragment),
       getDNSServerOptions("dns-local", Name, NoTag, NoTag)}
    \cup (IF opt.EnableFakeDNS THEN {getDNSServerOptions("dns-fake", IP, NoTag, NoTag)} ELSE {})

-----------------------------------------------------------------------------
\* Rules.  A rule is [match, to]: it applies to what has one of the attributes in `match`.

Rule(match, to) == <<[match |-> match, to |-> to]>>
If(condition, rules) == IF condition THEN rules ELSE <<>>

Refused == "REFUSED"
Reject  == "reject"

addForceDirect ==
  Rule({"warp api"}, "dns-remote-no-warp") \o Rule({"warp api", "test host"}, "dns-direct")

\* Mutant: fake addresses are handed out before the regional rules are asked.
DnsRules_FakeFirst(opt) ==
  addForceDirect
    \o If(opt.EnableFakeDNS, Rule({"address"}, "dns-fake"))
    \o If(opt.BlockAds, Rule({"ads"}, Refused))
    \o If(opt.Region # "other", Rule({"suffix"}, "dns-direct") \o Rule({"geosite"}, "dns-direct"))

\* The empty catch-all rule that follows is not valid and is dropped: Final is dns-remote.
DnsRules(opt) ==
  addForceDirect
    \o If(opt.BlockAds, Rule({"ads"}, Refused))
    \o If(opt.Region # "other", Rule({"suffix"}, "dns-direct") \o Rule({"geosite"}, "dns-direct"))
    \o If(opt.EnableFakeDNS, Rule({"address"}, "dns-fake"))

\* `main` is the detour read for the block-page addresses.
RouteRules(opt, main) ==
  Rule({"dns"}, "hijack-dns")
    \o Rule({"block page"}, main)
    \o If(opt.BypassLAN, Rule({"private"}, Direct))
    \o If(opt.BlockAds, Rule({"ads"}, Reject))
    \o If(opt.Region # "other", Rule({"suffix"}, Direct) \o Rule({"geosite", "geoip"}, Direct))
    \o If(opt.BlockQuic, Rule({"quic"}, Reject))

\* The rule sets a build downloads, through the selector, and those its rules name.
RuleSets(opt) == (IF opt.BlockAds THEN {"ads"} ELSE {})
                 \cup (IF opt.Region # "other" THEN {"geosite", "geoip"} ELSE {})

\* The first rule that applies decides.
Verdict(rules, attributes, final) ==
  LET applies == {i \in DOMAIN rules : rules[i].match \cap attributes # {}}
  IN  IF applies = {} THEN final
      ELSE rules[CHOOSE i \in applies : \A j \in applies : i <= j].to

-----------------------------------------------------------------------------
\* The steps of BuildConfig: the package variable can change between any two of them.

Profile(b) == salvageSingOptions(input[b].profile)
Opt(b) == input[b].opt

Running(b) == pc[b] \notin {"idle", "done", "failed"}
Nothing == [groups |-> NoTag, dns |-> NoTag, rule |-> NoTag, final |-> NoTag]

Init ==
  /\ OutboundMainDetour = Select
  /\ pc = [b \in Builders |-> "idle"] /\ input = [b \in Builders |-> None]
  /\ seen = [b \in Builders |-> Nothing] /\ alone = [b \in Builders |-> TRUE]

Goto(b, step) == pc' = [pc EXCEPT ![b] = step]
Read(b, part) == seen' = [seen EXCEPT ![b] = [@ EXCEPT ![part] = OutboundMainDetour]]

Begin(b, in) ==
  /\ pc[b] = "idle"
  /\ Goto(b, "read")
  /\ input' = [input EXCEPT ![b] = in]
  /\ alone' = [c \in Builders |-> IF c = b THEN \A d \in Builders \ {b} : ~Running(d)
                                  ELSE alone[c] /\ ~Running(c)]
  /\ UNCHANGED <<OutboundMainDetour, seen>>

\* BootstrapFetch hands over options that were decoded before: these are returned as they are, and
\* here are a profile of valid entries, of which the salvage drops nothing.
ReadSingOptions(b) ==
  /\ pc[b] = "read"
  /\ Goto(b, IF Readable(input[b].profile) THEN "reset" ELSE "failed")
  /\ UNCHANGED <<OutboundMainDetour, input, seen, alone>>

\* Mutant: the detour of the build before is kept.
ResetDetours_Never(b) ==
  /\ pc[b] = "reset"
  /\ Goto(b, "warp")
  /\ UNCHANGED <<OutboundMainDetour, input, seen, alone>>

\* setOutbounds, in the three pieces between which it touches the package variable.
ResetDetours(b) ==
  /\ pc[b] = "reset"
  /\ Goto(b, "warp")
  /\ OutboundMainDetour' = Select
  /\ UNCHANGED <<input, seen, alone>>

AddWarp(b) ==
  /\ pc[b] = "warp"
  /\ Goto(b, "groups")
  /\ OutboundMainDetour' = IF Opt(b).EnableWarp THEN WARP ELSE OutboundMainDetour
  /\ UNCHANGED <<input, seen, alone>>

AddGroups(b) ==
  /\ pc[b] = "groups" /\ TagCount(Profile(b), Opt(b)) > 0
  /\ Goto(b, "dns")
  /\ Read(b, "groups")
  /\ UNCHANGED <<OutboundMainDetour, input, alone>>

\* `tags[0]` of no tags panics; the caller answers with an error.
NoServers(b) ==
  /\ pc[b] = "groups" /\ TagCount(Profile(b), Opt(b)) = 0
  /\ Goto(b, "failed")
  /\ UNCHANGED <<OutboundMainDetour, input, seen, alone>>

\* The code reads the variable for dns-remote and once more for its fallback.  The two reads are one
\* step here: they differ only in a build that another overlaps, and nothing is said of its DNS detours.
setDns(b) ==
  /\ pc[b] = "dns" /\ ~DnsFails(Opt(b))
  /\ Goto(b, "rules")
  /\ Read(b, "dns")
  /\ UNCHANGED <<OutboundMainDetour, input, alone>>

BadDnsAddress(b) ==
  /\ pc[b] = "dns" /\ DnsFails(Opt(b))
  /\ Goto(b, "failed")
  /\ UNCHANGED <<OutboundMainDetour, input, seen, alone>>

\* setRoutingOptions reads the variable for a rule, and again for Final.
AddRules(b) ==
  /\ pc[b] = "rules"
  /\ Goto(b, "final")
  /\ Read(b, "rule")
  /\ UNCHANGED <<OutboundMainDetour, input, alone>>

SetFinal(b) ==
  /\ pc[b] = "final"
  /\ Goto(b, "done")
  /\ Read(b, "final")
  /\ UNCHANGED <<OutboundMainDetour, input, alone>>

\* The caller takes the result, or answers with the error.
Return(b) ==
  /\ pc[b] \in {"done", "failed"}
  /\ Goto(b, "idle")
  /\ input' = [input EXCEPT ![b] = None] /\ seen' = [seen EXCEPT ![b] = Nothing]
  /\ alone' = [alone EXCEPT ![b] = TRUE]
  /\ UNCHANGED OutboundMainDetour

Next == \E b \in Builders :
  \/ \E in \in Inputs[b] : Begin(b, in)
  \/ ReadSingOptions(b) \/ ResetDetours(b) \/ AddWarp(b) \/ AddGroups(b) \/ NoServers(b)
  \/ setDns(b) \/ BadDnsAddress(b) \/ AddRules(b) \/ SetFinal(b) \/ Return(b)

Spec == Init /\ [][Next]_vars

-----------------------------------------------------------------------------
\* Properties of the configurations that were built.

Done(b)  == pc[b] = "done"
Quiet(b) == Done(b) /\ alone[b]

NodesOf(b) == Nodes(Profile(b), Opt(b), seen[b].groups)
ServersOf(b) == Servers(Profile(b), Opt(b))
NodeTags(nodes) == {n.tag : n \in nodes}

\* A build that no other build overlapped uses one main detour throughout, in groups, DNS servers
\* and both places of the route, and it is the one its own options ask for: nothing is left of
\* the builds before it.
OwnDetour == \A b \in Builders : Quiet(b) =>
  LET t == Wanted(Opt(b))
  IN  seen[b].groups = t /\ seen[b].dns = t /\ seen[b].rule = t /\ seen[b].final = t

\* Whatever BuildConfig itself names in the result, the result has: members and default of the
\* groups, detours of WARP and of DNS servers, resolvers, targets of rules, rule sets.  (A detour
\* the profile gave to an entry that was left out stays dangling; "§default§" is a member nobody
\* has, which the lint of sing-box drops.)
ReferencesResolve == \A b \in Builders : Quiet(b) =>
  LET p == Profile(b)
      o == Opt(b)
      tags == NodeTags(NodesOf(b))
      dns == DnsServers(o, seen[b].dns)
      rules == DnsRules(o)
      route == RouteRules(o, seen[b].rule)
      named == UNION {r.match : r \in {rules[i] : i \in DOMAIN rules} \cup {route[i] : i \in DOMAIN route}}
  IN  /\ \A n \in Groups(p, o, seen[b].groups) \cup WarpEndpoint(o) : n.via \subseteq tags
      /\ SelectorDefault(p, o, seen[b].groups) \in tags \cup {DefaultMark}
      /\ \A s \in dns : s.detour \in tags \cup {NoTag} /\ s.resolver \in NodeTags(dns) \cup {NoTag}
      /\ \A i \in DOMAIN rules : rules[i].to \in NodeTags(dns) \cup {Refused}
      /\ \A i \in DOMAIN route : route[i].to \in tags \cup {"hijack-dns", Reject}
      /\ seen[b].final \in tags
      /\ named \cap {"ads", "geosite", "geoip"} \subseteq RuleSets(o)

\* No outbound or endpoint dials through itself, over groups, WARP and the detours of the profile,
\* even when builds overlap: among any nodes that dial there is one that dials through none of them.
\* (The profile has no loop of its own, see ProfileAssumption.)
NoDialLoop == \A b \in Builders : Done(b) =>
  \A nodes \in SUBSET {n \in NodesOf(b) : n.via # {}} : nodes # {} =>
    \E n \in nodes : n.via \cap NodeTags(nodes) = {}

\* DNS and route agree about every name: what the rules send out directly is resolved outside
\* the tunnel, what they refuse is not resolved, and the rest goes through the tunnel and is
\* resolved there or gets a fake address.  Exempt are what only a packet has (private, block-page
\* and geoip addresses, QUIC), and the two kinds of names that addForceDirect resolves outside.
DnsAgreesWithRoute == \A b \in Builders : Done(b) =>
  \A name \in SUBSET {"ads", "suffix", "geosite"} : \A kind \in {"address", "other"} :
    LET o      == Opt(b)
        asked  == Verdict(DnsRules(o), name \cup {kind}, "dns-remote")
        routed == Verdict(RouteRules(o, seen[b].rule), name, seen[b].final)
    IN  /\ asked = Refused <=> routed = Reject
        /\ asked = "dns-direct" <=> routed = Direct
        /\ asked \in {"dns-remote", "dns-fake"} <=> routed = seen[b].final

\* One bad entry costs only itself: an entry of the profile that is well-formed and of use is in
\* the result and, unless hidden, in the selector and every group; and a build fails only for a
\* broken profile, one without a server to show, or a DNS address that is not understood.
EveryServerIsOffered == \A b \in Builders :
  LET p == input[b].profile
      o == Opt(b)
      Usable(e) == e.valid /\ ~Skipped(e) /\ e.type # "psiphon"
      usable == {e \in {p.outbounds[i] : i \in DOMAIN p.outbounds} : Usable(e)}
                  \cup {e \in {p.endpoints[i] : i \in DOMAIN p.endpoints} : Usable(e) /\ e.id # "own"}
      shown == {e.tag : e \in usable} \ HideTags
  IN  /\ Done(b) => /\ NodeTags(usable) \subseteq NodeTags(NodesOf(b))
                    /\ \A g \in Groups(Profile(b), o, seen[b].groups) : shown \subseteq g.via
      /\ pc[b] = "failed" =>
           ~p.rest \/ shown = {} \/ Unsupported(o.RemoteDnsAddress) \/ Unsupported(o.DirectDnsAddress)

\* Traffic that leaves by `from` ends at one of the servers, whatever the groups choose: there is a
\* set of tags that only servers lead out of and no dead end is in.
EndsAtServers(nodes, servers, from) ==
  LET others   == nodes \ servers
      deadEnds == {n \in others : n.via = {}}
  IN  \E reached \in SUBSET (NodeTags(nodes) \ NodeTags(deadEnds)) :
        from \in reached /\ \A n \in others : n.tag \in reached => n.via \subseteq reached

\* The main detour leads over one of the profile's servers, whatever the groups choose; remote DNS
\* takes the same way.  Exempt are builds that another overlapped, and WARP in a mode other than
\* "warp_over_proxy": Final is WARP there too, and WARP dials directly.
ServersCarryTraffic == \A b \in Builders :
  Quiet(b) /\ (Opt(b).EnableWarp => Opt(b).Mode = "warp_over_proxy") =>
    /\ EndsAtServers(NodesOf(b), ServersOf(b), seen[b].final)
    /\ \A s \in DnsServers(Opt(b), seen[b].dns) :
         s.tag \in {"dns-remote", "dns-remote-fallback"} => s.detour = seen[b].final
=============================================================================
