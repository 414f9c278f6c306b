------------------------------ MODULE ShareLinks ------------------------------
(***************************************************************************)
(* A subscription body on its way through xray2sing (convert.go,           *)
(* json_ingest.go, clash_ingest.go, amnezia_ingest.go, spliter.go): the    *)
(* app converts it to records that can be edited, parses it to a config    *)
(* for sing-box, and parses what was stored of it again, at each ping.     *)
(*                                                                         *)
(* A body has a form:                                                      *)
(*   text   lines: links, chains of links ("A -> B"), wg-quick files, the  *)
(*          JSON of one node, comments, and lines that are none of these   *)
(*   json   items: entries, or containers with outbounds and so on         *)
(*   clash  proxies                                                        *)
(*   vpn    the payload of an AmneziaVPN link                              *)
(* `says` holds the links of the same servers as their provider would      *)
(* write them, where the instance knows them; only properties read it.     *)
(* Byte order marks, base64 around a body and white space are left out.    *)
(***************************************************************************)
EXTENDS LinkEmit

CONSTANTS
  Bodies,       \* the bodies that the app may hold at first
  NoDialer,     \* types whose options have no dialer, and so no detour
  MaxCycles     \* bound: how often what came out is taken as the next body

\* Lists are sequences, and a link has a hop at least.
IsList(s) == s \in Seq(Range(s))
IsItems(items) ==
  IsList(items) /\ \A i \in DOMAIN items : "node" \notin DOMAIN items[i] =>
    IsList(items[i].outbounds) /\ IsList(items[i].servers) /\ IsList(items[i].endpoints)
IsLine(line) == line.kind = "link" => IsList(line.hops) /\ line.hops # <<>>
XrayContainers == {"amnezia-xray", "amnezia-ssxray"}
IsContainer(c) == IsList(c.payload) /\ (c.id \in XrayContainers => IsItems(c.payload))
IsBody(b) ==
  /\ b.form \in {"text", "json", "clash", "vpn"}
  /\ b.form = "text" => IsList(b.lines) /\ \A i \in DOMAIN b.lines : IsLine(b.lines[i])
  /\ b.form = "json" => IsItems(b.items)
  /\ b.form = "vpn" => b.broken \/ (IsList(b.containers) /\ \A i \in DOMAIN b.containers : IsContainer(b.containers[i]))
ASSUME BodiesAssumption == \A b \in Bodies : IsBody(b)

\* The server of a pair is a vless outbound (UTProtoSingbox), and that has a dialer.
ASSUME NoDialerAssumption == "vless" \notin NoDialer

VARIABLES
  body,         \* the body at hand
  stage,        \* held, converted, parsing, parsed or refused
  records,      \* the lines that ConvertToShareLinks returned
  todo,         \* GenerateConfigLite: the chains that are left, each a sequence of hops
  detourTag,    \* ... what the next hop of this chain dials through
  counter,      \* ... the next number for a tag
  out,          \* ... what was collected
  cycle

vars == <<body, stage, records, todo, detourTag, counter, out, cycle>>

-----------------------------------------------------------------------------
(* One hop: a link or a wg-quick file (processSingleConfig). *)

IsConf(hop) == "interface" \in DOMAIN hop
Broken == [scheme |-> "broken"]
LowerScheme == [VLESS |-> "vless", Hysteria2 |-> "hysteria2"]

\* ssconf: the link names a server whose answer (here: the query) is a list of one.
BeepassSingbox(u) ==
  LET method == Through(normalizeSSMethod, Get(u.q, "method"))
  IN  IF "" \in {Get(u.q, "server"), Get(u.q, "method")} \/ method \notin ssSupportedMethods THEN Failed
      ELSE Outbound("shadowsocks", FirstSet(<<Get(u.q, "name"), u.name>>),
             "server" :> u.q["server"] @@ "server_port" :> toUInt16(Get(u.q, "server_port"), "443")
             @@ "method" :> method @@ Opt("password", Get(u.q, "password")))

configTypes(u) ==
  LET scheme == Through(LowerScheme, u.scheme)
  IN  CASE scheme \in {"vmess", "svmess", "xvmess"} -> VmessSingbox(u)
        [] scheme \in {"vless", "svless", "xvless"} -> VlessSingbox(ParseUrl(u, "443"))
        [] scheme \in {"trojan", "strojan", "xtrojan"} -> TrojanSingbox(ParseUrl(u, "443"))
        [] scheme = "ss" -> ShadowsocksSingbox(ParseUrl(IF u.form = "b64all" THEN [u EXCEPT !.form = "plain"] ELSE u, "443"), u.form)
        [] scheme = "ssconf" -> BeepassSingbox(u)
        [] scheme = "tuic" -> TuicSingbox(ParseUrl(u, "443"))
        [] scheme = "hysteria" -> HysteriaSingbox(ParseUrl(u, "443"))
        [] scheme \in {"hysteria2", "hy2"} -> Hysteria2Singbox(ParseUrl(u, "443"), u.port)
        [] scheme = "ssh" -> SSHSingbox(ParseUrl(u, "22"))
        [] scheme \in {"naive", "naive+https", "naive+quic"} -> NaiveSingbox(ParseUrl(u, "443"))
        [] scheme \in {"direct", "xdirect"} -> DirectSingbox(ParseUrl(u, ""))
        [] scheme = "anytls" -> AnyTLSSingbox(ParseUrl(u, "443"))
        [] scheme = "shadowtls" -> ShadowTLSSingbox(ParseUrl(u, "443"))
        [] scheme \in {"socks", "socks4", "socks4a", "socks5", "socks5h"} -> SocksSingbox(ParseUrl([u EXCEPT !.form = "plain"], "1080"))
        [] scheme \in {"http", "phttp"} -> HttpSingbox(ParseUrl(u, "80"))
        [] scheme \in {"https", "phttps"} -> HttpsSingbox(ParseUrl(u, "443"))
        [] scheme \in {"mieru", "mierus"} -> MieruSingbox(ParseUrl(u, ""))
        [] scheme = "psiphon" -> PsiphonSingbox(ParseUrl(u, ""))
        [] scheme = "dnstt" -> DnsttSingbox(u)
        [] OTHER -> Failed

EndpointSchemes == {"wg", "wireguard", "awg", "warp"}
endpointParsers(hop) ==
  IF IsConf(hop) THEN AWGSingboxTxt(hop)
  ELSE IF hop.scheme = "warp" THEN WarpSingbox(ParseUrl(hop, "")) ELSE AWGSingbox(ParseUrl(hop, ""))
IsEndpoint(hop) == IsConf(hop) \/ hop.scheme \in EndpointSchemes
IsPair(hop) == ~IsConf(hop) /\ hop.scheme = "utproto"

\* What a hop becomes: nothing, one outbound or endpoint, or the two outbounds of a pair.
processSingleConfig(hop) ==
  LET emitted(ob) == IF IsFailed(ob) THEN <<>> ELSE <<Default(ob, "tag", ob["type"])>>
      both(pair) == IF IsFailed(pair.main) THEN <<>> ELSE <<pair.main, pair.helper>>
  IN  CASE IsPair(hop) -> both(UTProtoSingbox(ParseUrl(hop, "443")))
        [] hop = Broken -> <<>>
        [] OTHER -> emitted(IF IsEndpoint(hop) THEN endpointParsers(hop) ELSE configTypes(hop))

-----------------------------------------------------------------------------
(* Text (spliter.go). *)

\* The elements of s at some of its places, in their order.
Picked(s, places) == FlattenSeq([i \in DOMAIN s |-> IF i \in places THEN <<s[i]>> ELSE <<>>])

\* A line that starts no link is glued to the link before it: the name of the link swallows it,
\* and without a name url.Parse refuses the control character.
Glued(hop) == IF IsConf(hop) THEN hop ELSE IF hop.name = "" THEN Broken ELSE [hop EXCEPT !.name = @ \o " and more"]

\* splitByPrefix: a comment ends what is before it, inside a wg-quick file too, and what
\* follows a comment is dropped with it.
Cut(hop) == IF IsConf(hop) /\ hop.commented THEN [hop EXCEPT !.peers = <<>>] ELSE hop
expandDecodedConfig(lines) ==
  LET open(i) == i > 0 /\ lines[i].kind = "link" /\ ~(IsConf(lines[i].hops[1]) /\ lines[i].hops[1].commented)
      isGlued(i) == i < Len(lines) /\ lines[i + 1].kind \in {"foreign", "json"} /\ open(i)
      hops(i) == IF isGlued(i) THEN [lines[i].hops EXCEPT ![Len(lines[i].hops)] = Glued(@)]
                 ELSE [n \in DOMAIN lines[i].hops |-> Cut(lines[i].hops[n])]
      links == Picked([i \in DOMAIN lines |-> i], {i \in DOMAIN lines : lines[i].kind = "link"})
  IN  [n \in DOMAIN links |-> hops(links[n])]

\* The lines a link carries with it.
Kept(lines) ==
  LET start(i) == Max({0} \cup {n \in 1..i : lines[n].kind \in {"link", "comment"}})
  IN  Picked(lines, {i \in DOMAIN lines : start(i) # 0 /\ lines[start(i)].kind = "link"})

-----------------------------------------------------------------------------
(* Containers of JSON (json_ingest.go). *)

LinkLine(hop) == [kind |-> "link", hops |-> <<hop>>]
LinkLines(links) == [i \in DOMAIN links |-> LinkLine(links[i])]
NodeLine(node, isEndpoint) == [kind |-> "json", node |-> node, isEndpoint |-> isEndpoint]

\* stripTagSuffix and the suffix itself, " § n" in the code: what follows the last one has to be digits.
Numbered(tag, n) == tag \o " $ " \o ToString(n)
Digits == {"0", "1", "2", "3", "4", "5", "6", "7", "8", "9"}
stripTagSuffix(tag) ==
  LET ends == {i \in 0..(Len(tag) - 3) : SubSeq(tag, i + 1, i + 3) = " $ "}
      number == (Max(ends) + 4)..Len(tag)
  IN  IF ends # {} /\ number # {} /\ \A i \in number : SubSeq(tag, i, i) \in Digits
      THEN SubSeq(tag, 1, Max(ends)) ELSE tag

isNodeEntry(raw, isEndpoint) ==
  \/ isEndpoint
  \/ Get(raw, "protocol") # "" /\ raw["protocol"] \notin {"freedom", "blackhole", "dns", "loopback", "dokodemo-door"}
  \/ /\ Get(raw, "protocol") = "" /\ Get(raw, "type") # ""
     /\ raw["type"] \notin {"selector", "urltest", "loadbalance", "direct", "block", "dns"}
  \/ Get(raw, "protocol") = "" /\ Get(raw, "type") = "" /\ "" \notin {Get(raw, "method"), Get(raw, "server")}

minifyNodeJSON(raw, rename) ==
  IF rename # "" THEN Put(raw, "tag", rename)
  ELSE IF "tag" \in DOMAIN raw THEN Put(raw, "tag", stripTagSuffix(raw["tag"])) ELSE raw

renameURIFragment(link, name) == IF link = None \/ name = "" THEN link ELSE [link EXCEPT !.name = name]

Entry(raw, isEndpoint, rename) == [raw |-> raw, isEndpoint |-> isEndpoint, rename |-> rename]
toURI(e) ==
  renameURIFragment(IF e.isEndpoint THEN uriFromSingboxEndpoint(e.raw) ELSE uriFromAnyEntry(e.raw), e.rename)
\* Mutant: a server that no link can say is left out.
toRecord_LinksOnly(e) == LinkLines(SelectSeq(<<toURI(e)>>, Rebuilt))

NodeRecord(e) ==
  IF isNodeEntry(e.raw, e.isEndpoint) THEN <<NodeLine(minifyNodeJSON(e.raw, e.rename), e.isEndpoint)>> ELSE <<>>
toRecord(e) ==
  LET record(link) == IF Rebuilt(link) THEN <<LinkLine(link)>> ELSE NodeRecord(e)
  IN  record(toURI(e))

\* Happ: a container with remarks is one server, the first that can be a link, or else the
\* first that is a server at all.
happEntry(c) ==
  LET linked == SelectSeq(c.outbounds, LAMBDA ob : Rebuilt(uriFromAnyEntry(ob)))
      nodes == SelectSeq(c.outbounds, LAMBDA ob : isNodeEntry(ob, FALSE))
  IN  IF linked \o nodes = <<>> THEN <<>> ELSE <<Entry((linked \o nodes)[1], FALSE, c.remarks)>>

entriesFromContainerObject(c) ==
  LET entries(raws, isEndpoint) == [i \in DOMAIN raws |-> Entry(raws[i], isEndpoint, "")]
  IN  IF c.remarks # "" /\ c.outbounds # <<>> THEN happEntry(c)
      ELSE entries(c.outbounds, FALSE) \o entries(c.servers, FALSE) \o entries(c.endpoints, TRUE)

\* An item on its own is an entry, unless it has remarks: those make it a container, without outbounds.
collectContainerEntries(items) ==
  LET entries(item) == IF "node" \notin DOMAIN item THEN entriesFromContainerObject(item)
                       ELSE IF Get(item.node, "remarks") = "" THEN <<Entry(item.node, FALSE, "")>> ELSE <<>>
  IN  FlattenSeq([i \in DOMAIN items |-> entries(items[i])])

\* Mutant: the direct parse forgets the name that the container gives its server.
ingestJSON_OwnTag(items) ==
  LET entries == collectContainerEntries(items)
  IN  LinkLines(SelectSeq([i \in DOMAIN entries |-> uriFromAnyEntry(entries[i].raw)], Rebuilt))

\* Parse takes the links, without endpoints; the conversion takes a record of every node.
ingestJSON(items) ==
  LET entries == SelectSeq(collectContainerEntries(items), LAMBDA e : ~e.isEndpoint)
  IN  LinkLines(SelectSeq([i \in DOMAIN entries |-> toURI(entries[i])], Rebuilt))
convertJSONEntries(items) ==
  LET entries == collectContainerEntries(items)
  IN  FlattenSeq([i \in DOMAIN entries |-> toRecord(entries[i])])

ingestClashYAML(proxies) ==
  LinkLines(SelectSeq([i \in DOMAIN proxies |-> uriFromClashProxy(proxies[i])], Rebuilt))

-----------------------------------------------------------------------------
(* wg-quick files and AmneziaVPN containers (convert.go, amnezia_ingest.go). *)

\* The first line that is no comment starts a tunnel.
looksLikeAWGConf(lines) ==
  LET significant == SelectSeq(lines, LAMBDA l : l.kind # "comment")
  IN  significant # <<>> /\ significant[1].kind = "link" /\ IsConf(significant[1].hops[1])
convertAWGConfEntries(inis) ==
  LET parsed == [i \in DOMAIN inis |-> AWGSingboxTxt(inis[i])]
      good == Picked(parsed, {i \in DOMAIN parsed : ~IsFailed(parsed[i])})
  IN  FlattenSeq([i \in DOMAIN good |-> toRecord(Entry(good[i], TRUE, ""))])

\* Every container has its kind of payload; <<>> stands for one that is missing or unreadable.
SsContainers == {"amnezia-shadowsocks"}
amneziaHandlers ==
  "amnezia-xray" :> "Xray" @@ "amnezia-ssxray" :> "Xray Shadowsocks" @@ "amnezia-shadowsocks" :> "Shadowsocks"
  @@ "amnezia-wireguard" :> "WireGuard" @@ "amnezia-awg" :> "AmneziaWG" @@ "amnezia-awg2" :> "AmneziaWG 2"

amneziaSSPart(node, top) ==
  LET server == FirstSet(<<Get(node, "server"), top.hostName>>)
  IN  IF "" \in {server, Get(node, "method")} THEN None
      ELSE buildSSURI(node["method"], Get(node, "password"), server, toInt(Get(node, "server_port")), "", "")

\* The parts in the order of the containers, with the default one first.
amneziaParts(vpn) ==
  LET convertible(c) == /\ c.id \in DOMAIN amneziaHandlers /\ c.payload # <<>>
                        /\ c.id \in SsContainers => Rebuilt(amneziaSSPart(c.payload[1], vpn))
      parts == Picked(vpn.containers, {i \in DOMAIN vpn.containers : convertible(vpn.containers[i])})
      defaults == {i \in DOMAIN parts : parts[i].id = vpn.default}
      ordered == Reverse(Picked(parts, defaults)) \o Picked(parts, DOMAIN parts \ defaults)
      base == FirstSet(<<vpn.description, vpn.hostName>>)
      name(c) == IF Len(parts) > 1 /\ base # "" THEN base \o " (" \o amneziaHandlers[c.id] \o ")" ELSE base
  IN  [i \in DOMAIN ordered |-> [id |-> ordered[i].id, payload |-> ordered[i].payload, name |-> name(ordered[i])]]

amneziaRenameRecord(line, name) ==
  IF name = "" THEN line
  ELSE IF line.kind = "json" THEN [line EXCEPT !.node = minifyNodeJSON(@, name)]
  ELSE [line EXCEPT !.hops = <<renameURIFragment(line.hops[1], name)>>]
Renamed(lines, name) == [i \in DOMAIN lines |-> amneziaRenameRecord(lines[i], name)]

\* A tunnel that cannot be a link is parsed as it is, unless another tunnel of the file can.
ingestAmneziaVPN(vpn) ==
  LET tunnels(links, p) == IF links # <<>> THEN Renamed(links, p.name) ELSE LinkLines(p.payload)
      part(p) ==
        CASE p.id \in SsContainers -> Renamed(<<LinkLine(amneziaSSPart(p.payload[1], vpn))>>, p.name)
          [] p.id \in XrayContainers -> Renamed(ingestJSON(p.payload), p.name)
          [] OTHER -> tunnels(SelectSeq(convertAWGConfEntries(p.payload), LAMBDA l : l.kind = "link"), p)
      parts == amneziaParts(vpn)
  IN  FlattenSeq([i \in DOMAIN parts |-> part(parts[i])])

convertAmneziaEntries(vpn) ==
  LET recordsOf(p) ==
        CASE p.id \in SsContainers -> <<LinkLine(amneziaSSPart(p.payload[1], vpn))>>
          [] p.id \in XrayContainers -> convertJSONEntries(p.payload)
          [] OTHER -> convertAWGConfEntries(p.payload)
      named(p) == Renamed(recordsOf(p), p.name)
      parts == amneziaParts(vpn)
  IN  FlattenSeq([i \in DOMAIN parts |-> named(parts[i])])

-----------------------------------------------------------------------------
(* The two readers of a body (convert.go). *)

\* ConvertToShareLinks; no record is an error.
ConvertToShareLinks(b) ==
  CASE b.form = "vpn" -> IF b.broken THEN <<>> ELSE convertAmneziaEntries(b)
    [] b.form = "json" -> convertJSONEntries(b.items)
    [] b.form = "clash" -> ingestClashYAML(b.proxies)
    [] OTHER -> IF looksLikeAWGConf(b.lines)
                THEN LET confs == Picked(b.lines, {i \in DOMAIN b.lines : b.lines[i].kind = "link" /\ IsConf(b.lines[i].hops[1])})
                     IN  convertAWGConfEntries([i \in DOMAIN confs |-> confs[i].hops[1]])
                ELSE Kept(b.lines)

\* GenerateConfigLite up to its loop: the chains to be parsed, none where nothing is recognized.
Chains(b) ==
  expandDecodedConfig(CASE b.form = "vpn" -> IF b.broken THEN <<>> ELSE ingestAmneziaVPN(b)
                        [] b.form = "json" -> ingestJSON(b.items)
                        [] b.form = "clash" -> ingestClashYAML(b.proxies)
                        [] OTHER -> b.lines)

\* A record on its own, and the config of a parse, as the next body.
AsBody(line) ==
  IF line.kind = "json" THEN [form |-> "json", items |-> <<[node |-> line.node]>>, says |-> <<>>]
  ELSE [form |-> "text", lines |-> <<line>>, says |-> <<>>]
EndpointTypes == {"wireguard", "awg", "warp"}
AsContainer(outs) ==
  LET endpoints == {i \in DOMAIN outs : outs[i]["type"] \in EndpointTypes}
  IN  [form |-> "json", says |-> <<>>,
       items |-> <<[outbounds |-> Picked(outs, DOMAIN outs \ endpoints), servers |-> <<>>,
                    endpoints |-> Picked(outs, endpoints), remarks |-> ""]>>]

Init ==
  /\ body \in Bodies /\ stage = "held" /\ records = <<>>
  /\ todo = <<>> /\ detourTag = "" /\ counter = 0 /\ out = <<>> /\ cycle = 0

Convert ==
  /\ stage = "held"
  /\ records' = ConvertToShareLinks(body)
  /\ stage' = IF records' = <<>> THEN "refused" ELSE "converted"
  /\ UNCHANGED <<body, todo, detourTag, counter, out, cycle>>

StartParse ==
  /\ stage = "held"
  /\ stage' = "parsing" /\ todo' = Chains(body) /\ detourTag' = "" /\ counter' = 0 /\ out' = <<>>
  /\ UNCHANGED <<body, records, cycle>>

\* The hops of a chain are taken from its end, each dialing through the one before it.
Hop == LET chain == Head(todo) IN chain[Len(chain)]
Advance(tag) ==
  IF Len(Head(todo)) = 1 THEN todo' = Tail(todo) /\ detourTag' = ""
  ELSE todo' = <<Front(Head(todo))>> \o Tail(todo) /\ detourTag' = tag
DialThrough(ob, tag) ==
  IF tag = "" \/ ob["type"] \in NoDialer THEN Without(ob, {"detour"}) ELSE Put(ob, "detour", tag)
Tagged(ob, n) == Put(ob, "tag", Numbered(ob["tag"], n))

\* Mutant: an error ends the parse.
HopFails_EndsParse(obs) == obs = <<>> /\ todo' = <<>> /\ UNCHANGED <<detourTag, counter, out>>

\* An error costs the hop alone: the chain goes on without it.
HopFails(obs) == obs = <<>> /\ Advance(detourTag) /\ UNCHANGED <<counter, out>>

EmitOne(obs) ==
  /\ Len(obs) = 1
  /\ LET ob == Tagged(obs[1], counter)
     IN  out' = Append(out, DialThrough(ob, detourTag)) /\ Advance(ob["tag"])
  /\ counter' = counter + 1

\* Mutant: the server keeps the detour it had before the tags were numbered.
EmitPair_StaleDetour(obs) ==
  /\ Len(obs) = 2
  /\ LET main == Tagged(obs[1], counter)
         helper == Tagged(obs[2], counter + 1)
     IN  out' = out \o <<main, DialThrough(helper, detourTag)>> /\ Advance(main["tag"])
  /\ counter' = counter + 2

\* The server of a pair dials through its helper, and the helper goes on with the chain.
EmitPair(obs) ==
  /\ Len(obs) = 2
  /\ LET main == Tagged(obs[1], counter)
         helper == Tagged(obs[2], counter + 1)
     IN  out' = out \o <<DialThrough(main, helper["tag"]), DialThrough(helper, detourTag)>> /\ Advance(main["tag"])
  /\ counter' = counter + 2

ParseHop ==
  /\ stage = "parsing" /\ todo # <<>>
  /\ \E obs \in {processSingleConfig(Hop)} : HopFails(obs) \/ EmitOne(obs) \/ EmitPair(obs)
  /\ UNCHANGED <<body, stage, records, cycle>>

FinishParse ==
  /\ stage = "parsing" /\ todo = <<>>
  /\ stage' = IF out = <<>> THEN "refused" ELSE "parsed"
  /\ UNCHANGED <<body, records, todo, detourTag, counter, out, cycle>>

\* The app keeps a record, or the config, and comes back with it; it splits the records at the
\* ends of lines, so that neither a wg-quick file nor a glued line is one.
IsRecord(line) == line.kind = "json" \/ (line.kind = "link" /\ ~IsConf(line.hops[1]))
Again(b) ==
  /\ cycle < MaxCycles /\ cycle' = cycle + 1
  /\ body' = b /\ stage' = "held" /\ records' = <<>> /\ out' = <<>> /\ counter' = 0
  /\ UNCHANGED <<todo, detourTag>>
KeepRecord == stage = "converted" /\ \E i \in DOMAIN records : IsRecord(records[i]) /\ Again(AsBody(records[i]))
KeepConfig == stage = "parsed" /\ Again(AsContainer(out))

Next ==
  \/ Convert \/ StartParse \/ ParseHop \/ FinishParse
  \/ KeepRecord \/ KeepConfig
Spec == Init /\ [][Next]_vars

-----------------------------------------------------------------------------
(* Properties. *)

Plain(ob) == Without(ob, {"tag", "detour"})
AllPlain(obs) == [i \in DOMAIN obs |-> Plain(obs[i])]
ChainOuts(chain) == FlattenSeq([i \in DOMAIN chain |-> processSingleConfig(chain[Len(chain) + 1 - i])])
OutsOf(chains) == FlattenSeq([i \in DOMAIN chains |-> ChainOuts(chains[i])])

\* "A server is NEVER lost" (json_ingest.go): every server of a JSON container, in its order, is
\* a record under its own name, whether a link can say it or not, and nothing else is.  Items that
\* are no container are BareServersKept's.
ServerTypes == {"vless", "vmess", "trojan", "shadowsocks", "hysteria2", "hysteria", "tuic", "naive", "ssh", "socks",
                "mieru", "dnstt", "psiphon", "anytls", "shadowtls", "http", "utproto"} \cup EndpointTypes
IsServer(raw) ==
  FirstSet(<<Get(raw, "protocol"), Get(raw, "type"), IF "" \in {Get(raw, "method"), Get(raw, "server")} THEN "" ELSE "ss">>)
    \in ServerTypes \cup {"ss"}
NameOf(raw) == FirstSet(<<Get(raw, "tag"), Get(raw, "remarks"), Get(raw, "domain"), Get(raw, "peers.1.address")>>)
ServersOf(item) ==
  IF "node" \in DOMAIN item THEN IF Get(item.node, "remarks") = "" THEN SelectSeq(<<item.node>>, IsServer) ELSE <<>>
  ELSE IF item.remarks # "" THEN IF \E i \in DOMAIN item.outbounds : IsServer(item.outbounds[i])
                                 THEN <<"tag" :> item.remarks>> ELSE <<>>
  ELSE SelectSeq(item.outbounds \o item.servers, IsServer) \o item.endpoints
RecordName(line) ==
  IF line.kind = "json" THEN NameOf(line.node)
  ELSE IF line.hops[1].form = "json" THEN FirstSet(<<line.hops[1].name, Get(line.hops[1].q, "ps")>>) ELSE line.hops[1].name
NothingLost ==
  stage = "converted" /\ body.form = "json" =>
    LET servers == FlattenSeq([i \in DOMAIN body.items |-> ServersOf(body.items[i])])
    IN  [i \in DOMAIN records |-> stripTagSuffix(RecordName(records[i]))]
          = [i \in DOMAIN servers |-> stripTagSuffix(NameOf(servers[i]))]

\* A list is one of containers or "bare array of entries: [...] or SIP008 servers"
\* (json_ingest.go): such a server is a record too, SIP008's remarks being its name.
BareServersKept ==
  stage \in {"converted", "refused"} /\ body.form = "json" =>
    \A i \in DOMAIN body.items :
      "node" \in DOMAIN body.items[i] /\ IsServer(body.items[i].node) =>
        \E j \in DOMAIN records : stripTagSuffix(RecordName(records[j])) = stripTagSuffix(NameOf(body.items[i].node))

Undetoured(obs) == [i \in DOMAIN obs |-> Without(obs[i], {"detour"})]
Outbounds(obs) == SelectSeq(obs, LAMBDA ob : ob["type"] \notin EndpointTypes)
\* The two consumers of a container "can't drift" (json_ingest.go): the outbounds of a direct
\* parse are those of the records, parsed one by one.
ReadersAgree ==
  stage = "converted" /\ body.form # "text" =>
    LET alone == SelectSeq(records, IsRecord)
        given == {body} \cup {AsBody(alone[i]) : i \in DOMAIN alone}
    IN  \E parsed \in {[b \in given |-> Undetoured(Outbounds(OutsOf(Chains(b))))]} :
          parsed[body] = FlattenSeq([i \in DOMAIN alone |-> parsed[AsBody(alone[i])]])

\* What the reader of sing-box JSON has no field for (singboxOutbound, singboxTLS), does not write
\* into its link (singboxHysteria2, singboxTUIC), or gives a parser that takes it out again
\* (NaiveSingbox): a server of that JSON is parsed without it.
UnreadTLS == {"tls.disable_sni", "tls.min_version", "tls.max_version", "tls.tls_tricks.mixedcase_sni"}
Ech == {"tls.ech.enabled", "tls.ech.config", "tls.ech.query_server_name"}
Plugin == {"plugin", "plugin_opts"}
LostInSingbox(type) ==
  UnreadTLS \cup CASE type = "shadowsocks" -> Plugin [] type \in {"hysteria2", "tuic"} -> Ech
                   [] type = "naive" -> {"tls.utls.enabled", "tls.utls.fingerprint"} [] OTHER -> {}

\* A server that a provider offers in another dialect is the same server: same transport, same
\* TLS, same credentials, same plugin as from its link, but for what is LostInSingbox where the
\* dialect is that of sing-box.  (singbox_ingest.go promises the same outbound there too.)
InSingbox(b) ==
  b.form = "json" /\ \E i \in DOMAIN b.items : "node" \notin DOMAIN b.items[i]
                       /\ \E ob \in Range(b.items[i].outbounds) : "type" \in DOMAIN ob
Told(obs) ==
  IF InSingbox(body) THEN [i \in DOMAIN obs |-> Without(Plain(obs[i]), LostInSingbox(obs[i]["type"]))] ELSE AllPlain(obs)
DialectsAgree ==
  stage \in {"parsed", "refused"} /\ body.says # <<>> => Told(out) = Told(OutsOf([i \in DOMAIN body.says |-> <<body.says[i]>>]))

\* What is stored comes back no weaker: everything that protects a server is there again as it was
\* (TLS, its server name, reality, fingerprint, ECH, flow, cipher, obfuscation, the TLS of an xhttp
\* download), but for what is LostInSingbox; and a certificate that was checked still is.
Came(n, ob) == stripTagSuffix(ob["tag"]) = n["tag"]
Protection ==
  {"tls.enabled", "tls.server_name", "tls.utls.enabled", "tls.utls.fingerprint", "tls.reality.enabled",
   "tls.reality.public_key", "tls.reality.short_id", "flow", "method", "security", "obfs.type", "obfs.password",
   "transport.download.tls", "transport.download.tls.server_name", "transport.download.tls.utls"}
  \cup UnreadTLS \cup Ech \cup Plugin
NotWeaker(n, ob) ==
  /\ \A key \in (DOMAIN n \cap Protection) \ LostInSingbox(n["type"]) : Get(ob, key) = n[key]
  /\ IsOn(ob, "tls.insecure") => IsOn(n, "tls.insecure")
Natives ==
  IF body.form # "json" THEN <<>>
  ELSE SelectSeq([i \in DOMAIN collectContainerEntries(body.items) |-> collectContainerEntries(body.items)[i].raw],
                 LAMBDA raw : {"type", "tag"} \subseteq DOMAIN raw)
NeverWeaker ==
  stage = "parsed" => \A i \in DOMAIN out, j \in DOMAIN Natives : Came(Natives[j], out[i]) => NotWeaker(Natives[j], out[i])

\* One trip through JSON and back settles an outbound: from the second on (its tag has two
\* numbers by then) nothing changes but its tag, however often it is stored.
WentTwice(tag) == Cardinality({tag, stripTagSuffix(tag), stripTagSuffix(stripTagSuffix(tag))}) = 3
CycleIsStable ==
  stage = "parsed" =>
    \A i \in DOMAIN out, j \in DOMAIN Natives :
      Came(Natives[j], out[i]) /\ WentTwice(Natives[j]["tag"]) => Plain(out[i]) = Plain(Natives[j])

\* "One broken line costs itself" (convert.go): every link of a text that no foreign line is
\* glued to is parsed to what it gives on its own.
BadLineIsIsolated ==
  stage = "parsed" /\ body.form = "text" =>
    \A i \in DOMAIN body.lines :
      body.lines[i].kind = "link" /\ (i < Len(body.lines) => body.lines[i + 1].kind \in {"link", "comment"}) =>
        \A alone \in Range(ChainOuts([m \in DOMAIN body.lines[i].hops |-> Cut(body.lines[i].hops[m])])) :
          \E j \in DOMAIN out : stripTagSuffix(out[j]["tag"]) = alone["tag"] /\ Plain(out[j]) = Plain(alone)

\* What the proofs need of the text of tags: a tag can be read off a numbered one, and different
\* numbers make different tags, whatever tags they are given to.
Telling(tags, numbers) ==
  /\ \A tag \in tags, n \in numbers :
       Numbered(tag, n) \in STRING /\ Numbered(tag, n) # "" /\ stripTagSuffix(Numbered(tag, n)) = tag
  /\ \A tag1, tag2 \in tags, m, n \in numbers : Numbered(tag1, m) = Numbered(tag2, n) => m = n

\* The parse collects outbounds as LinkChains promises: tags of their own, detours that end.
Emissions(outs) == [i \in DOMAIN outs |-> [tag |-> outs[i]["tag"], detour |-> Get(outs[i], "detour")]]
NoTag == ""
Collected == INSTANCE LinkChains WITH Tag <- STRING, NoDetour <- NoTag, out <- Emissions(out)
ChainSpec == Collected!Spec
=============================================================================
