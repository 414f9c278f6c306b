------------------------------- MODULE LinkEmit -------------------------------
(***************************************************************************)
(* From a node of a container back to a share link: sing-box JSON          *)
(* (singbox_ingest.go), Xray JSON and SIP008 (json_ingest.go) and Clash    *)
(* YAML (clash_ingest.go).  A node is a flattened map; the result is a     *)
(* link, or None where the code answers ok=false ("skipped, not fatal").   *)
(*                                                                         *)
(* Nodes of Xray keep its field names below "settings.", "tls.",           *)
(* "reality.", "ws." and so on; proxies of Clash have the keys of mihomo.  *)
(***************************************************************************)
EXTENDS LinkEndpoint

None == [scheme |-> ""]
Rebuilt(link) == link # None

On(key, condition) == IF condition THEN key :> "1" ELSE Empty
IsOn(m, key) == Get(m, key) = "true"
Many(m, prefix, keys) == \E k \in keys : prefix \o k \in DOMAIN m

\* hostPort: without a port the link says 443.
LinkTo(scheme, user, pass, host, port, name, q) ==
  Link(scheme, user, pass, host, FirstSet(<<port, "443">>), name, q)

\* mergeQueryIntoVmessMap: `type` moves to `net`; the other keys are only put in lower case.
LowerCase == [allowInsecure |-> "allowinsecure", serviceName |-> "servicename", headerType |-> "headertype"]
mergeQueryIntoVmessMap(m, q) ==
  LET security == Get(q, "security")
      rest == Without(q, {"type", "security", "packetEncoding"})
      lower == [k \in {Through(LowerCase, k0) : k0 \in DOMAIN rest} |->
                  rest[CHOOSE k0 \in DOMAIN rest : Through(LowerCase, k0) = k]]
  IN  lower @@ Only(q, {"security"}) @@ (IF security \in {"tls", "reality"} THEN "tls" :> security ELSE Empty)
      @@ (IF "type" \in DOMAIN q THEN "net" :> q["type"] ELSE Empty) @@ m
VmessLink(m) == [Link("vmess", "", "", "", "", "", m) EXCEPT !.form = "json"]

\* buildSSURI: the credentials are base64 of method:password.
buildSSURI(method, password, host, port, name, plugin) ==
  LET known == IF method \in {"plain", "dummy"} THEN "none" ELSE method
  IN  [LinkTo("ss", known, password, host, port, name, Opt("plugin", plugin)) EXCEPT !.form = "b64"]

-----------------------------------------------------------------------------
(* sing-box. *)

\* Mutant: ECH without an inline list is forgotten.
applySingboxECH_ListOnly(ob) ==
  IF ~IsOn(ob, "tls.ech.enabled") THEN Empty ELSE Opt("ech", Get(ob, "tls.ech.config"))

applySingboxECH(ob) ==
  IF ~IsOn(ob, "tls.ech.enabled") THEN Empty
  ELSE "ech" :> Get(ob, "tls.ech.config") @@ Opt("query_server_name", Get(ob, "tls.ech.query_server_name"))

applySingboxTLS(ob) ==
  IF ~IsOn(ob, "tls.enabled") THEN "security" :> "none"
  ELSE (IF IsOn(ob, "tls.reality.enabled")
        THEN "security" :> "reality" @@ Opt("pbk", Get(ob, "tls.reality.public_key"))
             @@ Opt("sid", Get(ob, "tls.reality.short_id"))
        ELSE "security" :> "tls")
       @@ Opt("sni", Get(ob, "tls.server_name")) @@ Opt("alpn", Get(ob, "tls.alpn"))
       @@ On("insecure", IsOn(ob, "tls.insecure")) @@ On("allowInsecure", IsOn(ob, "tls.insecure"))
       @@ Opt("fp", Get(ob, "tls.utls.fingerprint")) @@ applySingboxECH(ob)

\* appendEarlyDataQuery; early data without a path is not written down.
appendEarlyDataQuery(path, ed) == IF ed = "" THEN path ELSE path \o "?ed=" \o ed
PathWithEarlyData(ob) ==
  Opt("path", IF Get(ob, "transport.path") = "" THEN ""
              ELSE appendEarlyDataQuery(ob["transport.path"], Get(ob, "transport.max_early_data")))

\* The whole transport object goes into extra=; here the word with the same contents.
ExtraOf(ob) ==
  CASE "transport.download.server" \in DOMAIN ob -> "splitS"
    [] Get(ob, "transport.xmux") # "" -> "knobs" [] OTHER -> "none"

applySingboxTransport(ob) ==
  LET tr(key) == Get(ob, "transport." \o key)
      seconds == Opt("idle_timeout", tr("idle_timeout")) @@ Opt("health_check_timeout", tr("ping_timeout"))
      host == FirstSet(<<tr("host"), tr("headers.Host")>>)
  IN  "type" :> FirstSet(<<tr("type"), "tcp">>) @@
      CASE tr("type") = "ws" -> Opt("host", tr("headers.Host")) @@ PathWithEarlyData(ob)
                                @@ Opt("heartbeat_period", tr("heartbeat_period"))
        [] tr("type") = "httpupgrade" -> Opt("host", host) @@ PathWithEarlyData(ob)
        [] tr("type") = "grpc" -> Opt("serviceName", tr("service_name")) @@ seconds
                                  @@ On("permit_without_stream", tr("permit_without_stream") = "true")
                                  @@ Opt("authority", tr("authority")) @@ Opt("user_agent", tr("user_agent"))
        [] tr("type") = "http" -> Opt("path", tr("path")) @@ Opt("host", tr("host")) @@ Opt("method", tr("method"))
                                  @@ Opt("headers", tr("headers")) @@ seconds
        [] tr("type") = "xhttp" -> Opt("path", tr("path")) @@ Opt("host", tr("host")) @@ Opt("mode", tr("mode"))
                                   @@ "extra" :> ExtraOf(ob)
        [] OTHER -> Empty

singboxHysteria2(ob) ==
  LinkTo("hysteria2", Get(ob, "password"), "", ob["server"], ob["server_port"], Get(ob, "tag"),
    Opt("sni", Get(ob, "tls.server_name")) @@ Opt("alpn", Get(ob, "tls.alpn"))
    @@ On("insecure", IsOn(ob, "tls.insecure"))
    @@ (IF Get(ob, "obfs.type") = "" THEN Empty
        ELSE "obfs" :> ob["obfs.type"] @@ Opt("obfs-password", Get(ob, "obfs.password"))))

singboxVLESS(ob) ==
  IF Get(ob, "uuid") = "" THEN None
  ELSE LinkTo("vless", ob["uuid"], "", ob["server"], ob["server_port"], Get(ob, "tag"),
         "encryption" :> "none" @@ Opt("flow", Get(ob, "flow"))
         @@ Opt("packetEncoding", Get(ob, "packet_encoding"))
         @@ applySingboxTransport(ob) @@ applySingboxTLS(ob))

singboxTrojan(ob) ==
  LET tls == applySingboxTLS(ob)
  IN  IF Get(ob, "password") = "" THEN None
      ELSE LinkTo("trojan", ob["password"], "", ob["server"], ob["server_port"], Get(ob, "tag"),
             applySingboxTransport(ob) @@ (IF tls["security"] = "none" THEN Put(tls, "security", "tls") ELSE tls))

singboxShadowsocks(ob) ==
  IF Get(ob, "method") = "" THEN None
  ELSE [LinkTo("ss", ob["method"], Get(ob, "password"), ob["server"], ob["server_port"], Get(ob, "tag"), Empty)
          EXCEPT !.form = "b64"]

singboxTUIC(ob) ==
  IF Get(ob, "uuid") = "" THEN None
  ELSE LinkTo("tuic", ob["uuid"], Get(ob, "password"), ob["server"], ob["server_port"], Get(ob, "tag"),
         Opt("congestion_control", Get(ob, "congestion_control")) @@ Opt("udp_relay_mode", Get(ob, "udp_relay_mode"))
         @@ Opt("sni", Get(ob, "tls.server_name")) @@ Opt("alpn", Get(ob, "tls.alpn"))
         @@ On("allow_insecure", IsOn(ob, "tls.insecure")))

\* A gRPC service name is also the path of the old vmess links.
singboxVMess(ob) ==
  LET m == "ps" :> Get(ob, "tag") @@ "add" :> ob["server"] @@ "port" :> ob["server_port"] @@ "id" :> Get(ob, "uuid")
           @@ "aid" :> FirstSet(<<Get(ob, "alter_id"), "0">>) @@ "scy" :> FirstSet(<<Get(ob, "security"), "auto">>)
           @@ "net" :> "tcp" @@ "type" :> "none" @@ Opt("packetEncoding", Get(ob, "packet_encoding"))
      all == mergeQueryIntoVmessMap(m, applySingboxTransport(ob) @@ applySingboxTLS(ob))
      service == IF Get(ob, "transport.type") = "grpc" THEN Get(ob, "transport.service_name") ELSE ""
  IN  IF Get(ob, "uuid") = "" THEN None ELSE VmessLink(Opt("path", service) @@ all)

singboxDnstt(ob) ==
  IF "" \in {Get(ob, "domain"), Get(ob, "pubkey")} THEN None
  ELSE Link("dnstt", "", "", ob["domain"], "", FirstSet(<<Get(ob, "tag"), ob["domain"]>>),
            "pubkey" :> ob["pubkey"] @@ Opt("resolver", Get(ob, "resolver")))

singboxPsiphon(ob) ==
  Link("psiphon", "", "", "", "", FirstSet(<<Get(ob, "tag"), "Psiphon">>), Opt("region", Get(ob, "egress_region")))

\* Bindings become two aligned lists; one that lacks its port is not rebuilt.
BindingLists == "TCP:8443" :> <<"TCP", "8443">> @@ "UDP:443" :> <<"UDP", "443">> @@ "TCP:" :> <<"", "">>
  @@ "TCP:443" :> <<"TCP", "443">> @@ "TCP:8443 UDP:443" :> <<"TCP,UDP", "8443,443">>
  @@ "TCP:8443 TCP:20000-30000" :> <<"TCP,TCP", "8443,20000-30000">> @@ "TCP:20000-30000" :> <<"TCP", "20000-30000">>
singboxMieru(ob) ==
  LET lists == Through(BindingLists, Get(ob, "portBindings"))
  IN  IF Get(ob, "server") = "" \/ Get(ob, "portBindings") \notin DOMAIN BindingLists \/ lists[2] = "" THEN None
      ELSE Link("mieru", Get(ob, "username"), Get(ob, "password"), ob["server"], "",
                FirstSet(<<Get(ob, "tag"), ob["server"]>>),
                "protocol" :> lists[1] @@ "port" :> lists[2] @@ Opt("multiplexing", Get(ob, "multiplexing"))
                @@ Opt("handshake-mode", Get(ob, "handshake_mode")) @@ Opt("mtu", Get(ob, "mtu")))

\* What no naive link can say stays JSON.
NaiveNeedsJSON(ob) ==
  \/ Many(ob, "", {"extra_headers", "stream_receive_window", "quic_session_receive_window"}) \/ "" # Get(ob, "tls.alpn")
  \/ IsOn(ob, "tls.insecure") \/ IsOn(ob, "tls.ech.enabled") \/ IsOn(ob, "tls.reality.enabled")
singboxNaive(ob) ==
  IF NaiveNeedsJSON(ob) THEN None
  ELSE LinkTo(IF IsOn(ob, "quic") THEN "naive+quic" ELSE "naive+https", Get(ob, "username"), Get(ob, "password"),
         ob["server"], ob["server_port"], FirstSet(<<Get(ob, "tag"), ob["server"]>>),
         "security" :> "tls" @@ Opt("sni", Get(ob, "tls.server_name")) @@ Opt("fp", Get(ob, "tls.utls.fingerprint"))
         @@ Opt("insecure_concurrency", Get(ob, "insecure_concurrency"))
         @@ Opt("quic_congestion_control", Get(ob, "quic_congestion_control"))
         @@ (IF Get(ob, "udp_over_tcp.enabled") = "false" THEN "uot" :> "false" ELSE Empty))

uriFromSingboxOutbound(ob) ==
  LET type == ob["type"]
  IN  CASE type = "dnstt" -> singboxDnstt(ob)
        [] type = "psiphon" -> singboxPsiphon(ob)
        [] type = "mieru" -> singboxMieru(ob)
        [] type \notin {"dnstt", "psiphon", "mieru"} /\ "" \in {Get(ob, "server"), Get(ob, "server_port")} -> None
        [] OTHER ->
           CASE type \in {"hysteria2", "hy2"} -> singboxHysteria2(ob)
             [] type = "vless" -> singboxVLESS(ob)
             [] type = "vmess" -> singboxVMess(ob)
             [] type = "trojan" -> singboxTrojan(ob)
             [] type = "shadowsocks" -> singboxShadowsocks(ob)
             [] type = "tuic" -> singboxTUIC(ob)
             [] type = "naive" -> singboxNaive(ob)
             [] OTHER -> None

\* Endpoints: one peer, and nothing that a link cannot say.
EndpointNeedsJSON(ep) ==
  \/ "peers.1.public_key" \notin DOMAIN ep \/ "peers.2.public_key" \in DOMAIN ep
  \/ "listen_port" \in DOMAIN ep \/ IsOn(ep, "useIntegratedTun")
  \/ \E k \in {"enabled", "count", "delay", "size", "mode"} : "noise.fake_packet." \o k \in DOMAIN ep
  \/ "" \in {Get(ep, "private_key"), Get(ep, "peers.1.address"), Get(ep, "peers.1.port"), Get(ep, "peers.1.public_key")}

uriFromSingboxEndpoint(ep) ==
  LET peer(key) == Get(ep, "peers.1." \o key)
      obfuscation == Only(ep, AwgFields)
  IN  IF Get(ep, "type") \notin {"wireguard", "awg"} \/ EndpointNeedsJSON(ep) THEN None
      ELSE LinkTo(IF obfuscation = Empty THEN "wireguard" ELSE "awg", "", "", peer("address"), peer("port"),
             FirstSet(<<Get(ep, "tag"), peer("address")>>),
             "privatekey" :> ep["private_key"] @@ "peerpublickey" :> peer("public_key")
             @@ Opt("presharedkey", FirstSet(<<peer("pre_shared_key"), peer("preshared_key")>>))
             @@ Opt("address", Get(ep, "address")) @@ Opt("allowedips", peer("allowed_ips"))
             @@ Opt("keepalive", peer("persistent_keepalive_interval")) @@ Opt("reserved", peer("reserved"))
             @@ Opt("mtu", Get(ep, "mtu")) @@ Opt("workers", Get(ep, "workers")) @@ obfuscation)

-----------------------------------------------------------------------------
(* Xray and SIP008. *)

normalizeNetwork == "" :> "tcp" @@ "raw" :> "tcp" @@ "none" :> "tcp" @@ "websocket" :> "ws" @@ "gun" :> "grpc"
                    @@ "h2" :> "http" @@ "splithttp" :> "xhttp"
HasStream(ob) == "network" \in DOMAIN ob

\* A URL instead of an inline list: ECH stays on, and DNS has to answer.
applyECHKeys(ob) ==
  LET blob == FirstSet(<<Get(ob, "tls.echConfigList"), Get(ob, "tls.echConfig")>>)
  IN  IF blob = "" /\ ~toBool(Get(ob, "tls.echForceQuery"), FALSE) THEN Empty
      ELSE "ech" :> IF blob = "https url" THEN "" ELSE blob

\* What both spellings of a stream share: the TLS block, and the reality block over it.
XrayTLSKeys(ob, insecureKey) ==
  Opt("sni", FirstSet(<<Get(ob, "reality.sni"), Get(ob, "reality.serverName"),
                        Get(ob, "tls.sni"), Get(ob, "tls.serverName")>>))
  @@ Opt("fp", FirstSet(<<Get(ob, "reality.fingerprint"), Get(ob, "tls.fingerprint")>>))
  @@ Opt("alpn", Get(ob, "tls.alpn")) @@ On(insecureKey, IsOn(ob, "tls.allowInsecure")) @@ applyECHKeys(ob)
  @@ Opt("pbk", Get(ob, "reality.publicKey")) @@ Opt("sid", FirstSet(<<Get(ob, "reality.shortId"), Get(ob, "reality.shortID")>>))

\* applyNetworkParamsToQuery; extra= is the block's own extra, or the whole block.
applyNetworkParamsToQuery(ob, net) ==
  LET upgraded == net = "httpupgrade" /\ Many(ob, "httpupgrade.", {"path", "host"})
      ws(key) == Get(ob, (IF upgraded THEN "httpupgrade." ELSE "ws.") \o key)
      pathAndHost(prefix) == Opt("path", Get(ob, prefix \o "path")) @@ Opt("host", Get(ob, prefix \o "host"))
  IN  CASE net \in {"ws", "httpupgrade"} -> Opt("path", ws("path")) @@ Opt("host", FirstSet(<<ws("host"), ws("headers.Host")>>))
        [] net = "grpc" -> Opt("serviceName", Get(ob, "grpc.serviceName"))
        [] net = "http" -> pathAndHost("http.")
        [] net = "xhttp" -> IF ~Many(ob, "xhttp.", {"path", "host", "mode", "extra", "raw"}) THEN Empty
                            ELSE pathAndHost("xhttp.") @@ Opt("mode", Get(ob, "xhttp.mode"))
                                 @@ "extra" :> FirstSet(<<Get(ob, "xhttp.extra"), Get(ob, "xhttp.raw"), "none">>)
        [] net = "tcp" /\ Get(ob, "tcp.header") = "http" -> "headerType" :> "http" @@ pathAndHost("tcp.")
        [] OTHER -> Empty

applyStreamToQuery(ob) ==
  LET net == Through(normalizeNetwork, Get(ob, "network"))
      security == Get(ob, "security")
  IN  IF ~HasStream(ob) THEN Empty
      ELSE "type" :> net @@ Opt("security", IF security = "none" THEN "" ELSE security)
           @@ XrayTLSKeys(ob, "allowInsecure") @@ Opt("spx", Get(ob, "reality.spiderX"))
           @@ applyNetworkParamsToQuery(ob, net)

\* The same for the JSON of vmess, which spells net, tls, type and path in its own way.
applyStreamToVmessMap(ob) ==
  LET net == Through(normalizeNetwork, Get(ob, "network"))
      params == applyNetworkParamsToQuery(ob, net)
  IN  IF ~HasStream(ob) THEN "net" :> "tcp"
      ELSE "net" :> net @@ (IF Get(ob, "security") \in {"tls", "reality"} THEN "tls" :> ob["security"] ELSE Empty)
           @@ XrayTLSKeys(ob, "insecure")
           @@ (IF "headerType" \in DOMAIN params THEN "type" :> "http" ELSE Empty)
           @@ (IF "serviceName" \in DOMAIN params THEN "path" :> params["serviceName"] ELSE Empty)
           @@ Without(params, {"headerType", "serviceName"})

\* A flow that the parser refuses is passed on, so that the parser can say so.
xrayVLESS(ob) ==
  LET flow == Get(ob, "settings.flow")
  IN  LinkTo("vless", Get(ob, "settings.id"), "", Get(ob, "settings.address"), Get(ob, "settings.port"), Get(ob, "tag"),
        "encryption" :> FirstSet(<<Get(ob, "settings.encryption"), "none">>)
        @@ Opt("flow", CASE flow \in VisionFlows -> "xtls-rprx-vision" [] flow = "none" -> "" [] OTHER -> flow)
        @@ applyStreamToQuery(ob))

xrayTrojan(ob) ==
  LinkTo("trojan", Get(ob, "settings.password"), "", Get(ob, "settings.address"), Get(ob, "settings.port"), Get(ob, "tag"),
    Default(Opt("flow", Get(ob, "settings.flow")) @@ applyStreamToQuery(ob), "security", "tls"))

xrayShadowsocks(ob) ==
  buildSSURI(Get(ob, "settings.method"), Get(ob, "settings.password"), Get(ob, "settings.address"),
             Get(ob, "settings.port"), Get(ob, "tag"), "")

\* Happ and v2rayN write hysteria2 as hysteria of version 2; version 1 has no link here.
xrayHysteria2(ob) ==
  LET password == FirstSet(<<Get(ob, "hysteria.auth"), Get(ob, "settings.auth"), Get(ob, "settings.password")>>)
  IN  IF Get(ob, "settings.address") = "" \/ "2" \notin {Get(ob, "settings.version"), Get(ob, "hysteria.version")}
      THEN None
      ELSE LinkTo("hysteria2", password, "", ob["settings.address"], Get(ob, "settings.port"), Get(ob, "tag"),
             Opt("sni", FirstSet(<<Get(ob, "tls.sni"), Get(ob, "tls.serverName")>>)) @@ Opt("alpn", Get(ob, "tls.alpn"))
             @@ On("insecure", IsOn(ob, "tls.allowInsecure"))
             @@ (IF Get(ob, "hysteria.obfs") = "" THEN Empty
                 ELSE "obfs" :> "salamander" @@ "obfs-password" :> ob["hysteria.obfs"]))

xrayVMess(ob) ==
  VmessLink("ps" :> Get(ob, "tag") @@ "add" :> Get(ob, "settings.address") @@ "port" :> Get(ob, "settings.port")
    @@ "id" :> Get(ob, "settings.id") @@ "aid" :> FirstSet(<<Get(ob, "settings.alterId"), "0">>)
    @@ "scy" :> FirstSet(<<Get(ob, "settings.security"), "auto">>) @@ applyStreamToVmessMap(ob))

\* Without the user or server object of its protocol (here: without an address) nothing is rebuilt.
uriFromXrayOutbound(ob) ==
  LET protocol == ob["protocol"]
  IN  IF "settings.address" \notin DOMAIN ob THEN None
      ELSE CASE protocol = "vless" -> xrayVLESS(ob)
             [] protocol = "vmess" -> xrayVMess(ob)
             [] protocol = "trojan" -> xrayTrojan(ob)
             [] protocol = "shadowsocks" -> xrayShadowsocks(ob)
             [] protocol \in {"hysteria2", "hysteria"} -> xrayHysteria2(ob)
             [] OTHER -> None

uriFromSIP008(s) ==
  LET plugin == Get(s, "plugin")
      options == Get(s, "plugin_opts")
  IN  buildSSURI(s["method"], Get(s, "password"), s["server"], Get(s, "server_port"),
                 FirstSet(<<Get(s, "remarks"), Get(s, "name")>>),
                 IF plugin # "" /\ options # "" THEN plugin \o ";" \o options ELSE plugin)

\* protocol (Xray) before type (sing-box) before method (SIP008).
uriFromAnyEntry(entry) ==
  CASE Get(entry, "protocol") # "" -> uriFromXrayOutbound(entry)
    [] Get(entry, "protocol") = "" /\ Get(entry, "type") # "" -> uriFromSingboxOutbound(entry)
    [] OTHER -> IF "" \in {Get(entry, "method"), Get(entry, "server")} THEN None ELSE uriFromSIP008(entry)

-----------------------------------------------------------------------------
(* Clash. *)

clashSNI(p) == FirstSet(<<Get(p, "servername"), Get(p, "sni")>>)

\* network: http is TCP with a header; h2 keeps its name, the parser folds it.
applyClashTransport(p) ==
  LET net == FirstSet(<<Get(p, "network"), "tcp">>)
      opts(prefix, key) == Opt(key, Get(p, prefix \o key))
  IN  CASE net \in {"ws", "httpupgrade"} -> "type" :> net @@ opts("ws-opts.", "path") @@ Opt("host", Get(p, "ws-opts.headers.Host"))
        [] net = "grpc" -> "type" :> net @@ Opt("serviceName", Get(p, "grpc-opts.grpc-service-name"))
        [] net = "h2" -> "type" :> net @@ opts("h2-opts.", "path") @@ opts("h2-opts.", "host")
        [] net = "http" -> "type" :> "tcp" @@ "headerType" :> "http" @@ opts("http-opts.", "path") @@ opts("http-opts.", "method")
                           @@ opts("http-opts.", "headers") @@ Opt("host", Get(p, "http-opts.headers.Host"))
        [] net \in {"xhttp", "splithttp"} -> "type" :> net
             @@ IF ~Many(p, "xhttp-opts.", {"path", "host", "mode", "raw"}) THEN Empty
                ELSE opts("xhttp-opts.", "path") @@ opts("xhttp-opts.", "host") @@ opts("xhttp-opts.", "mode")
                     @@ "extra" :> FirstSet(<<Get(p, "xhttp-opts.raw"), "none">>)
        [] OTHER -> "type" :> net

applyClashTLS(p, tlsImplied) ==
  LET reality == Get(p, "reality-opts.public-key") # ""
  IN  IF ~(reality \/ tlsImplied \/ IsOn(p, "tls")) THEN "security" :> "none"
      ELSE (IF reality THEN "security" :> "reality" @@ "pbk" :> p["reality-opts.public-key"]
                            @@ Opt("sid", Get(p, "reality-opts.short-id"))
            ELSE "security" :> "tls")
           @@ Opt("sni", clashSNI(p)) @@ Opt("alpn", Get(p, "alpn")) @@ Opt("fp", Get(p, "client-fingerprint"))
           @@ On("insecure", IsOn(p, "skip-cert-verify")) @@ On("allowInsecure", IsOn(p, "skip-cert-verify"))
           @@ (IF IsOn(p, "ech-opts.enable") THEN "ech" :> Get(p, "ech-opts.config") ELSE Empty)

clashHysteria2(p) ==
  LinkTo("hysteria2", Get(p, "password"), "", p["server"], p["port"], Get(p, "name"),
    Opt("sni", clashSNI(p)) @@ Opt("alpn", Get(p, "alpn")) @@ On("insecure", IsOn(p, "skip-cert-verify"))
    @@ (IF Get(p, "obfs") = "" THEN Empty
        ELSE "obfs" :> p["obfs"] @@ Opt("obfs-password", Get(p, "obfs-password"))))

clashVLESS(p) ==
  IF Get(p, "uuid") = "" THEN None
  ELSE LinkTo("vless", p["uuid"], "", p["server"], p["port"], Get(p, "name"),
         "encryption" :> "none" @@ Opt("flow", Get(p, "flow")) @@ applyClashTransport(p) @@ applyClashTLS(p, FALSE))

\* Mutant: trojan without tls: true is taken as trojan without TLS.
clashTrojan_AsWritten(p) ==
  LinkTo("trojan", Get(p, "password"), "", p["server"], p["port"], Get(p, "name"),
         applyClashTransport(p) @@ applyClashTLS(p, FALSE))

clashTrojan(p) ==
  IF Get(p, "password") = "" THEN None
  ELSE LinkTo("trojan", p["password"], "", p["server"], p["port"], Get(p, "name"),
         applyClashTransport(p) @@ applyClashTLS(p, TRUE))

\* A cipher or a plugin that sing-box does not have costs the node; aliases are renamed.
ClashPlugins == [obfs |-> "obfs-local"] @@ ("simple-obfs" :> "obfs-local" @@ "obfs-local" :> "obfs-local"
                @@ "xray-plugin" :> "v2ray-plugin" @@ "v2ray-plugin" :> "v2ray-plugin")
clashShadowsocks(p) ==
  LET plugin == Get(p, "plugin")
      options == Get(p, "plugin-opts")
      name == Through(ClashPlugins, plugin)
  IN  IF Through(normalizeSSMethod, Get(p, "cipher")) \notin ssSupportedMethods
         \/ (plugin # "" /\ plugin \notin DOMAIN ClashPlugins) THEN None
      ELSE buildSSURI(p["cipher"], Get(p, "password"), p["server"], p["port"], Get(p, "name"),
                      IF options = "" \/ plugin = "" THEN name ELSE name \o ";" \o options)

clashTUIC(p) ==
  IF Get(p, "uuid") = "" THEN None
  ELSE LinkTo("tuic", p["uuid"], Get(p, "password"), p["server"], p["port"], Get(p, "name"),
         Opt("congestion_control", Get(p, "congestion-controller")) @@ Opt("udp_relay_mode", Get(p, "udp-relay-mode"))
         @@ Opt("sni", clashSNI(p)) @@ Opt("alpn", Get(p, "alpn")) @@ On("allow_insecure", IsOn(p, "skip-cert-verify")))

clashVMess(p) ==
  LET m == "ps" :> Get(p, "name") @@ "add" :> p["server"] @@ "port" :> p["port"] @@ "id" :> Get(p, "uuid")
           @@ "aid" :> FirstSet(<<Get(p, "alterId"), "0">>) @@ "scy" :> FirstSet(<<Get(p, "cipher"), "auto">>)
           @@ "net" :> FirstSet(<<Get(p, "network"), "tcp">>) @@ "type" :> "none"
      service == IF Get(p, "network") = "grpc" THEN Get(p, "grpc-opts.grpc-service-name") ELSE ""
  IN  IF Get(p, "uuid") = "" THEN None
      ELSE VmessLink(Opt("path", service) @@ mergeQueryIntoVmessMap(m, applyClashTransport(p) @@ applyClashTLS(p, FALSE)))

uriFromClashProxy(p) ==
  LET type == Get(p, "type")
  IN  IF "" \in {Get(p, "server"), Get(p, "port")} THEN None
      ELSE CASE type \in {"hysteria2", "hy2"} -> clashHysteria2(p)
             [] type = "vless" -> clashVLESS(p)
             [] type = "vmess" -> clashVMess(p)
             [] type = "trojan" -> clashTrojan(p)
             [] type \in {"ss", "shadowsocks"} -> clashShadowsocks(p)
             [] type = "tuic" -> clashTUIC(p)
             [] OTHER -> None
=============================================================================
