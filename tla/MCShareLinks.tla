----------------------------- MODULE MCShareLinks -----------------------------
(***************************************************************************)
(* Bodies for ShareLinks: the same servers in four dialects, links with    *)
(* the odd parameters of their parsers, chains and pairs, broken lines,    *)
(* JSON containers of every shape, wg-quick files and AmneziaVPN links.    *)
(***************************************************************************)
EXTENDS ShareLinks

Text(lines) == [form |-> "text", lines |-> lines, says |-> <<>>]
Chain(hops) == [kind |-> "link", hops |-> hops]
Foreign == [kind |-> "foreign"]
Comment == [kind |-> "comment"]
Listed(links) == Text([i \in DOMAIN links |-> LinkLine(links[i])])
Container(outbounds, servers, endpoints, remarks) ==
  [outbounds |-> outbounds, servers |-> servers, endpoints |-> endpoints, remarks |-> remarks]
Json(items, says) == [form |-> "json", items |-> items, says |-> says]
SingBox(outbounds, says) == Json(<<Container(outbounds, <<>>, <<>>, "")>>, says)
Clash(proxies, says) == [form |-> "clash", proxies |-> proxies, says |-> says]
Vpn(containers, default, description) ==
  [form |-> "vpn", broken |-> FALSE, containers |-> containers, default |-> default, description |-> description,
   hostName |-> "192.0.2.1", says |-> <<>>]

-----------------------------------------------------------------------------
(* The same servers as a link, for sing-box, for Xray and for Clash. *)

At(name) == "server" :> "a.example" @@ "server_port" :> "8443" @@ "tag" :> name
V(name, q) == Link("vless", "uuid-1", "", "a.example", "8443", name, q)
T(name, q) == Link("trojan", "secret", "", "a.example", "8443", name, q)
Named(prefix, m) == Prefixed(prefix, m)
Xray(protocol, name, settings) ==
  "protocol" :> protocol @@ "tag" :> name @@ Prefixed("settings.", settings @@ "address" :> "a.example" @@ "port" :> "8443")
ClashAt(type, name) == "type" :> type @@ "name" :> name @@ "server" :> "a.example" @@ "port" :> "8443"

\* VLESS with reality over plain TCP.
RealityLink == V("r", "security" :> "reality" @@ "pbk" :> "key" @@ "sid" :> "01" @@ "fp" :> "firefox" @@ "sni" :> "s.example"
                      @@ "flow" :> "xtls-rprx-vision" @@ "type" :> "tcp")
Reality == <<
  Listed(<<RealityLink>>),
  SingBox(<<"type" :> "vless" @@ At("r") @@ "uuid" :> "uuid-1" @@ "flow" :> "xtls-rprx-vision" @@ "packet_encoding" :> "xudp"
            @@ Named("tls.", "enabled" :> "true" @@ "server_name" :> "s.example" @@ "utls.enabled" :> "true"
                @@ "utls.fingerprint" :> "firefox" @@ "reality.enabled" :> "true" @@ "reality.public_key" :> "key"
                @@ "reality.short_id" :> "01")>>, <<RealityLink>>),
  SingBox(<<Xray("vless", "r", "id" :> "uuid-1" @@ "flow" :> "xtls-rprx-vision-udp443" @@ "encryption" :> "none")
            @@ "network" :> "raw" @@ "security" :> "reality"
            @@ Named("reality.", "publicKey" :> "key" @@ "shortId" :> "01" @@ "fingerprint" :> "firefox"
                @@ "serverName" :> "s.example" @@ "spiderX" :> "/")>>, <<RealityLink>>),
  Clash(<<ClashAt("vless", "r") @@ "uuid" :> "uuid-1" @@ "flow" :> "xtls-rprx-vision" @@ "client-fingerprint" :> "firefox"
          @@ "servername" :> "s.example" @@ "reality-opts.public-key" :> "key" @@ "reality-opts.short-id" :> "01">>, <<RealityLink>>)>>

\* Trojan over a WebSocket with early data, and with gRPC.
WsLink == T("w", "sni" :> "s.example" @@ "type" :> "ws" @@ "host" :> "h.example" @@ "path" :> "/p" @@ "fp" :> "chrome")
Websocket == <<
  Listed(<<WsLink>>),
  SingBox(<<"type" :> "trojan" @@ At("w") @@ "password" :> "secret"
            @@ Named("tls.", "enabled" :> "true" @@ "server_name" :> "s.example" @@ "alpn" :> "http/1.1"
                @@ "utls.enabled" :> "true" @@ "utls.fingerprint" :> "chrome")
            @@ Named("transport.", "type" :> "ws" @@ "path" :> "/p" @@ "headers.Host" :> "h.example")>>, <<WsLink>>),
  SingBox(<<Xray("trojan", "w", "password" :> "secret") @@ "network" :> "ws" @@ "security" :> "tls"
            @@ "tls.serverName" :> "s.example" @@ "tls.fingerprint" :> "chrome"
            @@ "ws.path" :> "/p" @@ "ws.headers.Host" :> "h.example">>, <<WsLink>>),
  Clash(<<ClashAt("trojan", "w") @@ "password" :> "secret" @@ "sni" :> "s.example" @@ "network" :> "ws"
          @@ "client-fingerprint" :> "chrome" @@ "ws-opts.path" :> "/p" @@ "ws-opts.headers.Host" :> "h.example">>, <<WsLink>>)>>

GrpcLink == V("g", "security" :> "tls" @@ "sni" :> "s.example" @@ "type" :> "grpc" @@ "serviceName" :> "svc"
                   @@ "ech" :> "echlist" @@ "allowInsecure" :> "1")
Grpc == <<
  Listed(<<GrpcLink>>),
  SingBox(<<"type" :> "vless" @@ At("g") @@ "uuid" :> "uuid-1" @@ "packet_encoding" :> "xudp"
            @@ Named("tls.", "enabled" :> "true" @@ "server_name" :> "s.example" @@ "alpn" :> "h2" @@ "insecure" :> "true"
                @@ "ech.enabled" :> "true" @@ "ech.config" :> "pem of echlist")
            @@ Named("transport.", "type" :> "grpc" @@ "service_name" :> "svc")>>, <<GrpcLink>>),
  SingBox(<<Xray("vless", "g", "id" :> "uuid-1") @@ "network" :> "gun" @@ "security" :> "tls" @@ "tls.serverName" :> "s.example"
            @@ "tls.allowInsecure" :> "true" @@ "tls.echConfigList" :> "echlist" @@ "grpc.serviceName" :> "svc">>, <<GrpcLink>>),
  Clash(<<ClashAt("vless", "g") @@ "uuid" :> "uuid-1" @@ "tls" :> "true" @@ "servername" :> "s.example" @@ "network" :> "grpc"
          @@ "skip-cert-verify" :> "true" @@ "ech-opts.enable" :> "true" @@ "ech-opts.config" :> "echlist"
          @@ "grpc-opts.grpc-service-name" :> "svc">>, <<GrpcLink>>)>>

\* VMess over a WebSocket with TLS: the link is JSON.
VmessOf(name, q) == VmessLink("ps" :> name @@ "add" :> "a.example" @@ "port" :> "8443" @@ "id" :> "uuid-2" @@ q)
VmLink == VmessOf("v", "net" :> "ws" @@ "tls" :> "tls" @@ "sni" :> "s.example" @@ "host" :> "h.example" @@ "path" :> "/p")
Vmess == <<
  Listed(<<VmLink>>),
  SingBox(<<"type" :> "vmess" @@ At("v") @@ "uuid" :> "uuid-2" @@ "security" :> "auto"
            @@ Named("tls.", "enabled" :> "true" @@ "server_name" :> "s.example" @@ "utls.enabled" :> "true"
                @@ "utls.fingerprint" :> "chrome" @@ "alpn" :> "http/1.1")
            @@ Named("transport.", "type" :> "ws" @@ "path" :> "/p" @@ "headers.Host" :> "h.example")>>, <<VmLink>>),
  SingBox(<<Xray("vmess", "v", "id" :> "uuid-2") @@ "network" :> "websocket" @@ "security" :> "tls"
            @@ "tls.serverName" :> "s.example" @@ "ws.path" :> "/p" @@ "ws.host" :> "h.example">>, <<VmLink>>),
  Clash(<<ClashAt("vmess", "v") @@ "uuid" :> "uuid-2" @@ "tls" :> "true" @@ "servername" :> "s.example" @@ "network" :> "ws"
          @@ "cipher" :> "auto" @@ "ws-opts.path" :> "/p" @@ "ws-opts.headers.Host" :> "h.example">>, <<VmLink>>)>>

\* Shadowsocks, also as SIP008, without a plugin and with one, which Xray does not have.
PlainSsLink == [Link("ss", "aes-128-gcm", "pw", "a.example", "8443", "s", Empty) EXCEPT !.form = "b64"]
PlainShadowsocks == <<
  Listed(<<PlainSsLink>>),
  SingBox(<<"type" :> "shadowsocks" @@ At("s") @@ "method" :> "aes-128-gcm" @@ "password" :> "pw">>, <<PlainSsLink>>),
  SingBox(<<Xray("shadowsocks", "s", "method" :> "aes-128-gcm" @@ "password" :> "pw")>>, <<PlainSsLink>>),
  Json(<<Container(<<>>, <<"method" :> "aes-128-gcm" @@ "password" :> "pw" @@ "server" :> "a.example" @@ "server_port" :> "8443"
            @@ "remarks" :> "s">>, <<>>, "")>>, <<PlainSsLink>>),
  Clash(<<ClashAt("ss", "s") @@ "cipher" :> "aes-128-gcm" @@ "password" :> "pw">>, <<PlainSsLink>>)>>
SsLink == [PlainSsLink EXCEPT !.q = "plugin" :> "obfs-local;obfs=http"]
Shadowsocks == <<
  Listed(<<SsLink>>), Listed(<<[SsLink EXCEPT !.form = "plain"]>>),
  SingBox(<<"type" :> "shadowsocks" @@ At("s") @@ "method" :> "aes-128-gcm" @@ "password" :> "pw" @@ "plugin" :> "obfs-local"
            @@ "plugin_opts" :> "obfs=http">>, <<SsLink>>),
  Json(<<Container(<<>>, <<"method" :> "aes-128-gcm" @@ "password" :> "pw" @@ "server" :> "a.example" @@ "server_port" :> "8443"
            @@ "remarks" :> "s" @@ "plugin" :> "obfs-local" @@ "plugin_opts" :> "obfs=http">>, <<>>, "")>>, <<SsLink>>),
  Clash(<<ClashAt("ss", "s") @@ "cipher" :> "aes-128-gcm" @@ "password" :> "pw" @@ "plugin" :> "obfs"
          @@ "plugin-opts" :> "obfs=http">>, <<SsLink>>)>>

\* Hysteria 2; TUIC, which Xray does not have.
HyLink == Link("hysteria2", "secret", "", "a.example", "8443", "h", "sni" :> "s.example" @@ "obfs" :> "salamander"
                @@ "obfs-password" :> "o" @@ "insecure" :> "1")
Hysteria2 == <<
  Listed(<<[HyLink EXCEPT !.scheme = "hy2"]>>),
  SingBox(<<"type" :> "hysteria2" @@ At("h") @@ "password" :> "secret" @@ "obfs.type" :> "salamander" @@ "obfs.password" :> "o"
            @@ Named("tls.", "enabled" :> "true" @@ "server_name" :> "s.example" @@ "insecure" :> "true")>>, <<HyLink>>),
  SingBox(<<Xray("hysteria", "h", "version" :> "2") @@ "network" :> "hysteria" @@ "security" :> "tls" @@ "hysteria.auth" :> "secret"
            @@ "hysteria.obfs" :> "o" @@ "tls.serverName" :> "s.example" @@ "tls.allowInsecure" :> "true">>, <<HyLink>>),
  Clash(<<ClashAt("hysteria2", "h") @@ "password" :> "secret" @@ "obfs" :> "salamander" @@ "obfs-password" :> "o"
          @@ "sni" :> "s.example" @@ "skip-cert-verify" :> "true">>, <<HyLink>>)>>

TuicLink == Link("tuic", "uuid-1", "pw", "a.example", "8443", "t", "congestion_control" :> "bbr" @@ "udp_relay_mode" :> "native"
                  @@ "sni" :> "s.example" @@ "alpn" :> "h3" @@ "allow_insecure" :> "1")
Tuic == <<
  Listed(<<TuicLink>>),
  SingBox(<<"type" :> "tuic" @@ At("t") @@ "uuid" :> "uuid-1" @@ "password" :> "pw" @@ "congestion_control" :> "bbr"
            @@ "udp_relay_mode" :> "native"
            @@ Named("tls.", "enabled" :> "true" @@ "server_name" :> "s.example" @@ "alpn" :> "h3" @@ "insecure" :> "true")>>, <<TuicLink>>),
  Clash(<<ClashAt("tuic", "t") @@ "uuid" :> "uuid-1" @@ "password" :> "pw" @@ "congestion-controller" :> "bbr"
          @@ "udp-relay-mode" :> "native" @@ "sni" :> "s.example" @@ "alpn" :> "h3" @@ "skip-cert-verify" :> "true">>, <<TuicLink>>)>>

\* What only sing-box has beside its link.
OnlyLinks == <<
  Link("naive+quic", "user", "pw", "a.example", "8443", "n", "sni" :> "s.example" @@ "fp" :> "chrome"),
  Link("mieru", "user", "pw", "a.example", "", "m", "protocol" :> "TCP,UDP" @@ "port" :> "8443,443" @@ "mtu" :> "1400"),
  Link("dnstt", "", "", "d.example", "", "d", "pubkey" :> "key"), Link("psiphon", "", "", "", "", "p", "region" :> "de")>>
OnlySingbox == <<
  Listed(OnlyLinks),
  SingBox(<<"type" :> "naive" @@ At("n") @@ "username" :> "user" @@ "password" :> "pw" @@ "quic" :> "true"
              @@ "udp_over_tcp.enabled" :> "true"
              @@ Named("tls.", "enabled" :> "true" @@ "server_name" :> "s.example" @@ "utls.enabled" :> "true"
                  @@ "utls.fingerprint" :> "chrome"),
            "type" :> "mieru" @@ "tag" :> "m" @@ "server" :> "a.example" @@ "username" :> "user" @@ "password" :> "pw"
              @@ "portBindings" :> "TCP:8443 UDP:443" @@ "mtu" :> "1400",
            "type" :> "dnstt" @@ "tag" :> "d" @@ "domain" :> "d.example" @@ "pubkey" :> "key",
            "type" :> "psiphon" @@ "tag" :> "p" @@ "egress_region" :> "de">>, OnlyLinks)>>

-----------------------------------------------------------------------------
(* Links with the parameters of one parser or one transport. *)

Tls == "security" :> "tls" @@ "sni" :> "s.example"
VlessLinks == <<
  V("xhttp", Tls @@ "type" :> "splithttp" @@ "extra" :> "splitX" @@ "path" :> "/x" @@ "ech" :> "1"
             @@ "echQueryServerName" :> "q.example" @@ "nosni" :> "1" @@ "minVersion" :> "1.2"),
  V("knobs", Tls @@ "type" :> "xhttp" @@ "extra" :> "knobs" @@ "host" :> "h.example" @@ "ech" :> "false"),
  V("upgrade", Tls @@ "type" :> "httpupgrade" @@ "host" :> "h.example" @@ "path" :> "p" @@ "alpn" :> "h2,http/1.1"),
  V("early", Tls @@ "type" :> "ws" @@ "path" :> "/p?ed=2048" @@ "muxtype" :> "h2" @@ "muxmaxc" :> "4" @@ "mux" :> "2"
             @@ "maxVersion" :> "1.3" @@ "mc" :> "1"),
  V("h2", "security" :> "none" @@ "type" :> "h2" @@ "path" :> "/p" @@ "host" :> "h.example"),
  V("quic", Tls @@ "type" :> "quic" @@ "fp" :> "chrome"),
  V("plainquic", "type" :> "quic"),
  V("kcp", Tls @@ "type" :> "kcp"),
  V("badflow", Tls @@ "flow" :> "xtls-rprx-direct"),
  [V("upper", Tls @@ "type" :> "tcp" @@ "headerType" :> "http" @@ "path" :> "/p") EXCEPT !.scheme = "VLESS"],
  V("h3reality", "security" :> "reality" @@ "pbk" :> "key+std=" @@ "sid" :> "not hex" @@ "alpn" :> "h3,h2" @@ "fp" :> "none")>>
OtherLinks == <<
  Link("hysteria", "", "", "a.example", "8443", "hy1", "peer" :> "192.0.2.1" @@ "auth" :> "x" @@ "downmbps" :> "100" @@ "mport" :> "20000-30000"),
  Link("hysteria", "", "", "a.example", "8443", "stale", "auth" :> "x"),
  Link("hysteria2", "user", "pass", "a.example", "20000-30000", "range", "ech" :> "0" @@ "up" :> "100 mbps"),
  Link("hysteria2", "pw", "", "a.example", "8443", "ech", "sni" :> "s.example" @@ "ech" :> "1"),
  Link("hysteria2", "pw", "", "a.example", "", "pinned", "pinSHA256" :> "x"),
  Link("shadowtls", "pw", "", "a.example", "8443", "stls", Tls @@ "version" :> "3"),
  Link("anytls", "pw", "", "a.example", "8443", "any", "fp" :> "chrome" @@ "alpn" :> "h2"),
  Link("anytls", "pw", "", "a.example", "8443", "anyr", "security" :> "reality" @@ "pbk" :> "key"),
  Link("naive+quic", "user", "pw", "a.example", "8443", "nq", "sni" :> "s.example" @@ "insecure_concurrency" :> "2" @@ "fp" :> "chrome"),
  Link("naive+https", "user", "pw", "a.example", "", "nh", "uot" :> "false" @@ "header" :> "X: y"),
  Link("mieru", "user", "pw", "a.example", "", "m", "protocol" :> "TCP,UDP" @@ "port" :> "8443,443" @@ "mtu" :> "1400"),
  Link("mieru", "user", "pw", "a.example", "8443", "m3", "protocol" :> "TCP,UDP" @@ "port" :> "443,8443,443"),
  Link("ssh", "root", "pw", "a.example", "", "ssh", "hk" :> "host key"),
  Link("socks5", "user", "pw", "a.example", "", "socks", "uot" :> "1"),
  Link("socks", "user", "pw", "a.example", "", "socks6", "v" :> "6"),
  Link("phttps", "user", "pw", "a.example", "", "https", "sni" :> "s.example"),
  Link("http", "", "", "a.example", "8443", "http", "tls" :> "1" @@ "insecure" :> "1"),
  Link("dnstt", "", "", "d.example", "", "", "pubkey" :> "key"),
  Link("psiphon", "", "", "", "", "", "region" :> "de"),
  Link("direct", "", "", "", "", "", Empty),
  Link("ssconf", "", "", "b.example", "", "outline", "server" :> "a.example" @@ "server_port" :> "8443" @@ "method" :> "aes-128-gcm" @@ "password" :> "pw"),
  Link("ssconf", "", "", "b.example", "", "sip008", "servers" :> "x"),
  Link("vmess", "uuid-1", "", "a.example", "8443", "form", "security" :> "tls" @@ "type" :> "grpc" @@ "serviceName" :> "svc" @@ "encryption" :> "dummy"),
  [Link("ss", "2022-blake3-aes-128-gcm", "psk-url", "a.example", "8443", "ss22", "uot" :> "1") EXCEPT !.form = "b64all"],
  Link("ss", "rc4-md5", "pw", "a.example", "8443", "rc4", Empty)>>

-----------------------------------------------------------------------------
(* Endpoints. *)

Wg == "privatekey" :> "wg key" @@ "address" :> "10.0.0.2/32"
WgPeer == "address" :> "192.0.2.2" @@ "port" :> "53" @@ "publickey" :> "wg key 2"
Conf(interface, peers, commented) == [interface |-> interface, peers |-> peers, commented |-> commented]
WgConf == Conf(Wg, <<WgPeer @@ "presharedkey" :> "wg psk">>, FALSE)
AwgConf == Conf(Wg @@ "jc" :> "4" @@ "h1" :> "5-100" @@ "i1" :> "<b 0x01>" @@ "s1" :> "-1", <<WgPeer @@ "reserved" :> "1,2,3">>, FALSE)
TwoPeers == Conf(Wg, <<WgPeer, [WgPeer EXCEPT !["address"] = "192.0.2.1"]>>, FALSE)
BadConf == Conf(Wg @@ "h1" :> "100-5", <<WgPeer>>, FALSE)
CommentedConf == Conf(Wg, <<WgPeer>>, TRUE)
WgLink(scheme, q) == Link(scheme, "", "", "192.0.2.2", "53", "wg", "pk" :> "wg key url-safe"
                          @@ "publickey" :> "wg key 2" @@ "ip" :> "10.0.0.2/32" @@ q)
EndpointLinks == <<
  WgLink("wg", "keepalive" :> "30" @@ "ifp" :> "1-3"), WgLink("awg", "jc" :> "4" @@ "mtu" :> "1280"),
  WgLink("wireguard", "reserved" :> "1,2"),
  Link("warp", "key", "", "", "", "", "ifp" :> "1-3" @@ "pk" :> "wg key"), Link("warp", "key", "", "", "", "bad", "pk" :> "no key")>>

-----------------------------------------------------------------------------
(* Whole bodies. *)

Pair == Link("utproto", "secret", "", "a.example", "8443", "u", "vless_uuid" :> "uuid-1")
NoPair == Link("utproto", "secret", "", "a.example", "8443", "u", Empty)
Texts == <<
  Listed(VlessLinks), Listed(OtherLinks), Listed(EndpointLinks),
  Text(<<Chain(<<WsLink, RealityLink>>), Chain(<<WsLink, Pair, SsLink>>), Chain(<<WsLink, VlessLinks[9], GrpcLink>>)>>),
  Text(<<Chain(<<OtherLinks[19], NoPair, WsLink>>), LinkLine(Pair), LinkLine(WgConf), Chain(<<SsLink, AwgConf>>)>>),
  Text(<<Foreign, LinkLine(WsLink), Foreign, LinkLine([GrpcLink EXCEPT !.name = ""]), Foreign, Comment, Foreign, LinkLine(RealityLink)>>),
  Text(<<Foreign, Comment>>), Text(<<Foreign>>),
  Text(<<Comment, LinkLine(WgConf), LinkLine(TwoPeers), LinkLine(BadConf), LinkLine(AwgConf), LinkLine(CommentedConf)>>),
  Text(<<LinkLine(WsLink), NodeLine("type" :> "ssh" @@ At("n"), FALSE), LinkLine(RealityLink)>>)>>

Groups == <<"protocol" :> "freedom" @@ "tag" :> "direct", "type" :> "selector" @@ "tag" :> "select", "type" :> "direct" @@ "tag" :> "d">>
SshNode == "type" :> "ssh" @@ At("n $ 3") @@ "user" :> "root"
EchNode(type, rest) == "type" :> type @@ At("e") @@ rest @@ Named("tls.", "enabled" :> "true" @@ "server_name" :> "s.example"
                         @@ "ech.enabled" :> "true" @@ "ech.query_server_name" :> "q.example")
SipServer == "method" :> "aes-128-gcm" @@ "password" :> "pw" @@ "server" :> "a.example" @@ "server_port" :> "8443" @@ "remarks" :> "s"
Mixed == <<
  SingBox(Groups \o <<SshNode, EchNode("vless", "uuid" :> "uuid-1"), Xray("socks", "x", Empty)>>, <<>>),
  SingBox(<<EchNode("trojan", "password" :> "pw"), "type" :> "psiphon" @@ "tag" :> "p" @@ "egress_region" :> "de",
            "type" :> "dnstt" @@ "domain" :> "d.example" @@ "pubkey" :> "key" @@ "tag" :> "dn",
            "type" :> "mieru" @@ "tag" :> "m" @@ "server" :> "a.example" @@ "portBindings" :> "TCP:8443 UDP:443",
            "type" :> "naive" @@ At("nn") @@ "username" :> "user" @@ "quic" :> "true",
            "type" :> "naive" @@ At("nx") @@ "username" :> "user" @@ "extra_headers" :> "X: y"
              @@ "tls.enabled" :> "true" @@ "tls.server_name" :> "s.example">>, <<>>),
  Json(<<Container(Groups, <<>>, <<>>, "Happ empty"), Container(Groups \o <<SshNode>>, <<>>, <<>>, "Happ ssh"),
         Container(<<SshNode, Xray("vless", "proxy", "id" :> "uuid-1")>> \o Groups, <<>>, <<>>, "Happ auto"),
         [node |-> Xray("trojan", "t", "password" :> "pw") @@ "network" :> "xhttp" @@ "xhttp.extra" :> "splitX" @@ "security" :> "tls"],
         [node |-> "protocol" :> "blackhole" @@ "tag" :> "b"]>>, <<>>),
  Json(<<[node |-> SipServer], [node |-> SshNode]>>, <<>>), Json(<<[node |-> Without(SipServer, {"remarks"})]>>, <<>>),
  Json(<<Container(<<>>, <<>>, <<AWGSingboxTxt(WgConf), AWGSingboxTxt(AwgConf), AWGSingboxTxt(TwoPeers),
                                 AWGSingbox(ParseUrl(EndpointLinks[1], ""))>>, "")>>, <<>>),
  Clash(<<ClashAt("socks5", "s"), ClashAt("ss", "rc4") @@ "cipher" :> "rc4-md5", ClashAt("vless", "nouuid"),
          ClashAt("vless", "h") @@ "uuid" :> "uuid-1" @@ "network" :> "http" @@ "http-opts.path" :> "/p",
          ClashAt("vless", "x") @@ "uuid" :> "uuid-1" @@ "network" :> "xhttp" @@ "xhttp-opts.raw" :> "knobs" @@ "tls" :> "true">>, <<>>),
  Clash(<<ClashAt("snell", "s")>>, <<>>)>>

XrayPart == <<Container(<<Xray("vless", "proxy", "id" :> "uuid-1") @@ "network" :> "tcp">> \o Groups, <<>>, <<>>, "")>>
SsPart == <<"method" :> "aes-128-gcm" @@ "password" :> "pw" @@ "server_port" :> "8443">>
Amnezia == <<
  Vpn(<<[id |-> "amnezia-openvpn", payload |-> <<>>], [id |-> "amnezia-dns", payload |-> <<>>],
        [id |-> "amnezia-xray", payload |-> XrayPart], [id |-> "amnezia-awg", payload |-> <<AwgConf>>],
        [id |-> "amnezia-shadowsocks", payload |-> SsPart]>>, "amnezia-awg", "Osnova"),
  Vpn(<<[id |-> "amnezia-wireguard", payload |-> <<TwoPeers>>]>>, "amnezia-wireguard", ""),
  Vpn(<<[id |-> "amnezia-wireguard", payload |-> <<WgConf, TwoPeers>>], [id |-> "amnezia-xray", payload |-> <<>>]>>, "", "Two"),
  Vpn(<<[id |-> "amnezia-ipsec", payload |-> <<>>]>>, "amnezia-ipsec", "Osnova"),
  [Vpn(<<>>, "", "") EXCEPT !.broken = TRUE]>>

MCBodies ==
  Range(Reality) \cup Range(Websocket) \cup Range(Grpc) \cup Range(Vmess) \cup Range(PlainShadowsocks)
  \cup Range(Shadowsocks) \cup Range(Hysteria2) \cup Range(Tuic) \cup Range(OnlySingbox) \cup Range(Texts) \cup Range(Mixed) \cup Range(Amnezia)

\* Tags that come with a number, or with what looks like one, can be told apart like all others.
ASSUME TellingAssumption == Telling({"", "a", "a $", " $ ", "a $ 1", "a $ 12", "$ 1", "1", " ", "a $ 1 $ 2", "a $ b"}, 0..12)
=============================================================================
