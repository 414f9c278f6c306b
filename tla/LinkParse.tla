------------------------------ MODULE LinkParse ------------------------------
(***************************************************************************)
(* From a share link to a sing-box outbound: the parsers of                *)
(* xray2sing/ray2sing, one operator for each function.  An outbound is the *)
(* flattened JSON that sing-box would write for it; Failed is the error of *)
(* a parser.  `decoded` is the Go map that one parser hands to all helpers,*)
(* and that some of them CHANGE: getTransportOptions leaves a default ALPN *)
(* behind, which getTLSOptions then reads as if the link had asked for it. *)
(***************************************************************************)
EXTENDS LinkBase

-----------------------------------------------------------------------------
(* TLS (common.go). *)

SaysReality(d) == "reality" \in {Get(d, "security"), Get(d, "tls")}
SaysTLS(d) == SaysReality(d) \/ "tls" \in {Get(d, "security"), Get(d, "tls")}

\* Words of an ech= key: off, on without a blob (five characters at most), base64 blobs, PEM;
\* every other word is longer than five characters and no base64, and switches ECH off.
EchOff   == {"0", "false", "no", "off", "none"}
EchShort == {"", "1", "true", "on"}
EchBlobs == {"ech+list", "echlist"}
RepairPlus == "ech list" :> "ech+list"
Pem == "ech+list" :> "pem of ech+list" @@ "echlist" :> "pem of echlist"
                  @@ "pem of ech+list" :> "pem of ech+list" @@ "pem of echlist" :> "pem of echlist"

ServerName(d) == FirstSet(<<Get(d, "sni"), Get(d, "peer"), Get(d, "host"), Get(d, "add")>>)
EchQueryName(d) ==
  FirstSet(<<getOneOfN(d, "", <<"query server name", "echqueryservername">>),
             IF toBool(getOneOfN(d, "", <<"echforcequery", "ech force query">>), FALSE) THEN ServerName(d) ELSE "">>)
EchBy(word, d) ==
  CASE word \in EchOff -> Empty
    [] word \in DOMAIN Pem -> "tls.ech.enabled" :> "true" @@ "tls.ech.config" :> Pem[word]
    [] word \in EchShort -> "tls.ech.enabled" :> "true" @@ Opt("tls.ech.query_server_name", EchQueryName(d))
    [] OTHER -> Empty
EchOptions(d) == IF "ech" \in DOMAIN d THEN EchBy(Through(RepairPlus, d["ech"]), d) ELSE Empty

normalizeTLSVersion(word) ==
  CASE word \in {"1.2", "tls1.2"} -> "1.2" [] word \in {"1.3", "tls1.3"} -> "1.3" [] OTHER -> ""
normalizeRealityPublicKey(key) == Through("key+std=" :> "key-std", key)
normalizeRealityShortID(sid) == IF sid \in {"not hex", "0123456789abcdef0"} THEN "" ELSE sid

\* The fingerprint: none and unsafe switch uTLS off, and reality cannot do without it.
Fingerprint(d) ==
  IF Get(d, "fp") \notin {"", "none", "unsafe"} THEN d["fp"] ELSE IF SaysReality(d) THEN "chrome" ELSE ""
Utls(fp) == IF fp = "" THEN Empty ELSE "tls.utls.enabled" :> "true" @@ "tls.utls.fingerprint" :> fp

\* The ALPN that the transport can carry.
CarriedAlpn == [httpupgrade |-> "http/1.1", ws |-> "http/1.1", grpc |-> "h2", h2 |-> "h2"]
ClampAlpn(d) ==
  IF Get(d, "alpn") = "" THEN ""
  ELSE FirstSet(<<Get(CarriedAlpn, getOneOfN(d, "", <<"net", "type">>)), d["alpn"]>>)

\* uTLS cannot speak HTTP/3: without reality it goes, with reality the ALPN does.
AlpnAndUtls(d, alpn) ==
  IF getALPNversion(alpn) # 3 THEN Opt("tls.alpn", alpn) @@ Utls(Fingerprint(d))
  ELSE IF SaysReality(d) THEN Utls(Fingerprint(d)) ELSE Opt("tls.alpn", alpn)

SkipsVerify(d) == Flag("tls.insecure", getOneOfN(d, "false", <<"insecure", "allowinsecure">>) \in {"true", "1"})

getTLSOptions(d) ==
  IF ~SaysTLS(d) THEN Empty
  ELSE "tls.enabled" :> "true"
       @@ Opt("tls.server_name", ServerName(d))
       @@ SkipsVerify(d)
       @@ Flag("tls.disable_sni", toBool(Get(d, "nosni"), FALSE))
       @@ EchOptions(d)
       @@ Flag("tls.tls_tricks.mixedcase_sni", Get(d, "mc") = "1")
       @@ AlpnAndUtls(d, ClampAlpn(d))
       @@ Opt("tls.min_version", normalizeTLSVersion(getOneOfN(d, "", <<"minversion", "min version">>)))
       @@ Opt("tls.max_version", normalizeTLSVersion(getOneOfN(d, "", <<"maxversion", "max version">>)))
       @@ (IF SaysReality(d)
           THEN "tls.reality.enabled" :> "true"
                @@ Opt("tls.reality.public_key", normalizeRealityPublicKey(Get(d, "pbk")))
                @@ Opt("tls.reality.short_id", normalizeRealityShortID(Get(d, "sid")))
           ELSE Empty)

-----------------------------------------------------------------------------
(* Multiplexing (common.go). *)

normalizeMuxProtocol(word) ==
  CASE word \in {"h2", "h2mux"} -> "h2mux" [] word \in {"smux", "yamux"} -> word [] OTHER -> ""

getMuxOptions(d) ==
  LET protocol == normalizeMuxProtocol(Get(d, "muxtype"))
      up == toInt(Get(d, "muxup"))
      down == toInt(Get(d, "muxdown"))
  IN  IF protocol = "" THEN Empty
      ELSE "multiplex.enabled" :> "true" @@ "multiplex.protocol" :> protocol
           @@ Opt("multiplex.max_connections", toInt(Get(d, "muxmaxc")))
           @@ Opt("multiplex.max_streams", toInt(Get(d, "muxsmax")))
           @@ Opt("multiplex.min_streams", toInt(Get(d, "mux")))
           @@ Flag("multiplex.padding", Get(d, "muxpad") = "true")
           @@ (IF up # "" /\ down # ""
               THEN "multiplex.brutal.enabled" :> "true" @@ "multiplex.brutal.up_mbps" :> up
                    @@ "multiplex.brutal.down_mbps" :> down
               ELSE Empty)

-----------------------------------------------------------------------------
(* Transport (common.go). *)

HeaderTypes == {"none", "srtp", "utp", "wechat-video", "dtls", "wireguard", "dns"}
Aliases == "" :> "tcp" @@ "raw" :> "tcp" @@ "h2" :> "http" @@ "splithttp" :> "xhttp"
           @@ "websocket" :> "ws"

\* The transport a link asks for: `net`, or `type` where that is not a header type.
Network(d) ==
  LET type == Get(d, "type")
      named == IF Get(d, "net") # "" THEN d["net"] ELSE IF type \in HeaderTypes THEN "tcp" ELSE type
      plain == named \in {"", "raw", "tcp"}
  IN  IF plain /\ "http" \in {type, Get(d, "headertype")} THEN "http" ELSE Through(Aliases, named)

\* What getTransportOptions leaves in decoded["alpn"].
AlpnOf == [httpupgrade |-> "http/1.1", ws |-> "http/1.1", grpc |-> "h2", quic |-> "h3", xhttp |-> "h2"]
AfterTransport(d) ==
  IF Network(d) \in DOMAIN AlpnOf THEN Default(d, "alpn", AlpnOf[Network(d)]) ELSE d

\* Paths of the vocabulary: one without the slash, and one with early data in its query.
WithSlash == "p" :> "/p"
EarlyData == "/p?ed=2048" :> [path |-> "/p", ed |-> "2048"]
PathAndEarlyData(word, headerName) ==
  LET path == Through(WithSlash, word)
      stripped == IF path \in DOMAIN EarlyData THEN EarlyData[path] ELSE [path |-> path, ed |-> ""]
  IN  IF path = "" THEN Empty
      ELSE "transport.path" :> stripped.path @@ Opt("transport.max_early_data", stripped.ed)
           @@ Opt("transport.early_data_header_name", headerName)

HttpTransport(d, path) ==
  LET method == getOneOfN(d, "", <<"method", "http method">>)
  IN  "transport.type" :> "http"
      @@ Opt("transport.method", IF method # "" THEN method ELSE IF Get(d, "security") # "tls" THEN "GET" ELSE "")
      @@ Opt("transport.host", Get(d, "host")) @@ "transport.path" :> FirstSet(<<path, "/">>)
      @@ Opt("transport.headers", getOneOfN(d, "", <<"headers">>))

HttpUpgradeTransport(d, path) ==
  "transport.type" :> "httpupgrade" @@ Opt("transport.headers.Host", Get(d, "host"))
  @@ PathAndEarlyData(path, "")

WebsocketTransport(d, path) ==
  "transport.type" :> "ws" @@ Opt("transport.headers.Host", Get(d, "host"))
  @@ Opt("transport.heartbeat_period",
         toInt(getOneOfN(d, "", <<"heartbeatperiod", "heartbeat period", "heartbeat">>)))
  @@ PathAndEarlyData(path, "Sec-WebSocket-Protocol")

GrpcTransport(d, path) ==
  "transport.type" :> "grpc" @@ Opt("transport.service_name", path)
  @@ "transport.idle_timeout" :> FirstSet(<<toInt(getOneOfN(d, "", <<"idle timeout", "idletimeout">>)), "15">>)
  @@ "transport.ping_timeout" :>
       FirstSet(<<toInt(getOneOfN(d, "", <<"health check timeout", "healthchecktimeout">>)), "15">>)
  @@ Flag("transport.permit_without_stream",
          toBool(getOneOfN(d, "", <<"permit without stream", "permitwithoutstream">>), FALSE))
  @@ Opt("transport.authority", getOneOfN(d, "", <<"authority">>))
  @@ Opt("transport.user_agent", getOneOfN(d, "", <<"user agent", "useragent">>))

\* The download leg of an xhttp split: both dialects of XHTTPExtra folded into one,
\* Xray's spelling first (xhttp_extra.go), then built.
DownloadSettings(x) ==
  LET sbTls == Get(x, "tls") # "" /\ Get(x, "security") = ""
  IN  [path |-> Get(x, "path"), address |-> FirstSet(<<Get(x, "address"), Get(x, "server")>>),
       port |-> FirstSet(<<Get(x, "port"), Get(x, "server_port")>>),
       security |-> IF sbTls THEN x["tls"] ELSE Get(x, "security"),
       sni |-> FirstSet(<<Get(x, "serverName"), IF sbTls THEN Get(x, "server_name") ELSE "">>),
       fp |-> FirstSet(<<Get(x, "fingerprint"), IF sbTls THEN Get(x, "utls") ELSE "">>)]
DownloadTransport(dl, path) ==
  Opt("transport.download.server", dl.address) @@ Opt("transport.download.server_port", dl.port)
  @@ Opt("transport.download.path", FirstSet(<<dl.path, path>>))
  @@ (IF dl.security \in {"tls", "reality"}
      THEN "transport.download.tls" :> dl.security @@ Opt("transport.download.tls.server_name", dl.sni)
           @@ Opt("transport.download.tls.utls", dl.fp)
      ELSE Empty)

\* extra= is a JSON blob of its own, here one of a few words with their contents; a blob
\* that does not parse even after normalization loses its knobs, never the node.
Extras == [
  none    |-> Empty,
  host    |-> "host" :> "cdn.example" @@ "path" :> "/x",
  knobs   |-> "xmux" :> "8",
  quoted  |-> "xmux" :> "8",                                   \* the number in quotes
  splitX  |-> "download" :> "x", splitS |-> "download" :> "s",
  garbage |-> Empty]
Downloads == [
  x |-> "address" :> "dl.example" @@ "port" :> "443" @@ "security" :> "tls" @@ "serverName" :> "dl.example",
  s |-> "server" :> "dl.example" @@ "server_port" :> "443" @@ "tls" :> "tls" @@ "server_name" :> "dl.example"]

Extra(d) == IF Get(d, "extra") \in DOMAIN Extras THEN Extras[d["extra"]] ELSE Empty
XhttpTransport(d, path, extra) ==
  "transport.type" :> "xhttp"
  @@ Opt("transport.mode", getOneOfN(d, "auto", <<"mode">>))
  @@ Opt("transport.host", FirstSet(<<Get(d, "host"), Get(extra, "host")>>))
  @@ Opt("transport.path", FirstSet(<<path, Get(extra, "path")>>))
  @@ Opt("transport.xmux", Get(extra, "xmux"))
  @@ (IF "download" \in DOMAIN extra THEN DownloadTransport(DownloadSettings(Downloads[extra["download"]]), path)
      ELSE Empty)
  @@ Opt("transport.headers", getOneOfN(d, "", <<"headers">>))

\* No transport (tcp) is the map without keys; h3, kcp and unknown names are errors, and
\* QUIC without TLS too.
getTransportOptions(d) ==
  LET net == Network(d)
      path == FirstSet(<<Get(d, "path"),
                         getOneOfN(d, "", <<"servicename", "service name", "grpc service name">>)>>)
  IN  CASE net = "tcp" -> Empty
        [] net = "http" -> HttpTransport(d, path)
        [] net = "httpupgrade" -> HttpUpgradeTransport(d, path)
        [] net = "ws" -> WebsocketTransport(d, path)
        [] net = "grpc" -> GrpcTransport(d, path)
        [] net = "quic" -> IF SaysTLS(d) THEN "transport.type" :> "quic" ELSE Failed
        [] net = "xhttp" -> XhttpTransport(d, path, Extra(d))
        [] OTHER -> Failed

-----------------------------------------------------------------------------
(* One parser for each scheme (configTypes of convert.go).  All of them but those of vmess, ss, *)
(* hysteria2 and dnstt begin with ParseUrl, and are given its result: configTypes has the port. *)

Outbound(type, tag, options) == Put(Opt("tag", tag) @@ options, "type", type)

\* The transport may refuse; TLS is read from what the transport left in `decoded`.
With(transport, d, options) ==
  IF IsFailed(transport) THEN Failed
  ELSE options @@ transport @@ getTLSOptions(AfterTransport(d)) @@ getMuxOptions(d)
Carried(d, options) == With(getTransportOptions(d), d, options)
OrFailed(type, tag, options) == IF IsFailed(options) THEN Failed ELSE Outbound(type, tag, options)

VisionFlows == {"xtls-rprx-vision", "xtls-rprx-vision-udp443"}
normalizePacketEncoding(word) == IF word \in {"packetaddr", "xudp"} THEN word ELSE ""

VlessSingbox(p) ==
  LET d == p.params
      flow == Get(d, "flow")
  IN  IF Get(d, "encryption") \notin {"", "none"} \/ flow \notin VisionFlows \cup {"", "none"} THEN Failed
      ELSE OrFailed("vless", p.name,
             Carried(d, GetServerOption(p) @@ Opt("uuid", p.user)
               @@ Opt("flow", IF flow \in VisionFlows THEN "xtls-rprx-vision" ELSE "")
               @@ "packet_encoding" :> IF Get(d, "packetencoding") = "" THEN "xudp"
                                       ELSE normalizePacketEncoding(d["packetencoding"])))

TrojanSingbox(p) ==
  LET d == IF Get(p.params, "security") = "" /\ Get(p.params, "tls") = ""
           THEN Put(p.params, "security", "tls") ELSE p.params
  IN  IF Get(d, "flow") \notin {"", "none"} THEN Failed
      ELSE OrFailed("trojan", p.name, Carried(d, GetServerOption(p) @@ Opt("password", Recombined(p))))

\* The two bodies of vmess://: JSON, whose keys keep their case (a lower-case copy is added),
\* and the forms with an authority, whose words are turned into those of the JSON.
decodeVmessJSON(u) ==
  LET lower == "Host" :> "host" @@ "allowInsecure" :> "allowinsecure" @@ "serviceName" :> "servicename"
      added == {k \in DOMAIN lower \cap DOMAIN u.q : lower[k] \notin DOMAIN u.q}
      d == u.q @@ [k \in {lower[k] : k \in added} |-> u.q[CHOOSE k0 \in added : lower[k0] = k]]
      tls == IF Get(d, "tls") \in {"true", "1"} THEN Put(d, "tls", "tls") ELSE d
  IN  IF u.name = "" THEN tls ELSE Put(tls, "ps", u.name)

decodeVmessURIForm(p) ==
  LET d == p.params
      tls == IF Get(d, "security") \in {"tls", "reality"} THEN d["security"]
             ELSE IF Get(d, "tls") \in {"1", "true"} THEN "tls" ELSE Get(d, "tls")
      obfs == Get(d, "obfs")
      scy == FirstSet(<<Get(d, "scy"), IF p.pass = "" THEN "" ELSE p.user, Get(d, "encryption")>>)
  IN  "id" :> (IF p.pass = "" THEN p.user ELSE p.pass) @@ "add" :> p.host @@ "port" :> p.port
      @@ Opt("ps", FirstSet(<<p.name, Get(d, "remarks"), Get(d, "ps")>>)) @@ Opt("scy", scy) @@ Opt("tls", tls)
      @@ (IF obfs \in {"websocket", "ws"} THEN "net" :> "ws"
          ELSE IF obfs = "http" THEN "net" :> "tcp" @@ "type" :> "http"
          ELSE IF obfs = "none" THEN "net" :> FirstSet(<<Get(d, "net"), "tcp">>) ELSE Empty)
      @@ Opt("host", FirstSet(<<Get(d, "host"), Get(d, "obfsparam")>>))
      @@ Opt("aid", FirstSet(<<Get(d, "aid"), Get(d, "alterid")>>))
      @@ Opt("insecure", FirstSet(<<Get(d, "insecure"), Get(d, "allowinsecure")>>)) @@ d

VmessCiphers == {"auto", "none", "zero", "aes-128-cfb", "aes-128-gcm", "chacha20-poly1305"}
normalizeVmessSecurity(scy) ==
  LET word == Through("chacha20-ietf-poly1305" :> "chacha20-poly1305", scy)
  IN  IF word \in VmessCiphers THEN word ELSE "auto"

VmessOutbound(decoded) ==
  LET d == IF Get(decoded, "tls") = "tls" THEN Default(decoded, "fp", "chrome") ELSE decoded
  IN  OrFailed("vmess", Get(d, "ps"),
        Carried(d, Opt("server", Get(d, "add")) @@ "server_port" :> toUInt16(Get(d, "port"), "443")
          @@ Opt("uuid", Get(d, "id")) @@ "security" :> normalizeVmessSecurity(Get(d, "scy"))
          @@ Opt("alter_id", toInt(Get(d, "aid")))
          @@ Flag("authenticated_length", Get(d, "authenticatedLength") = "true")
          @@ Opt("packet_encoding", normalizePacketEncoding(Get(d, "packetEncoding")))))
VmessSingbox(u) == VmessOutbound(IF u.form = "json" THEN decodeVmessJSON(u) ELSE decodeVmessURIForm(ParseUrl(u, "443")))

ssSupportedMethods == {"none", "aes-128-gcm", "chacha20-ietf-poly1305", "2022-blake3-aes-128-gcm"}
normalizeSSMethod == "dummy" :> "none" @@ "plain" :> "none" @@ "chacha20-poly1305" :> "chacha20-ietf-poly1305"
                     @@ "aead_aes_128_gcm" :> "aes-128-gcm"
normalizeSS2022Password == "psk-url" :> "psk+std="
\* A SIP003 plugin is its name and what follows the first unescaped ';'.
Plugins == "obfs-local;obfs=http" :> <<"obfs-local", "obfs=http">> @@ "obfs;obfs=http" :> <<"obfs-local", "obfs=http">>
           @@ "v2ray-plugin;tls" :> <<"v2ray-plugin", "tls">> @@ "xray-plugin;tls" :> <<"v2ray-plugin", "tls">>
           @@ "obfs-local" :> <<"obfs-local", "">> @@ "" :> <<"", "">>

\* normalizeLegacyShadowsocks only undoes the form "b64all"; a lone userinfo is the password.
ShadowsocksSingbox(p, form) ==
  LET d == p.params
      named == p.pass # "" \/ form = "b64all"
      method == Through(normalizeSSMethod, IF named THEN p.user ELSE "none")
      secret == IF named THEN p.pass ELSE p.user
      plugin == Get(d, "plugin")
      uot == toBool(getOneOfN(d, "", <<"uot", "udp over tcp">>), FALSE)
  IN  IF plugin \notin DOMAIN Plugins \/ method \notin ssSupportedMethods THEN Failed
      ELSE Outbound("shadowsocks", p.name,
             GetServerOption(p) @@ "method" :> method
             @@ Opt("password", IF method = "2022-blake3-aes-128-gcm" THEN Through(normalizeSS2022Password, secret)
                                                                       ELSE secret)
             @@ Opt("plugin", Plugins[plugin][1]) @@ Opt("plugin_opts", Plugins[plugin][2])
             @@ (IF uot THEN "udp_over_tcp.enabled" :> "true"
                             @@ Opt("udp_over_tcp.version", toInt(getOneOfN(d, "", <<"uot version">>)))
                 ELSE getMuxOptions(d)))

\* hysteria2 and tuic read ech= on their own: every value but "0" switches ECH on.
EchByPresence(d) == Flag("tls.ech.enabled", "ech" \in DOMAIN d /\ Get(d, "ech") # "0")
HopPorts == "20000-30000" :> "20000:30000" @@ "443,8443" :> "443:443,8443:8443"
Hops(d, authority) ==
  LET spec == FirstSet(<<authority, getOneOfN(d, "", <<"mport", "ports">>)>>)
      interval == toInt(getOneOfN(d, "", <<"hop interval", "hopinterval">>))
  IN  IF spec = "" THEN Empty
      ELSE "server_ports" :> Through(HopPorts, spec) @@ "hop_interval" :> FirstSet(<<interval, "30">>)
LowPort == "20000-30000" :> "20000" @@ "443,8443" :> "443"
mbps == "100 mbps" :> "100" @@ "100" :> "100"          \* parseMbpsHint

\* `authority` is the port as it is written: extractHostPortRange takes a range from it.
Hysteria2Singbox(p, authority) ==
  LET ranged == authority \in DOMAIN LowPort
      d == p.params
      sni == FirstSet(<<Get(d, "sni"), Get(d, "hostname")>>)
      insecure == toBool(Get(d, "insecure"), FALSE)
      rate(keys) == LET word == getOneOfN(d, "", keys) IN IF word \in DOMAIN mbps THEN mbps[word] ELSE ""
  IN  IF getOneOfN(d, "", <<"pinsha256", "pin sha256">>) # "" /\ ~insecure THEN Failed
      ELSE Outbound("hysteria2", p.name,
             (IF ranged THEN Opt("server", p.host) @@ "server_port" :> LowPort[authority] ELSE GetServerOption(p))
             @@ Opt("password", Recombined(p))
             @@ (IF Get(d, "obfs") = "" THEN Empty
                 ELSE "obfs.type" :> d["obfs"]
                      @@ Opt("obfs.password", getOneOfN(d, "", <<"obfs password", "obfspassword">>)))
             @@ "tls.enabled" :> "true" @@ Flag("tls.insecure", insecure) @@ Flag("tls.disable_sni", IsIP(sni))
             @@ Opt("tls.server_name", sni) @@ EchByPresence(d) @@ Opt("tls.alpn", getOneOfN(d, "", <<"alpn">>))
             @@ Opt("up_mbps", rate(<<"upmbps", "up">>)) @@ Opt("down_mbps", rate(<<"downmbps", "down">>))
             @@ Hops(d, IF ranged THEN authority ELSE ""))

TuicSingbox(p) ==
  LET d == p.params
      overStream == toBool(getOneOfN(d, "", <<"udp over stream">>), FALSE)
      sni == FirstSet(<<Get(d, "sni"), p.host>>)
  IN  IF Get(d, "version") = "4" \/ ~LooksLikeUUID(p.user) THEN Failed
      ELSE Outbound("tuic", p.name,
             GetServerOption(p) @@ "uuid" :> p.user @@ Opt("password", p.pass)
             @@ Opt("congestion_control", getOneOfN(d, "", <<"congestion control", "congestioncontrol">>))
             @@ (IF overStream THEN "udp_over_stream" :> "true"
                 ELSE Opt("udp_relay_mode", getOneOfN(d, "", <<"udp relay mode", "udprelaymode">>)))
             @@ Flag("zero_rtt_handshake", toBool(getOneOfN(d, "", <<"zero rtt handshake", "zero rtt", "0rtt">>), FALSE))
             @@ "heartbeat" :> FirstSet(<<toInt(getOneOfN(d, "", <<"heartbeat">>)), "10">>)
             @@ "tls.enabled" :> "true" @@ Opt("tls.server_name", sni)
             @@ Flag("tls.disable_sni", toBool(getOneOfN(d, "", <<"disable sni", "disablesni">>), FALSE) \/ IsIP(sni))
             @@ Flag("tls.insecure", toBool(getOneOfN(d, "", <<"insecure", "allowinsecure", "allow insecure">>), FALSE))
             @@ Opt("tls.alpn", getOneOfN(d, "", <<"alpn">>)) @@ EchByPresence(d))

\* The last Atoi decides: without a number in downmbps the link is an error.
HysteriaSingbox(p) ==
  LET d == p.params
      sni == Get(d, "peer")
  IN  IF Get(d, "protocol") \notin {"", "udp"} \/ Get(d, "downmbps") \notin Numbers THEN Failed
      ELSE Outbound("hysteria", p.name,
             GetServerOption(p) @@ "tls.enabled" :> "true" @@ Flag("tls.disable_sni", IsIP(sni))
             @@ Opt("tls.server_name", sni) @@ Flag("tls.insecure", toBool(Get(d, "insecure"), FALSE))
             @@ Opt("tls.alpn", Get(d, "alpn")) @@ Opt("auth_str", Get(d, "auth"))
             @@ Opt("up_mbps", toInt(Get(d, "upmbps"))) @@ "down_mbps" :> d["downmbps"]
             @@ Opt("obfs", getOneOfN(d, "", <<"obfsparam", "obfs">>))
             @@ (LET spec == getOneOfN(d, "", <<"mport", "ports">>)
                 IN IF spec = "" THEN Empty
                    ELSE "server_ports" :> Through(HopPorts, spec) @@ "hop_interval" :> "30"))

ShadowTLSSingbox(p) ==
  LET d == IF SaysReality(p.params) THEN p.params ELSE Put(p.params, "security", "tls")
      version == Get(d, "version")
  IN  Outbound("shadowtls", p.name,
        GetServerOption(p) @@ "version" :> (IF version \in {"1", "2", "3"} THEN version ELSE "3")
        @@ Opt("password", FirstSet(<<p.pass, p.user>>)) @@ getTLSOptions(d))

AnyTLSSingbox(p) ==
  LET d == p.params
      sni == FirstSet(<<getOneOfN(d, "", <<"sni", "host">>), p.host>>)
      number(key, name) == Opt(key, toInt(getOneOfN(d, "", <<name>>)))
  IN  Outbound("anytls", p.name,
        GetServerOption(p) @@ Opt("password", Recombined(p))
        @@ (IF SaysTLS(d) THEN getTLSOptions(d)
            ELSE "tls.enabled" :> "true" @@ "tls.server_name" :> sni @@ SkipsVerify(d)
                 @@ Opt("tls.alpn", Get(d, "alpn")) @@ Utls(Get(d, "fp")))
        @@ number("idle_session_check_interval", "idlesessioncheckinterval")
        @@ number("idle_session_timeout", "idlesessiontimeout") @@ number("min_idle_session", "minidlesession"))

\* cronet terminates TLS: what its outbound refuses is taken out again.
NaiveRefuses == {"tls.alpn", "tls.insecure", "tls.disable_sni", "tls.utls.enabled", "tls.utls.fingerprint",
                 "tls.min_version", "tls.max_version", "tls.reality.enabled", "tls.reality.public_key",
                 "tls.reality.short_id"}
NaiveSingbox(p) ==
  LET d == Put(p.params, "security", "tls")
      qcc == Through("bbrv2" :> "bbr2", getOneOfN(d, "", <<"quic congestion control">>))
  IN  Outbound("naive", p.name,
        GetServerOption(p) @@ Opt("username", p.user) @@ Opt("password", p.pass)
        @@ Opt("insecure_concurrency", toInt(getOneOfN(d, "0", <<"insecure concurrency">>)))
        @@ Opt("extra_headers", Get(d, "header"))
        @@ Flag("quic", p.scheme = "naive+quic" \/ Get(d, "quic") # "")
        @@ Opt("quic_congestion_control", IF qcc \in {"bbr", "bbr2", "cubic", "reno"} THEN qcc ELSE "")
        @@ Flag("udp_over_tcp.enabled", Get(d, "uot") \notin {"false", "0"})
        @@ Without(getTLSOptions(d), NaiveRefuses))

\* One binding for each protocol; the port of the authority stands in for a missing one.
Lists == "TCP,UDP" :> <<"TCP", "UDP">> @@ "8443,443" :> <<"8443", "443">> @@ "TCP,TCP" :> <<"TCP", "TCP">>
         @@ "8443,20000-30000" :> <<"8443", "20000-30000">> @@ "443,8443,443" :> <<"443", "8443", "443">>
ListOf(word) == IF word \in DOMAIN Lists THEN Lists[word] ELSE <<word>>
Bound(protocols, ports) ==
  IF Len(protocols) # Len(ports) THEN <<>>
  ELSE [i \in DOMAIN ports |-> <<FirstSet(<<protocols[i], "TCP">>),
                                 IF ports[i] \in Numbers \cup {"20000-30000"} THEN ports[i] ELSE "">>]
WithPort(protocols, listed, port) ==
  Bound(protocols, IF Len(protocols) = Len(listed) + 1 THEN <<port>> \o listed ELSE listed)
MieruBindings(d, port) ==
  LET from(protocols) ==
        IF Get(d, "port") # "" \/ port = "" THEN WithPort(protocols, ListOf(Get(d, "port")), port)
        ELSE Bound(protocols, [i \in DOMAIN protocols |-> port])
  IN  from(ListOf(Get(d, "protocol")))
\* The bindings as one word, as a list in flattened JSON.
Binding(b) == b[1] \o ":" \o b[2]
BindingsText(bs) == IF Len(bs) = 1 THEN Binding(bs[1]) ELSE Binding(bs[1]) \o " " \o Binding(bs[2])

MieruSingbox(p) ==
  LET d == p.params
      mtu == toInt(Get(d, "mtu"))
      outbound(bindings) ==
        IF bindings = <<>> THEN Failed
        ELSE Outbound("mieru", p.name,
             Opt("server", p.host) @@ Opt("username", p.user) @@ Opt("password", p.pass)
             @@ "portBindings" :> BindingsText(bindings) @@ Opt("multiplexing", Get(d, "multiplexing"))
             @@ Opt("handshake_mode", getOneOfN(d, "", <<"handshake mode", "handshakemode">>))
             @@ Opt("mtu", IF mtu \in {"1280", "1400"} THEN mtu ELSE ""))
  IN  outbound(MieruBindings(d, p.port))

SSHSingbox(p) ==
  LET d == p.params
  IN  Outbound("ssh", p.name,
        GetServerOption(p) @@ Opt("user", p.user) @@ Opt("password", p.pass)
        @@ Opt("private_key", Get(d, "pk")) @@ Opt("private_key_passphrase", getOneOfN(d, "", <<"pk passphrase">>))
        @@ Opt("host_key", Get(d, "hk")) @@ Opt("host_key_algorithms", Get(d, "hka"))
        @@ Opt("client_version", getOneOfN(d, "", <<"client version">>)) @@ "udp_over_tcp.enabled" :> "true")

\* Base64 userinfo is decoded here too; the version comes from the link or from its scheme.
SocksVersions == "4" :> "4" @@ "4a" :> "4a" @@ "5" :> "5" @@ "socks5" :> "5" @@ "5h" :> "5"
SocksSchemes == "socks4" :> "4" @@ "socks4a" :> "4" @@ "socks5" :> "5" @@ "socks5h" :> "5"
SocksSingbox(p) ==
  LET version == getOneOfN(p.params, "", <<"v", "ver", "version">>)
  IN  IF version # "" /\ version \notin DOMAIN SocksVersions THEN Failed
      ELSE Outbound("socks", p.name,
             GetServerOption(p) @@ Opt("username", p.user) @@ Opt("password", p.pass)
             @@ Opt("version", IF version # "" THEN SocksVersions[version] ELSE Get(SocksSchemes, p.scheme))
             @@ Flag("udp_over_tcp.enabled", toBool(Get(p.params, "uot"), FALSE)))

HttpSingbox(p) ==
  LET d == p.params
      tls == Get(d, "tls") \in {"tls", "1", "true"} \/ Get(d, "sni") # ""
  IN  Outbound("http", p.name,
        GetServerOption(p) @@ Opt("username", p.user) @@ Opt("password", p.pass) @@ Opt("path", Get(d, "path"))
        @@ Flag("tls.enabled", tls) @@ Opt("tls.server_name", Get(d, "sni"))
        @@ Flag("tls.insecure", tls /\ toBool(Get(d, "insecure"), FALSE)))

HttpsSingbox(p) ==
  LET d == p.params
  IN  Outbound("http", p.name,
        GetServerOption(p) @@ Opt("username", p.user) @@ Opt("password", p.pass) @@ Opt("path", Get(d, "path"))
        @@ "tls.enabled" :> "true" @@ Opt("tls.server_name", Get(d, "sni"))
        @@ Flag("tls.insecure", toBool(Get(d, "insecure"), FALSE)))

DnsttSingbox(u) ==
  IF "" \in {u.host, Get(u.q, "pubkey")} THEN Failed
  ELSE Outbound("dnstt", FirstSet(<<u.name, u.host>>),
         "domain" :> u.host @@ "pubkey" :> u.q["pubkey"] @@ Opt("resolver", Get(u.q, "resolver")))

PsiphonSingbox(p) == Outbound("psiphon", p.name, Opt("egress_region", getOneOfN(p.params, "", <<"region">>)))
DirectSingbox(p) == Outbound("direct", p.name, Empty)

\* A pair: the vless server that is asked for, and the tunnel that it is reached through.
UTProtoSingbox(p) ==
  LET uuid == Get(p.params, "vless uuid")
      tag == FirstSet(<<p.name, p.host>>)
      helper == "utproto-" \o tag
  IN  IF "" \in {p.user, uuid} THEN [main |-> Failed, helper |-> Failed]
      ELSE [main |-> Outbound("vless", tag, "detour" :> helper @@ "server" :> p.host @@ "uuid" :> uuid
                       @@ "server_port" :> toUInt16(Get(p.params, "vless port"), "19999")),
            helper |-> Outbound("utproto", helper, GetServerOption(p) @@ "secret" :> p.user
                         @@ "tls_domain" :> getOneOfN(p.params, "learn.microsoft.com", <<"tls domain">>))]
=============================================================================
