----------------------------- MODULE LinkEndpoint -----------------------------
(***************************************************************************)
(* WireGuard and AmneziaWG (awg.go, wireguard.go, warp.go): endpoints from *)
(* a wg-quick file and from a link.  A file is its [Interface] section and *)
(* the sequence of its [Peer] sections, maps with the canonical spelling   *)
(* (canonicalWgKey) in lower case; a key, address or number is a word.     *)
(*                                                                         *)
(* One bad value does not fail one peer: it kills the whole profile when   *)
(* the device starts, so the parsers refuse it here, or drop it.           *)
(***************************************************************************)
EXTENDS LinkParse, SequencesExt

Prefixed(prefix, m) ==
  [key \in {prefix \o k : k \in DOMAIN m} |-> m[CHOOSE k \in DOMAIN m : prefix \o k = key]]

\* normalizeWgKey: the standard alphabet with padding, 32 bytes; an empty key stays empty.
WgKeys == "wg key" :> "wg key" @@ "wg key url-safe" :> "wg key" @@ "wg key 2" :> "wg key 2" @@ "wg psk" :> "wg psk"
BadKey(word) == word # "" /\ word \notin DOMAIN WgKeys
normalizeWgKey(word) == IF word = "" THEN "" ELSE WgKeys[word]

\* The obfuscation of AmneziaWG: numbers, magic headers and chains of tags.
AwgNumbers == {"jc", "jmin", "jmax", "s1", "s2", "s3", "s4", "itime"}
AwgHeaders == {"h1", "h2", "h3", "h4"}
AwgChains  == {"i1", "i2", "i3", "i4", "i5"}
AwgPlain   == {"j1", "j2", "j3"}
AwgFields  == AwgNumbers \cup AwgHeaders \cup AwgChains \cup AwgPlain

validateMagicHeader(spec) == spec \in {"", "1", "2", "100", "5-100"}          \* not "0x1", not "100-5"
validateObfSpec(spec) == spec \in {"", "<b 0x01>", "<r 8><t>"}                \* not "<c>", not "<r -1>", not "<b"
\* clampAwgInt: a number below its minimum is dropped, and so is a word that is no number.
clampAwgInt(word) == toInt(word)

Obfuscation(m) ==
  [key \in {k \in AwgFields \cap DOMAIN m : m[k] # "" /\ (k \in AwgNumbers => clampAwgInt(m[k]) # "")} |-> m[key]]
ObfuscationIsValid(m) ==
  /\ \A k \in AwgHeaders : validateMagicHeader(Get(m, k))
  /\ \A k \in AwgChains : validateObfSpec(Get(m, k))

\* parseReservedList and the Reserved of a file: no byte or exactly three; parseAddrOrPrefix.
BadReserved(word) == word \notin {"", "1,2,3"}
BadAddress(word) == word = "not an address"
AllAddresses == "0.0.0.0/0,::/0"

\* A peer of an endpoint; what is missing in the source gets its default.
Peer(address, port, public, psk, allowed, keepalive, reserved) ==
  Opt("address", address) @@ Opt("port", port) @@ "public_key" :> normalizeWgKey(public)
  @@ Opt("pre_shared_key", normalizeWgKey(psk)) @@ "allowed_ips" :> FirstSet(<<allowed, AllAddresses>>)
  @@ Opt("persistent_keepalive_interval", toInt(keepalive)) @@ Opt("reserved", reserved)

Endpoint(tag, plainTag, private, address, mtu, obfuscation, peers) ==
  "type" :> (IF obfuscation = Empty THEN "wireguard" ELSE "awg")
  @@ "tag" :> (IF tag # "" THEN tag ELSE IF obfuscation = Empty THEN plainTag[1] ELSE plainTag[2])
  @@ "private_key" :> normalizeWgKey(private) @@ Opt("address", address) @@ Opt("mtu", toInt(mtu)) @@ obfuscation
  @@ (IF Len(peers) = 1 THEN Prefixed("peers.1.", peers[1])
      ELSE Prefixed("peers.1.", peers[1]) @@ Prefixed("peers.2.", peers[2]))

-----------------------------------------------------------------------------
(* wg-quick files. *)

\* Errors while the lines are read, then those of the whole file.
IniRefused(ini) ==
  LET bad(p) == \/ BadAddress(Get(p, "allowedips")) \/ Get(p, "endpoint") = "no port"
                \/ Get(p, "address") = "" \/ Get(p, "port") = "" \/ Get(p, "publickey") = ""
                \/ BadKey(Get(p, "publickey")) \/ BadKey(Get(p, "presharedkey")) \/ BadReserved(Get(p, "reserved"))
  IN  \/ BadAddress(Get(ini.interface, "address"))
      \/ Get(ini.interface, "privatekey") = "" \/ BadKey(Get(ini.interface, "privatekey"))
      \/ ini.peers = <<>> \/ \E i \in DOMAIN ini.peers : bad(ini.peers[i])
      \/ ~ObfuscationIsValid(ini.interface)

AWGSingboxTxt(ini) ==
  LET i == ini.interface
      peer(p) == Peer(Get(p, "address"), Get(p, "port"), Get(p, "publickey"), Get(p, "presharedkey"),
                      Get(p, "allowedips"), Get(p, "persistentkeepalive"), Get(p, "reserved"))
  IN  IF IniRefused(ini) THEN Failed
      ELSE Endpoint("", <<"wireguard", "awg">>, i["privatekey"], Get(i, "address"), Get(i, "mtu"), Obfuscation(i),
                    [n \in DOMAIN ini.peers |-> peer(ini.peers[n])])

-----------------------------------------------------------------------------
(* wg://, wireguard:// and awg:// links. *)

\* getWireGuardNoise: on as soon as one of its words is there.
getWireGuardNoise(d) ==
  LET word(keys) == getOneOfN(d, "", keys)
      mode == IF Get(d, "wnoise") = "quic" THEN "m4" ELSE Get(d, "ifpm")
      noise == Opt("noise.fake_packet.count", word(<<"ifp", "wnoisecount">>))
               @@ Opt("noise.fake_packet.delay", word(<<"ifpd", "wnoisedelay">>))
               @@ Opt("noise.fake_packet.size", word(<<"ifps", "wpayloadsize">>)) @@ Opt("noise.fake_packet.mode", mode)
  IN  IF noise = Empty THEN Empty ELSE "noise.fake_packet.enabled" :> "true" @@ noise

\* Direct lookups see the normalized keys only: keepalive has no spelling with '_'.
AWGSingbox(p) ==
  LET d == p.params
      word(keys) == getOneOfN(d, "", keys)
      private == FirstSet(<<word(<<"privatekey", "pk">>), p.user>>)
      public == word(<<"peerpublickey", "publickey", "pub", "peerpub">>)
      psk == word(<<"presharedkey", "psk">>)
      address == word(<<"ip", "address">>)
      allowed == word(<<"localaddress", "allowedips">>)
      peer == Peer(p.host, p.port, public, psk, allowed, word(<<"keepalive", "persistentkeepalive">>),
                   Get(d, "reserved"))
  IN  IF \/ DOMAIN d = {} \/ "" \in {private, public, p.host, p.port}
         \/ BadAddress(address) \/ BadAddress(allowed) \/ BadReserved(Get(d, "reserved"))
         \/ BadKey(private) \/ BadKey(public) \/ BadKey(psk) \/ ~ObfuscationIsValid(d)
      THEN Failed
      ELSE LET endpoint == Endpoint(p.name, <<"WG", "AWG">>, private, address, Get(d, "mtu"), Obfuscation(d), <<peer>>)
           IN  IF endpoint["type"] = "awg" THEN endpoint
               ELSE endpoint @@ getWireGuardNoise(d) @@ Opt("workers", toInt(Get(d, "workers")))

WarpSingbox(p) ==
  LET d == p.params
      key == getOneOfN(d, "", <<"privatekey", "pk">>)
  IN  IF BadKey(key) THEN Failed
      ELSE "type" :> "warp" @@ "tag" :> FirstSet(<<p.name, "WARP">>) @@ GetServerOption(p)
           @@ Opt("unique_identifier", p.user) @@ getWireGuardNoise(d) @@ Opt("mtu", toInt(Get(d, "mtu")))
           @@ Opt("profile.license", getOneOfN(d, "", <<"license", "key">>))
           @@ Opt("profile.id", getOneOfN(d, "", <<"id", "deviceid">>))
           @@ Opt("profile.auth_token", getOneOfN(d, "", <<"token", "authtoken">>))
           @@ Opt("profile.private_key", normalizeWgKey(key))
=============================================================================
