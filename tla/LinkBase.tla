------------------------------- MODULE LinkBase -------------------------------
(***************************************************************************)
(* What the converters of share links (xray2sing/ray2sing) have in common. *)
(*                                                                         *)
(* A JSON object, a YAML mapping and a Go map are functions from keys to   *)
(* strings; nested objects are flattened ("tls.server_name"), lists are    *)
(* one string with commas, a number or a Boolean is its text, and a field  *)
(* at its zero value is absent, as with `omitempty`.  A share link is a    *)
(* record of the parts url.Parse would give; its form says how they are    *)
(* written down, and its query is a map in the spelling of its author.     *)
(*                                                                         *)
(* Values are words of a small vocabulary.  The tables below say what the  *)
(* conversions of the code do to the words that they change; every other   *)
(* word is left as it is.                                                  *)
(***************************************************************************)
EXTENDS Integers, Sequences, TLC

Empty == <<>>                                   \* the map without keys
Failed == [failed |-> "true"]                   \* an error instead of a map
IsFailed(m) == "failed" \in DOMAIN m

Get(m, key) == IF key \in DOMAIN m THEN m[key] ELSE ""
Put(m, key, value) == [k \in DOMAIN m \cup {key} |-> IF k = key THEN value ELSE m[k]]
Opt(key, value) == IF value = "" THEN Empty ELSE key :> value      \* omitempty
Flag(key, condition) == IF condition THEN key :> "true" ELSE Empty
Without(m, keys) == [key \in DOMAIN m \ keys |-> m[key]]
Only(m, keys) == [key \in DOMAIN m \cap keys |-> m[key]]
Default(m, key, value) == IF Get(m, key) = "" THEN Put(m, key, value) ELSE m

\* The first word of a list that is not empty, or the empty word.
FirstSet(words) ==
  Append(SelectSeq(words, LAMBDA w : w # ""), "")[1]

\* getOneOf, getOneOfN: the first key that is PRESENT, even with an empty value.
getOneOfN(m, default, keys) ==
  LET present == SelectSeq(keys, LAMBDA key : key \in DOMAIN m)
  IN  IF present = <<>> THEN default ELSE m[present[1]]

\* A conversion given as a table of the words it changes.
Through(table, word) == IF word \in DOMAIN table THEN table[word] ELSE word

-----------------------------------------------------------------------------
(* Scalars. *)

toBool(word, default) ==
  IF word \in {"true", "1", "yes", "on"} THEN TRUE
  ELSE IF word \in {"false", "0", "no", "off"} THEN FALSE
  ELSE default

\* The numbers of the vocabulary; toInt makes every other word the zero value.
Numbers == {"1", "2", "3", "4", "5", "8", "30", "53", "64", "100", "443", "1280", "1400", "2048", "8443", "19999"}
toInt(word) == IF word \in Numbers THEN word ELSE ""
toUInt16(word, default) == IF word \in Numbers THEN word ELSE default

IsIP(host) == host \in {"192.0.2.1", "192.0.2.2"}
LooksLikeUUID(word) == word \in {"uuid-1", "uuid-2"}

\* The comma-separated lists whose first element is not the list itself.
FirstOfList == "h2,http/1.1" :> "h2" @@ "h3,h2" :> "h3" @@ "http/1.1,h2" :> "http/1.1"
getALPNversion(alpn) ==
  CASE Through(FirstOfList, alpn) = "h3" -> 3 [] Through(FirstOfList, alpn) = "h2" -> 2 [] OTHER -> 1

-----------------------------------------------------------------------------
(* Keys and values of a query string. *)

\* normalizeStr: lower case, '_' and '-' become spaces.
normalizeStr == [
  allowInsecure |-> "allowinsecure", serviceName |-> "servicename", packetEncoding |-> "packetencoding",
  headerType |-> "headertype", minVersion |-> "minversion", maxVersion |-> "maxversion",
  presharedKey |-> "presharedkey", publicKey |-> "publickey", privateKey |-> "privatekey",
  allow_insecure |-> "allow insecure", disable_sni |-> "disable sni", user_agent |-> "user agent",
  idle_timeout |-> "idle timeout", health_check_timeout |-> "health check timeout",
  permit_without_stream |-> "permit without stream", query_server_name |-> "query server name",
  congestion_control |-> "congestion control", udp_relay_mode |-> "udp relay mode",
  udp_over_stream |-> "udp over stream", zero_rtt_handshake |-> "zero rtt handshake",
  heartbeat_period |-> "heartbeat period", vless_uuid |-> "vless uuid", vless_port |-> "vless port",
  tls_domain |-> "tls domain", insecure_concurrency |-> "insecure concurrency",
  echQueryServerName |-> "echqueryservername", pinSHA256 |-> "pinsha256",
  quic_congestion_control |-> "quic congestion control", egress_region |-> "egress region"]
  @@ ("obfs-password" :> "obfs password" @@ "handshake-mode" :> "handshake mode"
   @@ "hop-interval" :> "hop interval" @@ "uot-version" :> "uot version")

\* A '+' that nobody encoded reads as a space (url.Values); overrideRawQueryParams
\* reads the keys that hold base64 once more, with the '+' kept.
FormSpace == "key+std=" :> "key std=" @@ "ech+list" :> "ech list"
RawKeys == {"pbk", "sid", "spx", "publickey", "peerpublickey", "pub", "peerpub",
            "presharedkey", "psk", "privatekey", "pk"}

\* The links are records: form is "plain", "b64" (base64 of user:pass as userinfo),
\* "b64all" (everything before the query), "json" (vmess: the query is the JSON) or
\* "raw" (written by hand, without percent-encoding).
Link(scheme, user, pass, host, port, name, q) ==
  [scheme |-> scheme, form |-> "plain", user |-> user, pass |-> pass, host |-> host, port |-> port,
   name |-> name, q |-> q]

\* ParseUrl: the parameters under their normalized names.
Params(u) ==
  LET keys == {Through(normalizeStr, k) : k \in DOMAIN u.q}
      spelt(key) == CHOOSE k \in DOMAIN u.q : Through(normalizeStr, k) = key
  IN  [key \in keys |-> Through(IF u.form = "raw" /\ key \notin RawKeys THEN FormSpace ELSE Empty, u.q[spelt(key)])]

\* ParseUrl splits base64 userinfo for ss only; elsewhere the blob is the user name.
ParseUrl(u, defaultPort) ==
  LET split == u.form \in {"plain", "raw", "json"} \/ u.scheme = "ss"
  IN  [scheme |-> u.scheme, name |-> u.name, host |-> u.host, params |-> Params(u),
       user |-> IF split THEN u.user ELSE "base64 of " \o u.user,
       pass |-> IF split THEN u.pass ELSE "",
       port |-> toUInt16(u.port, defaultPort)]

GetServerOption(p) == Opt("server", p.host) @@ Opt("server_port", p.port)

\* Mutant: the colon is put back even where there was none.
Recombined_Always(p) == p.user \o ":" \o p.pass

\* The whole userinfo is the password, a colon in it included.
Recombined(p) == IF p.pass = "" THEN p.user ELSE p.user \o ":" \o p.pass
=============================================================================
