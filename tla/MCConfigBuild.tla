---------------------------- MODULE MCConfigBuild ----------------------------
\* A start and a BootstrapFetch that build configurations side by side.  The start is given every
\* short profile with a few settings, and a few profiles with every setting; the fetch builds with
\* the defaults.
EXTENDS ConfigBuild, TLC

CONSTANTS Start, Fetch

MCHideTags    == {Direct, Fragment, "hop §hide§"}
MCDefaultTags == {"c §default§"}

Entry(tag, type) == [tag |-> tag, type |-> type, valid |-> TRUE, detour |-> NoTag, id |-> "other"]

Pool == {Entry("a", "proxy"), [Entry("b", "proxy") EXCEPT !.detour = "hop §hide§"],
         Entry("hop §hide§", "proxy"), [Entry("bad", "proxy") EXCEPT !.valid = FALSE],
         Entry("c §default§", "psiphon"), Entry("d", "psiphon"),
         Entry("auto", "selector"), Entry(Select, "proxy")}

Endpoints == {[Entry("wg", "wireguard") EXCEPT !.detour = "a"], [Entry("own", "warp") EXCEPT !.id = "own"]}

Lists(S, n) == UNION {{s \in [1..k -> S] : \A i, j \in 1..k : i # j => s[i].tag # s[j].tag} : k \in 0..n}

Profiles == [outbounds : Lists(Pool, 2), endpoints : Lists(Endpoints, 1), rest : {TRUE}]

Address(s, h, p) == [scheme |-> s, host |-> h, port |-> p]

DefaultOptions ==
  [EnableWarp |-> FALSE, Mode |-> "", BypassLAN |-> FALSE, BlockAds |-> FALSE, BlockQuic |-> FALSE,
   Region |-> "other", EnableFakeDNS |-> FALSE,
   RemoteDnsAddress |-> Address("none", "ip", FALSE), DirectDnsAddress |-> Address("none", "ip", FALSE)]

Modes == {[DefaultOptions EXCEPT !.EnableWarp = TRUE, !.Mode = m] : m \in {"", "warp_over_proxy", "proxy_over_warp"}}
         \cup {DefaultOptions}

RuleSettings ==
  {[o EXCEPT !.BypassLAN = x[1], !.BlockAds = x[2], !.BlockQuic = x[3], !.EnableFakeDNS = x[4],
             !.Region = IF x[5] THEN "ru" ELSE "other"] : o \in Modes, x \in [1..5 -> BOOLEAN]}

Addresses == {Address("none", h, p) : h \in {"ip", "name"}, p \in BOOLEAN}
             \cup {Address(s, "name", FALSE) : s \in {"udp", "other", "junk"}}

DnsSettings ==
  {[DefaultOptions EXCEPT !.RemoteDnsAddress = r, !.DirectDnsAddress = d] : r, d \in Addresses}

Basic == [outbounds |-> <<Entry("a", "proxy"), Entry("d", "psiphon")>>, endpoints |-> <<>>, rest |-> TRUE]

\* A server whose options have no dialer beside one that has.
Mixed == [Basic EXCEPT !.outbounds = <<Entry("a", "proxy"), Entry("n", "undialed")>>]

MCInputs ==
  (Start :> (  [profile : Profiles, opt : Modes]
             \cup [profile : {Basic}, opt : RuleSettings \cup DnsSettings]
             \cup [profile : {[Basic EXCEPT !.rest = FALSE], Mixed}, opt : Modes]))
    @@ (Fetch :> [profile : {Basic}, opt : {DefaultOptions}])
=============================================================================
