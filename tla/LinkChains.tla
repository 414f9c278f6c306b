------------------------------ MODULE LinkChains ------------------------------
(***************************************************************************)
(* What a parse of share links promises about the outbounds that it        *)
(* collects (GenerateConfigLite): they carry tags of their own, and an     *)
(* outbound dials through another one only if that one is there.  Nothing  *)
(* is said about where the outbounds come from.                            *)
(***************************************************************************)
EXTENDS Integers, Sequences

CONSTANTS
  Tag,        \* the tags that a parse can give
  NoDetour    \* the detour of an outbound that dials on its own, which is nobody's tag

VARIABLE out  \* what the parse has collected, oldest first

Emission == [tag : Tag \ {NoDetour}, detour : Tag \cup {NoDetour}]
TypeOK == out \in Seq(Emission)
Used == {out[i].tag : i \in DOMAIN out}

Init == out = <<>>

\* The parse collects n more, and leaves the others as they are.
Collect(n) ==
  /\ out' \in Seq(Emission) /\ Len(out') = Len(out) + n
  /\ \A i \in DOMAIN out : out'[i] = out[i]

\* A server, or an endpoint: its tag is new, and it dials through what is already there.
Emit ==
  LET new == out'[Len(out) + 1]
  IN  Collect(1) /\ new.tag \notin Used /\ new.detour \in Used \cup {NoDetour}

\* A pair: the server, and behind it the helper that it dials through.
EmitPair ==
  LET main == out'[Len(out) + 1]
      helper == out'[Len(out) + 2]
  IN  /\ Collect(2)
      /\ main.tag \notin Used /\ helper.tag \notin Used /\ main.tag # helper.tag
      /\ main.detour = helper.tag /\ helper.detour \in Used \cup {NoDetour}

\* The next parse starts from nothing.
Restart == out' = <<>>

Next == Emit \/ EmitPair \/ Restart
Spec == Init /\ [][Next]_out

\* No two outbounds of a config share a tag, for which sing-box would refuse the whole config
\* (the counter of GenerateConfigLite).
TagsAreUnique == \A i, j \in DOMAIN out : out[i].tag = out[j].tag => i = j

\* Every detour leads to an outbound of the same config, an earlier one or the helper right
\* behind a pair's server, so that a connection is never routed in circles.
Target(i, j) == out[j].tag = out[i].detour
DetoursEnd ==
  \A i \in DOMAIN out : out[i].detour # NoDetour =>
    \E j \in DOMAIN out : Target(i, j) /\ (j < i \/ (j = i + 1 /\ ~Target(j, i)))
Sound == TagsAreUnique /\ DetoursEnd
=============================================================================
