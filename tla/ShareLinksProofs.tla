--------------------------- MODULE ShareLinksProofs ---------------------------
(***************************************************************************)
(* A parse of share links collects what LinkChains promises, and a broken  *)
(* line of a text costs itself alone, for any bodies and any number of     *)
(* trips through storage.                                                  *)
(***************************************************************************)
EXTENDS ShareLinks, WellFoundedInduction, TLAPS

-----------------------------------------------------------------------------
(* FlattenSeq.  It is a recursive function; what it gives is proved by the *)
(* smallest counterexample, the provers having no induction of their own.  *)

\* Every set of numbers has a least one.
LEMMA Least ==
  ASSUME NEW T, T \subseteq Nat, T # {}
  PROVE  \E n \in T : \A k \in T : n <= k
<1>1. \E n \in T : \A k \in T : ~(<<k, n>> \in OpToRel(<, Nat))
  BY WFMin, NatLessThanWellFounded, Zenon
<1>2. PICK n \in T : \A k \in T : ~(<<k, n>> \in OpToRel(<, Nat))
  BY <1>1
<1>3. ASSUME NEW k \in T PROVE ~(k < n)
  BY <1>2, Zenon DEF OpToRel
<1>4. \A k \in T : n <= k
  BY <1>3
<1> QED BY <1>4

\* What FlattenSeq has after each of the first n sequences of ss.
Prefix(ss, f, i) == IF i = 1 THEN ss[i] ELSE f[i - 1] \o ss[i]
Builds(ss, n, f) == f = [i \in 1..n |-> Prefix(ss, f, i)]

\* Such a function exists for every n.
LEMMA BuildsExists ==
  ASSUME NEW ss, NEW n \in Nat
  PROVE  \E f : Builds(ss, n, f)
<1> DEFINE Good(k) == \E f : Builds(ss, k, f)
<1> DEFINE Bad == {k \in Nat : ~Good(k)}
<1>1. SUFFICES ASSUME ~Good(n) PROVE FALSE
  OBVIOUS
<1> HIDE DEF Good
<1>2. Bad # {} /\ Bad \subseteq Nat
  BY <1>1
<1>3. PICK k \in Bad : \A j \in Bad : k <= j
  <2> HIDE DEF Bad
  <2> QED BY <1>2, Least
<1>4. Good(0)
  <2>1. Builds(ss, 0, [i \in 1..0 |-> ss[i]])
    BY DEF Builds
  <2> QED BY <2>1 DEF Good
<1>5. k # 0
  BY <1>3, <1>4
<1>6. k - 1 \in Nat /\ Good(k - 1)
  BY <1>3, <1>5
<1>7. PICK f : Builds(ss, k - 1, f)
  BY <1>6 DEF Good
<1> DEFINE last == Prefix(ss, f, k)
<1> DEFINE g == [i \in 1..k |-> IF i = k THEN last ELSE f[i]]
<1>8. ASSUME NEW i \in 1..k PROVE g[i] = Prefix(ss, g, i)
  <2>1. i = 1 \/ i - 1 \in 1..(k - 1)
    BY <1>3
  <2>2. i # 1 => g[i - 1] = f[i - 1]
    BY <2>1, <1>3
  <2>3. Prefix(ss, g, i) = Prefix(ss, f, i)
    <3> HIDE DEF g
    <3> QED BY <2>2 DEF Prefix
  <2>4. i # k => f[i] = Prefix(ss, f, i)
    <3> SUFFICES ASSUME i # k PROVE f[i] = Prefix(ss, f, i)
      OBVIOUS
    <3>1. i \in 1..(k - 1)
      BY <1>3
    <3> QED BY <3>1, <1>7 DEF Builds
  <2>5. g[i] = Prefix(ss, f, i)
    BY <2>4
  <2> QED BY <2>3, <2>5
<1>9. Builds(ss, k, g)
  BY <1>8 DEF Builds
<1>10. Good(k)
  <2> HIDE DEF g
  <2> QED BY <1>9 DEF Good
<1> QED BY <1>10, <1>3

\* Every element of t is one of s.
Holds(s, t) == \A i \in DOMAIN t : \E j \in DOMAIN s : s[j] = t[i]

\* It has sequences of the same elements, and loses none.
LEMMA BuildsHolds ==
  ASSUME NEW S, NEW ss \in Seq(Seq(S)), NEW f, Builds(ss, Len(ss), f), NEW n \in 1..Len(ss)
  PROVE  f[n] \in Seq(S) /\ \A i \in 1..n : Holds(f[n], ss[i])
<1> DEFINE Good(k) == f[k] \in Seq(S) /\ \A i \in 1..k : Holds(f[k], ss[i])
<1> DEFINE Bad == {k \in 1..Len(ss) : ~Good(k)}
<1>1. SUFFICES ASSUME ~Good(n) PROVE FALSE
  OBVIOUS
<1> HIDE DEF Good
<1>2. Bad # {} /\ Bad \subseteq Nat /\ Bad \subseteq 1..Len(ss)
  <2>1. n \in Bad
    BY <1>1
  <2> QED BY <2>1
<1>3. PICK k \in Bad : \A j \in Bad : k <= j
  <2> HIDE DEF Bad
  <2> QED BY <1>2, Least
<1>4. f[k] = Prefix(ss, f, k) /\ ss[k] \in Seq(S) /\ k \in 1..Len(ss)
  <2>1. k \in 1..Len(ss)
    BY <1>2
  <2>2. ss[k] \in Seq(S)
    BY <2>1
  <2> QED BY <2>1, <2>2 DEF Builds
<1>5. CASE k = 1
  <2>1. f[k] = ss[k]
    BY <1>4, <1>5 DEF Prefix
  <2>2. Holds(f[k], ss[k])
    BY <2>1 DEF Holds
  <2>3. \A i \in 1..k : i = k
    BY <1>5
  <2>4. Good(k)
    BY <2>1, <2>2, <2>3, <1>4 DEF Good
  <2> QED BY <2>4, <1>3
<1>6. CASE k # 1
  <2>1. k - 1 \in 1..Len(ss) /\ Good(k - 1)
    BY <1>3, <1>4, <1>6
  <2>2. f[k - 1] \in Seq(S) /\ f[k] = f[k - 1] \o ss[k]
    BY <2>1, <1>4, <1>6 DEF Good, Prefix
  <2>3. f[k] \in Seq(S) /\ Holds(f[k], f[k - 1]) /\ Holds(f[k], ss[k])
    <3> DEFINE t == ss[k]
    <3> DEFINE s == f[k - 1]
    <3>0. s \in Seq(S) /\ t \in Seq(S) /\ f[k] = s \o t
      BY <2>2, <1>4
    <3> HIDE DEF s, t
    <3>1. f[k] \in Seq(S)
      BY <3>0
    <3>2. ASSUME NEW i \in DOMAIN s PROVE i \in DOMAIN f[k] /\ f[k][i] = s[i]
      BY <3>0
    <3>3. ASSUME NEW i \in DOMAIN t PROVE Len(s) + i \in DOMAIN f[k] /\ f[k][Len(s) + i] = t[i]
      BY <3>0
    <3>4. Holds(f[k], s) /\ Holds(f[k], t)
      BY <3>2, <3>3 DEF Holds
    <3> QED BY <3>1, <3>4 DEF s, t
  <2>4. ASSUME NEW i \in 1..k PROVE Holds(f[k], ss[i])
    <3>1. CASE i = k
      BY <3>1, <2>3
    <3>2. CASE i # k
      <4>1. i \in 1..(k - 1)
        BY <3>2, <1>4
      <4>2. Holds(f[k - 1], ss[i])
        BY <4>1, <2>1 DEF Good
      <4> QED BY <4>2, <2>3 DEF Holds
    <3> QED BY <3>1, <3>2
  <2> QED BY <2>3, <2>4, <1>3 DEF Good
<1> QED BY <1>5, <1>6

\* FlattenSeq gives a sequence of what is in its sequences, and all of it.
LEMMA Flattened ==
  ASSUME NEW S, NEW ss \in Seq(Seq(S))
  PROVE  FlattenSeq(ss) \in Seq(S) /\ \A i \in DOMAIN ss : Holds(FlattenSeq(ss), ss[i])
<1>1. CASE Len(ss) = 0
  <2>1. FlattenSeq(ss) = ss /\ ss = <<>>
    <3>1. FlattenSeq(ss) = ss
      BY <1>1, Zenon DEF FlattenSeq
    <3> QED BY <3>1, <1>1
  <2> QED BY <2>1
<1>2. CASE Len(ss) # 0
  <2> DEFINE c == CHOOSE g : g = [i \in 1..Len(ss) |-> IF i = 1 THEN ss[i] ELSE g[i-1] \o ss[i]]
  <2>1. Len(ss) \in Nat /\ DOMAIN ss = 1..Len(ss)
    OBVIOUS
  <2>2. PICK f : Builds(ss, Len(ss), f)
    BY BuildsExists, <2>1
  <2>3. f = [i \in 1..Len(ss) |-> IF i = 1 THEN ss[i] ELSE f[i-1] \o ss[i]]
    BY <2>2 DEF Builds, Prefix
  <2>4. c = [i \in 1..Len(ss) |-> IF i = 1 THEN ss[i] ELSE c[i-1] \o ss[i]]
    BY <2>3, Zenon
  <2>5. FlattenSeq(ss) = c[Len(ss)]
    BY <1>2, Zenon DEF FlattenSeq
  <2> HIDE DEF c
  <2>6. Builds(ss, Len(ss), c)
    BY <2>4 DEF Builds, Prefix
  <2>7. Len(ss) \in 1..Len(ss)
    BY <2>1, <1>2
  <2> QED BY <2>5, <2>6, <2>7, <2>1, BuildsHolds
<1> QED BY <1>1, <1>2

-----------------------------------------------------------------------------
(* What LinkChains promises is sound. *)

ChainInv == Collected!TypeOK /\ Collected!Sound

\* Collecting n more keeps what is there, and adds the places behind it.
LEMMA Places ==
  ASSUME Collected!TypeOK, NEW n \in 1..2, Collected!Collect(n)
  PROVE  /\ Collected!TypeOK' /\ Len(Emissions(out)) \in Nat
         /\ DOMAIN Emissions(out) = 1..Len(Emissions(out)) /\ DOMAIN Emissions(out') = 1..(Len(Emissions(out)) + n)
         /\ \A i \in DOMAIN Emissions(out) : i \in DOMAIN Emissions(out') /\ Emissions(out')[i] = Emissions(out)[i] /\ Emissions(out)[i] \in Collected!Emission
         /\ \A i \in DOMAIN Emissions(out') : Emissions(out')[i] \in Collected!Emission
BY DEF Collected!TypeOK, Collected!Collect

\* One more outbound with a new tag: its detour leads backwards.
LEMMA EmitSound == ChainInv /\ Collected!Emit => ChainInv'
<1> SUFFICES ASSUME ChainInv, Collected!Emit PROVE ChainInv'
  OBVIOUS
<1>1. Collected!TypeOK /\ Collected!Collect(1)
  BY DEF ChainInv, Collected!Emit
<1>2. /\ Collected!TypeOK' /\ Len(Emissions(out)) \in Nat
      /\ DOMAIN Emissions(out) = 1..Len(Emissions(out)) /\ DOMAIN Emissions(out') = 1..(Len(Emissions(out)) + 1)
      /\ \A i \in DOMAIN Emissions(out) : i \in DOMAIN Emissions(out') /\ Emissions(out')[i] = Emissions(out)[i] /\ Emissions(out)[i] \in Collected!Emission
      /\ \A i \in DOMAIN Emissions(out') : Emissions(out')[i] \in Collected!Emission
  BY <1>1, Places
<1>3. Emissions(out')[Len(Emissions(out)) + 1].tag \notin Collected!Used /\ Emissions(out')[Len(Emissions(out)) + 1].detour \in Collected!Used \cup {NoTag}
  BY DEF Collected!Emit
<1>4. Collected!TagsAreUnique'
  BY <1>2, <1>3 DEF ChainInv, Collected!Sound, Collected!TagsAreUnique, Collected!Used
<1>5. Collected!DetoursEnd'
  <2> SUFFICES ASSUME NEW i \in DOMAIN Emissions(out'), Emissions(out)'[i].detour # NoTag
               PROVE  \E j \in DOMAIN Emissions(out') : Collected!Target(i, j)' /\ (j < i \/ (j = i + 1 /\ ~Collected!Target(j, i)'))
    BY DEF Collected!DetoursEnd
  <2>1. CASE i \in DOMAIN Emissions(out)
    <3>1. PICK j \in DOMAIN Emissions(out) : Collected!Target(i, j) /\ (j < i \/ (j = i + 1 /\ ~Collected!Target(j, i)))
      BY <2>1, <1>2 DEF ChainInv, Collected!Sound, Collected!DetoursEnd
    <3> QED BY <3>1, <2>1, <1>2 DEF Collected!Target
  <2>2. CASE i = Len(Emissions(out)) + 1
    <3>1. PICK j \in DOMAIN Emissions(out) : Emissions(out)[j].tag = Emissions(out')[i].detour
      BY <2>2, <1>3 DEF Collected!Used
    <3> QED BY <3>1, <2>2, <1>2 DEF Collected!Target
  <2> QED BY <2>1, <2>2, <1>2
<1> QED BY <1>2, <1>4, <1>5 DEF ChainInv, Collected!Sound

\* A pair: the server leads to the helper behind it, and the helper backwards.
LEMMA EmitPairSound == ChainInv /\ Collected!EmitPair => ChainInv'
<1> SUFFICES ASSUME ChainInv, Collected!EmitPair PROVE ChainInv'
  OBVIOUS
<1> DEFINE main == Emissions(out')[Len(Emissions(out)) + 1]
<1> DEFINE helper == Emissions(out')[Len(Emissions(out)) + 2]
<1>1. Collected!TypeOK /\ Collected!Collect(2)
  BY DEF ChainInv, Collected!EmitPair
<1>2. /\ Collected!TypeOK' /\ Len(Emissions(out)) \in Nat
      /\ DOMAIN Emissions(out) = 1..Len(Emissions(out)) /\ DOMAIN Emissions(out') = 1..(Len(Emissions(out)) + 2)
      /\ \A i \in DOMAIN Emissions(out) : i \in DOMAIN Emissions(out') /\ Emissions(out')[i] = Emissions(out)[i] /\ Emissions(out)[i] \in Collected!Emission
      /\ \A i \in DOMAIN Emissions(out') : Emissions(out')[i] \in Collected!Emission
  BY <1>1, Places
<1>3. /\ main.tag \notin Collected!Used /\ helper.tag \notin Collected!Used /\ main.tag # helper.tag
      /\ main.detour = helper.tag /\ helper.detour \in Collected!Used \cup {NoTag}
  BY DEF Collected!EmitPair
<1>4. Collected!TagsAreUnique'
  <2>1. \A i \in DOMAIN Emissions(out) : Emissions(out)[i].tag \in Collected!Used
    BY DEF Collected!Used
  <2>2. Collected!TagsAreUnique
    BY DEF ChainInv, Collected!Sound
  <2> QED BY <1>2, <1>3, <2>1, <2>2 DEF Collected!TagsAreUnique
<1>5. helper.detour # main.tag
  <2>1. main \in Collected!Emission
    BY <1>2
  <2>2. main.tag # NoTag
    BY <2>1 DEF Collected!Emission
  <2> QED BY <2>2, <1>3
<1>6. Collected!DetoursEnd'
  <2> SUFFICES ASSUME NEW i \in DOMAIN Emissions(out'), Emissions(out)'[i].detour # NoTag
               PROVE  \E j \in DOMAIN Emissions(out') : Collected!Target(i, j)' /\ (j < i \/ (j = i + 1 /\ ~Collected!Target(j, i)'))
    BY DEF Collected!DetoursEnd
  <2>1. CASE i \in DOMAIN Emissions(out)
    <3>1. PICK j \in DOMAIN Emissions(out) : Collected!Target(i, j) /\ (j < i \/ (j = i + 1 /\ ~Collected!Target(j, i)))
      BY <2>1, <1>2 DEF ChainInv, Collected!Sound, Collected!DetoursEnd
    <3> QED BY <3>1, <2>1, <1>2 DEF Collected!Target
  <2>2. CASE i = Len(Emissions(out)) + 1
    <3>1. i + 1 \in DOMAIN Emissions(out') /\ Collected!Target(i, i + 1)'
      BY <2>2, <1>2, <1>3 DEF Collected!Target
    <3>2. ~Collected!Target(i + 1, i)'
      BY <2>2, <1>2, <1>5 DEF Collected!Target
    <3> QED BY <3>1, <3>2
  <2>3. CASE i = Len(Emissions(out)) + 2
    <3>1. PICK j \in DOMAIN Emissions(out) : Emissions(out)[j].tag = Emissions(out')[i].detour
      BY <2>3, <1>3 DEF Collected!Used
    <3> QED BY <3>1, <2>3, <1>2 DEF Collected!Target
  <2> QED BY <2>1, <2>2, <2>3, <1>2
<1> QED BY <1>2, <1>4, <1>6 DEF ChainInv, Collected!Sound

\* Tags are unique and detours end in every config that GenerateConfigLite can collect,
\* however many links, chains and pairs there are.
THEOREM ChainsAreSound == Collected!Spec => []Collected!Sound
<1>1. Collected!Init => ChainInv
  BY DEF Collected!Init, ChainInv, Collected!TypeOK, Collected!Sound, Collected!TagsAreUnique, Collected!DetoursEnd
<1>2. ChainInv /\ [Collected!Next]_(Emissions(out)) => ChainInv'
  <2> SUFFICES ASSUME ChainInv, [Collected!Next]_(Emissions(out)) PROVE ChainInv'
    OBVIOUS
  <2>1. CASE Collected!Emit
    BY <2>1, EmitSound
  <2>2. CASE Collected!EmitPair
    BY <2>2, EmitPairSound
  <2>3. CASE Collected!Restart
    BY <2>3 DEF Collected!Restart, ChainInv, Collected!TypeOK, Collected!Sound, Collected!TagsAreUnique, Collected!DetoursEnd
  <2>4. CASE UNCHANGED Emissions(out)
    BY <2>4 DEF ChainInv, Collected!TypeOK, Collected!Sound, Collected!TagsAreUnique, Collected!DetoursEnd, Collected!Target
  <2> QED BY <2>1, <2>2, <2>3, <2>4 DEF Collected!Next
<1>3. ChainInv => Collected!Sound
  BY DEF ChainInv
<1> QED BY <1>1, <1>2, <1>3, PTL DEF Collected!Spec

-----------------------------------------------------------------------------
(* Lists and maps. *)

\* A sequence is a list, whatever it is a sequence of.
LEMMA SeqIsList ==
  ASSUME NEW S, NEW s \in Seq(S)
  PROVE  IsList(s)
<1>1. s = [i \in 1..Len(s) |-> s[i]] /\ Len(s) \in Nat /\ DOMAIN s = 1..Len(s)
  OBVIOUS
<1>2. \A i \in DOMAIN s : s[i] \in Range(s)
  BY DEF Range
<1>3. s \in Seq(Range(s))
  <2> DEFINE R == Range(s)
  <2> HIDE DEF R
  <2>1. s \in Seq(R)
    BY <1>1, <1>2 DEF R
  <2> QED BY <2>1 DEF R
<1> QED BY <1>3 DEF IsList

\* The places of a list are numbered from 1.
LEMMA ListLength ==
  ASSUME NEW s, IsList(s)
  PROVE  Len(s) \in Nat /\ DOMAIN s = 1..Len(s) /\ (s # <<>> => Len(s) # 0)
BY DEF IsList

\* t is s with n more elements.
Adds(s, t, n) ==
  /\ IsList(t) /\ Len(t) = Len(s) + n
  /\ \A i \in DOMAIN s : i \in DOMAIN t /\ t[i] = s[i]

\* One more element, and two more.
LEMMA Appended ==
  ASSUME NEW s, IsList(s), NEW x, NEW t, t = Append(s, x)
  PROVE  Adds(s, t, 1) /\ t[Len(s) + 1] = x
<1> DEFINE R == Range(s) \cup {x}
<1>1. s \in Seq(R) /\ x \in R
  BY DEF IsList
<1> HIDE DEF R
<1>2. t \in Seq(R)
  BY <1>1
<1>3. IsList(t)
  BY <1>2, SeqIsList
<1> QED BY <1>1, <1>3 DEF Adds

\* What a concatenation has at its places.
LEMMA Concatenated ==
  ASSUME NEW S, NEW s \in Seq(S), NEW t \in Seq(S), NEW u, u = s \o t
  PROVE  /\ u \in Seq(S) /\ Len(u) = Len(s) + Len(t)
         /\ \A i \in DOMAIN s : i \in DOMAIN u /\ u[i] = s[i]
         /\ \A i \in DOMAIN t : Len(s) + i \in DOMAIN u /\ u[Len(s) + i] = t[i]
OBVIOUS

IsJoined(s, more, t) == t = s \o more
\* ... and the same of lists, for a list t that is known by a name.
LEMMA Joined ==
  ASSUME NEW s, IsList(s), NEW more, IsList(more), NEW t, IsJoined(s, more, t)
  PROVE  /\ Adds(s, t, Len(more))
         /\ \A i \in DOMAIN more : Len(s) + i \in DOMAIN t /\ t[Len(s) + i] = more[i]
<1> DEFINE R == Range(s) \cup Range(more)
<1>1. s \in Seq(R) /\ more \in Seq(R) /\ t = s \o more
  BY DEF IsList, IsJoined
<1> HIDE DEF R
<1>2. /\ t \in Seq(R) /\ Len(t) = Len(s) + Len(more)
      /\ \A i \in DOMAIN s : i \in DOMAIN t /\ t[i] = s[i]
      /\ \A i \in DOMAIN more : Len(s) + i \in DOMAIN t /\ t[Len(s) + i] = more[i]
  BY <1>1, Concatenated
<1>3. IsList(t)
  BY <1>2, SeqIsList
<1> QED BY <1>2, <1>3 DEF Adds

\* A pair more.
LEMMA TwoMore ==
  ASSUME NEW s, IsList(s), NEW two, IsList(two), NEW t, IsJoined(s, two, t)
  PROVE  Len(two) = 2 => Adds(s, t, 2) /\ t[Len(s) + 1] = two[1] /\ t[Len(s) + 2] = two[2]
<1>1. /\ Adds(s, t, Len(two))
      /\ \A i \in DOMAIN two : Len(s) + i \in DOMAIN t /\ t[Len(s) + i] = two[i]
  BY Joined
<1>2. Len(two) = 2 => 1 \in DOMAIN two /\ 2 \in DOMAIN two
  BY ListLength
<1> QED BY <1>1, <1>2

\* A key that is put has its value, and the others keep theirs.
LEMMA PutKey ==
  ASSUME NEW m, NEW key, NEW value
  PROVE  /\ key \in DOMAIN Put(m, key, value) /\ Put(m, key, value)[key] = value
         /\ \A k \in DOMAIN m : k \in DOMAIN Put(m, key, value) /\ (k # key => Put(m, key, value)[k] = m[k])
BY DEF Put

\* Tags and detours are no part of what an outbound is.
LEMMA PutPlain ==
  ASSUME NEW m, NEW key \in {"tag", "detour"}, NEW value
  PROVE  Plain(Put(m, key, value)) = Plain(m)
BY DEF Put, Plain, Without

\* A number changes the tag of an outbound, and nothing else of it.
LEMMA TaggedAs ==
  ASSUME NEW ob, NEW n
  PROVE  /\ "tag" \in DOMAIN Tagged(ob, n) /\ Tagged(ob, n)["tag"] = Numbered(ob["tag"], n)
         /\ "type" \in DOMAIN ob => Tagged(ob, n)["type"] = ob["type"]
         /\ Plain(Tagged(ob, n)) = Plain(ob)
<1> DEFINE t == Numbered(ob["tag"], n)
<1> HIDE DEF t
<1>1. /\ "tag" \in DOMAIN Put(ob, "tag", t) /\ Put(ob, "tag", t)["tag"] = t
      /\ \A k \in DOMAIN ob : k # "tag" => Put(ob, "tag", t)[k] = ob[k]
  BY PutKey
<1>2. Plain(Put(ob, "tag", t)) = Plain(ob)
  BY PutPlain
<1> QED BY <1>1, <1>2 DEF Tagged, t

\* An outbound dials through the tag that it is given, or not at all.
LEMMA DialsThrough ==
  ASSUME NEW ob, NEW tag, "tag" \in DOMAIN ob
  PROVE  LET d == DialThrough(ob, tag)
         IN  /\ d["tag"] = ob["tag"] /\ Plain(d) = Plain(ob)
             /\ Get(d, "detour") \in {"", tag}
             /\ ob["type"] \notin NoDialer => Get(d, "detour") = tag
<1>1. CASE tag = "" \/ ob["type"] \in NoDialer
  <2>1. DialThrough(ob, tag) = Without(ob, {"detour"})
    BY <1>1 DEF DialThrough
  <2>2. Plain(Without(ob, {"detour"})) = Plain(ob)
    BY DEF Plain, Without
  <2>3. Without(ob, {"detour"})["tag"] = ob["tag"] /\ Get(Without(ob, {"detour"}), "detour") = ""
    BY DEF Without, Get
  <2> QED BY <1>1, <2>1, <2>2, <2>3
<1>2. CASE ~(tag = "" \/ ob["type"] \in NoDialer)
  <2>1. DialThrough(ob, tag) = Put(ob, "detour", tag)
    BY <1>2 DEF DialThrough
  <2>2. Plain(Put(ob, "detour", tag)) = Plain(ob)
    BY PutPlain
  <2>3. Put(ob, "detour", tag)["tag"] = ob["tag"] /\ Get(Put(ob, "detour", tag), "detour") = tag
    <3> DEFINE d == Put(ob, "detour", tag)
    <3>1. /\ "detour" \in DOMAIN d /\ d["detour"] = tag
          /\ \A k \in DOMAIN ob : k # "detour" => d[k] = ob[k]
      BY PutKey
    <3> HIDE DEF d
    <3>2. d["tag"] = ob["tag"]
      BY <3>1
    <3>3. Get(d, "detour") = tag
      BY <3>1 DEF Get
    <3> QED BY <3>2, <3>3 DEF d
  <2> QED BY <2>1, <2>2, <2>3
<1> QED BY <1>1, <1>2

-----------------------------------------------------------------------------
(* Hops. *)

\* An outbound has the type that it is made with.
LEMMA OutboundType == \A type, tag, options : Outbound(type, tag, options)["type"] = type
                                              /\ "type" \in DOMAIN Outbound(type, tag, options)
<1> SUFFICES ASSUME NEW type, NEW tag, NEW options
             PROVE  Outbound(type, tag, options)["type"] = type /\ "type" \in DOMAIN Outbound(type, tag, options)
  BY Zenon
<1> DEFINE m == Opt("tag", tag) @@ options
<1>1. Outbound(type, tag, options) = Put(m, "type", type)
  BY Zenon DEF Outbound
<1> HIDE DEF m
<1>2. "type" \in DOMAIN Put(m, "type", type) /\ Put(m, "type", type)["type"] = type
  BY PutKey
<1> QED BY <1>1, <1>2

\* The server of a pair is a vless outbound.
LEMMA PairIsVless ==
  ASSUME NEW p, ~IsFailed(UTProtoSingbox(p).main)
  PROVE  UTProtoSingbox(p).main["type"] = "vless" /\ "type" \in DOMAIN UTProtoSingbox(p).main
<1>1. IsFailed(Failed)
  BY DEF IsFailed, Failed
<1>2. \/ UTProtoSingbox(p).main = Failed
      \/ \E tag, options : UTProtoSingbox(p).main = Outbound("vless", tag, options)
  BY Zenon DEF UTProtoSingbox
<1> QED BY <1>1, <1>2, OutboundType

\* A hop gives nothing, one outbound, or a pair whose server can have a dialer.
LEMMA HopGives ==
  ASSUME NEW hop
  PROVE  LET obs == processSingleConfig(hop)
         IN  \/ obs = <<>>
             \/ \E ob : obs = <<ob>>
             \/ \E main, helper : /\ obs = <<main, helper>>
                                  /\ "type" \in DOMAIN main /\ main["type"] \notin NoDialer
<1> DEFINE pair == UTProtoSingbox(ParseUrl(hop, "443"))
<1> DEFINE single == IF IsEndpoint(hop) THEN endpointParsers(hop) ELSE configTypes(hop)
<1>1. CASE IsPair(hop)
  <2>1. processSingleConfig(hop) = IF IsFailed(pair.main) THEN <<>> ELSE <<pair.main, pair.helper>>
    <3>1. hop # Broken
      BY <1>1 DEF IsPair, Broken
    <3> QED BY <1>1, <3>1, Zenon DEF processSingleConfig
  <2>2. ~IsFailed(pair.main) => "type" \in DOMAIN pair.main /\ pair.main["type"] = "vless"
    BY PairIsVless, Zenon
  <2>3. ~IsFailed(pair.main) => "type" \in DOMAIN pair.main /\ pair.main["type"] \notin NoDialer
    BY <2>2, NoDialerAssumption, Zenon DEF NoDialerAssumption
  <2> QED BY <2>1, <2>3, Zenon
<1>2. CASE ~IsPair(hop) /\ hop = Broken
  BY <1>2, Zenon DEF processSingleConfig
<1>3. CASE ~IsPair(hop) /\ hop # Broken
  <2>1. processSingleConfig(hop) = IF IsFailed(single) THEN <<>> ELSE <<Default(single, "tag", single["type"])>>
    BY <1>3, Zenon DEF processSingleConfig
  <2> HIDE DEF single
  <2> QED BY <2>1, Zenon
<1> QED BY <1>1, <1>2, <1>3

-----------------------------------------------------------------------------
(* The tags of a parse. *)

\* What is true of the text of a numbered tag, for every tag and every number.
NumbersTell == Telling(STRING, Nat)

\* A tag is text, whatever hop it comes from (a Go string).
TagsAreText ==
  stage = "parsing" /\ todo # <<>> =>
    \A i \in DOMAIN processSingleConfig(Hop) : processSingleConfig(Hop)[i]["tag"] \in STRING

TagsOf(outs) == {outs[i]["tag"] : i \in DOMAIN outs}
IsNumbered(tag, below) ==
  /\ stripTagSuffix(tag) \in STRING
  /\ \E n \in 0..(below - 1) : tag = Numbered(stripTagSuffix(tag), n)

\* Every tag has a number that the counter has passed, and detours are tags.
Tell(outs, below) ==
  /\ IsList(outs)
  /\ \A i \in DOMAIN outs : IsNumbered(outs[i]["tag"], below) /\ Get(outs[i], "detour") \in TagsOf(outs) \cup {""}
TagInv ==
  /\ counter \in Nat /\ Tell(out, counter)
  /\ stage = "parsing" => detourTag \in TagsOf(out) \cup {""}

\* What numbering a tag with the next number gives.
LEMMA Numbering ==
  ASSUME NumbersTell, NEW tag \in STRING, NEW n \in Nat
  PROVE  /\ Numbered(tag, n) \in STRING /\ Numbered(tag, n) # ""
         /\ stripTagSuffix(Numbered(tag, n)) = tag
         /\ IsNumbered(Numbered(tag, n), n + 1)
         /\ \A t : IsNumbered(t, n) => t # Numbered(tag, n)
<1>1. Numbered(tag, n) \in STRING /\ Numbered(tag, n) # "" /\ stripTagSuffix(Numbered(tag, n)) = tag
  BY DEF NumbersTell, Telling
<1>2. IsNumbered(Numbered(tag, n), n + 1)
  <2> DEFINE t == Numbered(tag, n)
  <2>1. n \in 0..(n + 1 - 1)
    OBVIOUS
  <2>2. stripTagSuffix(t) \in STRING /\ t = Numbered(stripTagSuffix(t), n)
    BY <1>1, Zenon
  <2> HIDE DEF t
  <2>3. IsNumbered(t, n + 1)
    BY <2>1, <2>2 DEF IsNumbered
  <2> QED BY <2>3 DEF t
<1>3. ASSUME NEW t, IsNumbered(t, n), t = Numbered(tag, n) PROVE FALSE
  <2>1. PICK m \in 0..(n - 1) : t = Numbered(stripTagSuffix(t), m)
    BY <1>3 DEF IsNumbered
  <2>2. stripTagSuffix(t) \in STRING
    BY <1>3 DEF IsNumbered
  <2>3. m = n
    <3>1. m \in Nat
      BY <2>1
    <3> QED BY <2>1, <2>2, <3>1, <1>3 DEF NumbersTell, Telling
  <2> QED BY <2>1, <2>3
<1> QED BY <1>1, <1>2, <1>3

\* A tag stays numbered while the counter grows.
LEMMA NumberedBelow ==
  ASSUME NEW t, NEW m \in Nat, NEW n \in Nat, m <= n, IsNumbered(t, m)
  PROVE  IsNumbered(t, n)
<1>1. PICK k \in 0..(m - 1) : t = Numbered(stripTagSuffix(t), k)
  BY DEF IsNumbered
<1>2. k \in 0..(n - 1)
  OBVIOUS
<1> QED BY <1>1, <1>2 DEF IsNumbered

\* What is collected is typed as LinkChains types it.
LEMMA EmissionAt ==
  ASSUME NEW outs, IsList(outs)
  PROVE  /\ Len(outs) \in Nat /\ DOMAIN outs = 1..Len(outs)
         /\ DOMAIN Emissions(outs) = 1..Len(outs) /\ Len(Emissions(outs)) = Len(outs)
         /\ Emissions(outs) = [i \in 1..Len(outs) |-> Emissions(outs)[i]]
         /\ \A i \in DOMAIN outs : Emissions(outs)[i].tag = outs[i]["tag"] /\ Emissions(outs)[i].detour = Get(outs[i], "detour")
<1>1. Len(outs) \in Nat /\ DOMAIN outs = 1..Len(outs)
  BY ListLength
<1>2. DOMAIN Emissions(outs) = 1..Len(outs) /\ Emissions(outs) = [i \in 1..Len(outs) |-> Emissions(outs)[i]]
  BY <1>1 DEF Emissions
<1>3. Len(Emissions(outs)) = Len(outs)
  BY <1>1, <1>2
<1>4. ASSUME NEW i \in DOMAIN outs
      PROVE  Emissions(outs)[i].tag = outs[i]["tag"] /\ Emissions(outs)[i].detour = Get(outs[i], "detour")
  <2> DEFINE tag == outs[i]["tag"]
  <2> DEFINE detour == Get(outs[i], "detour")
  <2>1. Emissions(outs)[i] = [tag |-> tag, detour |-> detour]
    BY Zenon DEF Emissions
  <2> HIDE DEF tag, detour
  <2>2. Emissions(outs)[i].tag = tag /\ Emissions(outs)[i].detour = detour
    BY <2>1
  <2> QED BY <2>2 DEF tag, detour
<1> QED BY <1>1, <1>2, <1>3, <1>4

\* The tags that are told apart by number are text and not empty, and so are the emissions typed.
LEMMA TagsTyped ==
  ASSUME NumbersTell, NEW outs, NEW below \in Nat, Tell(outs, below)
  PROVE  /\ \A t \in TagsOf(outs) : t \in STRING /\ t # "" /\ IsNumbered(t, below)
         /\ Emissions(outs) \in Seq(Collected!Emission)
<1>1. ASSUME NEW t \in TagsOf(outs) PROVE t \in STRING /\ t # "" /\ IsNumbered(t, below)
  <2>1. IsNumbered(t, below)
    BY DEF Tell, TagsOf
  <2>2. PICK k \in 0..(below - 1) : t = Numbered(stripTagSuffix(t), k)
    BY <2>1 DEF IsNumbered
  <2>3. stripTagSuffix(t) \in STRING /\ k \in Nat
    BY <2>1, <2>2 DEF IsNumbered
  <2> QED BY <2>1, <2>2, <2>3, Numbering
<1>2. IsList(outs)
  BY DEF Tell
<1>3. ASSUME NEW i \in DOMAIN outs PROVE Emissions(outs)[i] \in Collected!Emission
  <2> DEFINE tag == outs[i]["tag"]
  <2> DEFINE detour == Get(outs[i], "detour")
  <2>1. tag \in TagsOf(outs) /\ detour \in TagsOf(outs) \cup {""}
    BY DEF TagsOf, Tell
  <2>2. tag \in STRING \ {NoTag} /\ detour \in STRING \cup {NoTag}
    BY <1>1, <2>1 DEF NoTag
  <2>3. Emissions(outs)[i] = [tag |-> tag, detour |-> detour]
    BY Zenon DEF Emissions
  <2> HIDE DEF tag, detour
  <2> QED BY <2>2, <2>3 DEF Collected!Emission
<1>4. Emissions(outs) \in Seq(Collected!Emission)
  <2> DEFINE e == Emissions(outs)
  <2>1. e = [i \in 1..Len(outs) |-> e[i]] /\ Len(outs) \in Nat /\ DOMAIN outs = 1..Len(outs)
    BY <1>2, EmissionAt
  <2>2. \A i \in 1..Len(outs) : e[i] \in Collected!Emission
    BY <1>3, <2>1
  <2> HIDE DEF e
  <2>3. e \in Seq(Collected!Emission)
    BY <2>1, <2>2
  <2> QED BY <2>3 DEF e
<1> QED BY <1>1, <1>4

\* The tags that LinkChains calls used.
LEMMA UsedTags ==
  ASSUME IsList(out)
  PROVE  Collected!Used = TagsOf(out)
BY EmissionAt DEF Collected!Used, TagsOf

-----------------------------------------------------------------------------
(* Every step of a parse is one of LinkChains, or none. *)

\* The places that more has and outs has not are numbered, and lead to what is there.
Behind(outs, more, above) ==
  \A i \in DOMAIN more \ DOMAIN outs : IsNumbered(more[i]["tag"], above) /\ Get(more[i], "detour") \in TagsOf(more) \cup {""}

\* With n more outbounds the tags are still what they were said to be.
LEMMA Grown ==
  ASSUME NumbersTell, NEW outs, NEW more, NEW n \in Nat, NEW below \in Nat, NEW above \in Nat, below <= above,
         Tell(outs, below), Adds(outs, more, n), Behind(outs, more, above)
  PROVE  /\ Tell(more, above) /\ TagsOf(outs) \subseteq TagsOf(more)
         /\ Emissions(more) \in Seq(Collected!Emission) /\ Len(Emissions(more)) = Len(Emissions(outs)) + n
         /\ \A i \in DOMAIN Emissions(outs) : Emissions(more)[i] = Emissions(outs)[i]
<1>1. IsList(outs) /\ IsList(more) /\ Len(more) = Len(outs) + n
      /\ \A i \in DOMAIN outs : i \in DOMAIN more /\ more[i] = outs[i]
  BY DEF Tell, Adds
<1>2. /\ DOMAIN Emissions(outs) = DOMAIN outs
      /\ Len(Emissions(outs)) = Len(outs) /\ Len(Emissions(more)) = Len(more)
  BY <1>1, EmissionAt
<1>3. TagsOf(outs) \subseteq TagsOf(more)
  BY <1>1 DEF TagsOf
<1>4. ASSUME NEW i \in DOMAIN more
      PROVE  IsNumbered(more[i]["tag"], above) /\ Get(more[i], "detour") \in TagsOf(more) \cup {""}
  <2>1. CASE i \in DOMAIN outs
    <3>1. more[i] = outs[i]
      BY <2>1, <1>1
    <3>2. IsNumbered(outs[i]["tag"], below) /\ Get(outs[i], "detour") \in TagsOf(outs) \cup {""}
      BY <2>1 DEF Tell
    <3>3. IsNumbered(outs[i]["tag"], above)
      BY <3>2, NumberedBelow
    <3> QED BY <3>1, <3>2, <3>3, <1>3
  <2>2. CASE i \notin DOMAIN outs
    BY <2>2 DEF Behind
  <2> QED BY <2>1, <2>2
<1>5. Tell(more, above)
  BY <1>1, <1>4 DEF Tell
<1>6. Emissions(more) \in Seq(Collected!Emission)
  BY <1>5, TagsTyped
<1>7. ASSUME NEW i \in DOMAIN Emissions(outs) PROVE Emissions(more)[i] = Emissions(outs)[i]
  <2>1. i \in DOMAIN outs /\ i \in DOMAIN more /\ more[i] = outs[i]
    BY <1>1, <1>2
  <2> QED BY <2>1, Zenon DEF Emissions
<1>8. Len(Emissions(more)) = Len(Emissions(outs)) + n
  BY <1>1, <1>2
<1> QED BY <1>3, <1>5, <1>6, <1>7, <1>8

\* What a step must do to what is collected, to the counter and to the next detour.
LEMMA StepKeeps ==
  ASSUME NumbersTell, TagInv, NEW n \in Nat, Adds(out, out', n), counter' = counter + n,
         Behind(out, out', counter + n), detourTag' \in TagsOf(out') \cup {NoTag}
  PROVE  TagInv' /\ Collected!Collect(n) /\ TagsOf(out) \subseteq TagsOf(out')
<1>1. counter \in Nat /\ Tell(out, counter) /\ counter + n \in Nat /\ counter <= counter + n
  <2>1. counter \in Nat /\ Tell(out, counter)
    BY Zenon DEF TagInv
  <2> QED BY <2>1
<1>2. /\ Tell(out', counter + n) /\ TagsOf(out) \subseteq TagsOf(out')
      /\ Emissions(out') \in Seq(Collected!Emission) /\ Len(Emissions(out')) = Len(Emissions(out)) + n
      /\ \A i \in DOMAIN Emissions(out) : Emissions(out')[i] = Emissions(out)[i]
  <2> DEFINE above == counter + n
  <2>1. above \in Nat /\ counter <= above /\ Behind(out, out', above)
    BY <1>1
  <2> HIDE DEF above
  <2>2. /\ Tell(out', above) /\ TagsOf(out) \subseteq TagsOf(out')
        /\ Emissions(out') \in Seq(Collected!Emission) /\ Len(Emissions(out')) = Len(Emissions(out)) + n
        /\ \A i \in DOMAIN Emissions(out) : Emissions(out')[i] = Emissions(out)[i]
    BY <1>1, <2>1, Grown
  <2> QED BY <2>2 DEF above
<1>3. TagInv'
  <2>1. counter' \in Nat /\ Tell(out', counter')
    BY <1>1, <1>2
  <2> QED BY <2>1, Zenon DEF TagInv, NoTag
<1>4. Collected!Collect(n)
  BY <1>2 DEF Collected!Collect
<1> QED BY <1>2, <1>3, <1>4

\* A tag that is next in line is not empty, and nobody has it.
LEMMA NextTag ==
  ASSUME NumbersTell, TagInv, NEW tag \in STRING, NEW k \in Nat, NEW t, t = Numbered(tag, counter + k)
  PROVE  IsNumbered(t, counter + k + 1) /\ t # NoTag /\ t \notin TagsOf(out) /\ stripTagSuffix(t) = tag
<1>1. counter \in Nat /\ Tell(out, counter)
  BY Zenon DEF TagInv
<1> DEFINE n == counter + k
<1>2. n \in Nat /\ counter <= n /\ n + 1 = counter + k + 1
  BY <1>1
<1> HIDE DEF n
<1>3. t = Numbered(tag, n)
  BY DEF n
<1>4. IsNumbered(t, n + 1) /\ t # NoTag /\ stripTagSuffix(t) = tag /\ \A x : IsNumbered(x, n) => x # t
  BY <1>2, <1>3, Numbering, Zenon DEF NoTag
<1>5. ASSUME t \in TagsOf(out) PROVE FALSE
  <2>1. IsNumbered(t, counter)
    BY <1>1, <1>5, TagsTyped
  <2> QED BY <2>1, <1>1, <1>2, <1>4, NumberedBelow
<1> QED BY <1>2, <1>4, <1>5

\* An outbound is collected as what it is, but for the number of its tag and its detour.
ComesAs(ob, outs) == \E j \in DOMAIN outs : stripTagSuffix(outs[j]["tag"]) = ob["tag"] /\ Plain(outs[j]) = Plain(ob)

\* One outbound or endpoint: its tag is new, and it dials through one that is there.
LEMMA EmitOneStep ==
  ASSUME NumbersTell, TagInv, stage = "parsing", NEW obs, EmitOne(obs), NEW ob, obs[1] = ob, ob["tag"] \in STRING
  PROVE  TagInv' /\ Collected!Emit /\ Adds(out, out', 1) /\ ComesAs(ob, out')
<1> DEFINE t == Numbered(ob["tag"], counter)
<1> DEFINE tagged == Tagged(ob, counter)
<1> DEFINE x == DialThrough(tagged, detourTag)
<1>1. counter \in Nat /\ Tell(out, counter) /\ detourTag \in TagsOf(out) \cup {NoTag}
  BY Zenon DEF TagInv, NoTag
<1>2. IsNumbered(t, counter + 1) /\ t # NoTag /\ t \notin TagsOf(out) /\ stripTagSuffix(t) = ob["tag"]
  <2>1. ob["tag"] \in STRING /\ 0 \in Nat /\ counter + 0 = counter
    BY <1>1
  <2> DEFINE u == ob["tag"]
  <2> HIDE DEF t
  <2>2. t = Numbered(ob["tag"], counter)
    BY DEF t
  <2> HIDE DEF u
  <2> QED BY <2>1, <2>2, NextTag DEF u
<1>3. "tag" \in DOMAIN tagged /\ tagged["tag"] = t /\ Plain(tagged) = Plain(ob)
  BY TaggedAs
<1>4. x["tag"] = t /\ Get(x, "detour") \in {NoTag, detourTag} /\ Plain(x) = Plain(ob)
  <2> HIDE DEF tagged, t
  <2> QED BY <1>3, DialsThrough DEF NoTag
<1>5. out' = Append(out, x) /\ counter' = counter + 1 /\ detourTag' \in {NoTag, t}
  <2>1. /\ out' = Append(out, DialThrough(Tagged(obs[1], counter), detourTag))
        /\ Advance(Tagged(obs[1], counter)["tag"]) /\ counter' = counter + 1
    BY Zenon DEF EmitOne
  <2>2. out' = Append(out, x) /\ Advance(t) /\ counter' = counter + 1
    BY <2>1, <1>3, Zenon
  <2>3. detourTag' = "" \/ detourTag' = t
    BY <2>2, Zenon DEF Advance
  <2> QED BY <2>2, <2>3 DEF NoTag
<1> HIDE DEF t, tagged, x
<1>6. Adds(out, out', 1) /\ out'[Len(out) + 1] = x /\ IsList(out)
  BY <1>1, <1>5, Appended DEF Tell
<1>7. /\ IsList(out') /\ Len(out') = Len(out) + 1 /\ Len(out) \in Nat
      /\ DOMAIN out = 1..Len(out) /\ DOMAIN out' = 1..(Len(out) + 1)
      /\ \A i \in DOMAIN out : i \in DOMAIN out' /\ out'[i] = out[i]
  <2>1. IsList(out') /\ Len(out') = Len(out) + 1 /\ \A i \in DOMAIN out : i \in DOMAIN out' /\ out'[i] = out[i]
    BY <1>6 DEF Adds
  <2> QED BY <2>1, <1>6, ListLength
<1>8. t \in TagsOf(out') /\ TagsOf(out) \subseteq TagsOf(out')
  <2>1. Len(out) + 1 \in DOMAIN out' /\ out'[Len(out) + 1]["tag"] = t
    BY <1>4, <1>6, <1>7
  <2> QED BY <2>1, <1>7 DEF TagsOf
<1>9. Behind(out, out', counter + 1)
  <2>1. \A i \in DOMAIN out' \ DOMAIN out : out'[i] = x
    BY <1>6, <1>7
  <2>2. IsNumbered(x["tag"], counter + 1) /\ Get(x, "detour") \in TagsOf(out') \cup {NoTag}
    BY <1>1, <1>2, <1>4, <1>8
  <2> QED BY <2>1, <2>2, Zenon DEF Behind, NoTag
<1>10. TagInv' /\ Collected!Collect(1)
  <2>1. detourTag' \in TagsOf(out') \cup {NoTag} /\ 1 \in Nat
    BY <1>5, <1>8
  <2> QED BY <2>1, <1>5, <1>6, <1>9, StepKeeps
<1>11. Collected!Emit
  <2> DEFINE new == Emissions(out')[Len(Emissions(out)) + 1]
  <2>1. Len(Emissions(out)) = Len(out)
    BY <1>6, EmissionAt
  <2>2. new.tag = t /\ new.detour = Get(x, "detour")
    <3>1. Len(out) + 1 \in DOMAIN out'
      BY <1>7
    <3> QED BY <3>1, <2>1, <1>4, <1>6, <1>7, EmissionAt
  <2>3. t \notin Collected!Used /\ Get(x, "detour") \in Collected!Used \cup {NoTag}
    <3>1. Collected!Used = TagsOf(out)
      BY <1>6, UsedTags
    <3> QED BY <3>1, <1>1, <1>2, <1>4
  <2> HIDE DEF new
  <2>4. new.tag \notin Collected!Used /\ new.detour \in Collected!Used \cup {NoTag}
    BY <2>2, <2>3
  <2> QED BY <1>10, <2>4 DEF Collected!Emit, new
<1>12. ComesAs(ob, out')
  <2>1. Len(out) + 1 \in DOMAIN out'
    BY <1>7
  <2> QED BY <2>1, <1>2, <1>4, <1>6 DEF ComesAs
<1> QED BY <1>6, <1>10, <1>11, <1>12

\* A pair: the server dials through its helper, which is behind it and goes on with the chain.
LEMMA EmitPairStep ==
  ASSUME NumbersTell, TagInv, stage = "parsing", NEW obs, EmitPair(obs), NEW ob1, NEW ob2, obs[1] = ob1, obs[2] = ob2,
         ob1["tag"] \in STRING, ob2["tag"] \in STRING, "type" \in DOMAIN ob1, ob1["type"] \notin NoDialer
  PROVE  TagInv' /\ Collected!EmitPair /\ Adds(out, out', 2) /\ ComesAs(ob1, out') /\ ComesAs(ob2, out')
<1> DEFINE t1 == Numbered(ob1["tag"], counter)
<1> DEFINE t2 == Numbered(ob2["tag"], counter + 1)
<1> DEFINE tagged1 == Tagged(ob1, counter)
<1> DEFINE tagged2 == Tagged(ob2, counter + 1)
<1> DEFINE x == DialThrough(tagged1, t2)
<1> DEFINE y == DialThrough(tagged2, detourTag)
<1>1. counter \in Nat /\ Tell(out, counter) /\ detourTag \in TagsOf(out) \cup {NoTag}
  BY Zenon DEF TagInv, NoTag
<1>2. /\ IsNumbered(t1, counter + 2) /\ t1 # NoTag /\ t1 \notin TagsOf(out)
      /\ IsNumbered(t2, counter + 2) /\ t2 # NoTag /\ t2 \notin TagsOf(out) /\ t1 # t2
      /\ stripTagSuffix(t1) = ob1["tag"] /\ stripTagSuffix(t2) = ob2["tag"]
  <2> DEFINE tag1 == ob1["tag"]
  <2> DEFINE tag2 == ob2["tag"]
  <2>1. tag1 \in STRING /\ tag2 \in STRING /\ t1 = Numbered(tag1, counter + 0) /\ t2 = Numbered(tag2, counter + 1)
    BY <1>1
  <2>2. counter + 0 + 1 <= counter + 2 /\ counter + 0 + 1 \in Nat /\ counter + 1 + 1 = counter + 2 /\ counter + 2 \in Nat
    BY <1>1
  <2> HIDE DEF t1, t2, tag1, tag2
  <2>3. IsNumbered(t1, counter + 0 + 1) /\ t1 # NoTag /\ t1 \notin TagsOf(out) /\ stripTagSuffix(t1) = tag1
    BY <2>1, NextTag
  <2>4. IsNumbered(t2, counter + 1 + 1) /\ t2 # NoTag /\ t2 \notin TagsOf(out) /\ stripTagSuffix(t2) = tag2
    BY <2>1, NextTag
  <2>5. t1 # t2
    <3> DEFINE n == counter + 1
    <3>1. n \in Nat /\ t2 = Numbered(tag2, n) /\ IsNumbered(t1, n)
      <4>1. counter + 0 + 1 = counter + 1
        BY <1>1
      <4> QED BY <4>1, <1>1, <2>1, <2>3
    <3> HIDE DEF n
    <3> QED BY <3>1, <2>1, Numbering, Zenon
  <2>6. IsNumbered(t1, counter + 2)
    BY <2>2, <2>3, NumberedBelow
  <2> QED BY <2>2, <2>3, <2>4, <2>5, <2>6 DEF tag1, tag2
<1>3. /\ "tag" \in DOMAIN tagged1 /\ tagged1["tag"] = t1
      /\ "tag" \in DOMAIN tagged2 /\ tagged2["tag"] = t2
      /\ "type" \in DOMAIN ob1 => tagged1["type"] = ob1["type"]
      /\ Plain(tagged1) = Plain(ob1) /\ Plain(tagged2) = Plain(ob2)
  BY TaggedAs
<1>4. /\ x["tag"] = t1 /\ Get(x, "detour") = t2
      /\ y["tag"] = t2 /\ Get(y, "detour") \in {NoTag, detourTag}
      /\ Plain(x) = Plain(ob1) /\ Plain(y) = Plain(ob2)
  <2> HIDE DEF tagged1, tagged2, t1, t2
  <2>1. tagged1["type"] \notin NoDialer
    BY <1>3
  <2>2. x["tag"] = t1 /\ Get(x, "detour") = t2 /\ Plain(x) = Plain(ob1)
    BY <1>3, <2>1, DialsThrough
  <2>3. y["tag"] = t2 /\ Get(y, "detour") \in {NoTag, detourTag} /\ Plain(y) = Plain(ob2)
    BY <1>3, DialsThrough DEF NoTag
  <2> QED BY <2>2, <2>3
<1>5. out' = out \o <<x, y>> /\ counter' = counter + 2 /\ detourTag' \in {NoTag, t1}
  <2>2. /\ out' = out \o <<DialThrough(Tagged(obs[1], counter), Tagged(obs[2], counter + 1)["tag"]),
                           DialThrough(Tagged(obs[2], counter + 1), detourTag)>>
        /\ Advance(Tagged(obs[1], counter)["tag"]) /\ counter' = counter + 2
    BY Zenon DEF EmitPair
  <2>3. out' = out \o <<x, y>> /\ Advance(t1) /\ counter' = counter + 2
    BY <2>2, <1>3, Zenon
  <2>4. detourTag' = "" \/ detourTag' = t1
    BY <2>3, Zenon DEF Advance
  <2> QED BY <2>3, <2>4 DEF NoTag
<1> HIDE DEF t1, t2, tagged1, tagged2, x, y
<1>6. Adds(out, out', 2) /\ out'[Len(out) + 1] = x /\ out'[Len(out) + 2] = y /\ IsList(out)
  <2>1. IsList(out)
    BY <1>1, Zenon DEF Tell
  <2> DEFINE two == <<x, y>>
  <2>2. IsJoined(out, two, out')
    BY <1>5 DEF IsJoined
  <2>3. IsList(two) /\ Len(two) = 2 /\ two[1] = x /\ two[2] = y
    <3>1. two \in Seq({x, y}) /\ Len(two) = 2 /\ two[1] = x /\ two[2] = y
      OBVIOUS
    <3> HIDE DEF two
    <3> QED BY <3>1, SeqIsList
  <2> HIDE DEF two
  <2>4. Adds(out, out', 2) /\ out'[Len(out) + 1] = x /\ out'[Len(out) + 2] = y
    BY <2>1, <2>2, <2>3, TwoMore
  <2> QED BY <2>1, <2>4
<1>7. /\ IsList(out') /\ Len(out') = Len(out) + 2 /\ Len(out) \in Nat
      /\ DOMAIN out = 1..Len(out) /\ DOMAIN out' = 1..(Len(out) + 2)
      /\ \A i \in DOMAIN out : i \in DOMAIN out' /\ out'[i] = out[i]
  <2>1. IsList(out') /\ Len(out') = Len(out) + 2 /\ \A i \in DOMAIN out : i \in DOMAIN out' /\ out'[i] = out[i]
    BY <1>6 DEF Adds
  <2> QED BY <2>1, <1>6, ListLength
<1>8. t1 \in TagsOf(out') /\ t2 \in TagsOf(out') /\ TagsOf(out) \subseteq TagsOf(out')
  <2>1. /\ Len(out) + 1 \in DOMAIN out' /\ out'[Len(out) + 1]["tag"] = t1
        /\ Len(out) + 2 \in DOMAIN out' /\ out'[Len(out) + 2]["tag"] = t2
    BY <1>4, <1>6, <1>7
  <2> QED BY <2>1, <1>7 DEF TagsOf
<1>9. Behind(out, out', counter + 2)
  <2>1. \A i \in DOMAIN out' \ DOMAIN out : out'[i] = x \/ out'[i] = y
    BY <1>6, <1>7
  <2>2. /\ IsNumbered(x["tag"], counter + 2) /\ Get(x, "detour") \in TagsOf(out') \cup {NoTag}
        /\ IsNumbered(y["tag"], counter + 2) /\ Get(y, "detour") \in TagsOf(out') \cup {NoTag}
    BY <1>1, <1>2, <1>4, <1>8
  <2> QED BY <2>1, <2>2, Zenon DEF Behind, NoTag
<1>10. TagInv' /\ Collected!Collect(2)
  <2>1. detourTag' \in TagsOf(out') \cup {NoTag} /\ 2 \in Nat
    BY <1>5, <1>8
  <2> QED BY <2>1, <1>5, <1>6, <1>9, StepKeeps
<1>11. Collected!EmitPair
  <2> DEFINE main == Emissions(out')[Len(Emissions(out)) + 1]
  <2> DEFINE helper == Emissions(out')[Len(Emissions(out)) + 2]
  <2>1. Len(Emissions(out)) = Len(out)
    BY <1>6, EmissionAt
  <2>2. main.tag = t1 /\ main.detour = t2 /\ helper.tag = t2 /\ helper.detour = Get(y, "detour")
    <3>1. Len(out) + 1 \in DOMAIN out' /\ Len(out) + 2 \in DOMAIN out'
      BY <1>7
    <3> QED BY <3>1, <2>1, <1>4, <1>6, <1>7, EmissionAt
  <2>3. Collected!Used = TagsOf(out)
    BY <1>6, UsedTags
  <2> HIDE DEF main, helper
  <2>4. /\ main.tag \notin Collected!Used /\ helper.tag \notin Collected!Used /\ main.tag # helper.tag
        /\ main.detour = helper.tag /\ helper.detour \in Collected!Used \cup {NoTag}
    BY <2>2, <2>3, <1>1, <1>2, <1>4
  <2> QED BY <1>10, <2>4 DEF Collected!EmitPair, main, helper
<1>12. ComesAs(ob1, out') /\ ComesAs(ob2, out')
  <2>1. Len(out) + 1 \in DOMAIN out' /\ Len(out) + 2 \in DOMAIN out'
    BY <1>7
  <2> QED BY <2>1, <1>2, <1>4, <1>6 DEF ComesAs
<1> QED BY <1>6, <1>10, <1>11, <1>12

\* A hop gives a list, and one of two is a pair.
LEMMA HopShape ==
  ASSUME NEW obs, NEW hop, obs = processSingleConfig(hop)
  PROVE  IsList(obs) /\ (Len(obs) = 2 => "type" \in DOMAIN obs[1] /\ obs[1]["type"] \notin NoDialer)
<1>1. \/ obs = <<>>
      \/ \E ob : obs = <<ob>>
      \/ \E main, helper : obs = <<main, helper>> /\ "type" \in DOMAIN main /\ main["type"] \notin NoDialer
  BY HopGives
<1>2. CASE obs = <<>>
  BY <1>2 DEF IsList
<1>3. CASE \E ob : obs = <<ob>>
  <2>1. PICK ob : obs = <<ob>>
    BY <1>3
  <2>2. obs \in Seq({ob}) /\ Len(obs) = 1
    BY <2>1
  <2> QED BY <2>2, SeqIsList
<1>4. CASE \E main, helper : obs = <<main, helper>> /\ "type" \in DOMAIN main /\ main["type"] \notin NoDialer
  <2>1. PICK main, helper : obs = <<main, helper>> /\ "type" \in DOMAIN main /\ main["type"] \notin NoDialer
    BY <1>4
  <2>2. obs \in Seq({main, helper}) /\ obs[1] = main
    BY <2>1
  <2> QED BY <2>1, <2>2, SeqIsList
<1> QED BY <1>1, <1>2, <1>3, <1>4

\* A hop is done when all it gives is collected, and stays done when more is collected.
Done(hop, outs) == \A i \in DOMAIN processSingleConfig(hop) : ComesAs(processSingleConfig(hop)[i], outs)
Keeps(outs, more) == \A i \in DOMAIN outs : i \in DOMAIN more /\ more[i] = outs[i]

\* The hops of a parse are parsed as LinkChains says, a hop that fails adding nothing.
LEMMA ParseHopStep ==
  ASSUME NumbersTell, TagInv, TagsAreText, ParseHop
  PROVE  /\ TagInv' /\ (Collected!Emit \/ Collected!EmitPair \/ UNCHANGED Emissions(out))
         /\ Keeps(out, out') /\ Done(Hop, out') /\ \E tag : Advance(tag)
<1> DEFINE obs == processSingleConfig(Hop)
<1>1. stage = "parsing" /\ stage' = stage /\ (HopFails(obs) \/ EmitOne(obs) \/ EmitPair(obs))
  BY Zenon DEF ParseHop
<1>2. \A i \in DOMAIN obs : obs[i]["tag"] \in STRING
  BY Zenon DEF ParseHop, TagsAreText
<1>3. IsList(obs) /\ (Len(obs) = 2 => "type" \in DOMAIN obs[1] /\ obs[1]["type"] \notin NoDialer)
  <2>1. obs = processSingleConfig(Hop)
    OBVIOUS
  <2> HIDE DEF obs
  <2> QED BY <2>1, HopShape, Zenon
<1>4. (\A i \in DOMAIN obs : ComesAs(obs[i], out')) => Done(Hop, out')
  BY Zenon DEF Done
<1>5. \E tag : Advance(tag)
  BY <1>1, Zenon DEF HopFails, EmitOne, EmitPair
<1>6. \A n : Adds(out, out', n) => Keeps(out, out')
  BY DEF Adds, Keeps
<1> HIDE DEF obs
<1>7. DOMAIN obs = 1..Len(obs) /\ Len(obs) \in Nat
  BY <1>3, ListLength
<1>8. CASE HopFails(obs)
  <2>1. obs = <<>> /\ UNCHANGED <<counter, out>> /\ (detourTag' = "" \/ detourTag' = detourTag)
    BY <1>8, Zenon DEF HopFails, Advance
  <2>2. TagInv'
    <3>1. counter \in Nat /\ Tell(out, counter) /\ detourTag \in TagsOf(out) \cup {NoTag}
      BY <1>1, Zenon DEF TagInv, NoTag
    <3>2. counter' \in Nat /\ Tell(out', counter') /\ detourTag' \in TagsOf(out') \cup {NoTag}
      BY <2>1, <3>1 DEF NoTag
    <3> QED BY <3>2, Zenon DEF TagInv, NoTag
  <2>3. Keeps(out, out')
    <3>1. out' = out
      BY <2>1
    <3> QED BY <3>1 DEF Keeps
  <2>4. DOMAIN obs = {}
    <3>1. obs = <<>>
      BY <2>1
    <3> QED BY <3>1
  <2> QED BY <2>1, <2>2, <2>3, <2>4, <1>4, <1>5
<1>9. CASE EmitOne(obs)
  <2>1. Len(obs) = 1
    BY <1>9, Zenon DEF EmitOne
  <2>2. \A i \in DOMAIN obs : i = 1
    BY <2>1, <1>7
  <2>3. obs[1]["tag"] \in STRING
    BY <2>1, <1>2, <1>7
  <2>4. TagInv' /\ Collected!Emit /\ Adds(out, out', 1) /\ ComesAs(obs[1], out')
    BY <1>1, <1>9, <2>3, EmitOneStep, Zenon
  <2> QED BY <2>2, <2>4, <1>4, <1>5, <1>6
<1>10. CASE EmitPair(obs)
  <2>1. Len(obs) = 2
    BY <1>10, Zenon DEF EmitPair
  <2>2. \A i \in DOMAIN obs : i = 1 \/ i = 2
    BY <2>1, <1>7
  <2>3. obs[1]["tag"] \in STRING /\ obs[2]["tag"] \in STRING
    BY <2>1, <1>2, <1>7
  <2>4. TagInv' /\ Collected!EmitPair /\ Adds(out, out', 2) /\ ComesAs(obs[1], out') /\ ComesAs(obs[2], out')
    BY <1>1, <1>3, <1>10, <2>1, <2>3, EmitPairStep, Zenon
  <2> QED BY <2>2, <2>4, <1>4, <1>5, <1>6
<1> QED BY <1>1, <1>8, <1>9, <1>10

\* Nothing collected is nothing emitted.
LEMMA Nothing == Emissions(<<>>) = <<>> /\ \A n \in Nat : Tell(<<>>, n)
<1>1. Emissions(<<>>) = <<>>
  BY DEF Emissions
<1>2. IsList(<<>>)
  BY DEF IsList
<1> QED BY <1>1, <1>2 DEF Tell

\* Every other step leaves what is collected, or starts anew.
LEMMA OtherSteps ==
  ASSUME TagInv, Convert \/ StartParse \/ FinishParse \/ KeepRecord \/ KeepConfig \/ UNCHANGED vars
  PROVE  TagInv' /\ (Collected!Restart \/ UNCHANGED Emissions(out))
<1>1. counter \in Nat /\ Tell(out, counter) /\ (stage = "parsing" => detourTag \in TagsOf(out) \cup {NoTag})
  BY Zenon DEF TagInv, NoTag
<1>2. \/ UNCHANGED <<counter, out>> /\ (UNCHANGED <<stage, detourTag>> \/ stage' # "parsing")
      \/ out' = <<>> /\ counter' = 0 /\ (detourTag' = NoTag \/ stage' # "parsing")
  BY Zenon DEF Convert, StartParse, FinishParse, KeepRecord, KeepConfig, Again, vars, NoTag
<1>3. CASE UNCHANGED <<counter, out>> /\ (UNCHANGED <<stage, detourTag>> \/ stage' # "parsing")
  <2>1. counter' \in Nat /\ Tell(out', counter') /\ (stage' = "parsing" => detourTag' \in TagsOf(out') \cup {NoTag})
    BY <1>1, <1>3
  <2>2. UNCHANGED Emissions(out)
    BY <1>3
  <2> QED BY <2>1, <2>2, Zenon DEF TagInv, NoTag
<1>4. CASE out' = <<>> /\ counter' = 0 /\ (detourTag' = NoTag \/ stage' # "parsing")
  <2>1. Collected!Restart
    BY <1>4, Nothing DEF Collected!Restart
  <2>2. counter' \in Nat /\ Tell(out', counter') /\ (stage' = "parsing" => detourTag' \in TagsOf(out') \cup {NoTag})
    BY <1>4, Nothing
  <2> QED BY <2>1, <2>2, Zenon DEF TagInv, NoTag
<1> QED BY <1>2, <1>3, <1>4

\* Initial states are initial states of LinkChains.
LEMMA ChainsInit == Init => Collected!Init /\ TagInv
<1> SUFFICES ASSUME Init PROVE Collected!Init /\ TagInv
  OBVIOUS
<1>1. out = <<>> /\ counter = 0 /\ detourTag = NoTag
  BY Zenon DEF Init, NoTag
<1>2. Collected!Init
  BY <1>1, Nothing DEF Collected!Init
<1>3. counter \in Nat /\ Tell(out, counter) /\ detourTag \in TagsOf(out) \cup {NoTag}
  BY <1>1, Nothing
<1> QED BY <1>2, <1>3, Zenon DEF TagInv, NoTag

\* Steps are steps of LinkChains, or stutter.
LEMMA ChainsStep ==
  NumbersTell /\ TagsAreText /\ TagInv /\ [Next]_vars => TagInv' /\ [Collected!Next]_(Emissions(out))
<1> SUFFICES ASSUME NumbersTell, TagsAreText, TagInv, [Next]_vars
             PROVE  TagInv' /\ [Collected!Next]_(Emissions(out))
  OBVIOUS
<1>1. CASE ParseHop
  BY <1>1, ParseHopStep, Zenon DEF Collected!Next
<1>2. CASE Convert \/ StartParse \/ FinishParse \/ KeepRecord \/ KeepConfig \/ UNCHANGED vars
  BY <1>2, OtherSteps, Zenon DEF Collected!Next
<1> QED BY <1>1, <1>2 DEF Next

\* A parse collects outbounds as LinkChains promises: each with a tag that is new, dialing
\* through what is already there or through the helper behind it.  The premises are what the
\* provers do not know of text: the numbers of tags can be told apart, and a tag is text.
THEOREM ImplementsChains == NumbersTell /\ Spec /\ []TagsAreText => ChainSpec
<1>1. NumbersTell => NumbersTell'
  OBVIOUS
<1>2. NumbersTell => []NumbersTell
  BY <1>1, PTL
<1> QED BY <1>2, ChainsInit, ChainsStep, PTL DEF Spec, ChainSpec, Collected!Spec

\* And so no two outbounds of a config share a tag, and every detour ends.
THEOREM ParsedChainsAreSound == NumbersTell /\ Spec /\ []TagsAreText => []Collected!Sound
BY ImplementsChains, ChainsAreSound, PTL DEF ChainSpec

-----------------------------------------------------------------------------
(* What becomes of the lines of a text. *)

\* The elements of a flattened list are those of its lists, and of a selection those selected.
LEMMA FlattenedList ==
  ASSUME NEW ss, IsList(ss), \A i \in DOMAIN ss : IsList(ss[i])
  PROVE  /\ IsList(FlattenSeq(ss))
         /\ \A x : x \in Range(FlattenSeq(ss)) <=> \E i \in DOMAIN ss : x \in Range(ss[i])
<1> DEFINE S == UNION {Range(ss[i]) : i \in DOMAIN ss}
<1>1. \A i \in DOMAIN ss : ss[i] \in Seq(S)
  <2> SUFFICES ASSUME NEW i \in DOMAIN ss PROVE ss[i] \in Seq(S)
    OBVIOUS
  <2>1. ss[i] \in Seq(Range(ss[i])) /\ Range(ss[i]) \subseteq S
    BY DEF IsList
  <2> DEFINE s == ss[i]
  <2> DEFINE R == Range(ss[i])
  <2>2. s \in Seq(R) /\ R \subseteq S
    BY <2>1
  <2> HIDE DEF S, s, R
  <2>3. s \in Seq(S)
    BY <2>2
  <2> QED BY <2>3 DEF s
<1>2. ss \in Seq(Seq(S))
  <2> DEFINE T == Seq(S)
  <2>1. \A i \in DOMAIN ss : ss[i] \in T
    BY <1>1
  <2> HIDE DEF T
  <2>2. ss = [i \in 1..Len(ss) |-> ss[i]] /\ Len(ss) \in Nat /\ DOMAIN ss = 1..Len(ss)
    BY DEF IsList
  <2>3. ss \in Seq(T)
    BY <2>1, <2>2
  <2> QED BY <2>3 DEF T
<1>3. \A x : x \in S <=> \E i \in DOMAIN ss : x \in Range(ss[i])
  OBVIOUS
<1> DEFINE f == FlattenSeq(ss)
<1> HIDE DEF S
<1>4. f \in Seq(S) /\ \A i \in DOMAIN ss : Holds(f, ss[i])
  BY <1>2, Flattened
<1> HIDE DEF f
<1>5. IsList(f)
  BY <1>4, SeqIsList
<1>6. \A x \in Range(f) : x \in S
  BY <1>4 DEF Range
<1>7. ASSUME NEW i \in DOMAIN ss, NEW x \in Range(ss[i]) PROVE x \in Range(f)
  BY <1>4 DEF Range, Holds
<1>8. IsList(f) /\ \A x : x \in Range(f) <=> \E i \in DOMAIN ss : x \in Range(ss[i])
  BY <1>3, <1>5, <1>6, <1>7
<1> QED BY <1>8 DEF f

\* ... of a selection, those selected.
LEMMA PickedList ==
  ASSUME NEW s, IsList(s), NEW places
  PROVE  /\ IsList(Picked(s, places))
         /\ \A x : x \in Range(Picked(s, places)) <=> \E i \in DOMAIN s : i \in places /\ s[i] = x
<1> DEFINE ss == [i \in DOMAIN s |-> IF i \in places THEN <<s[i]>> ELSE <<>>]
<1>1. Picked(s, places) = FlattenSeq(ss)
  BY DEF Picked
<1>2. DOMAIN ss = DOMAIN s
  OBVIOUS
<1>3. \A i \in DOMAIN s : ss[i] = IF i \in places THEN <<s[i]>> ELSE <<>>
  OBVIOUS
<1>4. ss = [i \in 1..Len(s) |-> ss[i]] /\ Len(s) \in Nat
  BY ListLength
<1> HIDE DEF ss
<1>5. IsList(ss)
  BY <1>2, <1>4 DEF IsList, Range
<1>6. ASSUME NEW i \in DOMAIN s
      PROVE  IsList(ss[i]) /\ \A x : x \in Range(ss[i]) <=> i \in places /\ x = s[i]
  <2>1. CASE i \in places
    <3> DEFINE a == s[i]
    <3> DEFINE one == <<a>>
    <3>1. one \in Seq({a}) /\ \A x : x \in Range(one) <=> x = a
      <4> HIDE DEF a
      <4> QED BY DEF Range
    <3>2. ss[i] = one
      BY <1>3, <2>1
    <3> HIDE DEF one, a
    <3>3. IsList(one)
      BY <3>1, SeqIsList
    <3> QED BY <3>1, <3>2, <3>3, <2>1 DEF a
  <2>2. CASE i \notin places
    <3>1. ss[i] = <<>>
      BY <1>3, <2>2
    <3> QED BY <3>1, <2>2 DEF IsList, Range
  <2> QED BY <2>1, <2>2
<1>7. /\ IsList(FlattenSeq(ss))
      /\ \A x : x \in Range(FlattenSeq(ss)) <=> \E i \in DOMAIN ss : x \in Range(ss[i])
  BY <1>2, <1>5, <1>6, FlattenedList
<1> QED BY <1>1, <1>2, <1>6, <1>7

\* A list of the same places is a list.
SamePlaces(s, t) == DOMAIN t = DOMAIN s /\ t = [i \in DOMAIN s |-> t[i]]
\* Such a list has the same length.
LEMMA Mapped ==
  ASSUME NEW s, IsList(s), NEW t, SamePlaces(s, t)
  PROVE  IsList(t) /\ Len(t) = Len(s)
<1>1. t = [i \in 1..Len(s) |-> t[i]] /\ Len(s) \in Nat /\ DOMAIN t = 1..Len(s)
  BY ListLength DEF SamePlaces
<1>2. IsList(t)
  BY <1>1 DEF IsList, Range
<1> QED BY <1>1, <1>2, ListLength

\* A line that a conversion makes, and a list of such lines.
IsMade(line) == "kind" \in DOMAIN line /\ (line.kind = "link" => "hops" \in DOMAIN line) /\ IsLine(line)
AreMade(lines) == IsList(lines) /\ \A line \in Range(lines) : IsMade(line)

\* Such a line is well-formed.
LEMMA MadeIsLine == \A line : IsMade(line) => IsLine(line)
BY DEF IsMade, IsLine

\* One element on its own.
LEMMA OneIsList ==
  ASSUME NEW x, NEW s, s = <<x>>
  PROVE  IsList(s) /\ s # <<>> /\ Range(s) = {x}
<1>1. s \in Seq({x}) /\ s # <<>>
  OBVIOUS
<1>2. Range(s) = {x}
  BY DEF Range
<1> QED BY <1>1, <1>2, SeqIsList

\* No line is a list of lines, and so is one.
LEMMA NoneMade == AreMade(<<>>)
BY DEF AreMade, IsList, Range

\* ... one of them.
LEMMA OneMade ==
  ASSUME NEW x, IsMade(x), NEW s, s = <<x>>
  PROVE  AreMade(s)
<1>1. IsList(s) /\ Range(s) = {x}
  BY OneIsList
<1> QED BY <1>1 DEF AreMade

\* A link makes a line, and so does a node.
LEMMA LinkLineMade == \A hop : IsMade(LinkLine(hop))
<1> SUFFICES ASSUME NEW hop PROVE IsMade(LinkLine(hop))
  OBVIOUS
<1> DEFINE hops == <<hop>>
<1>1. IsList(hops) /\ hops # <<>>
  BY OneIsList
<1> HIDE DEF hops
<1> DEFINE line == [kind |-> "link", hops |-> hops]
<1>2. LinkLine(hop) = line
  BY DEF LinkLine, hops
<1>3. line.hops = hops /\ "kind" \in DOMAIN line /\ "hops" \in DOMAIN line
  OBVIOUS
<1>4. IsLine(line)
  <2> HIDE DEF line
  <2> QED BY <1>1, <1>3 DEF IsLine
<1> HIDE DEF line
<1> QED BY <1>2, <1>3, <1>4 DEF IsMade

\* ... the line of a node.
LEMMA NodeLineMade == \A node, isEndpoint : IsMade(NodeLine(node, isEndpoint))
<1> SUFFICES ASSUME NEW node, NEW isEndpoint PROVE IsMade(NodeLine(node, isEndpoint))
  OBVIOUS
<1> DEFINE line == NodeLine(node, isEndpoint)
<1>1. "kind" \in DOMAIN line /\ line.kind = "json"
  BY DEF NodeLine
<1> HIDE DEF line
<1>2. IsMade(line)
  BY <1>1 DEF IsMade, IsLine
<1> QED BY <1>2 DEF line

\* One entry is one line, or none.
LEMMA RecordMade == \A e : AreMade(toRecord(e))
<1> SUFFICES ASSUME NEW e PROVE AreMade(toRecord(e))
  OBVIOUS
<1>1. \/ toRecord(e) = <<>>
      \/ \E x : toRecord(e) = <<x>> /\ IsMade(x)
  BY LinkLineMade, NodeLineMade, Zenon DEF toRecord, NodeRecord
<1> QED BY <1>1, NoneMade, OneMade, Zenon

\* Lists of lines make one list of lines.
LEMMA FlattenMade ==
  ASSUME NEW ss, IsList(ss), \A i \in DOMAIN ss : AreMade(ss[i])
  PROVE  AreMade(FlattenSeq(ss))
<1>1. \A i \in DOMAIN ss : IsList(ss[i]) /\ \A line \in Range(ss[i]) : IsMade(line)
  BY DEF AreMade
<1>2. /\ IsList(FlattenSeq(ss))
      /\ \A x : x \in Range(FlattenSeq(ss)) <=> \E i \in DOMAIN ss : x \in Range(ss[i])
  BY <1>1, FlattenedList
<1> QED BY <1>1, <1>2 DEF AreMade

\* Two lists make one, of the elements of both.
LEMMA TwoLists ==
  ASSUME NEW s, IsList(s), NEW more, IsList(more), NEW t, IsJoined(s, more, t)
  PROVE  IsList(t) /\ \A x : x \in Range(t) <=> x \in Range(s) \/ x \in Range(more)
<1> DEFINE R == Range(s) \cup Range(more)
<1>1. s \in Seq(R) /\ more \in Seq(R) /\ t = s \o more
  BY DEF IsList, IsJoined
<1> HIDE DEF R
<1>2. t \in Seq(R)
  BY <1>1
<1>3. \A x \in Range(t) : x \in R
  BY <1>2 DEF Range
<1>4. /\ \A i \in DOMAIN s : i \in DOMAIN t /\ t[i] = s[i]
      /\ \A i \in DOMAIN more : Len(s) + i \in DOMAIN t /\ t[Len(s) + i] = more[i]
  BY Joined DEF Adds
<1>5. \A x : x \in Range(s) \/ x \in Range(more) => x \in Range(t)
  BY <1>4 DEF Range
<1> QED BY <1>2, <1>3, <1>5, SeqIsList DEF R

\* The entries of a container, and of several, are a list.
EntriesOf(raws, isEndpoint) == [i \in DOMAIN raws |-> Entry(raws[i], isEndpoint, "")]
\* The entries of one array.
LEMMA EntriesList ==
  ASSUME NEW raws, IsList(raws), NEW isEndpoint
  PROVE  IsList(EntriesOf(raws, isEndpoint))
<1> DEFINE t == EntriesOf(raws, isEndpoint)
<1>1. SamePlaces(raws, t)
  BY DEF SamePlaces, EntriesOf
<1> HIDE DEF t
<1>2. IsList(t)
  BY <1>1, Mapped
<1> QED BY <1>2 DEF t

\* The entries of one container: of its arrays, or the one server of a container with remarks.
LEMMA ContainerList ==
  ASSUME NEW c, IsList(c.outbounds), IsList(c.servers), IsList(c.endpoints)
  PROVE  IsList(entriesFromContainerObject(c))
<1> DEFINE a == EntriesOf(c.outbounds, FALSE)
<1> DEFINE b == EntriesOf(c.servers, FALSE)
<1> DEFINE d == EntriesOf(c.endpoints, TRUE)
<1> DEFINE s == entriesFromContainerObject(c)
<1>1. s = happEntry(c) \/ s = (a \o b) \o d
  BY Zenon DEF entriesFromContainerObject, EntriesOf
<1>2. happEntry(c) = <<>> \/ \E x : happEntry(c) = <<x>>
  BY Zenon DEF happEntry
<1>3. IsList(a) /\ IsList(b) /\ IsList(d)
  BY EntriesList
<1>4. IsList(<<>>)
  BY DEF IsList
<1> DEFINE ab == a \o b
<1> DEFINE abd == ab \o d
<1>5. IsJoined(a, b, ab) /\ IsJoined(ab, d, abd)
  BY DEF IsJoined
<1>6. s = happEntry(c) \/ s = abd
  BY <1>1
<1> HIDE DEF a, b, d, ab, abd, s
<1>7. IsList(ab)
  BY <1>3, <1>5, TwoLists
<1>8. IsList(abd)
  BY <1>3, <1>5, <1>7, TwoLists
<1>9. IsList(s)
  BY <1>2, <1>4, <1>6, <1>8, OneIsList, Zenon
<1> QED BY <1>9 DEF s

\* The entries of all the items.
LEMMA CollectedList ==
  ASSUME NEW items, IsItems(items)
  PROVE  IsList(collectContainerEntries(items))
<1> DEFINE entries(item) == IF "node" \notin DOMAIN item THEN entriesFromContainerObject(item)
                            ELSE IF Get(item.node, "remarks") = "" THEN <<Entry(item.node, FALSE, "")>> ELSE <<>>
<1> DEFINE ss == [i \in DOMAIN items |-> entries(items[i])]
<1>1. collectContainerEntries(items) = FlattenSeq(ss)
  BY DEF collectContainerEntries
<1>2. SamePlaces(items, ss) /\ IsList(items)
  BY Zenon DEF SamePlaces, IsItems
<1>3. ASSUME NEW i \in DOMAIN items PROVE IsList(ss[i])
  <2>1. ss[i] = entries(items[i])
    OBVIOUS
  <2> HIDE DEF ss
  <2>2. CASE "node" \notin DOMAIN items[i]
    <3>1. IsList(items[i].outbounds) /\ IsList(items[i].servers) /\ IsList(items[i].endpoints)
      BY <2>2, <1>3, Zenon DEF IsItems
    <3> QED BY <2>1, <2>2, <3>1, ContainerList, Zenon
  <2>3. CASE "node" \in DOMAIN items[i]
    <3>1. ss[i] = <<>> \/ \E x : ss[i] = <<x>>
      BY <2>1, <2>3, Zenon
    <3>2. IsList(<<>>)
      BY DEF IsList
    <3> QED BY <3>1, <3>2, OneIsList, Zenon
  <2> QED BY <2>2, <2>3
<1> HIDE DEF ss
<1>4. IsList(ss) /\ \A i \in DOMAIN ss : IsList(ss[i])
  BY <1>2, <1>3, Mapped, Zenon DEF SamePlaces
<1>5. IsList(FlattenSeq(ss))
  BY <1>4, FlattenedList
<1> QED BY <1>1, <1>5

\* The records of containers and of wg-quick files.
LEMMA JSONMade ==
  ASSUME NEW items, IsItems(items)
  PROVE  AreMade(convertJSONEntries(items))
<1> DEFINE entries == collectContainerEntries(items)
<1> DEFINE ss == [i \in DOMAIN entries |-> toRecord(entries[i])]
<1>1. convertJSONEntries(items) = FlattenSeq(ss)
  BY DEF convertJSONEntries
<1>2. IsList(entries)
  BY CollectedList
<1> HIDE DEF entries
<1>3. SamePlaces(entries, ss) /\ \A i \in DOMAIN ss : AreMade(ss[i])
  BY RecordMade DEF SamePlaces
<1> HIDE DEF ss
<1>4. IsList(ss)
  BY <1>2, <1>3, Mapped
<1> QED BY <1>1, <1>3, <1>4, FlattenMade

\* ... of wg-quick files, those that parse.
LEMMA AWGMade ==
  ASSUME NEW inis, IsList(inis)
  PROVE  AreMade(convertAWGConfEntries(inis))
<1> DEFINE parsed == [i \in DOMAIN inis |-> AWGSingboxTxt(inis[i])]
<1> DEFINE good == Picked(parsed, {i \in DOMAIN parsed : ~IsFailed(parsed[i])})
<1> DEFINE ss == [i \in DOMAIN good |-> toRecord(Entry(good[i], TRUE, ""))]
<1>1. convertAWGConfEntries(inis) = FlattenSeq(ss)
  BY Zenon DEF convertAWGConfEntries
<1>2. SamePlaces(inis, parsed)
  BY DEF SamePlaces
<1> HIDE DEF parsed
<1>3. IsList(parsed)
  BY <1>2, Mapped
<1>4. IsList(good)
  BY <1>3, PickedList
<1> HIDE DEF good
<1>5. SamePlaces(good, ss) /\ \A i \in DOMAIN ss : AreMade(ss[i])
  BY RecordMade DEF SamePlaces
<1> HIDE DEF ss
<1>6. IsList(ss)
  BY <1>4, <1>5, Mapped
<1> QED BY <1>1, <1>5, <1>6, FlattenMade

\* A new name leaves a record a record.
LEMMA RenamedMade ==
  ASSUME NEW lines, AreMade(lines), NEW name
  PROVE  AreMade(Renamed(lines, name))
<1> DEFINE t == Renamed(lines, name)
<1>1. SamePlaces(lines, t) /\ IsList(lines)
  BY DEF SamePlaces, Renamed, AreMade
<1>2. \A i \in DOMAIN lines : t[i] = amneziaRenameRecord(lines[i], name) /\ IsMade(lines[i])
  BY DEF Renamed, AreMade, Range
<1> HIDE DEF t
<1>3. ASSUME NEW line, IsMade(line) PROVE IsMade(amneziaRenameRecord(line, name))
  <2> DEFINE node == minifyNodeJSON(line.node, name)
  <2> DEFINE hops == <<renameURIFragment(line.hops[1], name)>>
  <2>1. \/ amneziaRenameRecord(line, name) = line
        \/ line.kind = "json" /\ amneziaRenameRecord(line, name) = [line EXCEPT !.node = node]
        \/ amneziaRenameRecord(line, name) = [line EXCEPT !.hops = hops]
    BY Zenon DEF amneziaRenameRecord
  <2>2. IsList(hops) /\ hops # <<>>
    BY OneIsList
  <2> HIDE DEF node, hops
  <2>3. CASE amneziaRenameRecord(line, name) = line
    BY <2>3, <1>3
  <2>4. CASE line.kind = "json" /\ amneziaRenameRecord(line, name) = [line EXCEPT !.node = node]
    <3> DEFINE new == [line EXCEPT !.node = node]
    <3>1. "kind" \in DOMAIN new /\ new.kind = "json"
      BY <1>3, <2>4 DEF IsMade
    <3> HIDE DEF new
    <3>2. IsMade(new)
      BY <3>1 DEF IsMade, IsLine
    <3> QED BY <3>2, <2>4 DEF new
  <2>5. CASE amneziaRenameRecord(line, name) = [line EXCEPT !.hops = hops]
    <3> DEFINE new == [line EXCEPT !.hops = hops]
    <3>1. "kind" \in DOMAIN new /\ (new.kind = "link" => "hops" \in DOMAIN new /\ new.hops = hops)
      BY <1>3 DEF IsMade
    <3> HIDE DEF new
    <3>2. IsMade(new)
      BY <3>1, <2>2 DEF IsMade, IsLine
    <3> QED BY <3>2, <2>5 DEF new
  <2> QED BY <2>1, <2>3, <2>4, <2>5
<1>4. \A line \in Range(t) : IsMade(line)
  BY <1>1, <1>2, <1>3 DEF Range, SamePlaces
<1>5. AreMade(t)
  BY <1>1, <1>4, Mapped DEF AreMade
<1> QED BY <1>5 DEF t

\* The parts of an AmneziaVPN link have the payloads of its containers.
LEMMA ReverseList ==
  ASSUME NEW s, IsList(s)
  PROVE  IsList(Reverse(s)) /\ \A x \in Range(Reverse(s)) : x \in Range(s)
<1> DEFINE t == Reverse(s)
<1>1. Len(s) \in Nat /\ DOMAIN s = 1..Len(s)
  BY ListLength
<1>2. t = [i \in 1..Len(s) |-> s[(Len(s) - i) + 1]]
  BY DEF Reverse
<1>3. t = [i \in 1..Len(s) |-> t[i]] /\ DOMAIN t = 1..Len(s)
  BY <1>2
<1>4. \A i \in 1..Len(s) : t[i] = s[(Len(s) - i) + 1] /\ (Len(s) - i) + 1 \in DOMAIN s
  BY <1>1, <1>2
<1> HIDE DEF t
<1>5. SamePlaces(s, t)
  BY <1>1, <1>3 DEF SamePlaces
<1>6. IsList(t)
  BY <1>5, Mapped
<1>7. \A x \in Range(t) : x \in Range(s)
  BY <1>3, <1>4 DEF Range
<1> QED BY <1>6, <1>7 DEF t

\* The parts are a list, and their payloads are what the containers' handlers expect.
LEMMA PartsList ==
  ASSUME NEW vpn, IsList(vpn.containers), \A i \in DOMAIN vpn.containers : IsContainer(vpn.containers[i])
  PROVE  IsList(amneziaParts(vpn)) /\ \A i \in DOMAIN amneziaParts(vpn) : IsContainer(amneziaParts(vpn)[i])
<1> DEFINE convertible(c) == /\ c.id \in DOMAIN amneziaHandlers /\ c.payload # <<>>
                             /\ c.id \in SsContainers => Rebuilt(amneziaSSPart(c.payload[1], vpn))
<1> DEFINE parts == Picked(vpn.containers, {i \in DOMAIN vpn.containers : convertible(vpn.containers[i])})
<1> DEFINE defaults == {i \in DOMAIN parts : parts[i].id = vpn.default}
<1> DEFINE ordered == Reverse(Picked(parts, defaults)) \o Picked(parts, DOMAIN parts \ defaults)
<1> DEFINE base == FirstSet(<<vpn.description, vpn.hostName>>)
<1> DEFINE name(c) == IF Len(parts) > 1 /\ base # "" THEN base \o " (" \o amneziaHandlers[c.id] \o ")" ELSE base
<1> DEFINE named == [i \in DOMAIN ordered |-> [id |-> ordered[i].id, payload |-> ordered[i].payload, name |-> name(ordered[i])]]
<1>1. amneziaParts(vpn) = named
  BY Zenon DEF amneziaParts
<1> HIDE DEF convertible
<1>2. IsList(parts) /\ \A c \in Range(parts) : IsContainer(c)
  <2>1. /\ IsList(parts)
        /\ \A c : c \in Range(parts) => \E i \in DOMAIN vpn.containers : vpn.containers[i] = c
    <3> DEFINE s == vpn.containers
    <3> DEFINE places == {i \in DOMAIN s : convertible(s[i])}
    <3>1. IsList(s) /\ parts = Picked(s, places)
      OBVIOUS
    <3> HIDE DEF s, places, parts
    <3>2. IsList(parts) /\ \A c : c \in Range(parts) => \E i \in DOMAIN s : s[i] = c
      BY <3>1, PickedList
    <3> QED BY <3>2 DEF s
  <2> HIDE DEF parts
  <2> QED BY <2>1
<1> HIDE DEF parts
<1> DEFINE first == Reverse(Picked(parts, defaults))
<1> DEFINE rest == Picked(parts, DOMAIN parts \ defaults)
<1>3. IsList(first) /\ \A c \in Range(first) : c \in Range(parts)
  <2> DEFINE s == Picked(parts, defaults)
  <2> HIDE DEF defaults
  <2>1. IsList(s) /\ \A c \in Range(s) : c \in Range(parts)
    BY <1>2, PickedList DEF Range
  <2> HIDE DEF s
  <2>2. IsList(Reverse(s)) /\ \A c \in Range(Reverse(s)) : c \in Range(s)
    BY <2>1, ReverseList
  <2> QED BY <2>1, <2>2 DEF s
<1>4. IsList(rest) /\ \A c \in Range(rest) : c \in Range(parts)
  <2> DEFINE places == DOMAIN parts \ defaults
  <2> HIDE DEF places
  <2> QED BY <1>2, PickedList DEF Range, places
<1>5. IsJoined(first, rest, ordered)
  BY DEF IsJoined
<1> HIDE DEF first, rest, ordered
<1>6. IsList(ordered) /\ \A c \in Range(ordered) : IsContainer(c)
  BY <1>2, <1>3, <1>4, <1>5, TwoLists
<1>7. SamePlaces(ordered, named)
  BY DEF SamePlaces
<1>8. ASSUME NEW i \in DOMAIN named PROVE IsContainer(named[i])
  <2> DEFINE c == ordered[i]
  <2> DEFINE id == c.id
  <2> DEFINE payload == c.payload
  <2> DEFINE title == name(c)
  <2>1. named[i] = [id |-> id, payload |-> payload, name |-> title] /\ c \in Range(ordered)
    BY DEF Range
  <2> HIDE DEF title, id, payload, named
  <2>2. named[i].id = id /\ named[i].payload = payload
    BY <2>1
  <2>3. IsContainer(c)
    BY <1>6, <2>1
  <2> QED BY <2>2, <2>3 DEF IsContainer, id, payload
<1> HIDE DEF named
<1>9. IsList(named)
  BY <1>6, <1>7, Mapped
<1> QED BY <1>1, <1>8, <1>9

\* The records of an AmneziaVPN link.
LEMMA AmneziaMade ==
  ASSUME NEW vpn, IsList(vpn.containers), \A i \in DOMAIN vpn.containers : IsContainer(vpn.containers[i])
  PROVE  AreMade(convertAmneziaEntries(vpn))
<1> DEFINE recordsOf(p) == CASE p.id \in SsContainers -> <<LinkLine(amneziaSSPart(p.payload[1], vpn))>>
                             [] p.id \in XrayContainers -> convertJSONEntries(p.payload)
                             [] OTHER -> convertAWGConfEntries(p.payload)
<1> DEFINE parts == amneziaParts(vpn)
<1> DEFINE ss == [i \in DOMAIN parts |-> Renamed(recordsOf(parts[i]), parts[i].name)]
<1>1. convertAmneziaEntries(vpn) = FlattenSeq(ss)
  BY Zenon DEF convertAmneziaEntries
<1>2. IsList(parts) /\ \A i \in DOMAIN parts : IsContainer(parts[i])
  BY PartsList
<1> HIDE DEF parts
<1>3. XrayContainers \cap SsContainers = {}
  BY DEF XrayContainers, SsContainers
<1>4. ASSUME NEW p, IsContainer(p) PROVE AreMade(recordsOf(p))
  <2>1. CASE p.id \in SsContainers
    <3>1. recordsOf(p) = <<LinkLine(amneziaSSPart(p.payload[1], vpn))>>
      <4>1. p.id \notin XrayContainers
        BY <1>3, <2>1
      <4> QED BY <2>1, <4>1, Zenon
    <3> QED BY <3>1, LinkLineMade, OneMade, Zenon
  <2>2. CASE p.id \notin SsContainers /\ p.id \in XrayContainers
    <3>1. recordsOf(p) = convertJSONEntries(p.payload)
      BY <2>2, Zenon
    <3>2. IsItems(p.payload)
      BY <2>2, <1>4 DEF IsContainer
    <3> QED BY <3>1, <3>2, JSONMade, Zenon
  <2>3. CASE p.id \notin SsContainers /\ p.id \notin XrayContainers
    <3>1. recordsOf(p) = convertAWGConfEntries(p.payload)
      BY <2>3, Zenon
    <3>2. IsList(p.payload)
      BY <1>4 DEF IsContainer
    <3> QED BY <3>1, <3>2, AWGMade, Zenon
  <2> QED BY <2>1, <2>2, <2>3
<1> HIDE DEF recordsOf
<1>5. SamePlaces(parts, ss) /\ \A i \in DOMAIN ss : AreMade(ss[i])
  BY <1>2, <1>4, RenamedMade DEF SamePlaces
<1> HIDE DEF ss
<1>6. IsList(ss)
  BY <1>2, <1>5, Mapped
<1> QED BY <1>1, <1>5, <1>6, FlattenMade

\* The lines of a text that are kept are its own.
LEMMA KeptLines ==
  ASSUME NEW lines, IsList(lines), \A i \in DOMAIN lines : IsLine(lines[i])
  PROVE  \A line \in Range(Kept(lines)) : IsLine(line)
<1>1. \E places : Kept(lines) = Picked(lines, places)
  BY Zenon DEF Kept
<1>2. PICK places : Kept(lines) = Picked(lines, places)
  BY <1>1
<1>3. \A x : x \in Range(Picked(lines, places)) => \E i \in DOMAIN lines : lines[i] = x
  BY PickedList
<1> QED BY <1>2, <1>3

\* The records of a text of wg-quick files.
LEMMA ConfLines ==
  ASSUME NEW lines, IsList(lines), NEW places
  PROVE  AreMade(convertAWGConfEntries([i \in DOMAIN Picked(lines, places) |-> Picked(lines, places)[i].hops[1]]))
<1> DEFINE confs == Picked(lines, places)
<1> DEFINE inis == [i \in DOMAIN confs |-> confs[i].hops[1]]
<1>1. IsList(confs)
  BY PickedList
<1> HIDE DEF confs
<1>2. SamePlaces(confs, inis)
  BY DEF SamePlaces
<1> HIDE DEF inis
<1>3. IsList(inis)
  BY <1>1, <1>2, Mapped
<1>4. AreMade(convertAWGConfEntries(inis))
  BY <1>3, AWGMade
<1> QED BY <1>4 DEF inis, confs

\* Links on their own are lines with one hop.
LEMMA LinksAreLines == \A links, line : line \in Range(LinkLines(links)) => IsLine(line)
<1> SUFFICES ASSUME NEW links, NEW line \in Range(LinkLines(links)) PROVE IsLine(line)
  OBVIOUS
<1>1. \E hop : line = LinkLine(hop)
  BY DEF Range, LinkLines
<1> QED BY <1>1, LinkLineMade, MadeIsLine

\* Whatever the body, the records of a conversion are lines with hops.
LEMMA RecordsAreLines ==
  ASSUME NEW b, IsBody(b)
  PROVE  \A line \in Range(ConvertToShareLinks(b)) : IsLine(line)
<1>1. CASE b.form = "vpn"
  <2>1. ConvertToShareLinks(b) = IF b.broken THEN <<>> ELSE convertAmneziaEntries(b)
    BY <1>1, Zenon DEF ConvertToShareLinks
  <2>2. CASE b.broken
    BY <2>1, <2>2 DEF Range
  <2>3. CASE ~b.broken
    <3>1. IsList(b.containers) /\ \A i \in DOMAIN b.containers : IsContainer(b.containers[i])
      BY <1>1, <2>3, Zenon DEF IsBody
    <3>2. AreMade(convertAmneziaEntries(b))
      BY <3>1, AmneziaMade
    <3> QED BY <2>1, <2>3, <3>2, MadeIsLine DEF AreMade
  <2> QED BY <2>2, <2>3
<1>2. CASE b.form = "json"
  <2>1. ConvertToShareLinks(b) = convertJSONEntries(b.items)
    BY <1>2, Zenon DEF ConvertToShareLinks
  <2>2. IsItems(b.items)
    BY <1>2, Zenon DEF IsBody
  <2>3. AreMade(convertJSONEntries(b.items))
    BY <2>2, JSONMade
  <2> QED BY <2>1, <2>3, MadeIsLine DEF AreMade
<1>3. CASE b.form = "clash"
  <2>1. \E links : ConvertToShareLinks(b) = LinkLines(links)
    BY <1>3, Zenon DEF ConvertToShareLinks, ingestClashYAML
  <2> QED BY <2>1, LinksAreLines
<1>4. CASE b.form = "text"
  <2>1. IsList(b.lines) /\ \A i \in DOMAIN b.lines : IsLine(b.lines[i])
    BY <1>4, Zenon DEF IsBody
  <2>2. \/ ConvertToShareLinks(b) = Kept(b.lines)
        \/ \E places : ConvertToShareLinks(b)
             = convertAWGConfEntries([i \in DOMAIN Picked(b.lines, places) |-> Picked(b.lines, places)[i].hops[1]])
    BY <1>4, Zenon DEF ConvertToShareLinks
  <2>3. CASE ConvertToShareLinks(b) = Kept(b.lines)
    BY <2>1, <2>3, KeptLines
  <2>4. ASSUME NEW places, ConvertToShareLinks(b)
          = convertAWGConfEntries([i \in DOMAIN Picked(b.lines, places) |-> Picked(b.lines, places)[i].hops[1]])
        PROVE AreMade(ConvertToShareLinks(b))
    BY <2>1, <2>4, ConfLines, Zenon
  <2> QED BY <2>2, <2>3, <2>4, MadeIsLine DEF AreMade
<1> QED BY <1>1, <1>2, <1>3, <1>4 DEF IsBody

-----------------------------------------------------------------------------
(* The chains of a text, and what is left of them. *)

IsChains(chains) == IsList(chains) /\ \A c \in Range(chains) : IsList(c) /\ c # <<>>
HopsOf(chains) == UNION {Range(c) : c \in Range(chains)}

\* A hop of some chain.
LEMMA HopOf == \A hop, chains : hop \in HopsOf(chains) <=> \E c \in Range(chains) : hop \in Range(c)
BY DEF HopsOf

\* A line that nothing is glued to gives its hops, with what a comment cuts off gone.
HopsOfLine(line) == [m \in DOMAIN line.hops |-> Cut(line.hops[m])]
OnItsOwn(lines, i) == lines[i].kind = "link" /\ (i < Len(lines) => lines[i + 1].kind \in {"link", "comment"})

\* A chain keeps a hop at least.
LEMMA SameLength ==
  ASSUME NEW s, IsList(s), s # <<>>, NEW t, SamePlaces(s, t)
  PROVE  IsList(t) /\ t # <<>>
<1>1. IsList(t) /\ Len(t) = Len(s) /\ Len(s) # 0
  BY Mapped, ListLength
<1> QED BY <1>1

\* A text gives a chain for each of its links, and for one on its own just its hops.
LEMMA TextChains ==
  ASSUME NEW lines, IsList(lines), \A i \in DOMAIN lines : IsLine(lines[i])
  PROVE  /\ IsChains(expandDecodedConfig(lines))
         /\ \A i \in DOMAIN lines : OnItsOwn(lines, i) => HopsOfLine(lines[i]) \in Range(expandDecodedConfig(lines))
<1> DEFINE open(i) == i > 0 /\ lines[i].kind = "link" /\ ~(IsConf(lines[i].hops[1]) /\ lines[i].hops[1].commented)
<1> DEFINE isGlued(i) == i < Len(lines) /\ lines[i + 1].kind \in {"foreign", "json"} /\ open(i)
<1> DEFINE hops(i) == IF isGlued(i) THEN [lines[i].hops EXCEPT ![Len(lines[i].hops)] = Glued(@)]
                      ELSE [n \in DOMAIN lines[i].hops |-> Cut(lines[i].hops[n])]
<1> DEFINE places == [i \in DOMAIN lines |-> i]
<1> DEFINE isLink == {i \in DOMAIN lines : lines[i].kind = "link"}
<1> DEFINE links == Picked(places, isLink)
<1> DEFINE chains == [n \in DOMAIN links |-> hops(links[n])]
<1>1. expandDecodedConfig(lines) = chains
  BY Zenon DEF expandDecodedConfig
<1>2. SamePlaces(lines, places) /\ \A i \in DOMAIN lines : places[i] = i
  BY DEF SamePlaces
<1>3. \A i \in isLink : IsList(lines[i].hops) /\ lines[i].hops # <<>>
  BY DEF IsLine
<1>4. \A i \in DOMAIN lines : i \in isLink <=> lines[i].kind = "link"
  OBVIOUS
<1>5. \A i : SamePlaces(lines[i].hops, hops(i))
  <2> SUFFICES ASSUME NEW i PROVE SamePlaces(lines[i].hops, hops(i))
    OBVIOUS
  <2> DEFINE s == lines[i].hops
  <2> DEFINE glued == Glued(s[Len(s)])
  <2>1. hops(i) = [s EXCEPT ![Len(s)] = glued] \/ hops(i) = [n \in DOMAIN s |-> Cut(s[n])]
    OBVIOUS
  <2> DEFINE t == hops(i)
  <2> HIDE DEF s, t, glued
  <2>2. SamePlaces(s, t)
    <3>1. CASE t = [s EXCEPT ![Len(s)] = glued]
      BY <3>1 DEF SamePlaces
    <3>2. CASE t = [n \in DOMAIN s |-> Cut(s[n])]
      BY <3>2 DEF SamePlaces
    <3> QED BY <2>1, <3>1, <3>2 DEF s, t, glued
  <2> QED BY <2>2 DEF s, t
<1>6. \A i : OnItsOwn(lines, i) => hops(i) = HopsOfLine(lines[i])
  <2> SUFFICES ASSUME NEW i, OnItsOwn(lines, i) PROVE hops(i) = HopsOfLine(lines[i])
    OBVIOUS
  <2>1. ~isGlued(i)
    BY DEF OnItsOwn
  <2> QED BY <2>1, Zenon DEF HopsOfLine
<1> HIDE DEF places, isLink, hops
<1>7. IsList(links) /\ \A i : i \in Range(links) <=> i \in DOMAIN lines /\ i \in isLink
  <2>1. IsList(places) /\ DOMAIN places = DOMAIN lines
    BY <1>2, Mapped DEF SamePlaces
  <2> QED BY <1>2, <2>1, PickedList
<1> HIDE DEF links
<1>8. SamePlaces(links, chains) /\ \A n \in DOMAIN links : chains[n] = hops(links[n])
  BY DEF SamePlaces
<1> HIDE DEF chains
<1>9. IsList(chains)
  BY <1>7, <1>8, Mapped
<1>10. ASSUME NEW c \in Range(chains) PROVE IsList(c) /\ c # <<>>
  <2>1. PICK n \in DOMAIN links : c = hops(links[n])
    BY <1>8 DEF Range, SamePlaces
  <2>2. links[n] \in isLink
    BY <1>7 DEF Range
  <2> QED BY <2>1, <2>2, <1>3, <1>5, SameLength
<1>11. ASSUME NEW i \in DOMAIN lines, OnItsOwn(lines, i) PROVE HopsOfLine(lines[i]) \in Range(chains)
  <2>1. i \in Range(links)
    BY <1>4, <1>7, <1>11 DEF OnItsOwn
  <2>2. PICK n \in DOMAIN links : links[n] = i
    BY <2>1 DEF Range
  <2> QED BY <2>2, <1>6, <1>8, <1>11 DEF Range, SamePlaces
<1> QED BY <1>1, <1>9, <1>10, <1>11 DEF IsChains

\* A list is its first element and the others.
LEMMA FirstAndRest ==
  ASSUME NEW s, IsList(s), s # <<>>
  PROVE  /\ 1 \in DOMAIN s /\ Head(s) = s[1] /\ IsList(Tail(s))
         /\ \A x : x \in Range(s) <=> x = s[1] \/ x \in Range(Tail(s))
<1>1. Len(s) \in Nat /\ DOMAIN s = 1..Len(s) /\ Len(s) # 0
  BY ListLength
<1> DEFINE R == Range(s)
<1> DEFINE t == Tail(s)
<1>2. s \in Seq(R)
  BY DEF IsList
<1> HIDE DEF R
<1>3. t \in Seq(R) /\ DOMAIN t = 1..(Len(s) - 1) /\ \A i \in DOMAIN t : t[i] = s[i + 1]
  BY <1>1, <1>2
<1>4. Head(s) = s[1]
  BY <1>2
<1> HIDE DEF t
<1>5. IsList(t)
  BY <1>3, SeqIsList
<1>6. \A i \in DOMAIN s : i # 1 => i - 1 \in DOMAIN t /\ t[i - 1] = s[i]
  BY <1>1, <1>3
<1>7. \A i \in DOMAIN t : i + 1 \in DOMAIN s /\ s[i + 1] = t[i]
  BY <1>1, <1>3
<1>8. 1 \in DOMAIN s
  BY <1>1
<1>9. \A x : x \in Range(s) <=> x = s[1] \/ x \in Range(t)
  BY <1>6, <1>7, <1>8 DEF Range
<1> QED BY <1>4, <1>5, <1>8, <1>9 DEF t

\* A list is its last element and the others.
LEMMA LastAndRest ==
  ASSUME NEW s, IsList(s), s # <<>>
  PROVE  /\ IsList(Front(s)) /\ (Len(s) # 1 => Front(s) # <<>>) /\ (Len(s) = 1 => Range(s) = {s[Len(s)]})
         /\ \A x \in Range(s) : x = s[Len(s)] \/ x \in Range(Front(s))
<1>1. Len(s) \in Nat /\ DOMAIN s = 1..Len(s) /\ Len(s) # 0
  BY ListLength
<1> DEFINE R == Range(s)
<1> DEFINE t == Front(s)
<1>2. s \in Seq(R)
  BY DEF IsList
<1> HIDE DEF R
<1>3. t \in Seq(R) /\ Len(t) = Len(s) - 1 /\ DOMAIN t = 1..(Len(s) - 1) /\ \A i \in DOMAIN t : t[i] = s[i]
  BY <1>1, <1>2 DEF Front
<1> HIDE DEF t
<1>4. IsList(t) /\ (Len(s) # 1 => t # <<>>)
  BY <1>1, <1>3, SeqIsList
<1>5. \A i \in DOMAIN s : i # Len(s) => i \in DOMAIN t /\ t[i] = s[i]
  BY <1>1, <1>3
<1>6. \A x \in Range(s) : x = s[Len(s)] \/ x \in Range(t)
  BY <1>5 DEF Range
<1>7. Len(s) = 1 => Range(s) = {s[Len(s)]}
  BY <1>1 DEF Range
<1> QED BY <1>4, <1>6, <1>7 DEF t

\* One hop less: all others are still to be parsed.
LEMMA OneHopLess ==
  ASSUME IsChains(todo), todo # <<>>, NEW tag, Advance(tag)
  PROVE  IsChains(todo') /\ \A hop \in HopsOf(todo) : hop = Hop \/ hop \in HopsOf(todo')
<1> DEFINE chain == Head(todo)
<1> DEFINE rest == Tail(todo)
<1> DEFINE front == Front(chain)
<1> DEFINE one == <<front>>
<1>1. IsList(todo) /\ \A c \in Range(todo) : IsList(c) /\ c # <<>>
  BY DEF IsChains
<1>2. IsList(rest) /\ \A c : c \in Range(todo) <=> c = chain \/ c \in Range(rest)
  BY <1>1, FirstAndRest
<1>3. IsList(chain) /\ chain # <<>> /\ \A c \in Range(rest) : IsList(c) /\ c # <<>>
  BY <1>1, <1>2
<1>4. Hop = chain[Len(chain)]
  BY DEF Hop
<1>5. \/ Len(chain) = 1 /\ todo' = rest
      \/ Len(chain) # 1 /\ todo' = one \o rest
  BY Zenon DEF Advance
<1>6. IsList(one) /\ Range(one) = {front}
  BY OneIsList
<1> HIDE DEF chain, rest
<1>7. /\ IsList(front) /\ (Len(chain) # 1 => front # <<>>) /\ (Len(chain) = 1 => Range(chain) = {Hop})
      /\ \A x \in Range(chain) : x = Hop \/ x \in Range(front)
  BY <1>3, <1>4, LastAndRest
<1> HIDE DEF front, one
<1>8. CASE Len(chain) = 1 /\ todo' = rest
  <2>1. IsChains(todo')
    BY <1>2, <1>3, <1>8 DEF IsChains
  <2>2. ASSUME NEW hop \in HopsOf(todo) PROVE hop = Hop \/ hop \in HopsOf(todo')
    <3>1. PICK c \in Range(todo) : hop \in Range(c)
      BY <2>2, HopOf
    <3>2. CASE c = chain
      BY <3>1, <3>2, <1>7, <1>8
    <3>3. CASE c \in Range(rest)
      BY <3>1, <3>3, <1>8, HopOf
    <3> QED BY <3>1, <3>2, <3>3, <1>2
  <2> QED BY <2>1, <2>2
<1>9. CASE Len(chain) # 1 /\ todo' = one \o rest
  <2>1. IsJoined(one, rest, todo')
    BY <1>9 DEF IsJoined
  <2>2. IsList(todo') /\ \A c : c \in Range(todo') <=> c \in Range(one) \/ c \in Range(rest)
    BY <1>2, <1>6, <2>1, TwoLists
  <2>3. IsChains(todo')
    BY <1>3, <1>6, <1>7, <1>9, <2>2 DEF IsChains
  <2>4. ASSUME NEW hop \in HopsOf(todo) PROVE hop = Hop \/ hop \in HopsOf(todo')
    <3>1. PICK c \in Range(todo) : hop \in Range(c)
      BY <2>4, HopOf
    <3>2. CASE c = chain
      <4>1. front \in Range(todo')
        BY <1>6, <2>2
      <4> QED BY <3>1, <3>2, <4>1, <1>7, HopOf
    <3>3. CASE c \in Range(rest)
      BY <3>1, <3>3, <2>2, HopOf
    <3> QED BY <3>1, <3>2, <3>3, <1>2
  <2> QED BY <2>3, <2>4
<1> QED BY <1>5, <1>8, <1>9

-----------------------------------------------------------------------------
(* A broken line costs itself. *)

\* While a text is parsed, each of its hops is done or still to be parsed.
LineInv ==
  /\ IsBody(body)
  /\ \A line \in Range(records) : IsLine(line)
  /\ stage = "parsing" /\ body.form = "text" =>
       IsChains(todo) /\ \A hop \in HopsOf(Chains(body)) : hop \in HopsOf(todo) \/ Done(hop, out)
  /\ stage = "parsed" /\ body.form = "text" => \A hop \in HopsOf(Chains(body)) : Done(hop, out)

\* What StartParse takes from a text.
LEMMA TextIsParsed ==
  ASSUME NEW b, IsBody(b), b.form = "text"
  PROVE  /\ Chains(b) = expandDecodedConfig(b.lines) /\ IsChains(Chains(b))
         /\ IsList(b.lines) /\ \A i \in DOMAIN b.lines : IsLine(b.lines[i])
         /\ \A i \in DOMAIN b.lines : OnItsOwn(b.lines, i) => HopsOfLine(b.lines[i]) \in Range(Chains(b))
<1>1. Chains(b) = expandDecodedConfig(b.lines)
  BY Zenon DEF Chains
<1>2. IsList(b.lines) /\ \A i \in DOMAIN b.lines : IsLine(b.lines[i])
  BY Zenon DEF IsBody
<1> QED BY <1>1, <1>2, TextChains

\* What is stored is a body again.
LEMMA RecordIsBody == \A line : IsLine(line) => IsBody(AsBody(line))
<1> SUFFICES ASSUME NEW line, IsLine(line) PROVE IsBody(AsBody(line))
  OBVIOUS
<1> DEFINE items == <<[node |-> line.node]>>
<1> DEFINE lines == <<line>>
<1> DEFINE says == <<>>
<1>1. \/ AsBody(line) = [form |-> "json", items |-> items, says |-> says]
      \/ AsBody(line) = [form |-> "text", lines |-> lines, says |-> says]
  BY Zenon DEF AsBody
<1>2. IsItems(items)
  <2> DEFINE item == [node |-> line.node]
  <2>1. "node" \in DOMAIN item /\ items = <<item>>
    OBVIOUS
  <2> HIDE DEF item, items
  <2>2. IsList(items) /\ Range(items) = {item}
    BY <2>1, OneIsList
  <2> QED BY <2>1, <2>2 DEF IsItems, Range
<1>3. IsList(lines) /\ \A i \in DOMAIN lines : IsLine(lines[i])
  <2>1. IsList(lines) /\ Range(lines) = {line}
    BY OneIsList
  <2> HIDE DEF lines
  <2> QED BY <2>1 DEF Range
<1> HIDE DEF items, lines, says
<1>4. IsBody([form |-> "json", items |-> items, says |-> says])
  <2> DEFINE b == [form |-> "json", items |-> items, says |-> says]
  <2>1. b.form = "json" /\ b.items = items
    OBVIOUS
  <2> HIDE DEF b
  <2>2. IsBody(b)
    BY <2>1, <1>2 DEF IsBody
  <2> QED BY <2>2 DEF b
<1>5. IsBody([form |-> "text", lines |-> lines, says |-> says])
  <2> DEFINE b == [form |-> "text", lines |-> lines, says |-> says]
  <2>1. b.form = "text" /\ b.lines = lines
    OBVIOUS
  <2> HIDE DEF b
  <2>2. IsBody(b)
    BY <2>1, <1>3 DEF IsBody
  <2> QED BY <2>2 DEF b
<1> QED BY <1>1, <1>4, <1>5, Zenon

\* ... and the config of a parse, taken as the next body.
LEMMA ConfigIsBody == \A outs : IsList(outs) => IsBody(AsContainer(outs))
<1> SUFFICES ASSUME NEW outs, IsList(outs) PROVE IsBody(AsContainer(outs))
  OBVIOUS
<1> DEFINE endpoints == {i \in DOMAIN outs : outs[i]["type"] \in EndpointTypes}
<1> DEFINE a == Picked(outs, DOMAIN outs \ endpoints)
<1> DEFINE b == Picked(outs, endpoints)
<1> DEFINE none == <<>>
<1> DEFINE item == [outbounds |-> a, servers |-> none, endpoints |-> b, remarks |-> ""]
<1> DEFINE items == <<item>>
<1> DEFINE json == [form |-> "json", says |-> none, items |-> items]
<1>1. AsContainer(outs) = json
  BY Zenon DEF AsContainer
<1> HIDE DEF endpoints
<1>2. IsList(a) /\ IsList(b) /\ IsList(none)
  BY PickedList DEF IsList
<1> HIDE DEF a, b, none
<1>3. item.outbounds = a /\ item.servers = none /\ item.endpoints = b
  OBVIOUS
<1> HIDE DEF item
<1>4. IsList(items) /\ Range(items) = {item}
  BY OneIsList
<1> HIDE DEF items
<1>5. IsItems(items)
  BY <1>2, <1>3, <1>4 DEF IsItems, Range
<1>6. json.form = "json" /\ json.items = items
  OBVIOUS
<1> HIDE DEF json
<1> QED BY <1>1, <1>5, <1>6 DEF IsBody

\* A hop stays done when more is collected.
LEMMA StaysDone ==
  ASSUME NEW outs, NEW more, Keeps(outs, more), NEW hop, Done(hop, outs)
  PROVE  Done(hop, more)
BY DEF Keeps, Done, ComesAs

\* A step of the parse: the hop at the end is done, and the others stay where they are.
LEMMA ParseHopDone ==
  ASSUME NumbersTell, TagInv, TagsAreText, LineInv, ParseHop
  PROVE  LineInv'
<1>1. stage = "parsing" /\ todo # <<>> /\ UNCHANGED <<body, stage, records>>
  BY Zenon DEF ParseHop
<1>2. IsBody(body') /\ (\A line \in Range(records') : IsLine(line)) /\ stage' = "parsing" /\ body' = body
  BY <1>1, Zenon DEF LineInv
<1>3. ASSUME body.form = "text"
      PROVE  IsChains(todo') /\ \A hop \in HopsOf(Chains(body)) : hop \in HopsOf(todo') \/ Done(hop, out')
  <2>1. IsChains(todo) /\ \A hop \in HopsOf(Chains(body)) : hop \in HopsOf(todo) \/ Done(hop, out)
    BY <1>1, <1>3, Zenon DEF LineInv
  <2>2. Keeps(out, out') /\ Done(Hop, out') /\ \E tag : Advance(tag)
    BY ParseHopStep
  <2>3. IsChains(todo') /\ \A hop \in HopsOf(todo) : hop = Hop \/ hop \in HopsOf(todo')
    BY <1>1, <2>1, <2>2, OneHopLess
  <2>4. \A hop : Done(hop, out) => Done(hop, out')
    BY <2>2, StaysDone
  <2> QED BY <2>1, <2>2, <2>3, <2>4
<1> QED BY <1>2, <1>3, Zenon DEF LineInv

\* Every other step keeps bodies, records and chains well-formed.
LEMMA OtherLinesDone ==
  ASSUME TagInv, LineInv, Convert \/ StartParse \/ FinishParse \/ KeepRecord \/ KeepConfig \/ UNCHANGED vars
  PROVE  LineInv'
<1>0. IsBody(body) /\ \A line \in Range(records) : IsLine(line)
  BY Zenon DEF LineInv
<1>1. CASE Convert
  <2>1. records' = ConvertToShareLinks(body) /\ body' = body /\ stage' # "parsing" /\ stage' # "parsed"
    BY <1>1, Zenon DEF Convert
  <2>2. \A line \in Range(records') : IsLine(line)
    BY <1>0, <2>1, RecordsAreLines
  <2> QED BY <1>0, <2>1, <2>2, Zenon DEF LineInv
<1>2. CASE StartParse
  <2>1. todo' = Chains(body) /\ UNCHANGED <<body, records>> /\ stage' # "parsed"
    BY <1>2, Zenon DEF StartParse
  <2>2. body.form = "text" => IsChains(todo')
    BY <1>0, <2>1, TextIsParsed
  <2> QED BY <1>0, <2>1, <2>2, Zenon DEF LineInv
<1>3. CASE FinishParse
  <2>1. stage = "parsing" /\ todo = <<>> /\ UNCHANGED <<body, records, out>> /\ stage' # "parsing"
    BY <1>3, Zenon DEF FinishParse
  <2>2. HopsOf(todo) = {}
    BY <2>1 DEF HopsOf, Range
  <2>3. body.form = "text" => \A hop \in HopsOf(Chains(body)) : Done(hop, out)
    <3>1. body.form = "text" => \A hop \in HopsOf(Chains(body)) : hop \in HopsOf(todo) \/ Done(hop, out)
      BY <2>1, Zenon DEF LineInv
    <3> QED BY <2>2, <3>1
  <2> QED BY <1>0, <2>1, <2>3, Zenon DEF LineInv
<1>4. CASE KeepRecord \/ KeepConfig
  <2>1. records' = <<>> /\ stage' = "held" /\ \/ \E i \in DOMAIN records : body' = AsBody(records[i])
                                              \/ body' = AsContainer(out)
    BY <1>4, Zenon DEF KeepRecord, KeepConfig, Again
  <2>2. IsBody(body')
    <3>1. IsList(out)
      BY Zenon DEF TagInv, Tell
    <3>2. \A i \in DOMAIN records : IsLine(records[i])
      BY <1>0 DEF Range
    <3> QED BY <2>1, <3>1, <3>2, RecordIsBody, ConfigIsBody
  <2>3. \A line \in Range(records') : IsLine(line)
    BY <2>1 DEF Range
  <2>4. stage' # "parsing" /\ stage' # "parsed"
    BY <2>1
  <2> QED BY <2>2, <2>3, <2>4, Zenon DEF LineInv
<1>5. CASE UNCHANGED vars
  <2>1. UNCHANGED <<body, stage, records, todo, out>>
    BY <1>5, Zenon DEF vars
  <2> QED BY <2>1, Zenon DEF LineInv
<1> QED BY <1>1, <1>2, <1>3, <1>4, <1>5

\* It holds at first.
LEMMA LineInit == Init => LineInv
<1> SUFFICES ASSUME Init PROVE LineInv
  OBVIOUS
<1>1. body \in Bodies /\ records = <<>> /\ stage = "held"
  BY Zenon DEF Init
<1>2. IsBody(body)
  BY <1>1, BodiesAssumption DEF BodiesAssumption
<1>3. \A line \in Range(records) : IsLine(line)
  BY <1>1 DEF Range
<1>4. stage # "parsing" /\ stage # "parsed"
  BY <1>1
<1> QED BY <1>2, <1>3, <1>4, Zenon DEF LineInv

\* What a chain gives alone is what its hops give.
LEMMA ChainGives ==
  ASSUME NEW chain, IsList(chain), NEW ob \in Range(ChainOuts(chain))
  PROVE  \E hop \in Range(chain) : \E i \in DOMAIN processSingleConfig(hop) : processSingleConfig(hop)[i] = ob
<1> DEFINE ss == [i \in DOMAIN chain |-> processSingleConfig(chain[Len(chain) + 1 - i])]
<1>1. ChainOuts(chain) = FlattenSeq(ss)
  BY Zenon DEF ChainOuts
<1>2. Len(chain) \in Nat /\ DOMAIN chain = 1..Len(chain)
  BY ListLength
<1>3. SamePlaces(chain, ss) /\ \A i \in DOMAIN chain : ss[i] = processSingleConfig(chain[Len(chain) + 1 - i])
  BY DEF SamePlaces
<1> HIDE DEF ss
<1>4. \A i \in DOMAIN chain : Len(chain) + 1 - i \in DOMAIN chain
  BY <1>2
<1>5. \A i \in DOMAIN chain : \E hop \in Range(chain) : ss[i] = processSingleConfig(hop)
  BY <1>3, <1>4 DEF Range
<1>6. \A i \in DOMAIN ss : IsList(ss[i])
  BY <1>3, <1>5, HopShape DEF SamePlaces
<1>7. IsList(ss)
  BY <1>3, Mapped
<1>8. PICK i \in DOMAIN ss : ob \in Range(ss[i])
  BY <1>1, <1>6, <1>7, FlattenedList
<1>9. PICK hop \in Range(chain) : ss[i] = processSingleConfig(hop)
  BY <1>3, <1>5, <1>8 DEF SamePlaces
<1> QED BY <1>8, <1>9 DEF Range

\* When no hop is left, every link on its own has given what it gives alone.
LEMMA LinesAreIsolated == LineInv => BadLineIsIsolated
<1> SUFFICES ASSUME LineInv PROVE BadLineIsIsolated
  OBVIOUS
<1>1. IsBody(body)
  BY Zenon DEF LineInv
<1>2. ASSUME stage = "parsed", body.form = "text", NEW i \in DOMAIN body.lines, OnItsOwn(body.lines, i),
             NEW alone \in Range(ChainOuts(HopsOfLine(body.lines[i])))
      PROVE  ComesAs(alone, out)
  <2> DEFINE chain == HopsOfLine(body.lines[i])
  <2>1. chain \in Range(Chains(body)) /\ IsChains(Chains(body))
    BY <1>1, <1>2, TextIsParsed
  <2>2. \A hop \in HopsOf(Chains(body)) : Done(hop, out)
    BY <1>2, Zenon DEF LineInv
  <2>3. alone \in Range(ChainOuts(chain))
    OBVIOUS
  <2> HIDE DEF chain
  <2>4. IsList(chain)
    BY <2>1 DEF IsChains
  <2>5. PICK hop \in Range(chain) : \E k \in DOMAIN processSingleConfig(hop) : processSingleConfig(hop)[k] = alone
    BY <2>3, <2>4, ChainGives
  <2>6. Done(hop, out)
    BY <2>1, <2>2, HopOf
  <2> QED BY <2>5, <2>6, Zenon DEF Done
<1> QED BY <1>2, Zenon DEF BadLineIsIsolated, OnItsOwn, HopsOfLine, ComesAs

\* One broken line costs itself: every link of a text, whatever lines and broken links stand
\* around it, is parsed to what it gives on its own.
THEOREM BadLinesAreIsolated == NumbersTell /\ Spec /\ []TagsAreText => []BadLineIsIsolated
<1>1. NumbersTell => NumbersTell'
  OBVIOUS
<1>2. NumbersTell => []NumbersTell
  BY <1>1, PTL
<1>3. NumbersTell /\ TagsAreText /\ TagInv /\ LineInv /\ [Next]_vars => LineInv'
  BY ParseHopDone, OtherLinesDone, Zenon DEF Next
<1> QED BY <1>2, <1>3, ChainsInit, ChainsStep, LineInit, LinesAreIsolated, PTL DEF Spec
=============================================================================
