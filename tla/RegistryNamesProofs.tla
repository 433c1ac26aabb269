------------------------- MODULE RegistryNamesProofs -------------------------
(***************************************************************************)
(* Proofs about RegistryNames, for strings of any pieces: parsing the flag *)
(* of the mirrors loses none and keeps their order, and an image is moved  *)
(* to the place that the first mirror of its registry names.               *)
(***************************************************************************)
EXTENDS RegistryNames, SequenceTheorems, WellFoundedInduction, TLAPS

-----------------------------------------------------------------------------
(* Numbers *)

\* Induction over a set of numbers.
LEMMA AllNaturals ==
    ASSUME NEW T, 0 \in T, \A n \in Nat : n \in T => n + 1 \in T
    PROVE  \A n \in Nat : n \in T
<1> DEFINE R == OpToRel(<, Nat)
           M == {n \in Nat : n \notin T}
<1> SUFFICES ASSUME M # {}  PROVE FALSE
  OBVIOUS
<1>1. R = {ss \in Nat \X Nat : ss[1] < ss[2]}
  BY DEF OpToRel
<1>2. IsWellFoundedOn(R, Nat)
  BY NatLessThanWellFounded
<1> HIDE DEF R
<1>3. PICK least \in M : \A n \in M : <<n, least>> \notin R
  BY <1>2, WFMin
<1>4. least \in Nat /\ least \notin T
  OBVIOUS
<1>5. least - 1 \in Nat /\ least - 1 < least
  BY <1>4
<1>6. least - 1 \notin M
  BY <1>1, <1>3, <1>4, <1>5
<1>7. (least - 1) + 1 \in T
  BY <1>5, <1>6
<1>8. QED  BY <1>4, <1>7

LEMMA MinIn ==
    ASSUME NEW I, I \subseteq Nat, I # {}
    PROVE  Min(I) \in I /\ \A n \in I : Min(I) <= n
<1> DEFINE R == OpToRel(<, Nat)
<1>1. R = {ss \in Nat \X Nat : ss[1] < ss[2]}
  BY DEF OpToRel
<1>2. IsWellFoundedOn(R, Nat)
  BY NatLessThanWellFounded
<1> HIDE DEF R
<1>3. PICK least \in I : \A n \in I : <<n, least>> \notin R
  BY <1>2, WFMin
<1>4. ASSUME NEW n \in I  PROVE least <= n
  <2>1. n \in Nat /\ least \in Nat
    OBVIOUS
  <2>2. ~(n < least)
    BY <1>1, <1>3, <2>1
  <2>3. QED  BY <2>1, <2>2
<1>5. QED  BY <1>4 DEF Min

LEMMA MinIs ==
    ASSUME NEW I, I \subseteq Nat, NEW n \in I, \A k \in I : n <= k
    PROVE  Min(I) = n
<1>1. Min(I) \in I /\ Min(I) <= n /\ n <= Min(I)
  BY MinIn
<1>2. Min(I) \in Nat /\ n \in Nat
  BY <1>1
<1>3. QED  BY <1>1, <1>2

LEMMA MaxIn ==
    ASSUME NEW m \in Nat, NEW I, I \subseteq 0 .. m, I # {}
    PROVE  Max(I) \in I
<1> DEFINE J == {m - n : n \in I}
<1>1. J \subseteq Nat /\ J # {}
  <2>1. \A n \in I : n \in 0 .. m
    OBVIOUS
  <2>2. \A n \in I : m - n \in Nat
    BY <2>1
  <2>3. QED  BY <2>2
<1>2. PICK least \in J : \A j \in J : least <= j
  <2> HIDE DEF J
  <2>1. QED  BY <1>1, MinIn
<1>3. PICK most \in I : least = m - most
  OBVIOUS
<1>4. ASSUME NEW n \in I  PROVE most >= n
  <2>1. m - n \in J /\ n \in Nat /\ most \in Nat
    OBVIOUS
  <2>2. m - most <= m - n
    BY <1>2, <1>3, <2>1
  <2>3. QED  BY <2>1, <2>2
<1>5. QED  BY <1>4 DEF Max

-----------------------------------------------------------------------------
(* Strings *)

\* A string is made of pieces.  (The provers do not know that "/" is in STRING.)
Pieces  == STRING \cup {"/"}
Strings == Seq(Pieces)
ParsedMirrors == [source : Strings, mirror : Strings]

LEMMA PartOf ==
    ASSUME NEW s \in Strings, NEW m \in Nat, NEW n \in Int, 1 <= m, n <= Len(s)
    PROVE  /\ SubSeq(s, m, n) \in Strings
           /\ Len(SubSeq(s, m, n)) = IF m <= n THEN n - m + 1 ELSE 0
           /\ \A i \in 1 .. n - m + 1 : SubSeq(s, m, n)[i] = s[m + i - 1]
<1>1. \A i \in m .. n : s[i] \in Pieces
  <2>1. \A i \in m .. n : i \in 1 .. Len(s)
    BY LenProperties DEF Strings
  <2>2. QED  BY <2>1, ElementOfSeq DEF Strings
<1>2. QED  BY <1>1, SubSeqProperties DEF Strings

LEMMA TrimmedStrings ==
    ASSUME NEW s \in Strings, NEW piece
    PROVE  /\ TrimPrefix(s, piece) \in Strings /\ TrimSuffix(s, piece) \in Strings
           /\ Front(s) \in Strings
<1>1. Len(s) \in Nat
  BY LenProperties DEF Strings
<1>2. Front(s) \in Strings
  <2>1. 1 \in Nat /\ Len(s) - 1 \in Int /\ 1 <= 1 /\ Len(s) - 1 <= Len(s)
    BY <1>1
  <2>2. SubSeq(s, 1, Len(s) - 1) \in Strings
    BY <2>1, PartOf
  <2>3. QED  BY <2>2 DEF Front
<1>3. s # <<>> => Tail(s) \in Strings
  BY HeadTailProperties DEF Strings
<1>4. QED  BY <1>2, <1>3 DEF TrimPrefix, TrimSuffix

LEMMA NormalizedString ==
    ASSUME NEW s \in Strings
    PROVE  NormalizeRegistryURL(s) \in Strings
BY TrimmedStrings DEF NormalizeRegistryURL

LEMMA SpaceTrimmed ==
    ASSUME NEW s \in Strings
    PROVE  TrimSpace(s) \in Strings
<1> DEFINE ink == {n \in DOMAIN s : s[n] # " "}
<1>1. Len(s) \in Nat /\ DOMAIN s = 1 .. Len(s)
  BY LenProperties DEF Strings
<1>2. ink \subseteq 1 .. Len(s) /\ ink \subseteq 0 .. Len(s) /\ ink \subseteq Nat
  <2>1. \A n \in ink : n \in 1 .. Len(s)
    BY <1>1
  <2>2. \A n \in 1 .. Len(s) : n \in 0 .. Len(s) /\ n \in Nat
    BY <1>1
  <2>3. QED  BY <2>1, <2>2
<1>3. TrimSpace(s) = IF ink = {} THEN <<>> ELSE SubSeq(s, Min(ink), Max(ink))
  BY DEF TrimSpace
<1> HIDE DEF ink
<1>4. CASE ink = {}
  BY <1>3, <1>4, EmptySeq DEF Strings
<1>5. CASE ink # {}
  <2>1. Min(ink) \in ink /\ Max(ink) \in ink
    BY <1>1, <1>2, <1>5, MinIn, MaxIn
  <2>2. /\ Min(ink) \in Nat /\ Max(ink) \in Int
        /\ 1 <= Min(ink) /\ Max(ink) <= Len(s)
    <3>1. Min(ink) \in 1 .. Len(s) /\ Max(ink) \in 1 .. Len(s)
      BY <1>2, <2>1
    <3>2. QED  BY <1>1, <3>1
  <2>3. SubSeq(s, Min(ink), Max(ink)) \in Strings
    BY <2>2, PartOf
  <2>4. QED  BY <1>3, <1>5, <2>3
<1>6. QED  BY <1>4, <1>5

LEMMA PairParsed ==
    ASSUME NEW pair \in Strings
    PROVE  ParsePair(pair) \in ParsedMirrors
<1> DEFINE I == {n \in 1 .. Len(pair) : pair[n] = "="}
           eq == IF I # {} THEN Min(I) ELSE 0
<1>1. Len(pair) \in Nat
  BY LenProperties DEF Strings
<1>2. eq \in 0 .. Len(pair)
  <2>1. I \subseteq 1 .. Len(pair) /\ I \subseteq Nat
    BY <1>1
  <2> HIDE DEF I
  <2>2. I # {} => Min(I) \in 1 .. Len(pair)
    BY <2>1, MinIn
  <2>3. QED  BY <1>1, <2>2
<1>3. ParsePair(pair) = [source |-> TrimSpace(SubSeq(pair, 1, eq - 1)),
                         mirror |-> TrimSpace(SubSeq(pair, eq + 1, Len(pair)))]
  BY DEF ParsePair, SelectInSeq
<1> HIDE DEF eq
<1>4. SubSeq(pair, 1, eq - 1) \in Strings /\ SubSeq(pair, eq + 1, Len(pair)) \in Strings
  <2>1. /\ 1 \in Nat /\ eq - 1 \in Int /\ 1 <= 1 /\ eq - 1 <= Len(pair)
        /\ eq + 1 \in Nat /\ Len(pair) \in Int /\ 1 <= eq + 1 /\ Len(pair) <= Len(pair)
    BY <1>1, <1>2
  <2>2. SubSeq(pair, 1, eq - 1) \in Strings
    BY <2>1, PartOf
  <2>3. SubSeq(pair, eq + 1, Len(pair)) \in Strings
    BY <2>1, PartOf
  <2>4. QED  BY <2>2, <2>3
<1>5. QED  BY <1>3, <1>4, SpaceTrimmed DEF ParsedMirrors
-----------------------------------------------------------------------------
(* The mirrors *)

\* Docker Hub's two names are one; every other registry has one name.
LEMMA SameSource ==
    ASSUME NEW source, NEW registry
    PROVE  IsSource(source, registry) <=> Canonical(source) = Canonical(registry)
<1>1. <<"docker.io">> # <<"index.docker.io">>
  OBVIOUS
<1>2. QED  BY <1>1 DEF IsSource, Canonical, IsDockerHubAlias

\* A string is what is before one of its pieces, the piece, and what is after.
LEMMA SplitAt ==
    ASSUME NEW u \in Strings, NEW n \in 1 .. Len(u)
    PROVE  u = (SubSeq(u, 1, n - 1) \o <<u[n]>>) \o SubSeq(u, n + 1, Len(u))
<1>1. Len(u) \in Nat /\ u \in Seq(Pieces)
  BY LenProperties DEF Strings
<1>2. SubSeq(u, 1, n) = SubSeq(u, 1, n - 1) \o <<u[n]>>
  <2>1. 1 \in 1 .. Len(u) /\ n \in 1 .. Len(u)
    BY <1>1
  <2>2. QED  BY <1>1, <2>1, SubSeqRecursiveSecond
<1>3. SubSeq(u, 1, n) \o SubSeq(u, n + 1, Len(u)) = SubSeq(u, 1, Len(u))
  <2>1. 1 \in 1 .. Len(u) + 1 /\ n \in 1 - 1 .. Len(u) /\ Len(u) \in n .. Len(u)
    BY <1>1
  <2>2. QED  BY <1>1, <2>1, ConcatAdjacentSubSeq
<1>4. SubSeq(u, 1, Len(u)) = u
  BY <1>1, SubSeqFull
<1>5. QED  BY <1>2, <1>3, <1>4

LEMMA Slash == <<"/">> \in Strings
<1>1. "/" \in Pieces
  BY DEF Pieces
<1>2. QED  BY <1>1 DEF Strings

\* Concatenation, by a name that the provers do not look behind.
Joined(s, t) == s \o t

LEMMA Associative ==
    ASSUME NEW S, NEW x \in Seq(S), NEW y \in Seq(S), NEW z \in Seq(S)
    PROVE  /\ Joined(x, y) \in Seq(S)
           /\ Joined(Joined(x, y), z) = Joined(x, Joined(y, z))
BY ConcatAssociative, ConcatProperties DEF Joined

LEMMA Regroup ==
    ASSUME NEW S, NEW a \in Seq(S), NEW b \in Seq(S), NEW c \in Seq(S), NEW s \in Seq(S)
    PROVE  Joined(Joined(a, s), Joined(Joined(b, s), c)) = Joined(Joined(Joined(Joined(a, s), b), s), c)
<1>1. Joined(a, s) \in Seq(S) /\ Joined(b, s) \in Seq(S)
  BY Associative
<1>2. Joined(Joined(a, s), Joined(Joined(b, s), c)) = Joined(Joined(Joined(a, s), Joined(b, s)), c)
  BY <1>1, Associative
<1>3. Joined(Joined(a, s), Joined(b, s)) = Joined(Joined(Joined(a, s), b), s)
  BY <1>1, Associative
<1>4. QED  BY <1>2, <1>3

\* A host and a path before an image's name are the mirror's URL before it.
LEMMA MirrorParsed ==
    ASSUME NEW mirror \in Strings, NEW image \in Strings
    PROVE  LET at   == ParseMirrorURL(mirror)
               name == IF at.path = <<>> THEN image ELSE (at.path \o <<"/">>) \o image
           IN  (at.host \o <<"/">>) \o name = (MirrorPrefix(mirror) \o <<"/">>) \o image
<1> DEFINE u     == NormalizeRegistryURL(mirror)
           I     == {n \in 1 .. Len(u) : u[n] = "/"}
           slash == IF I # {} THEN Min(I) ELSE 0
           at    == ParseMirrorURL(mirror)
           name  == IF at.path = <<>> THEN image ELSE (at.path \o <<"/">>) \o image
<1>1. u \in Strings /\ Len(u) \in Nat /\ DOMAIN u = 1 .. Len(u)
  BY NormalizedString, LenProperties DEF Strings
<1>2. at = IF slash = 0 THEN [host |-> u, path |-> <<>>]
           ELSE [host |-> SubSeq(u, 1, slash - 1), path |-> SubSeq(u, slash + 1, Len(u))]
  BY DEF ParseMirrorURL, SelectInSeq
<1>3. MirrorPrefix(mirror) = IF Contains(Front(u), "/") THEN u ELSE TrimSuffix(u, "/")
  BY DEF MirrorPrefix
<1>4. \/ slash = 0 /\ \A n \in 1 .. Len(u) : u[n] # "/"
      \/ /\ slash \in 1 .. Len(u) /\ u[slash] = "/"
         /\ \A n \in 1 .. Len(u) : u[n] = "/" => slash <= n
  <2>1. I \subseteq Nat
    BY <1>1
  <2>2. CASE I = {}
    BY <2>2
  <2>3. CASE I # {}
    <3>1. Min(I) \in I /\ \A n \in I : Min(I) <= n
      <4> HIDE DEF I
      <4>1. QED  BY <2>1, <2>3, MinIn
    <3>2. QED  BY <2>3, <3>1
  <2>4. QED  BY <2>2, <2>3
<1>5. /\ Front(u) \in Strings
      /\ Contains(Front(u), "/") <=> \E n \in 1 .. Len(u) - 1 : u[n] = "/"
  <2>1. 1 \in Nat /\ Len(u) - 1 \in Int /\ 1 <= 1 /\ Len(u) - 1 <= Len(u)
    BY <1>1
  <2>2. /\ SubSeq(u, 1, Len(u) - 1) \in Strings
        /\ Len(SubSeq(u, 1, Len(u) - 1)) = IF 1 <= Len(u) - 1 THEN (Len(u) - 1) - 1 + 1 ELSE 0
        /\ \A i \in 1 .. (Len(u) - 1) - 1 + 1 : SubSeq(u, 1, Len(u) - 1)[i] = u[1 + i - 1]
    BY <1>1, <2>1, PartOf
  <2>3. 1 .. Len(Front(u)) = 1 .. Len(u) - 1 /\ \A i \in 1 .. Len(u) - 1 : Front(u)[i] = u[i]
    BY <1>1, <2>2 DEF Front
  <2>4. Contains(Front(u), "/") <=> \E i \in 1 .. Len(u) - 1 : Front(u)[i] = "/"
    BY <2>3 DEF Contains
  <2>5. QED  BY <2>2, <2>3, <2>4 DEF Front
<1> HIDE DEF u, slash, at
<1>6. CASE slash = 0
  <2>1. at.host = u /\ at.path = <<>>
    BY <1>2, <1>6
  <2>2. \A n \in 1 .. Len(u) : u[n] # "/"
    BY <1>4, <1>6, <1>1
  <2>3. ~Contains(Front(u), "/")
    <3>1. \A n \in 1 .. Len(u) - 1 : n \in 1 .. Len(u)
      BY <1>1
    <3>2. QED  BY <1>5, <2>2, <3>1
  <2>4. TrimSuffix(u, "/") = u
    <3>1. u # <<>> => Len(u) \in 1 .. Len(u)
      BY <1>1, EmptySeq DEF Strings
    <3>2. u # <<>> => Last(u) # "/"
      BY <2>2, <3>1 DEF Last
    <3>3. QED  BY <3>2 DEF TrimSuffix
  <2>5. QED  BY <1>3, <2>1, <2>3, <2>4 DEF at
<1>7. CASE slash # 0
  <2> DEFINE host == SubSeq(u, 1, slash - 1)
             path == SubSeq(u, slash + 1, Len(u))
  <2>1. /\ slash \in 1 .. Len(u) /\ u[slash] = "/"
        /\ \A n \in 1 .. Len(u) : u[n] = "/" => slash <= n
    BY <1>4, <1>7
  <2>2. at.host = host /\ at.path = path
    BY <1>2, <1>7
  <2>3. /\ host \in Strings
        /\ path \in Strings
        /\ Len(path) = IF slash + 1 <= Len(u) THEN Len(u) - (slash + 1) + 1 ELSE 0
    <3>1. /\ 1 \in Nat /\ slash - 1 \in Int /\ 1 <= 1 /\ slash - 1 <= Len(u)
          /\ slash + 1 \in Nat /\ Len(u) \in Int /\ 1 <= slash + 1 /\ Len(u) <= Len(u)
      BY <1>1, <2>1
    <3>2. host \in Strings
      BY <1>1, <3>1, PartOf
    <3>3. QED  BY <1>1, <3>1, <3>2, PartOf
  <2>4. u = (host \o <<"/">>) \o path
    BY <1>1, <2>1, SplitAt
  <2>5. path = <<>> <=> slash = Len(u)
    <3>1. path = <<>> <=> Len(path) = 0
      BY <2>3, EmptySeq DEF Strings
    <3>2. Len(path) = 0 <=> slash = Len(u)
      <4>1. Len(path) = IF slash + 1 <= Len(u) THEN Len(u) - (slash + 1) + 1 ELSE 0
        BY <2>3
      <4>2. slash \in Nat /\ slash <= Len(u) /\ Len(u) \in Nat
        BY <1>1, <2>1
      <4> HIDE DEF path
      <4>3. QED  BY <4>1, <4>2
    <3>3. QED  BY <3>1, <3>2
  <2>6. CASE slash = Len(u)
    <3>1. ~Contains(Front(u), "/")
      <4>1. \A n \in 1 .. Len(u) - 1 : n \in 1 .. Len(u) /\ ~(Len(u) <= n)
        BY <1>1
      <4>2. QED  BY <1>5, <2>1, <2>6, <4>1
    <3>2. TrimSuffix(u, "/") = Front(u)
      <4>1. u # <<>>
        <5>1. Len(u) # 0
          BY <1>1, <2>1
        <5>2. QED  BY <5>1, EmptySeq
      <4>2. Last(u) = "/"
        BY <2>1, <2>6 DEF Last
      <4>3. QED  BY <4>1, <4>2 DEF TrimSuffix
    <3>3. Front(u) = host
      BY <2>6 DEF Front
    <3>4. MirrorPrefix(mirror) = host
      BY <1>3, <3>1, <3>2, <3>3
    <3>5. at.path = <<>>
      BY <2>2, <2>5, <2>6
    <3> HIDE DEF host, path
    <3>6. QED  BY <2>2, <3>4, <3>5 DEF at
  <2>7. CASE slash # Len(u)
    <3>1. slash \in 1 .. Len(u) - 1
      <4>1. slash \in Nat /\ slash >= 1 /\ slash <= Len(u) /\ Len(u) \in Nat
        BY <1>1, <2>1
      <4>2. QED  BY <2>7, <4>1
    <3>2. MirrorPrefix(mirror) = u
      BY <1>3, <1>5, <2>1, <3>1
    <3>3. name = (path \o <<"/">>) \o image
      BY <2>2, <2>5, <2>7
    <3> HIDE DEF host, path, name
    <3>4. (host \o <<"/">>) \o ((path \o <<"/">>) \o image) = (((host \o <<"/">>) \o path) \o <<"/">>) \o image
      <4> DEFINE bar == <<"/">>
      <4>1. bar \in Strings
        BY Slash
      <4> HIDE DEF bar
      <4>2. Joined(Joined(host, bar), Joined(Joined(path, bar), image))
              = Joined(Joined(Joined(Joined(host, bar), path), bar), image)
        BY <2>3, <4>1, Regroup DEF Strings
      <4>3. (host \o bar) \o ((path \o bar) \o image) = (((host \o bar) \o path) \o bar) \o image
        BY <4>2, Zenon DEF Joined
      <4>4. QED  BY <4>3 DEF bar
    <3>5. (at.host \o <<"/">>) \o name = (u \o <<"/">>) \o image
      BY <2>2, <2>4, <3>3, <3>4
    <3>6. QED  BY <3>2, <3>5 DEF at, name
  <2>8. QED  BY <2>6, <2>7
<1>8. QED  BY <1>6, <1>7

-----------------------------------------------------------------------------
(* The flag of the mirrors *)

\* The nth part of a flag.
Part(flag, n) == TrimSpace(flag[n])

\* mirrors are those of the first m parts of a flag that are not blank, in
\* their order: pos[k] is the part that the kth comes from.
Comes(mirrors, flag, m, pos) ==
    /\ pos \in [1 .. Len(mirrors) -> 1 .. m]
    /\ \A j, k \in 1 .. Len(mirrors) : j < k => pos[j] < pos[k]
    /\ \A k \in 1 .. Len(mirrors) :
          Part(flag, pos[k]) # <<>> /\ mirrors[k] = ParsePair(Part(flag, pos[k]))
    /\ \A n \in 1 .. m : Part(flag, n) # <<>> => \E k \in 1 .. Len(mirrors) : pos[k] = n

LEMMA OneMorePart ==
    ASSUME NEW flag, NEW m \in Nat, NEW mirrors \in Seq(ParsedMirrors), NEW pos,
           Comes(mirrors, flag, m, pos),
           ParsePair(Part(flag, m + 1)) \in ParsedMirrors,
           NEW next, next = IF Part(flag, m + 1) = <<>> THEN mirrors
                            ELSE Append(mirrors, ParsePair(Part(flag, m + 1)))
    PROVE  next \in Seq(ParsedMirrors) /\ \E p : Comes(next, flag, m + 1, p)
<1> DEFINE L == Len(mirrors)
<1>1. L \in Nat
  BY LenProperties
<1>2. CASE Part(flag, m + 1) = <<>>
  <2>1. Comes(mirrors, flag, m + 1, pos)
    <3>1. 1 .. m \subseteq 1 .. m + 1 /\ \A n \in 1 .. m + 1 : n = m + 1 \/ n \in 1 .. m
      OBVIOUS
    <3>2. QED  BY <1>2, <3>1 DEF Comes
  <2>2. QED  BY <1>2, <2>1
<1>3. CASE Part(flag, m + 1) # <<>>
  <2> DEFINE x == ParsePair(Part(flag, m + 1))
             p == [k \in 1 .. L + 1 |-> IF k = L + 1 THEN m + 1 ELSE pos[k]]
  <2>1. /\ next \in Seq(ParsedMirrors) /\ Len(next) = L + 1
        /\ next[L + 1] = x /\ \A k \in 1 .. L : next[k] = mirrors[k]
    <3>1. x \in ParsedMirrors /\ next = Append(mirrors, x)
      BY <1>3
    <3> HIDE DEF x
    <3>2. QED  BY <3>1, AppendProperties
  <2>2. \A k \in 1 .. L : pos[k] \in 1 .. m
    BY DEF Comes
  <2>3. \A k \in 1 .. L + 1 : k = L + 1 \/ (k \in 1 .. L /\ k # L + 1)
    BY <1>1
  <2>4. \A k \in 1 .. L : p[k] = pos[k] /\ k \in 1 .. L + 1
    BY <1>1
  <2>5. p[L + 1] = m + 1 /\ L + 1 \in 1 .. L + 1
    BY <1>1
  <2>6. p \in [1 .. L + 1 -> 1 .. m + 1]
    <3>1. ASSUME NEW k \in 1 .. L + 1  PROVE p[k] \in 1 .. m + 1
      <4>1. 1 .. m \subseteq 1 .. m + 1 /\ m + 1 \in 1 .. m + 1
        OBVIOUS
      <4> HIDE DEF p
      <4>2. QED  BY <2>2, <2>3, <2>4, <2>5, <4>1
    <3>2. DOMAIN p = 1 .. L + 1 /\ p = [k \in 1 .. L + 1 |-> p[k]]
      OBVIOUS
    <3> HIDE DEF p
    <3>3. QED  BY <3>1, <3>2
  <2> HIDE DEF p, x
  <2>7. ASSUME NEW j \in 1 .. L + 1, NEW k \in 1 .. L + 1, j < k  PROVE p[j] < p[k]
    <3>1. j \in 1 .. L /\ j # L + 1
      BY <1>1, <2>7
    <3>2. CASE k = L + 1
      <4>1. pos[j] < m + 1
        BY <2>2, <3>1
      <4>2. QED  BY <2>4, <2>5, <3>1, <3>2, <4>1
    <3>3. CASE k # L + 1
      <4>1. k \in 1 .. L
        BY <2>3, <3>3
      <4>2. pos[j] < pos[k]
        BY <2>7, <3>1, <4>1 DEF Comes
      <4>3. QED  BY <2>4, <3>1, <4>1, <4>2
    <3>4. QED  BY <3>2, <3>3
  <2>8. ASSUME NEW k \in 1 .. L + 1
        PROVE  Part(flag, p[k]) # <<>> /\ next[k] = ParsePair(Part(flag, p[k]))
    <3>1. CASE k = L + 1
      BY <1>3, <2>1, <2>5, <3>1 DEF x
    <3>2. CASE k # L + 1
      <4>1. k \in 1 .. L
        BY <2>3, <3>2
      <4>2. Part(flag, pos[k]) # <<>> /\ mirrors[k] = ParsePair(Part(flag, pos[k]))
        BY <4>1 DEF Comes
      <4>3. QED  BY <2>1, <2>4, <4>1, <4>2
    <3>3. QED  BY <3>1, <3>2
  <2>9. ASSUME NEW n \in 1 .. m + 1, Part(flag, n) # <<>>
        PROVE  \E k \in 1 .. L + 1 : p[k] = n
    <3>1. CASE n = m + 1
      BY <2>5, <3>1
    <3>2. CASE n # m + 1
      <4>1. n \in 1 .. m
        BY <3>2
      <4>2. PICK k \in 1 .. L : pos[k] = n
        BY <2>9, <4>1 DEF Comes
      <4>3. QED  BY <2>4, <4>2
    <3>3. QED  BY <3>1, <3>2
  <2>10. Comes(next, flag, m + 1, p)
    BY <2>1, <2>6, <2>7, <2>8, <2>9 DEF Comes
  <2>11. QED  BY <2>1, <2>10
<1>4. QED  BY <1>2, <1>3

\* Parsing loses no mirror and keeps their order.
LEMMA ParseProperties ==
    ASSUME NEW flag \in Seq(Strings), ParseRegistryMirrors(flag).ok
    PROVE  LET mirrors == ParseRegistryMirrors(flag).mirrors
           IN  mirrors \in Seq(ParsedMirrors) /\ \E pos : Comes(mirrors, flag, Len(flag), pos)
<1> DEFINE Parsed(f, n) == IF n = 0 THEN <<>>
                           ELSE IF Part(flag, n) = <<>> THEN f[n - 1]
                           ELSE Append(f[n - 1], ParsePair(Part(flag, n)))
           Defined == {m \in Nat : \E f : f = [n \in 0 .. m |-> Parsed(f, n)]}
           parsed == CHOOSE f : f = [n \in 0 .. Len(flag) |-> Parsed(f, n)]
<1>0. Len(flag) \in Nat
  BY LenProperties
<1>1. ParseRegistryMirrors(flag).mirrors = parsed[Len(flag)]
  BY DEF ParseRegistryMirrors, Part
<1>2. 0 \in Defined
  <2> DEFINE f == [n \in 0 .. 0 |-> <<>>]
  <2>1. f = [n \in 0 .. 0 |-> Parsed(f, n)]
    OBVIOUS
  <2> HIDE DEF f
  <2>2. QED  BY <2>1
<1>3. ASSUME NEW m \in Nat, m \in Defined  PROVE m + 1 \in Defined
  <2>1. PICK f : f = [n \in 0 .. m |-> Parsed(f, n)]
    BY <1>3
  <2> DEFINE g == [n \in 0 .. m + 1 |-> IF n = m + 1 THEN Parsed(f, n) ELSE f[n]]
  <2>2. ASSUME NEW n \in 0 .. m + 1  PROVE g[n] = Parsed(g, n)
    <3>1. CASE n = 0
      BY <2>1, <3>1
    <3>2. CASE n # 0
      <4>1. n - 1 \in 0 .. m /\ n - 1 # m + 1 /\ n - 1 \in 0 .. m + 1
        BY <3>2
      <4>2. g[n - 1] = f[n - 1]
        BY <4>1
      <4>3. CASE n = m + 1
        BY <4>2, <4>3
      <4>4. CASE n # m + 1
        <5>1. n \in 0 .. m  BY <4>4
        <5>2. f[n] = Parsed(f, n)  BY <2>1, <5>1
        <5>3. g[n] = f[n]  BY <4>4
        <5>4. QED  BY <4>2, <5>2, <5>3
      <4>5. QED  BY <4>3, <4>4
    <3>3. QED  BY <3>1, <3>2
  <2>3. g = [n \in 0 .. m + 1 |-> Parsed(g, n)]
    <3>1. g = [n \in 0 .. m + 1 |-> g[n]]
      OBVIOUS
    <3> HIDE DEF g
    <3>2. QED  BY <2>2, <3>1
  <2> HIDE DEF g
  <2>4. QED  BY <2>3
<1>4. Len(flag) \in Defined
  <2> HIDE DEF Defined
  <2>1. QED  BY <1>0, <1>2, <1>3, AllNaturals
<1>5. parsed = [n \in 0 .. Len(flag) |-> Parsed(parsed, n)]
  BY <1>4
<1> HIDE DEF parsed
<1> DEFINE Good == {m \in Nat : m <= Len(flag) =>
                       /\ parsed[m] \in Seq(ParsedMirrors)
                       /\ \E pos : Comes(parsed[m], flag, m, pos)}
<1>6. 0 \in Good
  <2>1. parsed[0] = <<>>
    BY <1>0, <1>5
  <2>2. 1 .. Len(<<>>) = {} /\ 1 .. 0 = {} /\ <<>> \in [{} -> {}] /\ <<>> \in Seq(ParsedMirrors)
    BY EmptySeq
  <2>3. Comes(<<>>, flag, 0, <<>>)
    BY <2>2 DEF Comes
  <2>4. QED  BY <2>1, <2>2, <2>3
<1>7. ASSUME NEW m \in Nat, m \in Good  PROVE m + 1 \in Good
  <2> SUFFICES ASSUME m + 1 <= Len(flag)
               PROVE  /\ parsed[m + 1] \in Seq(ParsedMirrors)
                      /\ \E pos : Comes(parsed[m + 1], flag, m + 1, pos)
    OBVIOUS
  <2>1. parsed[m] \in Seq(ParsedMirrors)
    BY <1>0, <1>7
  <2>2. PICK pos : Comes(parsed[m], flag, m, pos)
    BY <1>0, <1>7
  <2>3. ParsePair(Part(flag, m + 1)) \in ParsedMirrors
    <3>1. m + 1 \in 1 .. Len(flag)
      BY <1>0
    <3>2. flag[m + 1] \in Strings
      BY <3>1, ElementOfSeq
    <3>3. QED  BY <3>2, SpaceTrimmed, PairParsed DEF Part
  <2>4. parsed[m + 1] = IF Part(flag, m + 1) = <<>> THEN parsed[m]
                        ELSE Append(parsed[m], ParsePair(Part(flag, m + 1)))
    <3>1. m + 1 \in 0 .. Len(flag) /\ m + 1 # 0 /\ (m + 1) - 1 = m
      BY <1>0
    <3>2. QED  BY <1>5, <3>1
  <2>5. QED  BY <2>1, <2>2, <2>3, <2>4, OneMorePart
<1>8. Len(flag) \in Good
  <2> HIDE DEF Good
  <2>1. QED  BY <1>0, <1>6, <1>7, AllNaturals
<1>9. QED  BY <1>0, <1>1, <1>8

\* An image whose registry has mirrors is at the first of them, whatever the
\* spelling of the registry, of the mirrors and of the flag.
LEMMA MirrorApplied ==
    ASSUME NEW flag \in Seq(Strings), ParseRegistryMirrors(flag).ok,
           NEW place \in [registry : Strings, image : Strings]
    PROVE  LET at == ApplyRegistryMirror(place, ParseRegistryMirrors(flag).mirrors)
           IN  (at.registry \o <<"/">>) \o at.image = MirroredName(place, flag)
<1> DEFINE mirrors == ParseRegistryMirrors(flag).mirrors
           L       == Len(mirrors)
           hits    == {k \in 1 .. L : IsSource(mirrors[k].source, place.registry)}
           first   == IF hits # {} THEN Min(hits) ELSE 0
           M       == MirrorsOf(flag, place.registry)
           at      == ApplyRegistryMirror(place, mirrors)
           url     == ParseMirrorURL(mirrors[first].mirror)
<1>1. mirrors \in Seq(ParsedMirrors)
  BY ParseProperties
<1>2. PICK pos : Comes(mirrors, flag, Len(flag), pos)
  BY ParseProperties
<1>3. at = IF first = 0 THEN place
           ELSE [registry |-> url.host,
                 image    |-> IF url.path = <<>> THEN place.image
                              ELSE (url.path \o <<"/">>) \o place.image]
  BY DEF ApplyRegistryMirror, SelectInSeq
<1>4. M = {n \in 1 .. Len(flag) : /\ Part(flag, n) # <<>>
                                  /\ Canonical(ParsePair(Part(flag, n)).source) = Canonical(place.registry)}
  <2>1. DOMAIN flag = 1 .. Len(flag)
    BY LenProperties
  <2>2. QED  BY <2>1 DEF MirrorsOf, Part
<1>5. MirroredName(place, flag)
        = ((IF M = {} THEN place.registry ELSE MirrorPrefix(ParsePair(Part(flag, Min(M))).mirror))
             \o <<"/">>) \o place.image
  BY DEF MirroredName, Part
<1>6. Len(flag) \in Nat /\ L \in Nat
  BY <1>1, LenProperties
<1> HIDE DEF mirrors, M, at
<1>7. ASSUME NEW k \in 1 .. L  PROVE pos[k] \in 1 .. Len(flag) /\ (k \in hits <=> pos[k] \in M)
  <2>1. /\ pos[k] \in 1 .. Len(flag) /\ Part(flag, pos[k]) # <<>>
        /\ mirrors[k] = ParsePair(Part(flag, pos[k]))
    BY <1>2 DEF Comes
  <2>2. k \in hits <=> Canonical(mirrors[k].source) = Canonical(place.registry)
    BY SameSource
  <2>3. QED  BY <1>4, <2>1, <2>2
<1>8. ASSUME NEW n \in M  PROVE \E k \in hits : pos[k] = n
  <2>1. n \in 1 .. Len(flag) /\ Part(flag, n) # <<>>
    BY <1>4
  <2>2. PICK k \in 1 .. L : pos[k] = n
    BY <1>2, <2>1 DEF Comes
  <2>3. QED  BY <1>7, <2>2
<1>9. CASE hits = {}
  <2>1. M = {}
    BY <1>8, <1>9
  <2>2. at = place
    BY <1>3, <1>9
  <2>3. QED  BY <1>5, <2>1, <2>2 DEF at, mirrors
<1>10. CASE hits # {}
  <2>1. first \in 1 .. L /\ first \in hits /\ \A k \in hits : first <= k
    <3>1. hits \subseteq Nat /\ hits \subseteq 1 .. L
      BY <1>6
    <3>2. Min(hits) \in hits /\ \A k \in hits : Min(hits) <= k
      <4> HIDE DEF hits
      <4>1. QED  BY <1>10, <3>1, MinIn
    <3>3. QED  BY <1>10, <3>1, <3>2
  <2> HIDE DEF first, hits
  <2>2. ASSUME NEW n \in M  PROVE pos[first] <= n
    <3>1. PICK k \in hits : pos[k] = n
      BY <1>8
    <3>2. k \in 1 .. L /\ first <= k
      BY <2>1 DEF hits
    <3>3. CASE first = k
      <4>1. n \in Nat
        BY <1>4, <1>6
      <4>2. QED  BY <3>1, <3>3, <4>1
    <3>4. CASE first # k
      <4>1. first < k
        <5>1. first \in Nat /\ k \in Nat
          BY <1>6, <2>1, <3>2
        <5>2. QED  BY <3>2, <3>4, <5>1
      <4>2. pos[first] < pos[k]
        BY <1>2, <2>1, <3>2, <4>1 DEF Comes
      <4>3. pos[first] \in Nat /\ pos[k] \in Nat
        <5>1. pos[first] \in 1 .. Len(flag) /\ pos[k] \in 1 .. Len(flag)
          BY <1>7, <2>1, <3>2
        <5>2. QED  BY <1>6, <5>1
      <4>4. QED  BY <3>1, <4>2, <4>3
    <3>5. QED  BY <3>3, <3>4
  <2>3. Min(M) = pos[first]
    <3>1. M \subseteq Nat
      BY <1>4, <1>6
    <3>2. pos[first] \in M
      BY <1>7, <2>1
    <3>3. QED  BY <2>2, <3>1, <3>2, MinIs
  <2>4. mirrors[first] = ParsePair(Part(flag, Min(M))) /\ M # {}
    BY <1>2, <1>7, <2>1, <2>3 DEF Comes
  <2>5. mirrors[first].mirror \in Strings
    <3>1. mirrors[first] \in ParsedMirrors
      BY <1>1, <2>1, ElementOfSeq
    <3>2. QED  BY <3>1 DEF ParsedMirrors
  <2>6. first # 0
    BY <1>6, <2>1
  <2> HIDE DEF url
  <2>7. /\ at.registry = url.host
        /\ at.image = IF url.path = <<>> THEN place.image ELSE (url.path \o <<"/">>) \o place.image
    BY <1>3, <2>6
  <2>8. (url.host \o <<"/">>) \o at.image = (MirrorPrefix(mirrors[first].mirror) \o <<"/">>) \o place.image
    <3> DEFINE name == IF url.path = <<>> THEN place.image ELSE (url.path \o <<"/">>) \o place.image
    <3>1. place.image \in Strings
      OBVIOUS
    <3>2. (url.host \o <<"/">>) \o name = (MirrorPrefix(mirrors[first].mirror) \o <<"/">>) \o place.image
      BY <2>5, <3>1, MirrorParsed DEF url
    <3> HIDE DEF name
    <3>3. at.image = name
      BY <2>7 DEF name
    <3>4. QED  BY <3>2, <3>3
  <2>9. QED  BY <1>5, <2>4, <2>7, <2>8 DEF at, mirrors
<1>11. QED  BY <1>9, <1>10
=============================================================================
