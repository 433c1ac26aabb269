-------------------------- MODULE AquaTriggerProofs --------------------------
(***************************************************************************)
(* Proofs about AquaTrigger, for any input, any images, digests and        *)
(* mirrors, and anything that registries and Aqua may answer.              *)
(***************************************************************************)
EXTENDS AquaTrigger, RegistryNamesProofs, FiniteSetTheorems

-----------------------------------------------------------------------------
(* Sequences *)

LEMMA ElementOf ==
    ASSUME NEW S, NEW s \in Seq(S), NEW n \in 1 .. Len(s)
    PROVE  s[n] \in S /\ s[n] \in ToSet(s)
<1>1. DOMAIN s = 1 .. Len(s)
  OBVIOUS
<1>2. QED  BY <1>1 DEF ToSet

LEMMA AppendToSet ==
    ASSUME NEW S, NEW s \in Seq(S), NEW x \in S
    PROVE  ToSet(Append(s, x)) = ToSet(s) \cup {x}
<1> DEFINE a == Append(s, x)
<1>1. /\ DOMAIN a = 1 .. Len(s) + 1 /\ DOMAIN s = 1 .. Len(s)
      /\ a[Len(s) + 1] = x /\ \A n \in 1 .. Len(s) : a[n] = s[n]
  OBVIOUS
<1> HIDE DEF a
<1>2. QED  BY <1>1 DEF ToSet

\* What is lost when a loop has dealt with the first element.
LEMMA TailProperties ==
    ASSUME NEW S, NEW s \in Seq(S), s # <<>>
    PROVE  /\ Head(s) \in S /\ Tail(s) \in Seq(S)
           /\ Len(s) \in Nat /\ Len(Tail(s)) = Len(s) - 1
           /\ DOMAIN s = 1 .. Len(s) /\ DOMAIN Tail(s) = 1 .. Len(s) - 1
           /\ s[1] = Head(s) /\ \A n \in 1 .. Len(s) - 1 : Tail(s)[n] = s[n + 1]
<1>1. Len(s) \in Nat /\ Len(s) > 0 /\ DOMAIN s = 1 .. Len(s)
  OBVIOUS
<1>2. Head(s) \in S /\ s[1] = Head(s)
  BY <1>1
<1>3. Tail(s) \in Seq(S) /\ Len(Tail(s)) = Len(s) - 1
  OBVIOUS
<1>4. DOMAIN Tail(s) = 1 .. Len(s) - 1
  BY <1>3
<1>5. \A n \in 1 .. Len(s) - 1 : Tail(s)[n] = s[n + 1]
  OBVIOUS
<1>6. QED  BY <1>1, <1>2, <1>3, <1>4, <1>5

LEMMA TailToSet ==
    ASSUME NEW S, NEW s \in Seq(S), s # <<>>
    PROVE  ToSet(s) = {Head(s)} \cup ToSet(Tail(s))
<1>1. ASSUME NEW n \in 1 .. Len(s)  PROVE s[n] \in {Head(s)} \cup ToSet(Tail(s))
  <2>1. n = 1 \/ (n - 1 \in 1 .. Len(s) - 1 /\ s[n] = Tail(s)[n - 1])
    BY TailProperties
  <2>2. QED  BY <2>1, TailProperties DEF ToSet
<1>2. Head(s) \in ToSet(s)
  BY TailProperties DEF ToSet
<1>3. ToSet(Tail(s)) \subseteq ToSet(s)
  <2>1. ASSUME NEW n \in 1 .. Len(s) - 1  PROVE Tail(s)[n] \in ToSet(s)
    <3>1. n + 1 \in 1 .. Len(s) /\ Tail(s)[n] = s[n + 1]
      BY TailProperties
    <3>2. QED  BY <3>1, TailProperties DEF ToSet
  <2>2. QED  BY <2>1, TailProperties DEF ToSet
<1>4. ToSet(s) \subseteq {Head(s)} \cup ToSet(Tail(s))
  BY <1>1, TailProperties DEF ToSet
<1>5. QED  BY <1>2, <1>3, <1>4

LEMMA TailInjective ==
    ASSUME NEW S, NEW s \in Seq(S), s # <<>>, IsInjective(s)
    PROVE  IsInjective(Tail(s)) /\ Head(s) \notin ToSet(Tail(s))
<1>1. ASSUME NEW n \in 1 .. Len(s) - 1, NEW k \in 1 .. Len(s) - 1, Tail(s)[n] = Tail(s)[k]
      PROVE  n = k
  <2>1. n + 1 \in DOMAIN s /\ k + 1 \in DOMAIN s /\ s[n + 1] = s[k + 1]
    BY <1>1, TailProperties
  <2>2. n + 1 = k + 1
    BY <2>1 DEF IsInjective
  <2>3. QED  BY <2>2
<1>2. ASSUME NEW n \in 1 .. Len(s) - 1  PROVE Tail(s)[n] # Head(s)
  <2>1. n + 1 \in DOMAIN s /\ 1 \in DOMAIN s /\ n + 1 # 1 /\ s[1] = Head(s) /\ Tail(s)[n] = s[n + 1]
    BY TailProperties
  <2>2. QED  BY <2>1 DEF IsInjective
<1>3. QED  BY <1>1, <1>2, TailProperties DEF IsInjective, ToSet

\* A sequence without repetitions is as long as it has elements.
LEMMA CountInjective ==
    ASSUME NEW S, NEW s \in Seq(S), IsInjective(s)
    PROVE  IsFiniteSet(ToSet(s)) /\ Cardinality(ToSet(s)) = Len(s)
<1> DEFINE N == 1 .. Len(s)
<1>1. Len(s) \in Nat /\ DOMAIN s = N
  OBVIOUS
<1>2. IsFiniteSet(N) /\ Cardinality(N) = Len(s)
  <2>1. IsFiniteSet(N) /\ Cardinality(N) = IF 1 > Len(s) THEN 0 ELSE Len(s) - 1 + 1
    BY <1>1, FS_Interval
  <2>2. QED  BY <1>1, <2>1
<1>3. s \in [N -> ToSet(s)]
  BY <1>1 DEF ToSet
<1>4. s \in Bijection(N, ToSet(s))
  BY <1>1, <1>3 DEF Bijection, Injection, Surjection, IsInjective, ToSet
<1>5. ExistsBijection(N, ToSet(s))
  BY <1>4 DEF ExistsBijection
<1>6. QED  BY <1>2, <1>5, FS_Bijection

LEMMA DeduplicateProperties ==
    ASSUME NEW S, NEW s \in Seq(S)
    PROVE  /\ Deduplicate(s) \in Seq(S)
           /\ ToSet(Deduplicate(s)) = ToSet(s)
           /\ IsInjective(Deduplicate(s))
<1> DEFINE Kept(f, n) == IF n = 0 THEN <<>>
                         ELSE IF Contains(f[n - 1], s[n]) THEN f[n - 1]
                         ELSE Append(f[n - 1], s[n])
           Defined == {m \in Nat : \E f : f = [n \in 0 .. m |-> Kept(f, n)]}
           kept == CHOOSE f : f = [n \in 0 .. Len(s) |-> Kept(f, n)]
<1>1. Deduplicate(s) = kept[Len(s)]
  BY DEF Deduplicate
<1>2. 0 \in Defined
  <2> DEFINE f == [n \in 0 .. 0 |-> <<>>]
  <2>1. f = [n \in 0 .. 0 |-> Kept(f, n)]
    OBVIOUS
  <2> HIDE DEF f
  <2>2. QED  BY <2>1
<1>3. ASSUME NEW m \in Nat, m \in Defined  PROVE m + 1 \in Defined
  <2>1. PICK f : f = [n \in 0 .. m |-> Kept(f, n)]
    BY <1>3
  <2> DEFINE g == [n \in 0 .. m + 1 |-> IF n = m + 1 THEN Kept(f, n) ELSE f[n]]
  <2>2. ASSUME NEW n \in 0 .. m + 1  PROVE g[n] = Kept(g, n)
    <3>1. CASE n = 0
      BY <2>1, <3>1
    <3>2. CASE n # 0
      <4>1. n - 1 \in 0 .. m /\ n - 1 # m + 1 /\ n - 1 \in 0 .. m + 1
        BY <3>2
      <4>2. g[n - 1] = f[n - 1]
        BY <4>1
      <4>3. CASE n = m + 1
        BY <4>2, <4>3
      <4>4. CASE n # m + 1
        <5>1. n \in 0 .. m  BY <4>4
        <5>2. f[n] = Kept(f, n)  BY <2>1, <5>1
        <5>3. g[n] = f[n]  BY <4>4
        <5>4. QED  BY <4>2, <5>2, <5>3
      <4>5. QED  BY <4>3, <4>4
    <3>3. QED  BY <3>1, <3>2
  <2>3. g = [n \in 0 .. m + 1 |-> Kept(g, n)]
    <3>1. g = [n \in 0 .. m + 1 |-> g[n]]
      OBVIOUS
    <3> HIDE DEF g
    <3>2. QED  BY <2>2, <3>1
  <2> HIDE DEF g
  <2>4. QED  BY <2>3
<1>4. Len(s) \in Defined
  <2> HIDE DEF Defined
  <2>1. QED  BY <1>2, <1>3, AllNaturals
<1>5. kept = [n \in 0 .. Len(s) |-> Kept(kept, n)]
  BY <1>4
<1> HIDE DEF kept
<1> DEFINE Good == {m \in Nat : m <= Len(s) =>
                       /\ kept[m] \in Seq(S)
                       /\ ToSet(kept[m]) = {s[n] : n \in 1 .. m}
                       /\ IsInjective(kept[m])}
<1>6. 0 \in Good
  BY <1>5 DEF ToSet, IsInjective
<1>7. ASSUME NEW m \in Nat, m \in Good  PROVE m + 1 \in Good
  <2> SUFFICES ASSUME m + 1 <= Len(s)
               PROVE  /\ kept[m + 1] \in Seq(S)
                      /\ ToSet(kept[m + 1]) = {s[n] : n \in 1 .. m + 1}
                      /\ IsInjective(kept[m + 1])
    OBVIOUS
  <2> DEFINE k == kept[m]
             x == s[m + 1]
  <2>1. k \in Seq(S) /\ ToSet(k) = {s[n] : n \in 1 .. m} /\ IsInjective(k)
    BY <1>7
  <2>2. x \in S
    OBVIOUS
  <2>3. kept[m + 1] = IF Contains(k, x) THEN k ELSE Append(k, x)
    <3>1. m + 1 \in 0 .. Len(s) /\ m + 1 # 0 /\ (m + 1) - 1 = m
      OBVIOUS
    <3>2. QED  BY <1>5, <3>1
  <2>4. {s[n] : n \in 1 .. m + 1} = {s[n] : n \in 1 .. m} \cup {x}
    OBVIOUS
  <2> HIDE DEF k, x
  <2>5. Contains(k, x) <=> x \in ToSet(k)
    BY <2>1 DEF Contains, ToSet
  <2>6. CASE Contains(k, x)
    BY <2>1, <2>3, <2>4, <2>5, <2>6
  <2>7. CASE ~Contains(k, x)
    <3>1. kept[m + 1] = Append(k, x)
      BY <2>3, <2>7
    <3>2. Append(k, x) \in Seq(S) /\ DOMAIN Append(k, x) = 1 .. Len(k) + 1
      BY <2>1, <2>2
    <3>3. ToSet(Append(k, x)) = ToSet(k) \cup {x}
      BY <2>1, <2>2, AppendToSet
    <3>4. IsInjective(Append(k, x))
      BY <2>1, <2>5, <2>7, <3>2 DEF IsInjective, ToSet
    <3>5. QED  BY <2>1, <2>4, <3>1, <3>2, <3>3, <3>4
  <2>8. QED  BY <2>6, <2>7
<1>8. Len(s) \in Good
  <2> HIDE DEF Good
  <2>1. QED  BY <1>6, <1>7, AllNaturals
<1>9. ToSet(s) = {s[n] : n \in 1 .. Len(s)}
  BY DEF ToSet
<1>10. QED  BY <1>1, <1>8, <1>9

-----------------------------------------------------------------------------
(***************************************************************************)
(* The inductive invariant follows the images of the input through the     *)
(* command's loops: each is with the documents not yet read, with those    *)
(* still to be processed, with what a loop has made of it, or was counted  *)
(* as failed; and never with two of them.                                  *)
(***************************************************************************)
Reading    == pc \in {"start", "read"}
Resolving  == pc \in {"resolve", "index", "image"}
Processing == pc \in {"process", "check", "trigger"}

Distinct(s) == \A n, k \in DOMAIN s : s[n].image = s[k].image => n = k

NothingAsked == found = {} /\ accepted = <<>>

ReadOK == Reading =>
    /\ todo \in Seq(Images)
    /\ ToSet(todo) \cup NamedIn(docs) = Named
    /\ resolved = <<>> /\ counts = NoCounts /\ NothingAsked

ResolveOK == Resolving =>
    /\ todo \in Seq(Images)
    /\ IsInjective(todo) /\ Distinct(resolved) /\ ToSet(todo) \cap ImagesOf(resolved) = {}
    /\ counts.resolveErrors = 0 => Named \subseteq ToSet(todo) \cup ImagesOf(resolved)
    /\ counts = [NoCounts EXCEPT !.resolveErrors = counts.resolveErrors]
    /\ Len(todo) + Len(resolved) + counts.resolveErrors = Cardinality(Named)
    /\ pc # "resolve" => todo # <<>>
    /\ NothingAsked

\* Image i has a result, or is to have one.
Answered(i) == \E img \in found \cup ToSet(accepted) : img.image = i

\* How many images the second loop has dealt with.
Done(c) == c.scansTriggered + c.alreadyScanned + c.scanErrors

ProcessOK == Processing =>
    /\ todo \in Seq(Resolved)
    /\ ~config.dryRun
    /\ Distinct(todo)
    /\ \A n \in DOMAIN accepted : accepted[n].image \notin ImagesOf(todo)
    /\ counts.resolveErrors + counts.scanErrors = 0 =>
          \A i \in Named : i \in ImagesOf(todo) \/ Answered(i)
    /\ Len(todo) + Done(counts) + counts.resolveErrors = Cardinality(Named)
    /\ pc # "process" => todo # <<>>

IInv == /\ TypeOK /\ DOMAIN content = Images /\ DOMAIN held = Images
        /\ ReadOK /\ ResolveOK /\ ProcessOK
        /\ ExitZeroMeansScanned /\ NoImageScannedTwice /\ ResolvesToPlatform


-----------------------------------------------------------------------------
(* Lemmas about the parts of a step *)

\* The images of records: what Resolved loses, and gains, with one element.
LEMMA TailImages ==
    ASSUME NEW s \in Seq(Resolved), s # <<>>
    PROVE  ImagesOf(s) = {Head(s).image} \cup ImagesOf(Tail(s))
<1>1. ASSUME NEW n \in 1 .. Len(s)  PROVE s[n].image \in {Head(s).image} \cup ImagesOf(Tail(s))
  <2>1. n = 1 \/ (n - 1 \in 1 .. Len(s) - 1 /\ s[n] = Tail(s)[n - 1])
    BY TailProperties
  <2>2. QED  BY <2>1, TailProperties DEF ImagesOf
<1>2. Head(s).image \in ImagesOf(s)
  BY TailProperties DEF ImagesOf
<1>3. ASSUME NEW n \in 1 .. Len(s) - 1  PROVE Tail(s)[n].image \in ImagesOf(s)
  <2>1. n + 1 \in 1 .. Len(s) /\ Tail(s)[n] = s[n + 1]
    BY TailProperties
  <2>2. QED  BY <2>1, TailProperties DEF ImagesOf
<1>4. ImagesOf(s) \subseteq {Head(s).image} \cup ImagesOf(Tail(s))
  BY <1>1, TailProperties DEF ImagesOf
<1>5. ImagesOf(Tail(s)) \subseteq ImagesOf(s)
  BY <1>3, TailProperties DEF ImagesOf
<1>6. QED  BY <1>2, <1>4, <1>5

LEMMA TailDistinct ==
    ASSUME NEW s \in Seq(Resolved), s # <<>>, Distinct(s)
    PROVE  Distinct(Tail(s)) /\ Head(s).image \notin ImagesOf(Tail(s))
<1>1. ASSUME NEW n \in 1 .. Len(s) - 1, NEW k \in 1 .. Len(s) - 1,
             Tail(s)[n].image = Tail(s)[k].image
      PROVE  n = k
  <2>1. n + 1 \in DOMAIN s /\ k + 1 \in DOMAIN s /\ s[n + 1].image = s[k + 1].image
    BY <1>1, TailProperties
  <2>2. n + 1 = k + 1
    BY <2>1 DEF Distinct
  <2>3. QED  BY <2>2
<1>2. ASSUME NEW n \in 1 .. Len(s) - 1  PROVE Tail(s)[n].image # Head(s).image
  <2>1. n + 1 \in DOMAIN s /\ 1 \in DOMAIN s /\ n + 1 # 1 /\ s[1] = Head(s) /\ Tail(s)[n] = s[n + 1]
    BY TailProperties
  <2>2. QED  BY <2>1 DEF Distinct
<1>3. QED  BY <1>1, <1>2, TailProperties DEF Distinct, ImagesOf

LEMMA AppendDistinct ==
    ASSUME NEW s \in Seq(Resolved), NEW img \in Resolved, Distinct(s), img.image \notin ImagesOf(s)
    PROVE  /\ Append(s, img) \in Seq(Resolved)
           /\ Distinct(Append(s, img))
           /\ ImagesOf(Append(s, img)) = ImagesOf(s) \cup {img.image}
           /\ Len(Append(s, img)) = Len(s) + 1
<1> DEFINE a == Append(s, img)
<1>1. /\ a \in Seq(Resolved) /\ Len(s) \in Nat /\ Len(a) = Len(s) + 1
      /\ DOMAIN a = 1 .. Len(s) + 1 /\ DOMAIN s = 1 .. Len(s)
      /\ a[Len(s) + 1] = img /\ \A n \in 1 .. Len(s) : a[n] = s[n]
  OBVIOUS
<1> HIDE DEF a
<1>2. ImagesOf(a) = ImagesOf(s) \cup {img.image}
  BY <1>1 DEF ImagesOf
<1>3. \A n \in 1 .. Len(s) : s[n].image # img.image
  BY <1>1 DEF ImagesOf
<1>4. Distinct(a)
  BY <1>1, <1>3 DEF Distinct
<1>5. QED  BY <1>1, <1>2, <1>4 DEF a

\* What a document names.
LEMMA NamedInHead ==
    ASSUME NEW ds \in Seq(Documents), ds # <<>>
    PROVE  NamedIn(ds) = NamedIn(Tail(ds)) \cup
                         (IF Head(ds).kind = "workload" THEN ToSet(Head(ds).images) ELSE {})
<1> DEFINE W == IF Head(ds).kind = "workload" THEN ToSet(Head(ds).images) ELSE {}
<1>1. ASSUME NEW n \in 1 .. Len(ds), ds[n].kind = "workload"
      PROVE  ToSet(ds[n].images) \subseteq NamedIn(Tail(ds)) \cup W
  <2>1. n = 1 \/ (n - 1 \in 1 .. Len(ds) - 1 /\ ds[n] = Tail(ds)[n - 1])
    BY TailProperties
  <2>2. CASE n = 1
    BY <1>1, <2>2, TailProperties
  <2>3. CASE n - 1 \in 1 .. Len(ds) - 1 /\ ds[n] = Tail(ds)[n - 1]
    <3>1. n - 1 \in {k \in DOMAIN Tail(ds) : Tail(ds)[k].kind = "workload"}
      BY <1>1, <2>3, TailProperties
    <3>2. QED  BY <2>3, <3>1 DEF NamedIn
  <2>4. QED  BY <2>1, <2>2, <2>3
<1>2. NamedIn(ds) \subseteq NamedIn(Tail(ds)) \cup W
  <2> HIDE DEF W
  <2>1. QED  BY <1>1, TailProperties DEF NamedIn
<1>3. W \subseteq NamedIn(ds)
  BY TailProperties DEF NamedIn
<1>4. ASSUME NEW n \in 1 .. Len(ds) - 1, Tail(ds)[n].kind = "workload"
      PROVE  ToSet(Tail(ds)[n].images) \subseteq NamedIn(ds)
  <2>1. n + 1 \in {k \in DOMAIN ds : ds[k].kind = "workload"} /\ Tail(ds)[n] = ds[n + 1]
    BY <1>4, TailProperties
  <2>2. QED  BY <2>1 DEF NamedIn
<1>5. NamedIn(Tail(ds)) \subseteq NamedIn(ds)
  BY <1>4, TailProperties DEF NamedIn
<1>6. QED  BY <1>2, <1>3, <1>5

LEMMA ConcatToSet ==
    ASSUME NEW S, NEW s \in Seq(S), NEW t \in Seq(S)
    PROVE  ToSet(s \o t) = ToSet(s) \cup ToSet(t)
<1> DEFINE c == s \o t
<1>1. /\ Len(s) \in Nat /\ Len(t) \in Nat /\ DOMAIN s = 1 .. Len(s) /\ DOMAIN t = 1 .. Len(t)
      /\ DOMAIN c = 1 .. Len(s) + Len(t)
      /\ \A n \in 1 .. Len(s) : c[n] = s[n]
      /\ \A n \in Len(s) + 1 .. Len(s) + Len(t) : c[n] = t[n - Len(s)]
  OBVIOUS
<1> HIDE DEF c
<1>2. ASSUME NEW n \in 1 .. Len(s) + Len(t)  PROVE c[n] \in ToSet(s) \cup ToSet(t)
  <2>1. n \in 1 .. Len(s) \/ (n \in Len(s) + 1 .. Len(s) + Len(t) /\ n - Len(s) \in 1 .. Len(t))
    BY <1>1
  <2>2. QED  BY <1>1, <2>1 DEF ToSet
<1>3. ASSUME NEW n \in 1 .. Len(t)  PROVE t[n] \in ToSet(c)
  <2>1. n + Len(s) \in Len(s) + 1 .. Len(s) + Len(t) /\ (n + Len(s)) - Len(s) = n
    BY <1>1
  <2>2. QED  BY <1>1, <2>1 DEF ToSet
<1>4. ToSet(s) \subseteq ToSet(c)
  BY <1>1 DEF ToSet
<1>5. QED  BY <1>1, <1>2, <1>3, <1>4 DEF ToSet, c

\* Digests come from under the tag, and from its platform if there is a choice.
Serves(i, digest) ==
    \E c \in held[i] : \E m \in ToSet(c.manifests) :
        m.digest = digest /\ (c.index => m.platform \in {Platform, NoPlatform})

LEMMA IndexServes ==
    ASSUME NEW i \in Images, held[i] \subseteq ContentsOf[i], NEW c \in held[i],
           ResolveFromIndex(c.manifests) # NoDigest
    PROVE  ResolveFromIndex(c.manifests) \in Digests /\ Serves(i, ResolveFromIndex(c.manifests))
<1> DEFINE I == {n \in 1 .. Len(c.manifests) : c.manifests[n].platform = Platform}
           n == Min(I)
<1>1. c \in Content
  BY TriggerAssumption
<1>2. c.manifests \in Seq([platform : Platforms, digest : Digests])
  BY <1>1 DEF Content
<1>3. ResolveFromIndex(c.manifests) =
         LET k == IF I # {} THEN Min(I) ELSE 0 IN IF k = 0 THEN NoDigest ELSE c.manifests[k].digest
  BY DEF ResolveFromIndex, SelectInSeq
<1>4. I # {}
  BY <1>3
<1>5. n \in I
  <2>1. I \subseteq Nat
    OBVIOUS
  <2> HIDE DEF I
  <2>2. QED  BY <1>4, <2>1, MinIn
<1> HIDE DEF n
<1>6. n \in 1 .. Len(c.manifests) /\ c.manifests[n].platform = Platform
  BY <1>5
<1>7. ResolveFromIndex(c.manifests) = c.manifests[n].digest
  BY <1>3, <1>4, <1>6 DEF n
<1>8. /\ c.manifests[n] \in ToSet(c.manifests)
      /\ c.manifests[n] \in [platform : Platforms, digest : Digests]
  BY <1>2, <1>6, ElementOf
<1>9. QED  BY <1>6, <1>7, <1>8 DEF Serves

LEMMA ImageServes ==
    ASSUME NEW i \in Images, held[i] \subseteq ContentsOf[i], NEW c \in held[i],
           RemoteImage(c) # NoDigest
    PROVE  RemoteImage(c) \in Digests /\ Serves(i, RemoteImage(c))
<1> DEFINE I == {n \in 1 .. Len(c.manifests) :
                    ~c.index \/ c.manifests[n].platform \in {Platform, NoPlatform}}
           n == Min(I)
<1>1. c \in Content
  BY TriggerAssumption
<1>2. c.manifests \in Seq([platform : Platforms, digest : Digests])
  BY <1>1 DEF Content
<1>3. RemoteImage(c) =
         LET k == IF I # {} THEN Min(I) ELSE 0 IN IF k = 0 THEN NoDigest ELSE c.manifests[k].digest
  BY DEF RemoteImage, SelectInSeq
<1>4. I # {}
  BY <1>3
<1>5. n \in I
  <2>1. I \subseteq Nat
    OBVIOUS
  <2> HIDE DEF I
  <2>2. QED  BY <1>4, <2>1, MinIn
<1> HIDE DEF n
<1>6. n \in 1 .. Len(c.manifests) /\ (c.index => c.manifests[n].platform \in {Platform, NoPlatform})
  BY <1>5
<1>7. RemoteImage(c) = c.manifests[n].digest
  BY <1>3, <1>4, <1>6 DEF n
<1>8. /\ c.manifests[n] \in ToSet(c.manifests)
      /\ c.manifests[n] \in [platform : Platforms, digest : Digests]
  BY <1>2, <1>6, ElementOf
<1>9. QED  BY <1>6, <1>7, <1>8 DEF Serves

-----------------------------------------------------------------------------
(* Every step keeps the invariant *)

LEMMA InitOK == Init => IInv
<1> SUFFICES ASSUME Init  PROVE IInv
  OBVIOUS
<1>1. config.input \in Seq(Documents)
  BY TriggerAssumption DEF Init
<1>2. TypeOK
  <2>1. counts \in [DOMAIN NoCounts -> Nat]
    BY DEF Init, NoCounts
  <2>2. \A i \in Images : content[i] \in held[i] /\ held[i] \subseteq ContentsOf[i]
    BY DEF Init
  <2>3. resolved \in Seq(Resolved) /\ accepted \in Seq(Resolved) /\ found \subseteq Resolved
    BY DEF Init
  <2>4. /\ config.input \in Inputs /\ config.mirrors \in MirrorFlags
        /\ config.dryRun \in BOOLEAN /\ config.complete \in BOOLEAN
    BY DEF Init
  <2>5. docs \in Seq(Documents)
    BY <1>1 DEF Init
  <2>6. todo = <<>> /\ cancelled \in BOOLEAN /\ pc = "start"
    BY DEF Init
  <2>7. QED  BY <2>1, <2>2, <2>3, <2>4, <2>5, <2>6 DEF TypeOK
<1>3. DOMAIN content = Images /\ DOMAIN held = Images
  BY DEF Init
<1>4. ReadOK
  BY DEF Init, ReadOK, Named, NothingAsked, ToSet
<1>5. QED
  BY <1>2, <1>3, <1>4 DEF Init, IInv, ResolveOK, ProcessOK, Resolving, Processing,
     ExitZeroMeansScanned, NoImageScannedTwice, ResolvesToPlatform

LEMMA StartOK == ASSUME IInv, Start  PROVE IInv'
<1>1. TypeOK'
  BY DEF IInv, TypeOK, ReadOK, Reading, Start, Exit, worldVars, aquaVars
<1>2. (DOMAIN content = Images /\ DOMAIN held = Images /\ ReadOK)'
  BY DEF IInv, ReadOK, Reading, Named, NamedIn, NothingAsked, Start, Exit, worldVars, aquaVars
<1>3. QED
  BY <1>1, <1>2 DEF IInv, Start, Exit, worldVars, aquaVars, ResolveOK, ProcessOK, Resolving,
     Processing, ExitZeroMeansScanned, NoImageScannedTwice, ResolvesToPlatform

\* Steps that only read.
LEMMA ReadDocumentOK == ASSUME IInv, ReadDocument  PROVE IInv'
<1>1. /\ pc = "read" /\ pc' = "read" /\ docs # <<>> /\ docs \in Seq(Documents)
      /\ todo \in Seq(Images) /\ UNCHANGED <<worldVars, resolved, counts, aquaVars>>
      /\ docs' = Tail(docs)
  BY DEF IInv, TypeOK, ReadOK, Reading, ReadDocument
<1>2. Head(docs).images \in Seq(Images) /\ Tail(docs) \in Seq(Documents)
  <2>1. Head(docs) \in Documents /\ Tail(docs) \in Seq(Documents)
    BY <1>1, TailProperties
  <2>2. QED  BY <2>1 DEF Documents
<1> DEFINE new == Deduplicate(Head(docs).images)
<1>3. new \in Seq(Images) /\ ToSet(new) = ToSet(Head(docs).images)
  BY <1>2, DeduplicateProperties
<1>4. todo' \in Seq(Images) /\ ToSet(todo') \cup NamedIn(docs') = ToSet(todo) \cup NamedIn(docs)
  <2> HIDE DEF new
  <2>1. CASE Head(docs).kind = "workload"
    <3>1. todo' = todo \o new
      BY <2>1 DEF ReadDocument, new
    <3>2. ToSet(todo') = ToSet(todo) \cup ToSet(new)
      BY <1>1, <1>3, <3>1, ConcatToSet
    <3>3. QED  BY <1>1, <1>3, <2>1, <3>1, <3>2, NamedInHead
  <2>2. CASE Head(docs).kind # "workload"
    BY <1>1, <2>2, NamedInHead DEF ReadDocument
  <2>3. QED  BY <2>1, <2>2
<1>5. Named' = Named
  BY <1>1 DEF worldVars, Named, NamedIn
<1>6. ReadOK'
  BY <1>1, <1>4, <1>5 DEF IInv, ReadOK, Reading, NothingAsked, aquaVars
<1>7. TypeOK'
  BY <1>1, <1>2, <1>4 DEF IInv, TypeOK, worldVars, aquaVars
<1>8. QED
  BY <1>1, <1>6, <1>7 DEF IInv, worldVars, aquaVars, ResolveOK, ProcessOK, Resolving,
     Processing, ExitZeroMeansScanned, NoImageScannedTwice, ResolvesToPlatform

LEMMA ReaderFailsOK == ASSUME IInv, ReaderFails  PROVE IInv'
<1>1. TypeOK'
  BY DEF IInv, TypeOK, ReadOK, Reading, ReaderFails, Exit, worldVars, aquaVars
<1>2. QED
  BY <1>1 DEF IInv, ReaderFails, Exit, worldVars, aquaVars, ReadOK, ResolveOK, ProcessOK, Reading,
     Resolving, Processing, ExitZeroMeansScanned, NoImageScannedTwice, ResolvesToPlatform

LEMMA EndOfInputOK == ASSUME IInv, EndOfInput  PROVE IInv'
<1>1. /\ pc = "read" /\ docs = <<>> /\ todo \in Seq(Images)
      /\ resolved = <<>> /\ counts = NoCounts /\ NothingAsked
      /\ pc' = IF todo = <<>> THEN "succeeded" ELSE "resolve"
      /\ todo' = Deduplicate(todo)
      /\ UNCHANGED <<worldVars, docs, resolved, counts, aquaVars>>
  BY DEF IInv, ReadOK, Reading, EndOfInput
<1>2. ToSet(todo) = Named
  <2>1. ToSet(todo) \cup NamedIn(docs) = Named
    BY <1>1 DEF IInv, ReadOK, Reading
  <2>2. NamedIn(docs) = {}
    BY <1>1 DEF NamedIn
  <2>3. QED  BY <2>1, <2>2
<1>3. Named' = Named
  BY <1>1 DEF worldVars, Named, NamedIn
<1>4. todo' \in Seq(Images) /\ ToSet(todo') = Named /\ IsInjective(todo')
  BY <1>1, <1>2, DeduplicateProperties
<1>5. Len(todo') = Cardinality(Named)
  BY <1>4, CountInjective
<1>6. TypeOK'
  BY <1>1, <1>4 DEF IInv, TypeOK, worldVars, aquaVars
<1>7. ResolveOK'
  <2>1. ImagesOf(resolved') = {} /\ Distinct(resolved') /\ Len(resolved') = 0
    BY <1>1 DEF ImagesOf, Distinct
  <2>2. counts' = NoCounts /\ counts'.resolveErrors = 0 /\ Len(todo') \in Nat
    BY <1>1, <1>4 DEF NoCounts
  <2>3. NothingAsked'
    BY <1>1 DEF NothingAsked, aquaVars
  <2>4. counts' = [NoCounts EXCEPT !.resolveErrors = counts'.resolveErrors]
    BY <2>2 DEF NoCounts
  <2>5. Len(todo') + Len(resolved') + counts'.resolveErrors = Cardinality(Named')
    BY <1>3, <1>5, <2>1, <2>2
  <2>6. /\ ToSet(todo') \cap ImagesOf(resolved') = {}
        /\ Named' \subseteq ToSet(todo') \cup ImagesOf(resolved')
    BY <1>3, <1>4, <2>1
  <2>7. Resolving' => pc' = "resolve"
    BY <1>1 DEF Resolving
  <2>8. QED
    BY <1>4, <2>1, <2>3, <2>4, <2>5, <2>6, <2>7 DEF ResolveOK
<1>8. ExitZeroMeansScanned'
  <2>1. CASE todo = <<>>
    BY <1>2, <1>3, <2>1 DEF ExitZeroMeansScanned, ToSet
  <2>2. CASE todo # <<>>
    BY <1>1, <2>2 DEF ExitZeroMeansScanned
  <2>3. QED  BY <2>1, <2>2
<1>9. QED
  BY <1>1, <1>6, <1>7, <1>8 DEF IInv, worldVars, aquaVars, ReadOK, ProcessOK, Reading,
     Processing, NoImageScannedTwice, ResolvesToPlatform

\* The loop over the images to be resolved has dealt with one.
LEMMA ResolvingProperties ==
    ASSUME IInv, Resolving, todo # <<>>
    PROVE  /\ todo \in Seq(Images) /\ Head(todo) \in Images /\ Tail(todo) \in Seq(Images)
           /\ ToSet(todo) = {Head(todo)} \cup ToSet(Tail(todo))
           /\ IsInjective(Tail(todo)) /\ Head(todo) \notin ToSet(Tail(todo))
           /\ Head(todo) \notin ImagesOf(resolved) /\ Head(todo) \in ToSet(todo)
           /\ Len(Tail(todo)) = Len(todo) - 1 /\ Len(todo) \in Nat
           /\ resolved \in Seq(Resolved) /\ Len(resolved) \in Nat
           /\ counts.resolveErrors \in Nat
<1>1. todo \in Seq(Images) /\ IsInjective(todo) /\ ToSet(todo) \cap ImagesOf(resolved) = {}
  BY DEF IInv, ResolveOK
<1>2. resolved \in Seq(Resolved) /\ counts.resolveErrors \in Nat
  BY DEF IInv, TypeOK, NoCounts
<1>3. /\ Head(todo) \in Images /\ Tail(todo) \in Seq(Images)
      /\ Len(todo) \in Nat /\ Len(Tail(todo)) = Len(todo) - 1
  BY <1>1, TailProperties
<1>4. ToSet(todo) = {Head(todo)} \cup ToSet(Tail(todo))
  BY <1>1, TailToSet
<1>5. IsInjective(Tail(todo)) /\ Head(todo) \notin ToSet(Tail(todo))
  BY <1>1, TailInjective
<1>6. QED  BY <1>1, <1>2, <1>3, <1>4, <1>5

LEMMA ResolvedOK ==
    ASSUME IInv, Resolving, todo # <<>>, NEW digest \in Digests,
           Serves(Head(todo), digest) \/ digest = PinnedTo[Head(todo)],
           Resolve(Head(todo), digest), UNCHANGED <<worldVars, docs, aquaVars>>
    PROVE  IInv'
<1> DEFINE i == Head(todo)
           img == [image |-> i, digest |-> digest]
<1>1. img \in Resolved /\ img.image = i /\ img.digest = digest
  BY ResolvingProperties DEF Resolved
<1>2. /\ resolved' = Append(resolved, img) /\ todo' = Tail(todo) /\ pc' = "resolve"
      /\ counts' = counts
  BY DEF Resolve
<1> HIDE DEF img
<1>3. Distinct(resolved) /\ i \notin ImagesOf(resolved)
  BY ResolvingProperties DEF IInv, ResolveOK
<1>4. /\ resolved' \in Seq(Resolved) /\ Distinct(resolved')
      /\ ImagesOf(resolved') = ImagesOf(resolved) \cup {i} /\ Len(resolved') = Len(resolved) + 1
  BY <1>1, <1>2, <1>3, ResolvingProperties, AppendDistinct
<1>5. Named' = Named
  BY DEF worldVars, Named, NamedIn
<1>6. TypeOK'
  BY <1>2, <1>4, ResolvingProperties DEF IInv, TypeOK, worldVars, aquaVars
<1>7. ResolveOK'
  <2>1. ToSet(todo') \cup ImagesOf(resolved') = ToSet(todo) \cup ImagesOf(resolved)
    BY <1>2, <1>4, ResolvingProperties
  <2>2. ToSet(todo') \cap ImagesOf(resolved') = {}
    BY <1>2, <1>4, ResolvingProperties DEF IInv, ResolveOK
  <2>3. Len(todo') + Len(resolved') + counts'.resolveErrors = Cardinality(Named')
    <3>1. Len(todo) + Len(resolved) + counts.resolveErrors = Cardinality(Named)
      BY DEF IInv, ResolveOK
    <3>2. QED  BY <1>2, <1>4, <1>5, <3>1, ResolvingProperties
  <2>4. NothingAsked'
    BY DEF IInv, ResolveOK, NothingAsked, aquaVars
  <2>5. counts'.resolveErrors = 0 => Named' \subseteq ToSet(todo') \cup ImagesOf(resolved')
    BY <1>2, <1>5, <2>1 DEF IInv, ResolveOK
  <2>6. counts' = [NoCounts EXCEPT !.resolveErrors = counts'.resolveErrors]
    BY <1>2 DEF IInv, ResolveOK
  <2>7. QED
    BY <1>2, <1>4, <2>2, <2>3, <2>4, <2>5, <2>6, ResolvingProperties DEF ResolveOK
<1>8. ResolvesToPlatform'
  <2> SUFFICES ASSUME NEW n \in DOMAIN resolved'
               PROVE  \/ resolved'[n].digest = PinnedTo[resolved'[n].image]
                      \/ Serves(resolved'[n].image, resolved'[n].digest)
    BY DEF ResolvesToPlatform, Serves, worldVars
  <2>1. (n \in DOMAIN resolved /\ resolved'[n] = resolved[n]) \/ resolved'[n] = img
    BY <1>1, <1>2, ResolvingProperties
  <2>2. CASE n \in DOMAIN resolved /\ resolved'[n] = resolved[n]
    BY <2>2 DEF IInv, ResolvesToPlatform, Serves
  <2>3. CASE resolved'[n] = img
    BY <1>1, <2>3
  <2>4. QED  BY <2>1, <2>2, <2>3
<1>9. QED
  BY <1>2, <1>6, <1>7, <1>8 DEF IInv, worldVars, aquaVars, ReadOK, ProcessOK, Reading, Processing,
     ExitZeroMeansScanned, NoImageScannedTwice

LEMMA GivenUpOK ==
    ASSUME IInv, Resolving, todo # <<>>, ResolveError, UNCHANGED <<worldVars, docs, aquaVars>>
    PROVE  IInv'
<1>1. /\ resolved' = resolved /\ todo' = Tail(todo) /\ pc' = "resolve"
      /\ counts' = [counts EXCEPT !.resolveErrors = counts.resolveErrors + 1]
  BY DEF ResolveError, Count
<1>2. counts \in [DOMAIN NoCounts -> Nat]
  BY DEF IInv, TypeOK
<1>3. /\ counts' \in [DOMAIN NoCounts -> Nat]
      /\ counts'.resolveErrors = counts.resolveErrors + 1
  BY <1>1, <1>2 DEF NoCounts
<1>4. Named' = Named
  BY DEF worldVars, Named, NamedIn
<1>5. TypeOK'
  BY <1>1, <1>3, ResolvingProperties DEF IInv, TypeOK, worldVars, aquaVars
<1>6. ResolveOK'
  <2>1. ToSet(todo') \cap ImagesOf(resolved') = {}
    BY <1>1, ResolvingProperties DEF IInv, ResolveOK
  <2>2. Len(todo') + Len(resolved') + counts'.resolveErrors = Cardinality(Named')
    <3>1. Len(todo) + Len(resolved) + counts.resolveErrors = Cardinality(Named)
      BY DEF IInv, ResolveOK
    <3>2. QED  BY <1>1, <1>3, <1>4, <3>1, ResolvingProperties
  <2>3. NothingAsked'
    BY DEF IInv, ResolveOK, NothingAsked, aquaVars
  <2>4. counts' = [NoCounts EXCEPT !.resolveErrors = counts'.resolveErrors]
    <3>1. counts = [NoCounts EXCEPT !.resolveErrors = counts.resolveErrors]
      BY DEF IInv, ResolveOK
    <3>2. QED  BY <1>1, <1>3, <3>1 DEF NoCounts
  <2>5. counts'.resolveErrors # 0
    BY <1>3, ResolvingProperties
  <2>6. Distinct(resolved')
    BY <1>1 DEF IInv, ResolveOK
  <2>7. QED
    BY <1>1, <2>1, <2>2, <2>3, <2>4, <2>5, <2>6, ResolvingProperties DEF ResolveOK
<1>7. QED
  BY <1>1, <1>5, <1>6 DEF IInv, worldVars, aquaVars, ReadOK, ProcessOK, Reading, Processing,
     ExitZeroMeansScanned, NoImageScannedTwice, ResolvesToPlatform

\* It asks a registry.
LEMMA AsksOK ==
    ASSUME IInv, Resolving, todo # <<>>, pc' \in {"index", "image"},
           UNCHANGED <<worldVars, docs, todo, resolved, counts, aquaVars>>
    PROVE  IInv'
<1>1. Named' = Named
  BY DEF worldVars, Named, NamedIn
<1>2. TypeOK'
  BY ResolvingProperties DEF IInv, TypeOK, worldVars, aquaVars
<1>3. ResolveOK'
  BY <1>1 DEF IInv, ResolveOK, NothingAsked, aquaVars
<1>4. QED
  BY <1>2, <1>3 DEF IInv, worldVars, aquaVars, ReadOK, ProcessOK, Reading, Processing,
     ExitZeroMeansScanned, NoImageScannedTwice, ResolvesToPlatform

LEMMA ResolveNextOK == ASSUME IInv, ResolveNext  PROVE IInv'
<1>1. Resolving /\ todo # <<>> /\ UNCHANGED <<worldVars, docs, aquaVars>>
  BY DEF ResolveNext, Resolving
<1>2. PinnedTo[Head(todo)] \in Digests \cup {NoDigest}
  BY <1>1, ResolvingProperties, TriggerAssumption
<1>3. CASE PinnedTo[Head(todo)] # NoDigest /\ Resolve(Head(todo), PinnedTo[Head(todo)])
  BY <1>1, <1>2, <1>3, ResolvedOK
<1>4. CASE ResolveError
  BY <1>1, <1>4, GivenUpOK
<1>5. CASE pc' = "index" /\ UNCHANGED <<todo, resolved, counts>>
  BY <1>1, <1>5, AsksOK
<1>6. QED  BY <1>3, <1>4, <1>5 DEF ResolveNext

LEMMA Asked ==
    ASSUME IInv, pc \in {"index", "image"}
    PROVE  /\ Resolving /\ todo # <<>>
           /\ Head(todo) \in Images /\ content[Head(todo)] \in held[Head(todo)]
           /\ held[Head(todo)] \subseteq ContentsOf[Head(todo)]
<1>1. Resolving /\ todo # <<>>
  BY DEF IInv, ResolveOK, Resolving
<1>2. QED  BY <1>1, ResolvingProperties DEF IInv, TypeOK

LEMMA FetchIndexOK == ASSUME IInv, FetchIndex  PROVE IInv'
<1> DEFINE c == content[Head(todo)]
           digest == ResolveFromIndex(c.manifests)
<1>1. digest # NoDigest /\ Resolve(Head(todo), digest) /\ UNCHANGED <<worldVars, docs, aquaVars>>
      /\ pc = "index"
  BY DEF FetchIndex
<1>2. Resolving /\ todo # <<>> /\ Head(todo) \in Images /\ c \in held[Head(todo)]
      /\ held[Head(todo)] \subseteq ContentsOf[Head(todo)]
  BY <1>1, Asked
<1> HIDE DEF c
<1>3. digest \in Digests /\ Serves(Head(todo), digest)
  BY <1>1, <1>2, IndexServes
<1> HIDE DEF digest
<1>4. QED  BY <1>1, <1>2, <1>3, ResolvedOK

LEMMA FetchImageOK == ASSUME IInv, FetchImage  PROVE IInv'
<1> DEFINE c == content[Head(todo)]
           digest == RemoteImage(c)
<1>1. digest # NoDigest /\ Resolve(Head(todo), digest) /\ UNCHANGED <<worldVars, docs, aquaVars>>
      /\ pc = "image"
  BY DEF FetchImage
<1>2. Resolving /\ todo # <<>> /\ Head(todo) \in Images /\ c \in held[Head(todo)]
      /\ held[Head(todo)] \subseteq ContentsOf[Head(todo)]
  BY <1>1, Asked
<1> HIDE DEF c
<1>3. digest \in Digests /\ Serves(Head(todo), digest)
  BY <1>1, <1>2, ImageServes
<1> HIDE DEF digest
<1>4. QED  BY <1>1, <1>2, <1>3, ResolvedOK

LEMMA FetchFailsOK == ASSUME IInv, FetchIndexFails \/ FetchImageFails  PROVE IInv'
<1>1. Resolving /\ todo # <<>>
  BY Asked DEF FetchIndexFails, FetchImageFails
<1>2. CASE FetchIndexFails
  BY <1>1, <1>2, AsksOK DEF FetchIndexFails
<1>3. CASE FetchImageFails
  BY <1>1, <1>3, GivenUpOK DEF FetchImageFails
<1>4. QED  BY <1>2, <1>3

LEMMA ResolveDoneOK == ASSUME IInv, ResolveDone  PROVE IInv'
<1>1. /\ pc = "resolve" /\ todo = <<>> /\ todo' = resolved /\ Resolving
      /\ UNCHANGED <<worldVars, docs, resolved, counts, aquaVars>>
  BY DEF ResolveDone, Resolving
<1>2. pc' \in {"succeeded", "failed", "process"} /\ (pc' = "succeeded" => config.dryRun)
  BY DEF ResolveDone, Exit
<1>3. /\ Distinct(resolved) /\ NothingAsked
      /\ counts = [NoCounts EXCEPT !.resolveErrors = counts.resolveErrors]
      /\ counts.resolveErrors = 0 => Named \subseteq ToSet(todo) \cup ImagesOf(resolved)
      /\ Len(todo) + Len(resolved) + counts.resolveErrors = Cardinality(Named)
  BY <1>1 DEF IInv, ResolveOK
<1>4. resolved \in Seq(Resolved) /\ counts.resolveErrors \in Nat /\ Len(resolved) \in Nat
  BY DEF IInv, TypeOK, NoCounts
<1>5. Named' = Named
  BY <1>1 DEF worldVars, Named, NamedIn
<1>6. TypeOK'
  <2>1. todo' \in Seq(Images \cup Resolved)
    BY <1>1, <1>4
  <2>2. QED  BY <1>1, <1>2, <2>1 DEF IInv, TypeOK, worldVars, aquaVars
<1>7. ProcessOK'
  <2>1. todo' \in Seq(Resolved) /\ Distinct(todo')
    BY <1>1, <1>3, <1>4
  <2>2. \A n \in DOMAIN accepted' : accepted'[n].image \notin ImagesOf(todo')
    BY <1>1, <1>3 DEF NothingAsked, aquaVars
  <2>3. counts'.scansTriggered = 0 /\ counts'.alreadyScanned = 0 /\ counts'.scanErrors = 0
    BY <1>1, <1>3 DEF NoCounts
  <2>4. counts'.resolveErrors + counts'.scanErrors = 0 => \A i \in Named' : i \in ImagesOf(todo')
    <3>1. ToSet(todo) = {}
      BY <1>1 DEF ToSet
    <3>2. QED  BY <1>1, <1>3, <1>4, <1>5, <2>3, <3>1
  <2>5. Len(todo') + Done(counts') + counts'.resolveErrors = Cardinality(Named')
    <3>1. Len(todo) = 0
      BY <1>1
    <3>2. Len(resolved) + counts.resolveErrors = Cardinality(Named)
      BY <1>3, <1>4, <3>1
    <3>3. Done(counts') = 0
      BY <2>3 DEF Done
    <3>4. QED  BY <1>1, <1>4, <1>5, <3>2, <3>3
  <2>6. Processing' => pc' = "process" /\ ~config'.dryRun
    BY <1>1, <1>2 DEF ResolveDone, Exit, Processing, worldVars
  <2>7. QED  BY <2>1, <2>2, <2>4, <2>5, <2>6 DEF ProcessOK
<1>8. ExitZeroMeansScanned'
  BY <1>1, <1>2 DEF ExitZeroMeansScanned, worldVars
<1>9. QED
  BY <1>1, <1>2, <1>6, <1>7, <1>8 DEF IInv, worldVars, aquaVars, ReadOK, ResolveOK, Reading, Resolving,
     NoImageScannedTwice, ResolvesToPlatform

\* The loop over the images with a digest.
LEMMA ProcessingProperties ==
    ASSUME IInv, Processing, todo # <<>>
    PROVE  /\ todo \in Seq(Resolved) /\ Head(todo) \in Resolved /\ Tail(todo) \in Seq(Resolved)
           /\ ImagesOf(todo) = {Head(todo).image} \cup ImagesOf(Tail(todo))
           /\ Distinct(Tail(todo)) /\ Head(todo).image \notin ImagesOf(Tail(todo))
           /\ Len(Tail(todo)) = Len(todo) - 1 /\ Len(todo) \in Nat
           /\ found \subseteq Resolved /\ accepted \in Seq(Resolved)
           /\ counts \in [DOMAIN NoCounts -> Nat]
<1>1. todo \in Seq(Resolved) /\ Distinct(todo)
  BY DEF IInv, ProcessOK
<1>2. found \subseteq Resolved /\ accepted \in Seq(Resolved) /\ counts \in [DOMAIN NoCounts -> Nat]
  BY DEF IInv, TypeOK
<1>3. QED  BY <1>1, <1>2, TailProperties, TailImages, TailDistinct

LEMMA OneMore ==
    ASSUME NEW a \in Nat, NEW b \in Nat, NEW c \in Nat
    PROVE  /\ (a + 1) + b + c = (a + b + c) + 1
           /\ a + (b + 1) + c = (a + b + c) + 1
           /\ a + b + (c + 1) = (a + b + c) + 1
           /\ a + b + c \in Nat
OBVIOUS

\* It has dealt with one: Aqua had a result, took the scan, or it failed, in
\* which case Aqua may or may not have taken it.
LEMMA ProcessedOK ==
    ASSUME IInv, Processing, todo # <<>>,
           NEW field \in {"alreadyScanned", "scansTriggered", "scanErrors"}, ProcessedAs(field),
           \/ accepted' = accepted /\ found' = found
           \/ accepted' = accepted /\ found' = found \cup {Head(todo)}
           \/ accepted' = Append(accepted, Head(todo)) /\ found' = found,
           field # "scanErrors" => Head(todo) \in found' \cup ToSet(accepted'),
           UNCHANGED <<worldVars, docs, resolved>>
    PROVE  IInv'
<1> DEFINE img == Head(todo)
<1>1. /\ todo' = Tail(todo) /\ pc' = "process"
      /\ counts' = [counts EXCEPT ![field] = counts[field] + 1]
  BY DEF ProcessedAs, Count
<1>2. img \in Resolved
  BY ProcessingProperties
<1> HIDE DEF img
<1>3. /\ accepted' \in Seq(Resolved) /\ found' \subseteq Resolved
      /\ found \subseteq found' /\ ToSet(accepted) \subseteq ToSet(accepted')
  <2>1. accepted \in Seq(Resolved) /\ found \subseteq Resolved
    BY ProcessingProperties
  <2>2. Append(accepted, img) \in Seq(Resolved) /\ ToSet(accepted) \subseteq ToSet(Append(accepted, img))
    BY <1>2, <2>1, AppendToSet
  <2>3. QED  BY <1>2, <2>1, <2>2 DEF img
<1>4. /\ counts' \in [DOMAIN NoCounts -> Nat]
      /\ counts'.resolveErrors = counts.resolveErrors
      /\ counts'.scanErrors >= counts.scanErrors
      /\ field = "scanErrors" => counts'.scanErrors = counts.scanErrors + 1
      /\ Done(counts) \in Nat /\ Done(counts') = Done(counts) + 1
  <2>1. DOMAIN NoCounts = {"resolveErrors", "scansTriggered", "alreadyScanned", "scanErrors"}
    BY DEF NoCounts
  <2>2. /\ counts.resolveErrors \in Nat /\ counts.scansTriggered \in Nat
        /\ counts.alreadyScanned \in Nat /\ counts.scanErrors \in Nat
    BY <2>1, ProcessingProperties
  <2>3. counts' \in [DOMAIN NoCounts -> Nat]
    BY <1>1, <2>1, <2>2, ProcessingProperties
  <2>4. CASE field = "alreadyScanned"
    <3>1. /\ counts'.resolveErrors = counts.resolveErrors /\ counts'.scanErrors = counts.scanErrors
          /\ counts'.scansTriggered = counts.scansTriggered
          /\ counts'.alreadyScanned = counts.alreadyScanned + 1
      BY <1>1, <2>1, <2>4, ProcessingProperties
    <3>2. Done(counts') = Done(counts) + 1 /\ Done(counts) \in Nat
      BY <2>2, <3>1, OneMore DEF Done
    <3>3. QED  BY <2>2, <2>3, <2>4, <3>1, <3>2
  <2>5. CASE field = "scansTriggered"
    <3>1. /\ counts'.resolveErrors = counts.resolveErrors /\ counts'.scanErrors = counts.scanErrors
          /\ counts'.scansTriggered = counts.scansTriggered + 1
          /\ counts'.alreadyScanned = counts.alreadyScanned
      BY <1>1, <2>1, <2>5, ProcessingProperties
    <3>2. Done(counts') = Done(counts) + 1 /\ Done(counts) \in Nat
      BY <2>2, <3>1, OneMore DEF Done
    <3>3. QED  BY <2>2, <2>3, <2>5, <3>1, <3>2
  <2>6. CASE field = "scanErrors"
    <3>1. /\ counts'.resolveErrors = counts.resolveErrors
          /\ counts'.scanErrors = counts.scanErrors + 1
          /\ counts'.scansTriggered = counts.scansTriggered
          /\ counts'.alreadyScanned = counts.alreadyScanned
      BY <1>1, <2>1, <2>6, ProcessingProperties
    <3>2. Done(counts') = Done(counts) + 1 /\ Done(counts) \in Nat
      BY <2>2, <3>1, OneMore DEF Done
    <3>3. QED  BY <2>2, <2>3, <2>6, <3>1, <3>2
  <2>7. QED  BY <2>4, <2>5, <2>6
<1>5. Named' = Named
  BY DEF worldVars, Named, NamedIn
<1>6. TypeOK'
  <2>1. todo' \in Seq(Images \cup Resolved)
    BY <1>1, ProcessingProperties
  <2>2. QED  BY <1>1, <1>3, <1>4, <2>1 DEF IInv, TypeOK, worldVars
<1>7. \A n \in DOMAIN accepted :
         accepted[n].image # img.image /\ accepted[n].image \notin ImagesOf(Tail(todo))
  BY ProcessingProperties DEF IInv, ProcessOK, img
<1>8. ImagesOf(accepted') \subseteq ImagesOf(accepted) \cup {img.image} /\ NoImageScannedTwice'
  <2>1. Distinct(accepted) /\ img.image \notin ImagesOf(accepted) /\ accepted \in Seq(Resolved)
    BY <1>7, ProcessingProperties DEF IInv, NoImageScannedTwice, Distinct, ImagesOf
  <2>2. CASE accepted' = accepted
    BY <2>2 DEF IInv, NoImageScannedTwice
  <2>3. CASE accepted' = Append(accepted, img)
    BY <1>2, <2>1, <2>3, AppendDistinct DEF NoImageScannedTwice, Distinct
  <2>4. QED  BY <2>2, <2>3 DEF img
<1>9. ProcessOK'
  <2>1. todo' \in Seq(Resolved) /\ Distinct(todo')
    BY <1>1, ProcessingProperties
  <2>2. \A n \in DOMAIN accepted' : accepted'[n].image \notin ImagesOf(todo')
    <3>1. img.image \notin ImagesOf(Tail(todo))
      BY ProcessingProperties DEF img
    <3>2. ImagesOf(accepted) \cap ImagesOf(Tail(todo)) = {}
      BY <1>7 DEF ImagesOf
    <3>3. ImagesOf(accepted') \cap ImagesOf(todo') = {}
      BY <1>1, <1>8, <3>1, <3>2
    <3>4. QED  BY <3>3 DEF ImagesOf
  <2>3. ASSUME counts'.resolveErrors + counts'.scanErrors = 0, NEW i \in Named'
        PROVE  i \in ImagesOf(todo') \/ Answered(i)'
    <3>1. DOMAIN NoCounts = {"resolveErrors", "scansTriggered", "alreadyScanned", "scanErrors"}
      BY DEF NoCounts
    <3>2. counts.resolveErrors \in Nat /\ counts.scanErrors \in Nat
      BY <3>1, ProcessingProperties
    <3>3. counts.resolveErrors + counts.scanErrors = 0 /\ field # "scanErrors"
      <4>1. counts'.scanErrors \in Nat
        BY <1>4, <3>1
      <4>2. QED  BY <1>4, <2>3, <3>2, <4>1
    <3>4. i \in ImagesOf(todo) \/ Answered(i)
      BY <1>5, <2>3, <3>3 DEF IInv, ProcessOK
    <3>5. img \in found' \cup ToSet(accepted')
      BY <3>3 DEF img
    <3>6. CASE i = img.image
      BY <3>5, <3>6 DEF Answered
    <3>7. CASE i \in ImagesOf(Tail(todo))
      BY <1>1, <3>7
    <3>8. CASE Answered(i)
      BY <1>3, <3>8 DEF Answered
    <3>9. QED  BY <3>4, <3>6, <3>7, <3>8, ProcessingProperties DEF img
  <2>4. Len(todo') + Done(counts') + counts'.resolveErrors = Cardinality(Named')
    <3>1. Len(todo) + Done(counts) + counts.resolveErrors = Cardinality(Named)
      BY DEF IInv, ProcessOK
    <3>2. Len(todo) \in Nat /\ Len(todo') = Len(todo) - 1
      BY <1>1, ProcessingProperties
    <3>3. counts.resolveErrors \in Nat
      BY DEF IInv, TypeOK, NoCounts
    <3>4. QED  BY <1>4, <1>5, <3>1, <3>2, <3>3
  <2>5. ~config'.dryRun
    BY DEF IInv, ProcessOK, worldVars
  <2>6. QED  BY <1>1, <2>1, <2>2, <2>3, <2>4, <2>5 DEF ProcessOK
<1>10. QED
  BY <1>1, <1>6, <1>8, <1>9 DEF IInv, worldVars, ReadOK, ResolveOK, Reading, Resolving,
     ExitZeroMeansScanned, ResolvesToPlatform

\* It goes on, asks Aqua, or is told to stop.
LEMMA AsksAquaOK ==
    ASSUME IInv, Processing, pc' \in {"check", "trigger", "failed"}, todo # <<>>,
           UNCHANGED <<worldVars, docs, todo, resolved, counts, aquaVars>>
    PROVE  IInv'
<1>1. Named' = Named
  BY DEF worldVars, Named, NamedIn
<1>2. TypeOK'
  <2>1. todo \in Seq(Images \cup Resolved)
    BY ProcessingProperties
  <2>2. QED  BY <2>1 DEF IInv, TypeOK, worldVars, aquaVars
<1>3. ProcessOK'
  BY <1>1 DEF IInv, ProcessOK, Answered, worldVars, aquaVars
<1>4. QED
  BY <1>2, <1>3 DEF IInv, worldVars, aquaVars, ReadOK, ResolveOK, Reading, Resolving,
     ExitZeroMeansScanned, NoImageScannedTwice, ResolvesToPlatform

LEMMA Held ==
    ASSUME IInv, pc \in {"check", "trigger"}
    PROVE  Processing /\ todo # <<>> /\ accepted \in Seq(Resolved) /\ Head(todo) \in Resolved
<1>1. Processing /\ todo # <<>>
  BY DEF IInv, ProcessOK, Processing
<1>2. QED  BY <1>1, ProcessingProperties

LEMMA AquaOK ==
    ASSUME IInv, Found \/ NotFound \/ CheckFails \/ Triggered \/ TriggerFails
    PROVE  IInv'
<1>1. pc \in {"check", "trigger"}
  BY DEF Found, NotFound, CheckFails, Triggered, TriggerFails
<1>2. Processing /\ todo # <<>> /\ accepted \in Seq(Resolved) /\ Head(todo) \in Resolved
  BY <1>1, Held
<1>3. CASE Found
  BY <1>2, <1>3, ProcessedOK DEF Found
<1>4. CASE NotFound
  BY <1>2, <1>4, AsksAquaOK DEF NotFound, aquaVars
<1>5. CASE CheckFails
  BY <1>2, <1>5, ProcessedOK DEF CheckFails, aquaVars
<1>6. CASE Triggered
  <2>1. ToSet(Append(accepted, Head(todo))) = ToSet(accepted) \cup {Head(todo)}
    BY <1>2, AppendToSet
  <2>2. QED  BY <1>2, <1>6, <2>1, ProcessedOK DEF Triggered
<1>7. CASE TriggerFails
  BY <1>2, <1>7, ProcessedOK DEF TriggerFails
<1>8. QED  BY <1>3, <1>4, <1>5, <1>6, <1>7

LEMMA ProcessNextOK == ASSUME IInv, ProcessNext  PROVE IInv'
BY AsksAquaOK DEF ProcessNext, Processing

LEMMA SummaryOK == ASSUME IInv, Summary  PROVE IInv'
<1>1. /\ pc = "process" /\ todo = <<>> /\ Processing
      /\ pc' = IF counts.resolveErrors + counts.scanErrors > 0 THEN "failed" ELSE "succeeded"
      /\ UNCHANGED <<worldVars, docs, todo, resolved, counts, aquaVars>>
  BY DEF Summary, Processing
<1>2. TypeOK'
  <2>1. todo' \in Seq(Images \cup Resolved)
    BY <1>1
  <2>2. QED  BY <1>1, <2>1 DEF IInv, TypeOK, worldVars, aquaVars
<1>3. ExitZeroMeansScanned'
  <2> SUFFICES ASSUME pc' = "succeeded", NEW i \in Named  PROVE Answered(i)
    BY <1>1 DEF ExitZeroMeansScanned, Answered, Named, NamedIn, worldVars, aquaVars
  <2>1. counts.resolveErrors \in Nat /\ counts.scanErrors \in Nat
    BY DEF IInv, TypeOK, NoCounts
  <2>2. counts.resolveErrors + counts.scanErrors = 0
    BY <1>1, <2>1
  <2>3. ImagesOf(todo) = {}
    BY <1>1 DEF ImagesOf
  <2>4. QED  BY <1>1, <2>2, <2>3 DEF IInv, ProcessOK
<1>4. QED
  BY <1>1, <1>2, <1>3 DEF IInv, worldVars, aquaVars, ReadOK, ResolveOK, ProcessOK, Reading, Resolving,
     Processing, NoImageScannedTwice, ResolvesToPlatform

\* The world around touches nothing that the invariant is about but the tags.
LEMMA WorldOK ==
    ASSUME IInv, Signal \/ \E i \in Images : Push(i)
    PROVE  IInv'
<1>1. UNCHANGED <<config, pc, docs, todo, resolved, counts, aquaVars>>
  BY DEF Signal, Push
<1>2. Named' = Named
  BY <1>1 DEF Named, NamedIn
<1>3. cancelled' \in BOOLEAN
  BY DEF IInv, TypeOK, Signal, Push
<1>4. /\ DOMAIN content' = Images /\ DOMAIN held' = Images
      /\ \A i \in Images : /\ content'[i] \in held'[i]
                           /\ held[i] \subseteq held'[i] /\ held'[i] \subseteq ContentsOf[i]
  <2>1. CASE Signal
    BY <2>1 DEF IInv, TypeOK, Signal
  <2>2. ASSUME NEW j \in Images, Push(j)
        PROVE  /\ DOMAIN content' = Images /\ DOMAIN held' = Images
               /\ \A i \in Images : /\ content'[i] \in held'[i]
                                    /\ held[i] \subseteq held'[i] /\ held'[i] \subseteq ContentsOf[i]
    <3>1. PICK c \in ContentsOf[j] : /\ content' = [content EXCEPT ![j] = c]
                                     /\ held' = [held EXCEPT ![j] = @ \cup {c}]
      BY <2>2 DEF Push
    <3>2. QED  BY <3>1 DEF IInv, TypeOK
  <2>3. QED  BY <2>1, <2>2
<1>5. TypeOK'
  BY <1>1, <1>3, <1>4 DEF IInv, TypeOK, aquaVars
<1>6. ReadOK' /\ ResolveOK' /\ ProcessOK'
  BY <1>1, <1>2 DEF IInv, ReadOK, ResolveOK, ProcessOK, Reading, Resolving, Processing, NothingAsked,
     Answered, aquaVars
<1>7. ResolvesToPlatform'
  <2>1. \A n \in DOMAIN resolved : resolved[n].image \in Images
    <3>1. resolved \in Seq(Resolved)
      BY DEF IInv, TypeOK
    <3>2. \A n \in DOMAIN resolved : resolved[n] \in Resolved
      BY <3>1
    <3>3. QED  BY <3>2 DEF Resolved
  <2>2. ResolvesToPlatform /\ resolved' = resolved
    BY <1>1 DEF IInv
  <2>3. \A i \in Images : held[i] \subseteq held'[i]
    BY <1>4
  <2>4. QED  BY <2>1, <2>2, <2>3 DEF ResolvesToPlatform
<1>8. QED
  BY <1>1, <1>2, <1>4, <1>5, <1>6, <1>7 DEF IInv, aquaVars, ExitZeroMeansScanned, NoImageScannedTwice

LEMMA StutterOK == ASSUME IInv, UNCHANGED vars  PROVE IInv'
<1>1. Named' = Named
  BY DEF vars, Named, NamedIn
<1>2. TypeOK'
  BY DEF IInv, TypeOK, vars
<1>3. ReadOK' /\ ResolveOK' /\ ProcessOK'
  BY <1>1 DEF IInv, ReadOK, ResolveOK, ProcessOK, Reading, Resolving, Processing, NothingAsked,
     Answered, vars
<1>4. QED
  BY <1>1, <1>2, <1>3 DEF IInv, vars, ExitZeroMeansScanned, NoImageScannedTwice, ResolvesToPlatform

-----------------------------------------------------------------------------
(***************************************************************************)
(* The refinement.  A step keeps what the contract sees, ends the command, *)
(* or settles the image at hand, which is open and in no other place.      *)
(***************************************************************************)
ContractStep == [Contract!Next]_(Contract!triggerVars)

Missed == counts.resolveErrors + counts.scanErrors > 0
Known  == {img.image : img \in found}
Ended  == pc \in {"succeeded", "failed"}

LEMMA NothingSeen ==
    ASSUME UNCHANGED <<config, counts, aquaVars>>, Open' = Open, ~Ended, ~Ended'
    PROVE  ContractStep
BY DEF ContractStep, Contract!triggerVars, Ended, ImagesOf, aquaVars

LEMMA Ends ==
    ASSUME UNCHANGED <<config, counts, aquaVars>>, ~Ended, Ended',
           pc' = "failed" \/ config.dryRun \/ (Open = {} /\ ~Missed)
    PROVE  ContractStep
<1>1. Open' = {}
  BY DEF Open, Ended
<1>2. pc' \in {"succeeded", "failed"} /\ pc \notin {"succeeded", "failed"}
  BY DEF Ended
<1>3. Contract!Exit(pc')
  BY <1>1, <1>2 DEF Contract!Exit, ImagesOf, aquaVars
<1>4. CASE pc' = "failed"
  BY <1>3, <1>4 DEF ContractStep, Contract!Next, Contract!Fail
<1>5. CASE pc' = "succeeded"
  BY <1>3, <1>5 DEF ContractStep, Contract!Next, Contract!Succeed, Missed
<1>6. QED  BY <1>2, <1>4, <1>5

\* The image at hand is settled.
LEMMA Settled ==
    ASSUME NEW i \in Images, i \in Open, Open' = Open \ {i}, ~Ended, ~Ended', config' = config,
           \/ /\ ~config.dryRun /\ Known' = Known \cup {i}
              /\ Missed' = Missed /\ ImagesOf(accepted') = ImagesOf(accepted)
           \/ /\ ~config.dryRun /\ ImagesOf(accepted') = ImagesOf(accepted) \cup {i}
              /\ Missed' = Missed /\ Known' = Known
           \/ /\ Missed' /\ Known' = Known
              /\ \/ ImagesOf(accepted') = ImagesOf(accepted)
                 \/ ~config.dryRun /\ ImagesOf(accepted') = ImagesOf(accepted) \cup {i}
    PROVE  ContractStep
<1>1. Contract!Settle(i)
  BY DEF Contract!Settle, Ended
<1>2. Contract!Has(i) \/ Contract!Take(i) \/ Contract!Miss(i)
  BY <1>1 DEF Contract!Has, Contract!Take, Contract!Miss, Missed, Known
<1>3. QED  BY <1>2 DEF ContractStep, Contract!Next

LEMMA NamedAreImages == ASSUME IInv  PROVE Named \subseteq Images
<1>1. config.input \in Seq(Documents)
  BY TriggerAssumption DEF IInv, TypeOK
<1>2. ASSUME NEW n \in DOMAIN config.input  PROVE ToSet(config.input[n].images) \subseteq Images
  <2>1. config.input[n].images \in Seq(Images)
    <3>1. config.input[n] \in Documents
      BY <1>1, ElementOf
    <3>2. QED  BY <3>1 DEF Documents
  <2>2. QED  BY <2>1 DEF ToSet
<1>3. QED  BY <1>2 DEF Named, NamedIn

LEMMA NamedStays == config' = config => Named' = Named
BY DEF Named, NamedIn

\* The steps that read, and those that ask without an answer yet.
LEMMA ReadingSteps ==
    ASSUME IInv, Start \/ ReadDocument \/ ReaderFails \/ EndOfInput
    PROVE  ContractStep
<1>1. /\ Reading /\ ~Ended /\ Open = Named /\ UNCHANGED <<config, counts, aquaVars>> /\ Named' = Named
  BY NamedStays DEF Start, ReadDocument, ReaderFails, EndOfInput, Reading, Ended, Open, worldVars
<1>2. CASE pc' \in {"start", "read"}
  <2>1. Open' = Open /\ ~Ended'
    BY <1>1, <1>2 DEF Open, Ended
  <2>2. QED  BY <1>1, <2>1, NothingSeen
<1>3. CASE Start \/ ReaderFails
  <2>1. pc' = "failed" \/ pc' = "read"
    BY <1>3 DEF Start, ReaderFails, Exit
  <2>2. CASE pc' = "failed"
    BY <1>1, <2>2, Ends DEF Ended
  <2>3. QED  BY <1>2, <2>1, <2>2
<1>4. CASE ReadDocument
  BY <1>2, <1>4 DEF ReadDocument
<1>5. CASE EndOfInput
  <2>1. /\ docs = <<>> /\ todo \in Seq(Images) /\ ToSet(todo) \cup NamedIn(docs) = Named
        /\ resolved = <<>> /\ resolved' = resolved /\ counts = NoCounts
        /\ pc' = IF todo = <<>> THEN "succeeded" ELSE "resolve"
        /\ todo' = Deduplicate(todo)
    BY <1>1, <1>5 DEF EndOfInput, IInv, ReadOK
  <2>2. ToSet(todo) = Named
    <3>1. NamedIn(docs) = {}
      BY <2>1 DEF NamedIn
    <3>2. QED  BY <2>1, <3>1
  <2>3. CASE todo = <<>>
    <3>1. Open = {} /\ pc' = "succeeded"
      BY <1>1, <2>1, <2>2, <2>3 DEF ToSet
    <3>2. ~Missed
      BY <2>1 DEF Missed, NoCounts
    <3>3. QED  BY <1>1, <3>1, <3>2, Ends DEF Ended
  <2>4. CASE todo # <<>>
    <3>1. ToSet(todo') = Named
      BY <2>1, <2>2, DeduplicateProperties
    <3>2. ImagesOf(resolved') = {}
      BY <2>1 DEF ImagesOf
    <3>3. Open' = Open /\ ~Ended'
      BY <1>1, <2>1, <2>4, <3>1, <3>2 DEF Open, Ended
    <3>4. QED  BY <1>1, <3>3, NothingSeen
  <2>5. QED  BY <2>3, <2>4
<1>6. QED  BY <1>3, <1>4, <1>5

LEMMA ResolvedStep ==
    ASSUME IInv, Resolving, todo # <<>>, NEW digest \in Digests, Resolve(Head(todo), digest),
           UNCHANGED <<worldVars, aquaVars>>
    PROVE  ContractStep
<1> DEFINE i == Head(todo)
           img == [image |-> i, digest |-> digest]
<1>1. img \in Resolved /\ img.image = i
  BY ResolvingProperties DEF Resolved
<1>2. resolved' = Append(resolved, img) /\ todo' = Tail(todo) /\ pc' = "resolve" /\ counts' = counts
  BY DEF Resolve
<1> HIDE DEF img
<1>3. ImagesOf(resolved') = ImagesOf(resolved) \cup {i}
  BY <1>1, <1>2, ResolvingProperties, AppendDistinct DEF IInv, ResolveOK
<1>4. Open = ToSet(todo) \cup ImagesOf(resolved) /\ Open' = ToSet(todo') \cup ImagesOf(resolved')
  BY <1>2 DEF Open, Resolving
<1>5. Open' = Open
  BY <1>2, <1>3, <1>4, ResolvingProperties
<1>6. ~Ended /\ ~Ended' /\ UNCHANGED <<config, counts, aquaVars>>
  BY <1>2 DEF Ended, Resolving, worldVars
<1>7. QED  BY <1>5, <1>6, NothingSeen

LEMMA GivenUpStep ==
    ASSUME IInv, Resolving, todo # <<>>, ResolveError, UNCHANGED <<worldVars, aquaVars>>
    PROVE  ContractStep
<1>1. /\ resolved' = resolved /\ todo' = Tail(todo) /\ pc' = "resolve"
      /\ counts' = [counts EXCEPT !.resolveErrors = counts.resolveErrors + 1]
  BY DEF ResolveError, Count
<1>2. counts.resolveErrors \in Nat /\ counts.scanErrors \in Nat /\ counts \in [DOMAIN NoCounts -> Nat]
  BY DEF IInv, TypeOK, NoCounts
<1>3. counts'.resolveErrors = counts.resolveErrors + 1 /\ counts'.scanErrors = counts.scanErrors
  BY <1>1, <1>2 DEF NoCounts
<1>4. Missed'
  BY <1>2, <1>3 DEF Missed
<1>5. Open = ToSet(todo) \cup ImagesOf(resolved) /\ Open' = ToSet(todo') \cup ImagesOf(resolved')
  BY <1>1 DEF Open, Resolving
<1>6. Head(todo) \in Open /\ Open' = Open \ {Head(todo)} /\ Head(todo) \in Images
  BY <1>1, <1>5, ResolvingProperties
<1>7. ~Ended /\ ~Ended' /\ config' = config /\ accepted' = accepted /\ Known' = Known
  BY <1>1 DEF Ended, Resolving, worldVars, aquaVars, Known
<1>8. QED  BY <1>4, <1>6, <1>7, Settled

LEMMA ResolvingAsks ==
    ASSUME IInv, Resolving, pc' \in {"index", "image"},
           UNCHANGED <<worldVars, todo, resolved, counts, aquaVars>>
    PROVE  ContractStep
<1>1. Open' = Open /\ ~Ended /\ ~Ended' /\ config' = config
  BY DEF Open, Ended, Resolving, worldVars
<1>2. QED  BY <1>1, NothingSeen

LEMMA ResolvingSteps ==
    ASSUME IInv, ResolveNext \/ FetchIndex \/ FetchIndexFails \/ FetchImage \/ FetchImageFails
    PROVE  ContractStep
<1>1. CASE ResolveNext
  <2>1. Resolving /\ todo # <<>> /\ UNCHANGED <<worldVars, aquaVars>>
    BY <1>1 DEF ResolveNext, Resolving
  <2>2. PinnedTo[Head(todo)] \in Digests \cup {NoDigest}
    BY <2>1, ResolvingProperties, TriggerAssumption
  <2>3. CASE PinnedTo[Head(todo)] # NoDigest /\ Resolve(Head(todo), PinnedTo[Head(todo)])
    BY <2>1, <2>2, <2>3, ResolvedStep
  <2>4. CASE ResolveError
    BY <2>1, <2>4, GivenUpStep
  <2>5. CASE pc' = "index" /\ UNCHANGED <<todo, resolved, counts>>
    BY <2>1, <2>5, ResolvingAsks
  <2>6. QED  BY <1>1, <2>3, <2>4, <2>5 DEF ResolveNext
<1>2. CASE FetchIndex
  <2> DEFINE c == content[Head(todo)]
             digest == ResolveFromIndex(c.manifests)
  <2>1. digest # NoDigest /\ Resolve(Head(todo), digest) /\ UNCHANGED <<worldVars, aquaVars>>
        /\ pc = "index"
    BY <1>2 DEF FetchIndex
  <2>2. Resolving /\ todo # <<>> /\ Head(todo) \in Images /\ c \in held[Head(todo)]
        /\ held[Head(todo)] \subseteq ContentsOf[Head(todo)]
    BY <2>1, Asked
  <2> HIDE DEF c
  <2>3. digest \in Digests
    BY <2>1, <2>2, IndexServes
  <2> HIDE DEF digest
  <2>4. QED  BY <2>1, <2>2, <2>3, ResolvedStep
<1>3. CASE FetchImage
  <2> DEFINE c == content[Head(todo)]
             digest == RemoteImage(c)
  <2>1. digest # NoDigest /\ Resolve(Head(todo), digest) /\ UNCHANGED <<worldVars, aquaVars>>
        /\ pc = "image"
    BY <1>3 DEF FetchImage
  <2>2. Resolving /\ todo # <<>> /\ Head(todo) \in Images /\ c \in held[Head(todo)]
        /\ held[Head(todo)] \subseteq ContentsOf[Head(todo)]
    BY <2>1, Asked
  <2> HIDE DEF c
  <2>3. digest \in Digests
    BY <2>1, <2>2, ImageServes
  <2> HIDE DEF digest
  <2>4. QED  BY <2>1, <2>2, <2>3, ResolvedStep
<1>4. CASE FetchIndexFails
  BY <1>4, ResolvingAsks DEF FetchIndexFails, Resolving
<1>5. CASE FetchImageFails
  BY <1>5, Asked, GivenUpStep DEF FetchImageFails
<1>6. QED  BY <1>1, <1>2, <1>3, <1>4, <1>5

LEMMA ResolveDoneStep == ASSUME IInv, ResolveDone  PROVE ContractStep
<1>1. /\ pc = "resolve" /\ todo = <<>> /\ todo' = resolved
      /\ UNCHANGED <<config, resolved, counts, aquaVars>>
  BY DEF ResolveDone, worldVars
<1>2. pc' = "failed" \/ pc' = IF config.dryRun THEN "succeeded" ELSE "process"
  BY DEF ResolveDone, Exit
<1>3. CASE pc' = "process"
  <2>1. Open = ImagesOf(resolved)
    BY <1>1 DEF Open, ToSet
  <2>2. Open' = ImagesOf(resolved)
    BY <1>1, <1>3 DEF Open
  <2>3. QED  BY <1>1, <1>3, <2>1, <2>2, NothingSeen DEF Ended
<1>4. CASE pc' = "failed" \/ (pc' = "succeeded" /\ config.dryRun)
  BY <1>1, <1>4, Ends DEF Ended
<1>5. QED  BY <1>2, <1>3, <1>4

\* The second loop asks Aqua, is told to stop, or has an answer.
LEMMA ProcessingAsks ==
    ASSUME IInv, Processing, pc' \in {"check", "trigger", "failed"},
           UNCHANGED <<worldVars, todo, counts, aquaVars>>
    PROVE  ContractStep
<1>1. ~Ended /\ config' = config
  BY DEF Ended, Processing, worldVars
<1>2. CASE pc' = "failed"
  BY <1>1, <1>2, Ends DEF Ended
<1>3. CASE pc' \in {"check", "trigger"}
  <2>1. Open' = Open /\ ~Ended'
    BY <1>3 DEF Open, Ended, Processing
  <2>2. QED  BY <1>1, <2>1, NothingSeen
<1>4. QED  BY <1>2, <1>3

LEMMA ProcessedStep ==
    ASSUME IInv, Processing, todo # <<>>,
           NEW field \in {"alreadyScanned", "scansTriggered", "scanErrors"}, ProcessedAs(field),
           \/ field = "alreadyScanned" /\ accepted' = accepted /\ found' = found \cup {Head(todo)}
           \/ field = "scansTriggered" /\ accepted' = Append(accepted, Head(todo)) /\ found' = found
           \/ /\ field = "scanErrors" /\ found' = found
              /\ accepted' = accepted \/ accepted' = Append(accepted, Head(todo)),
           UNCHANGED <<worldVars, docs, resolved>>
    PROVE  ContractStep
<1> DEFINE img == Head(todo)
<1>1. /\ todo' = Tail(todo) /\ pc' = "process" /\ config' = config
      /\ counts' = [counts EXCEPT ![field] = counts[field] + 1]
  BY DEF ProcessedAs, Count, worldVars
<1>2. img \in Resolved /\ img.image \in Images
  BY ProcessingProperties DEF Resolved
<1>3. Open = ImagesOf(todo) /\ Open' = ImagesOf(todo')
  BY <1>1 DEF Open, Processing
<1>4. img.image \in Open /\ Open' = Open \ {img.image} /\ ~Ended /\ ~Ended'
  BY <1>1, <1>3, ProcessingProperties DEF Ended, Processing
<1>5. ~config.dryRun
  BY DEF IInv, ProcessOK
<1> HIDE DEF img
<1>6. /\ counts \in [DOMAIN NoCounts -> Nat] /\ counts.resolveErrors \in Nat /\ counts.scanErrors \in Nat
  BY DEF IInv, TypeOK, NoCounts
<1>7. ImagesOf(Append(accepted, img)) = ImagesOf(accepted) \cup {img.image}
  <2>1. Distinct(accepted) /\ accepted \in Seq(Resolved)
    BY DEF IInv, TypeOK, NoImageScannedTwice, Distinct
  <2>2. img.image \notin ImagesOf(accepted)
    <3>1. \A n \in DOMAIN accepted : accepted[n].image \notin Open
      BY <1>3 DEF IInv, ProcessOK
    <3>2. QED  BY <1>4, <3>1 DEF ImagesOf
  <2>3. QED  BY <1>2, <2>1, <2>2, AppendDistinct
<1>8. CASE field = "alreadyScanned"
  <2>1. Known' = Known \cup {img.image} /\ ImagesOf(accepted') = ImagesOf(accepted)
    BY <1>8 DEF Known, img
  <2>2. Missed' = Missed
    BY <1>1, <1>6, <1>8 DEF Missed, NoCounts
  <2>3. QED  BY <1>1, <1>2, <1>4, <1>5, <2>1, <2>2, Settled
<1>9. CASE field = "scansTriggered"
  <2>1. Known' = Known /\ ImagesOf(accepted') = ImagesOf(accepted) \cup {img.image}
    BY <1>7, <1>9 DEF Known, img
  <2>2. Missed' = Missed
    BY <1>1, <1>6, <1>9 DEF Missed, NoCounts
  <2>3. QED  BY <1>1, <1>2, <1>4, <1>5, <2>1, <2>2, Settled
<1>10. CASE field = "scanErrors"
  <2>1. /\ Known' = Known
        /\ \/ ImagesOf(accepted') = ImagesOf(accepted)
           \/ ImagesOf(accepted') = ImagesOf(accepted) \cup {img.image}
    BY <1>7, <1>10 DEF Known, img
  <2>2. counts'.resolveErrors = counts.resolveErrors /\ counts'.scanErrors = counts.scanErrors + 1
    BY <1>1, <1>6, <1>10 DEF NoCounts
  <2>3. Missed'
    BY <1>6, <2>2 DEF Missed
  <2>4. QED  BY <1>1, <1>2, <1>4, <1>5, <2>1, <2>3, Settled
<1>11. QED  BY <1>8, <1>9, <1>10

LEMMA ProcessingSteps ==
    ASSUME IInv, \/ ProcessNext \/ Found \/ NotFound \/ CheckFails \/ Triggered \/ TriggerFails
    PROVE  ContractStep
<1>1. CASE ProcessNext
  BY <1>1, ProcessingAsks DEF ProcessNext, Processing
<1>2. CASE NotFound
  BY <1>2, ProcessingAsks DEF NotFound, Processing
<1>3. CASE Found \/ CheckFails \/ Triggered \/ TriggerFails
  <2>1. pc \in {"check", "trigger"}
    BY <1>3 DEF Found, CheckFails, Triggered, TriggerFails
  <2>2. Processing /\ todo # <<>>
    BY <2>1, Held
  <2>3. CASE Found
    BY <2>2, <2>3, ProcessedStep DEF Found
  <2>4. CASE CheckFails
    BY <2>2, <2>4, ProcessedStep DEF CheckFails, aquaVars
  <2>5. CASE Triggered
    BY <2>2, <2>5, ProcessedStep DEF Triggered
  <2>6. CASE TriggerFails
    BY <2>2, <2>6, ProcessedStep DEF TriggerFails
  <2>7. QED  BY <1>3, <2>3, <2>4, <2>5, <2>6
<1>4. QED  BY <1>1, <1>2, <1>3

LEMMA SummaryStep == ASSUME IInv, Summary  PROVE ContractStep
<1>1. /\ pc = "process" /\ todo = <<>> /\ UNCHANGED <<config, counts, aquaVars>>
      /\ pc' = IF counts.resolveErrors + counts.scanErrors > 0 THEN "failed" ELSE "succeeded"
  BY DEF Summary, worldVars
<1>2. Open = {}
  BY <1>1 DEF Open, ImagesOf
<1>3. pc' = "failed" \/ ~Missed
  BY <1>1 DEF Missed
<1>4. QED  BY <1>1, <1>2, <1>3, Ends DEF Ended

LEMMA WorldStep ==
    ASSUME Signal \/ (\E i \in Images : Push(i)) \/ UNCHANGED vars
    PROVE  ContractStep
<1>1. UNCHANGED <<config, pc, todo, resolved, counts, aquaVars>>
  BY DEF Signal, Push, vars, aquaVars
<1>2. Named' = Named
  BY <1>1, NamedStays
<1>3. Open' = Open
  BY <1>1, <1>2 DEF Open
<1>4. QED
  BY <1>1, <1>3 DEF ContractStep, Contract!triggerVars, ImagesOf, aquaVars

-----------------------------------------------------------------------------
(* Theorems *)

\* The invariant that the others follow from.
THEOREM Invariance == Spec => []IInv
<1>1. ASSUME IInv, Next  PROVE IInv'
  BY <1>1, StartOK, ReadDocumentOK, ReaderFailsOK, EndOfInputOK, ResolveNextOK, FetchIndexOK,
     FetchImageOK, FetchFailsOK, ResolveDoneOK, ProcessNextOK, AquaOK, SummaryOK, WorldOK
     DEF Next, Run
<1>2. IInv /\ [Next]_vars => IInv'
  BY <1>1, StutterOK
<1>3. QED  BY InitOK, <1>2, PTL DEF Spec

\* Whatever fails, no image is passed on without a digest (run).
THEOREM TypeCorrect == Spec => []TypeOK
<1>1. IInv => TypeOK
  BY DEF IInv
<1>2. QED  BY <1>1, Invariance, PTL

\* Exit code 0 means that Aqua has, or took, every image that was named (run).
THEOREM ExitZero == Spec => []ExitZeroMeansScanned
<1>1. IInv => ExitZeroMeansScanned
  BY DEF IInv
<1>2. QED  BY <1>1, Invariance, PTL

\* No image is lost between the loops of run, and none counts twice.
THEOREM AddsUp == Spec => []SummaryAddsUp
<1>1. ASSUME IInv  PROVE SummaryAddsUp
  <2>1. Resolving => Len(todo) + Len(resolved) + counts.resolveErrors = Cardinality(Named)
    BY <1>1 DEF IInv, ResolveOK
  <2>2. Processing => Len(todo) + Done(counts) + counts.resolveErrors = Cardinality(Named)
    BY <1>1 DEF IInv, ProcessOK
  <2>3. QED
    BY <2>1, <2>2 DEF SummaryAddsUp, Done, Resolving, Processing
<1>2. QED  BY <1>1, Invariance, PTL

\* Aqua is asked at most once to scan an image (deduplicateImages, run).
THEOREM ScannedOnce == Spec => []NoImageScannedTwice
<1>1. IInv => NoImageScannedTwice
  BY DEF IInv
<1>2. QED  BY <1>1, Invariance, PTL

\* A tag that moves while it is resolved gives a digest that was under it, for
\* the platform that the nodes pull (ResolveDigest, resolveFromIndex).
THEOREM Platformed == Spec => []ResolvesToPlatform
<1>1. IInv => ResolvesToPlatform
  BY DEF IInv
<1>2. QED  BY <1>1, Invariance, PTL

\* ParseRegistryMirrors and ApplyRegistryMirror: an image is looked up at the
\* first mirror of its registry in the flag, and nowhere else, whatever images,
\* registries and mirrors there are and however the flag is written.
THEOREM Mirrored == Spec => []MirroredAsConfigured
<1>1. TypeOK => MirroredAsConfigured
  <2> SUFFICES ASSUME TypeOK, Mirrors[config.mirrors].ok,
                      NEW i \in Images, PlaceOf[i] # NoPlace
               PROVE  LET at == ApplyRegistryMirror(PlaceOf[i], Mirrors[config.mirrors].mirrors)
                      IN  (at.registry \o <<"/">>) \o at.image = MirroredName(PlaceOf[i], config.mirrors)
    BY DEF MirroredAsConfigured
  <2> DEFINE flag == config.mirrors
  <2>1. flag \in MirrorFlags
    BY DEF TypeOK
  <2>2. Seq(STRING) \subseteq Strings
    BY SeqMonotonic DEF Strings, Pieces
  <2>3. flag \in Seq(Strings)
    <3>1. Seq(Seq(STRING)) \subseteq Seq(Strings)
      BY <2>2, SeqMonotonic
    <3>2. QED  BY <2>1, <3>1, TriggerAssumption
  <2>4. Mirrors[flag] = ParseRegistryMirrors(flag)
    BY <2>1 DEF Mirrors
  <2>5. PlaceOf[i] \in [registry : Strings, image : Strings]
    <3>1. PlaceOf[i] \in [registry : Seq(STRING), image : Seq(STRING)]
      BY TriggerAssumption
    <3>2. QED  BY <2>2, <3>1
  <2>6. QED  BY <2>3, <2>4, <2>5, MirrorApplied
<1>2. QED  BY <1>1, TypeCorrect, PTL

\* run, for any input and any failures: each image is settled once and in one
\* way, nothing is asked of Aqua in a dry run, and the exit code is 0 only when
\* none is left and none was missed.
THEOREM Refinement == Spec => ImplementsContract
<1>1. Init => Contract!Init
  <2> SUFFICES ASSUME Init  PROVE Contract!Init
    OBVIOUS
  <2>1. ReadOK /\ config.dryRun \in BOOLEAN
    BY InitOK DEF IInv, TypeOK
  <2>2. Named \subseteq Images
    BY InitOK, NamedAreImages
  <2>3. Open = Named /\ counts = NoCounts /\ found = {} /\ ImagesOf(accepted) = {} /\ pc = "start"
    BY DEF Init, Open, ImagesOf
  <2>4. ~Missed
    BY <2>3 DEF Missed, NoCounts
  <2>5. QED  BY <2>1, <2>2, <2>3, <2>4 DEF Contract!Init, Missed
<1>2. IInv /\ [Next]_vars => [Contract!Next]_(Contract!triggerVars)
  <2> SUFFICES ASSUME IInv, [Next]_vars  PROVE ContractStep
    BY DEF ContractStep
  <2>1. QED
    BY ReadingSteps, ResolvingSteps, ResolveDoneStep, ProcessingSteps, SummaryStep, WorldStep
       DEF Next, Run
<1>3. QED  BY <1>1, <1>2, Invariance, PTL DEF Spec, ImplementsContract, Contract!Spec
=============================================================================
