------------------------- MODULE RegistryCacheProofs -------------------------
(***************************************************************************)
(* Proofs about RegistryCache, for any number of processes and callers in  *)
(* them, any lists of registries, any CacheTTL and any LocalDelay.         *)
(***************************************************************************)
EXTENDS RegistryCache, WellFoundedInduction, TLAPS

\* An element of a sequence is one of those it is over.
LEMMA ElementOf ==
    ASSUME NEW S, NEW seq \in Seq(S), NEW n \in 1 .. Len(seq)
    PROVE  seq[n] \in S
OBVIOUS

\* A function stays one when a value of its range is put in.
LEMMA UpdateType ==
    ASSUME NEW D, NEW S, NEW f \in [D -> S], NEW x, NEW v \in S
    PROVE  [f EXCEPT ![x] = v] \in [D -> S]
OBVIOUS

\* Aqua's registries have their names.
LEMMA NameAt ==
    ASSUME NEW list \in Seq([name : Names, prefixes : Seq(Seq(STRING))]),
           NEW n \in 1 .. Len(list)
    PROVE  list[n].name \in Names
<1>1. list[n] \in [name : Names, prefixes : Seq(Seq(STRING))]
  BY ElementOf
<1>2. QED  BY <1>1

\* The search gives the name of one of Aqua's registries, or none.
LEMMA FindTypes ==
    ASSUME NEW r, NEW list \in Seq([name : Names, prefixes : Seq(Seq(STRING))])
    PROVE  FindRegistryInList(r, list) \in Names \cup {NoName}
<1> DEFINE u == NormalizeRegistryURL(r)
           hits == {n \in 1 .. Len(list) : \E p \in ToSet(list[n].prefixes) :
                                              Matches(u, NormalizeRegistryURL(p))}
           hit == IF hits # {} THEN Min(hits) ELSE 0
<1>1. FindRegistryInList(r, list) = IF hit = 0 THEN NoName ELSE list[hit].name
  BY DEF FindRegistryInList, SelectInSeq
<1>2. CASE hits = {}
  BY <1>1, <1>2
<1>3. CASE hits # {}
  <2> DEFINE R == OpToRel(<, Nat)
  <2>1. R = {ss \in Nat \X Nat : ss[1] < ss[2]}
    BY DEF OpToRel
  <2>2. IsWellFoundedOn(R, Nat)
    BY NatLessThanWellFounded
  <2> HIDE DEF R
  <2>3. hits \subseteq Nat
    OBVIOUS
  <2>4. PICK least \in hits : \A n \in hits : <<n, least>> \notin R
    BY <1>3, <2>2, <2>3, WFMin
  <2>5. \A n \in hits : least <= n
    <3>1. ASSUME NEW n \in hits  PROVE least <= n
      <4>1. n \in Nat /\ least \in Nat  BY <2>3
      <4>2. ~(n < least)  BY <2>1, <2>4, <4>1
      <4>3. QED  BY <4>1, <4>2
    <3>2. QED  BY <3>1
  <2>6. Min(hits) \in hits
    BY <2>5 DEF Min
  <2>7. hit = Min(hits) /\ hit \in 1 .. Len(list)
    BY <1>3, <2>6
  <2> HIDE DEF hit
  <2>8. hit \in 1 .. Len(list)  BY <2>7
  <2>9. FindRegistryInList(r, list) = list[hit].name  BY <1>1, <2>8
  <2>10. QED  BY <2>8, <2>9, NameAt
<1>4. QED  BY <1>2, <1>3

\* What the tables of names hold.
LEMMA NameTypes ==
    ASSUME NEW r \in Registries, NEW v \in 1 .. Len(Lists)
    PROVE  NameIn[r][v] \in Names \cup {NoName}
<1>1. Lists[v] \in Seq([name : Names, prefixes : Seq(Seq(STRING))])
  BY CacheAssumption, ElementOf
<1>2. NameIn[r][v] = FindRegistryInList(r, Lists[v])
  BY CacheAssumption DEF NameIn
<1>3. QED  BY <1>1, <1>2, FindTypes

-----------------------------------------------------------------------------
(***************************************************************************)
(* The inductive invariant follows a list on its way from Aqua's answer    *)
(* through the caches to the search.  InForce(v, t, d) says that the v-th  *)
(* list was in force d before t, or later.  Every station bounds d: a      *)
(* request adds its timeout, a local step its delay, the caches CacheTTL.  *)
(***************************************************************************)
InForce(v, t, d) ==
    /\ v \in 1 .. Current
    /\ v < Current => t <= replacedAt[v] + d

ClockOK ==
    /\ Current <= Len(Lists)
    /\ \A c \in Callers :
          /\ pc[c] \in {"populate", "fetch", "save", "match"} => now <= due[c]
          /\ pc[c] = "fetch" => due[c] <= now + RequestTimeout
          /\ pc[c] \in {"populate", "save", "match"} => due[c] <= now + LocalDelay

Fresh(entry) ==
    entry # NoEntry =>
        /\ InForce(entry.list, entry.fetchedAt, RequestTimeout + LocalDelay)
        /\ entry.fetchedAt <= now

CachesOK == Fresh(file) /\ \A k \in Clients : Fresh(memory[k])

HeldOK(c) ==
    /\ pc[c] \in {"idle", "memory", "file"} => held[c] = NoEntry
    /\ pc[c] = "fetch" /\ held[c] # NoEntry => InForce(held[c].list, due[c], RequestTimeout)
    /\ pc[c] = "populate" =>
          /\ InForce(held[c].list, held[c].fetchedAt, RequestTimeout + LocalDelay)
          /\ held[c].fetchedAt <= now
          /\ due[c] <= held[c].fetchedAt + CacheTTL + LocalDelay
    /\ pc[c] = "save" => InForce(held[c].list, due[c], RequestTimeout + LocalDelay)
    /\ pc[c] = "match" => InForce(held[c].list, due[c], MaxAge)

QuestionOK(c) ==
    /\ pc[c] = "idle" => asked[c] = NoQuestion
    /\ pc[c] # "idle" => asked[c].registry \in Registries /\ asked[c].since \in 1 .. Current
    /\ refreshed[c] => /\ pc[c] \in {"fetch", "save", "match"}
                       /\ held[c] # NoEntry => asked[c].since <= held[c].list

CallsOK == \A c \in Callers : HeldOK(c) /\ QuestionOK(c)

Alone(c) == \A d \in Callers : ClientOf[d] = ClientOf[c] => d = c

\* An only caller that turns to the file has found memory expired, so that
\* what the file still holds is younger.
Order(c) ==
    Alone(c) =>
        LET entry == memory[ClientOf[c]] IN
        /\ pc[c] = "file" => entry = NoEntry \/ entry.fetchedAt + CacheTTL <= now
        /\ pc[c] = "populate" => entry.fetchedAt <= held[c].fetchedAt

OrderOK == \A c \in Callers : Order(c)

IInv == TypeOK /\ ClockOK /\ CachesOK /\ CallsOK /\ OrderOK

\* The later the moment, the further back the list was in force.
LEMMA Later ==
    ASSUME TypeOK, NEW v, NEW t \in Nat, NEW u \in Nat, NEW d \in Nat, NEW e \in Nat,
           InForce(v, t, d), u + d <= t + e
    PROVE  InForce(v, u, e)
<1>1. CASE v < Current
  <2>1. v \in 1 .. Len(replacedAt) /\ replacedAt \in Seq(Nat)
    BY <1>1 DEF TypeOK, InForce, Current
  <2>2. replacedAt[v] \in Nat  BY <2>1, ElementOf
  <2>3. QED  BY <1>1, <2>2 DEF InForce
<1>2. CASE ~(v < Current)
  BY <1>2 DEF InForce
<1>3. QED  BY <1>1, <1>2

\* The list in force is in force.
LEMMA InForceNow ==
    ASSUME TypeOK, NEW t, NEW d
    PROVE  InForce(Current, t, d)
BY DEF TypeOK, InForce, Current

\* What is assumed of the constants, as far as the proofs need it.
LEMMA Constants ==
    /\ ClientOf \in [Callers -> Clients]
    /\ CacheTTL \in Nat /\ LocalDelay \in Nat /\ Len(Lists) \in Nat
BY CacheAssumption

\* The longest way of a list, spelled out.
LEMMA MaxAgeIs ==
    /\ MaxAge = CacheTTL + RequestTimeout + LocalDelay + LocalDelay + LocalDelay
    /\ MaxAge \in Nat
BY Constants DEF MaxAge, RequestTimeout

\* What is known of a caller and its client.
LEMMA Here ==
    ASSUME IInv, NEW c \in Callers
    PROVE  /\ now \in Nat /\ due[c] \in Nat /\ Current \in Nat /\ Current <= Len(Lists)
           /\ held[c] \in [list : Nat, fetchedAt : Nat]
           /\ held[c].list \in Nat /\ held[c].fetchedAt \in Nat
           /\ ClientOf[c] \in Clients
           /\ memory[ClientOf[c]] \in [list : Nat, fetchedAt : Nat]
           /\ memory[ClientOf[c]].fetchedAt \in Nat
           /\ file \in [list : Nat, fetchedAt : Nat] /\ file.fetchedAt \in Nat
           /\ Fresh(memory[ClientOf[c]]) /\ Fresh(file)
           /\ HeldOK(c) /\ QuestionOK(c) /\ Order(c)
           /\ pc[c] \in {"populate", "fetch", "save", "match"} => now <= due[c]
           /\ pc[c] = "fetch" => due[c] <= now + RequestTimeout
           /\ pc[c] \in {"populate", "save", "match"} => due[c] <= now + LocalDelay
<1>1. TypeOK /\ ClockOK /\ CachesOK /\ CallsOK /\ OrderOK  BY DEF IInv
<1>2. ClientOf[c] \in Clients  BY Constants
<1>3. Current \in Nat  BY <1>1 DEF TypeOK, Current
<1>4. QED  BY <1>1, <1>2, <1>3 DEF TypeOK, ClockOK, CachesOK, CallsOK, OrderOK

\* What a step leaves alone of another caller stays in order.
LEMMA OthersOK ==
    ASSUME IInv, NEW c \in Callers, UNCHANGED <<now, replacedAt>>,
           HeldOK(c)' /\ QuestionOK(c)',
           \A d \in Callers \ {c} :
              /\ pc'[d] = pc[d] /\ held'[d] = held[d] /\ due'[d] = due[d]
              /\ asked'[d] = asked[d] /\ refreshed'[d] = refreshed[d]
    PROVE  CallsOK'
<1> SUFFICES ASSUME NEW d \in Callers, d # c  PROVE HeldOK(d)' /\ QuestionOK(d)'
  BY DEF CallsOK
<1>1. /\ pc'[d] = pc[d] /\ held'[d] = held[d] /\ due'[d] = due[d]
      /\ asked'[d] = asked[d] /\ refreshed'[d] = refreshed[d]
  OBVIOUS
<1>2. HeldOK(d) /\ QuestionOK(d)
  BY DEF IInv, CallsOK
<1>3. HeldOK(d)'  BY <1>1, <1>2 DEF HeldOK, InForce, Current
<1>4. QuestionOK(d)'  BY <1>1, <1>2 DEF QuestionOK, Current
<1>5. QED  BY <1>3, <1>4

\* What a step leaves alone of the other caches stays in order.
LEMMA OtherCachesOK ==
    ASSUME IInv, NEW k \in Clients, UNCHANGED <<now, replacedAt>>,
           Fresh(file)' /\ Fresh(memory[k])',
           \A j \in Clients \ {k} : memory'[j] = memory[j]
    PROVE  CachesOK'
<1> SUFFICES ASSUME NEW j \in Clients, j # k  PROVE Fresh(memory[j])'
  BY DEF CachesOK
<1>1. Fresh(memory[j]) /\ memory'[j] = memory[j]  BY DEF IInv, CachesOK
<1>2. QED  BY <1>1 DEF Fresh, InForce, Current

\* A step of one caller cannot disturb the order of an only caller elsewhere.
LEMMA OthersOrderOK ==
    ASSUME IInv, NEW c \in Callers, UNCHANGED now, Order(c)',
           \A k \in Clients \ {ClientOf[c]} : memory'[k] = memory[k],
           \A d \in Callers \ {c} : pc'[d] = pc[d] /\ held'[d] = held[d]
    PROVE  OrderOK'
<1> SUFFICES ASSUME NEW d \in Callers, d # c, Alone(d)  PROVE Order(d)'
  BY DEF OrderOK, Order, Alone
<1>1. pc'[d] = pc[d] /\ held'[d] = held[d]
  OBVIOUS
<1>2. ClientOf[d] \in Clients \ {ClientOf[c]}
  BY Constants DEF Alone
<1>3. Order(d) /\ memory'[ClientOf[d]] = memory[ClientOf[d]]
  BY <1>2 DEF IInv, OrderOK
<1>4. QED  BY <1>1, <1>3 DEF Order, Alone

\* Nothing is cached and nothing asked at first.
LEMMA InitOK == Init => IInv
<1> SUFFICES ASSUME Init  PROVE IInv
  OBVIOUS
<1> USE CacheAssumption DEF Init, Current, NoEntry, NoQuestion
<1>1. TypeOK  BY DEF TypeOK, Failed
<1>2. ClockOK  BY DEF ClockOK
<1>3. CachesOK  BY DEF CachesOK, Fresh
<1>4. CallsOK  BY DEF CallsOK, HeldOK, QuestionOK
<1>5. OrderOK  BY DEF OrderOK, Order
<1>6. QED  BY <1>1, <1>2, <1>3, <1>4, <1>5 DEF IInv

\* A question is asked.
LEMMA AskOK ==
    ASSUME IInv, NEW c \in Callers, Ask(c)
    PROVE  IInv'
<1> USE Constants DEF IInv, RequestTimeout, NoEntry, NoQuestion, Current
<1>1. /\ pc[c] = "idle" /\ pc' = [pc EXCEPT ![c] = "memory"]
      /\ \E r \in Registries : asked' = [asked EXCEPT ![c] = [registry |-> r, since |-> Current]]
      /\ answer' = [answer EXCEPT ![c] = Failed]
      /\ UNCHANGED <<now, replacedAt, memory, file, refreshed, held, due>>
  BY DEF Ask, GoTo, aquaVars
<1>2. asked' \in [Callers -> [registry : Registries \cup {<<>>}, since : Nat]]
  BY <1>1, Here DEF TypeOK
<1>3. HeldOK(c)'
  BY <1>1, <1>2, Here DEF TypeOK, HeldOK, InForce, Fresh
<1>4. QuestionOK(c)'
  BY <1>1, <1>2, Here DEF TypeOK, QuestionOK, HeldOK, InForce
<1>5. CallsOK'
  BY <1>1, <1>3, <1>4, OthersOK DEF TypeOK
<1>6. Fresh(file)' /\ Fresh(memory[ClientOf[c]])'
  BY <1>1, <1>2, Here DEF Fresh, InForce, TypeOK, HeldOK
<1>7. CachesOK'
  BY <1>1, <1>6, OtherCachesOK DEF TypeOK
<1>8. held' \in [Callers -> [list : Nat, fetchedAt : Nat]] /\ due' \in [Callers -> Nat]
  BY <1>1, Here DEF TypeOK
<1>9. memory' \in [Clients -> [list : Nat, fetchedAt : Nat]] /\ file' \in [list : Nat, fetchedAt : Nat]
  BY <1>1, <1>2, Here DEF TypeOK
<1>10. TypeOK'
  BY <1>1, <1>8, <1>9, <1>2, Here DEF TypeOK, HeldOK, InForce
<1>11. ClockOK'
  BY <1>1 DEF ClockOK, TypeOK
<1>12. Order(c)'
  BY <1>1, <1>2, Here DEF Order, Alone, OrderOK, TypeOK, Fresh, HeldOK
<1>13. OrderOK'
  BY <1>1, <1>12, OthersOrderOK DEF TypeOK
<1>14. QED  BY <1>5, <1>7, <1>10, <1>11, <1>13

\* Memory is read.
LEMMA CheckMemoryOK ==
    ASSUME IInv, NEW c \in Callers, CheckMemory(c)
    PROVE  IInv'
<1> USE Constants DEF IInv, RequestTimeout, NoEntry, NoQuestion, Current
<1>1. CASE memory[ClientOf[c]] # NoEntry /\ now - memory[ClientOf[c]].fetchedAt < CacheTTL
  <2>1. /\ pc[c] = "memory" /\ pc' = [pc EXCEPT ![c] = "match"]
        /\ held' = [held EXCEPT ![c] = memory[ClientOf[c]]]
        /\ due' = [due EXCEPT ![c] = now + LocalDelay]
        /\ memory[ClientOf[c]] # NoEntry /\ now - memory[ClientOf[c]].fetchedAt < CacheTTL
        /\ UNCHANGED <<now, replacedAt, memory, file, refreshed, asked, answer>>
    BY <1>1 DEF CheckMemory, GoTo, Hold, Within, aquaVars, callVars
  <2>2. InForce(memory[ClientOf[c]].list, now + LocalDelay, MaxAge)
    BY <2>1, Here, Later DEF Fresh, MaxAge
  <2>3. HeldOK(c)'
    BY <2>1, <2>2, Here DEF TypeOK, HeldOK, InForce, Fresh
  <2>4. QuestionOK(c)'
    BY <2>1, <2>2, Here DEF TypeOK, QuestionOK, HeldOK, InForce
  <2>5. CallsOK'
    BY <2>1, <2>3, <2>4, OthersOK DEF TypeOK
  <2>6. Fresh(file)' /\ Fresh(memory[ClientOf[c]])'
    BY <2>1, <2>2, Here DEF Fresh, InForce, TypeOK, HeldOK
  <2>7. CachesOK'
    BY <2>1, <2>6, OtherCachesOK DEF TypeOK
  <2>8. held' \in [Callers -> [list : Nat, fetchedAt : Nat]] /\ due' \in [Callers -> Nat]
    BY <2>1, Here DEF TypeOK
  <2>9. memory' \in [Clients -> [list : Nat, fetchedAt : Nat]] /\ file' \in [list : Nat, fetchedAt : Nat]
    BY <2>1, <2>2, Here DEF TypeOK
  <2>10. TypeOK'
    BY <2>1, <2>8, <2>9, <2>2, Here DEF TypeOK, HeldOK, InForce
  <2>11. ClockOK'
    BY <2>1 DEF ClockOK, TypeOK
  <2>12. Order(c)'
    BY <2>1, <2>2, Here DEF Order, Alone, OrderOK, TypeOK, Fresh, HeldOK
  <2>13. OrderOK'
    BY <2>1, <2>12, OthersOrderOK DEF TypeOK
  <2>14. QED  BY <2>5, <2>7, <2>10, <2>11, <2>13
<1>2. CASE ~(memory[ClientOf[c]] # NoEntry /\ now - memory[ClientOf[c]].fetchedAt < CacheTTL)
  <2>1. /\ pc[c] = "memory" /\ pc' = [pc EXCEPT ![c] = "file"]
        /\ memory[ClientOf[c]] = NoEntry \/ ~(now - memory[ClientOf[c]].fetchedAt < CacheTTL)
        /\ UNCHANGED <<now, replacedAt, memory, file, refreshed, held, due, asked, answer>>
    BY <1>2 DEF CheckMemory, GoTo, aquaVars, callVars
  <2>2. HeldOK(c)'
    BY <2>1, Here DEF TypeOK, HeldOK, InForce, Fresh
  <2>3. QuestionOK(c)'
    BY <2>1, Here DEF TypeOK, QuestionOK, HeldOK, InForce
  <2>4. CallsOK'
    BY <2>1, <2>2, <2>3, OthersOK DEF TypeOK
  <2>5. Fresh(file)' /\ Fresh(memory[ClientOf[c]])'
    BY <2>1, Here DEF Fresh, InForce, TypeOK, HeldOK
  <2>6. CachesOK'
    BY <2>1, <2>5, OtherCachesOK DEF TypeOK
  <2>7. held' \in [Callers -> [list : Nat, fetchedAt : Nat]] /\ due' \in [Callers -> Nat]
    BY <2>1, Here DEF TypeOK
  <2>8. memory' \in [Clients -> [list : Nat, fetchedAt : Nat]] /\ file' \in [list : Nat, fetchedAt : Nat]
    BY <2>1, Here DEF TypeOK
  <2>9. TypeOK'
    BY <2>1, <2>7, <2>8, Here DEF TypeOK, HeldOK, InForce
  <2>10. ClockOK'
    BY <2>1 DEF ClockOK, TypeOK
  <2>11. Order(c)'
    BY <2>1, Here DEF Order, Alone, OrderOK, TypeOK, Fresh, HeldOK
  <2>12. OrderOK'
    BY <2>1, <2>11, OthersOrderOK DEF TypeOK
  <2>13. QED  BY <2>4, <2>6, <2>9, <2>10, <2>12
<1>3. QED  BY <1>1, <1>2 DEF CheckMemory

\* The file is read, or a request sent.
LEMMA ReadFileOK ==
    ASSUME IInv, NEW c \in Callers, ReadFile(c)
    PROVE  IInv'
<1> USE Constants DEF IInv, RequestTimeout, NoEntry, NoQuestion, Current
<1>1. CASE pc' = [pc EXCEPT ![c] = "populate"]
  <2>1. /\ pc[c] = "file" /\ pc' = [pc EXCEPT ![c] = "populate"]
        /\ file # NoEntry /\ ~(now - file.fetchedAt > CacheTTL)
        /\ held' = [held EXCEPT ![c] = file]
        /\ due' = [due EXCEPT ![c] = now + LocalDelay]
        /\ UNCHANGED <<now, replacedAt, memory, file, refreshed, asked, answer>>
    BY <1>1 DEF ReadFile, SendRequest, GoTo, Hold, Within, aquaVars, callVars, TypeOK
  <2>2. InForce(file.list, file.fetchedAt, RequestTimeout + LocalDelay) /\ file.fetchedAt <= now
    BY <2>1, Here DEF Fresh
  <2>3. now + LocalDelay <= file.fetchedAt + CacheTTL + LocalDelay
    BY <2>1, <2>2, Here
  <2>4. Alone(c) => memory[ClientOf[c]] = NoEntry \/ memory[ClientOf[c]].fetchedAt + CacheTTL <= now
    BY <2>1, Here DEF Order
  <2>5. memory[ClientOf[c]] = NoEntry => memory[ClientOf[c]].fetchedAt = 0
    BY Here
  <2>6. memory[ClientOf[c]].fetchedAt \in Nat /\ file.fetchedAt \in Nat /\ now \in Nat
    BY Here
  <2>7. now <= file.fetchedAt + CacheTTL
    BY <2>1, <2>6
  <2>8. Alone(c) => memory[ClientOf[c]].fetchedAt <= file.fetchedAt
    BY <2>4, <2>5, <2>6, <2>7
  <2>9. held \in [Callers -> [list : Nat, fetchedAt : Nat]] /\ file \in [list : Nat, fetchedAt : Nat]
    BY  DEF TypeOK
  <2>10. [held EXCEPT ![c] = file] \in [Callers -> [list : Nat, fetchedAt : Nat]]
    BY <2>9, UpdateType
  <2>11. held' \in [Callers -> [list : Nat, fetchedAt : Nat]]
    BY <2>1, <2>10
  <2>12. HeldOK(c)'
    BY <2>1, <2>2, <2>3, <2>4, <2>5, <2>6, <2>7, <2>8, <2>9, <2>10, <2>11, Here DEF TypeOK, HeldOK, InForce, Fresh
  <2>13. QuestionOK(c)'
    BY <2>1, <2>2, <2>3, <2>4, <2>5, <2>6, <2>7, <2>8, <2>9, <2>10, <2>11, Here DEF TypeOK, QuestionOK, HeldOK, InForce
  <2>14. CallsOK'
    BY <2>1, <2>12, <2>13, OthersOK DEF TypeOK
  <2>15. Fresh(file)' /\ Fresh(memory[ClientOf[c]])'
    BY <2>1, <2>2, <2>3, <2>4, <2>5, <2>6, <2>7, <2>8, <2>9, <2>10, <2>11, Here DEF Fresh, InForce, TypeOK, HeldOK
  <2>16. CachesOK'
    BY <2>1, <2>15, OtherCachesOK DEF TypeOK
  <2>17. due' \in [Callers -> Nat]
    BY <2>1, Here DEF TypeOK
  <2>18. memory' \in [Clients -> [list : Nat, fetchedAt : Nat]] /\ file' \in [list : Nat, fetchedAt : Nat]
    BY <2>1, <2>2, <2>3, <2>4, <2>5, <2>6, <2>7, <2>8, <2>9, <2>10, <2>11, Here DEF TypeOK
  <2>19. TypeOK'
    BY <2>1, <2>17, <2>18, <2>2, <2>3, <2>4, <2>5, <2>6, <2>7, <2>8, <2>9, <2>10, <2>11, Here DEF TypeOK, HeldOK, InForce
  <2>20. ClockOK'
    BY <2>1 DEF ClockOK, TypeOK
  <2>21. Order(c)'
    BY <2>1, <2>2, <2>3, <2>4, <2>5, <2>6, <2>7, <2>8, <2>9, <2>10, <2>11, Here DEF Order, Alone, OrderOK, TypeOK, Fresh, HeldOK
  <2>22. OrderOK'
    BY <2>1, <2>21, OthersOrderOK DEF TypeOK
  <2>23. QED  BY <2>14, <2>16, <2>19, <2>20, <2>22
<1>2. CASE pc' = [pc EXCEPT ![c] = "fetch"]
  <2>1. /\ pc[c] = "file" /\ pc' = [pc EXCEPT ![c] = "fetch"]
        /\ held' = [held EXCEPT ![c] = NoEntry]
        /\ due' = [due EXCEPT ![c] = now + RequestTimeout]
        /\ UNCHANGED <<now, replacedAt, memory, file, refreshed, asked, answer>>
    BY <1>2 DEF ReadFile, SendRequest, GoTo, Hold, Within, aquaVars, callVars, TypeOK
  <2>2. HeldOK(c)'
    BY <2>1, Here DEF TypeOK, HeldOK, InForce, Fresh
  <2>3. QuestionOK(c)'
    BY <2>1, Here DEF TypeOK, QuestionOK, HeldOK, InForce
  <2>4. CallsOK'
    BY <2>1, <2>2, <2>3, OthersOK DEF TypeOK
  <2>5. Fresh(file)' /\ Fresh(memory[ClientOf[c]])'
    BY <2>1, Here DEF Fresh, InForce, TypeOK, HeldOK
  <2>6. CachesOK'
    BY <2>1, <2>5, OtherCachesOK DEF TypeOK
  <2>7. held' \in [Callers -> [list : Nat, fetchedAt : Nat]] /\ due' \in [Callers -> Nat]
    BY <2>1, Here DEF TypeOK
  <2>8. memory' \in [Clients -> [list : Nat, fetchedAt : Nat]] /\ file' \in [list : Nat, fetchedAt : Nat]
    BY <2>1, Here DEF TypeOK
  <2>9. TypeOK'
    BY <2>1, <2>7, <2>8, Here DEF TypeOK, HeldOK, InForce
  <2>10. ClockOK'
    BY <2>1 DEF ClockOK, TypeOK
  <2>11. Order(c)'
    BY <2>1, Here DEF Order, Alone, OrderOK, TypeOK, Fresh, HeldOK
  <2>12. OrderOK'
    BY <2>1, <2>11, OthersOrderOK DEF TypeOK
  <2>13. QED  BY <2>4, <2>6, <2>9, <2>10, <2>12
<1>3. QED  BY <1>1, <1>2 DEF ReadFile, SendRequest, GoTo

\* Memory takes over what was read from the file.
LEMMA PopulateOK ==
    ASSUME IInv, NEW c \in Callers, Populate(c)
    PROVE  IInv'
<1> USE Constants DEF IInv, RequestTimeout, NoEntry, NoQuestion, Current
<1>1. /\ pc[c] = "populate" /\ pc' = [pc EXCEPT ![c] = "match"]
      /\ memory' = [memory EXCEPT ![ClientOf[c]] = held[c]]
      /\ due' = [due EXCEPT ![c] = now + LocalDelay]
      /\ UNCHANGED <<now, replacedAt, file, refreshed, held, asked, answer>>
  BY DEF Populate, GoTo, Within, aquaVars, callVars
<1>2. InForce(held[c].list, held[c].fetchedAt, RequestTimeout + LocalDelay) /\ held[c].fetchedAt <= now
  BY <1>1, Here DEF HeldOK
<1>3. due[c] <= held[c].fetchedAt + CacheTTL + LocalDelay /\ now <= due[c]
  BY <1>1, Here DEF HeldOK
<1>4. now \in Nat /\ held[c].fetchedAt \in Nat /\ due[c] \in Nat
  BY Here
<1>5. now + LocalDelay + (RequestTimeout + LocalDelay) <= held[c].fetchedAt + MaxAge
  BY <1>3, <1>4, MaxAgeIs
<1>6. InForce(held[c].list, now + LocalDelay, MaxAge)
  BY <1>2, <1>4, <1>5, MaxAgeIs, Later
<1>7. HeldOK(c)'
  BY <1>1, <1>2, <1>3, <1>4, <1>5, <1>6, Here DEF TypeOK, HeldOK, InForce, Fresh
<1>8. QuestionOK(c)'
  BY <1>1, <1>2, <1>3, <1>4, <1>5, <1>6, Here DEF TypeOK, QuestionOK, HeldOK, InForce
<1>9. CallsOK'
  BY <1>1, <1>7, <1>8, OthersOK DEF TypeOK
<1>10. Fresh(file)' /\ Fresh(memory[ClientOf[c]])'
  BY <1>1, <1>2, <1>3, <1>4, <1>5, <1>6, Here DEF Fresh, InForce, TypeOK, HeldOK
<1>11. CachesOK'
  BY <1>1, <1>10, OtherCachesOK DEF TypeOK
<1>12. held' \in [Callers -> [list : Nat, fetchedAt : Nat]] /\ due' \in [Callers -> Nat]
  BY <1>1, Here DEF TypeOK
<1>13. memory' \in [Clients -> [list : Nat, fetchedAt : Nat]] /\ file' \in [list : Nat, fetchedAt : Nat]
  BY <1>1, <1>2, <1>3, <1>4, <1>5, <1>6, Here DEF TypeOK
<1>14. TypeOK'
  BY <1>1, <1>12, <1>13, <1>2, <1>3, <1>4, <1>5, <1>6, Here DEF TypeOK, HeldOK, InForce
<1>15. ClockOK'
  BY <1>1 DEF ClockOK, TypeOK
<1>16. Order(c)'
  BY <1>1, <1>2, <1>3, <1>4, <1>5, <1>6, Here DEF Order, Alone, OrderOK, TypeOK, Fresh, HeldOK
<1>17. OrderOK'
  BY <1>1, <1>16, OthersOrderOK DEF TypeOK
<1>18. QED  BY <1>9, <1>11, <1>14, <1>15, <1>17

\* Aqua sends the list in force.
LEMMA AquaAnswersOK ==
    ASSUME IInv, NEW c \in Callers, AquaAnswers(c)
    PROVE  IInv'
<1> USE Constants DEF IInv, RequestTimeout, NoEntry, NoQuestion, Current
<1>1. /\ pc[c] = "fetch" /\ held[c] = NoEntry
      /\ held' = [held EXCEPT ![c] = [list |-> Current, fetchedAt |-> 0]]
      /\ UNCHANGED <<now, replacedAt, memory, file, pc, refreshed, due, asked, answer>>
  BY DEF AquaAnswers, Hold, Entry, aquaVars, callVars
<1>2. InForce(Current, due[c], RequestTimeout)
  BY <1>1, Here, InForceNow
<1>3. HeldOK(c)'
  BY <1>1, <1>2, Here DEF TypeOK, HeldOK, InForce, Fresh
<1>4. QuestionOK(c)'
  BY <1>1, <1>2, Here DEF TypeOK, QuestionOK, HeldOK, InForce
<1>5. CallsOK'
  BY <1>1, <1>3, <1>4, OthersOK DEF TypeOK
<1>6. Fresh(file)' /\ Fresh(memory[ClientOf[c]])'
  BY <1>1, <1>2, Here DEF Fresh, InForce, TypeOK, HeldOK
<1>7. CachesOK'
  BY <1>1, <1>6, OtherCachesOK DEF TypeOK
<1>8. held' \in [Callers -> [list : Nat, fetchedAt : Nat]] /\ due' \in [Callers -> Nat]
  BY <1>1, Here DEF TypeOK
<1>9. memory' \in [Clients -> [list : Nat, fetchedAt : Nat]] /\ file' \in [list : Nat, fetchedAt : Nat]
  BY <1>1, <1>2, Here DEF TypeOK
<1>10. TypeOK'
  BY <1>1, <1>8, <1>9, <1>2, Here DEF TypeOK, HeldOK, InForce
<1>11. ClockOK'
  BY <1>1 DEF ClockOK, TypeOK
<1>12. Order(c)'
  BY <1>1, <1>2, Here DEF Order, Alone, OrderOK, TypeOK, Fresh, HeldOK
<1>13. OrderOK'
  BY <1>1, <1>12, OthersOrderOK DEF TypeOK
<1>14. QED  BY <1>5, <1>7, <1>10, <1>11, <1>13

\* Memory takes over the response.
LEMMA ResponseOK ==
    ASSUME IInv, NEW c \in Callers, Response(c)
    PROVE  IInv'
<1> USE Constants DEF IInv, RequestTimeout, NoEntry, NoQuestion, Current
<1>1. /\ pc[c] = "fetch" /\ pc' = [pc EXCEPT ![c] = "save"] /\ held[c] # NoEntry
      /\ memory' = [memory EXCEPT ![ClientOf[c]] = [list |-> held[c].list, fetchedAt |-> now]]
      /\ due' = [due EXCEPT ![c] = now + LocalDelay]
      /\ UNCHANGED <<now, replacedAt, file, refreshed, held, asked, answer>>
  BY DEF Response, GoTo, Within, Entry, aquaVars, callVars
<1>2. memory'[ClientOf[c]] = [list |-> held[c].list, fetchedAt |-> now]
  BY <1>1, Here DEF TypeOK
<1>3. InForce(held[c].list, due[c], RequestTimeout) /\ now <= due[c]
  BY <1>1, Here DEF HeldOK
<1>4. now \in Nat /\ due[c] \in Nat
  BY Here
<1>5. InForce(held[c].list, now, RequestTimeout + LocalDelay)
  BY <1>3, <1>4, Later
<1>6. InForce(held[c].list, now + LocalDelay, RequestTimeout + LocalDelay)
  BY <1>3, <1>4, Later
<1>7. Fresh(memory[ClientOf[c]])'
  BY <1>1, <1>2, <1>4, <1>5 DEF Fresh, InForce
<1>8. HeldOK(c)'
  BY <1>1, <1>2, <1>3, <1>4, <1>5, <1>6, <1>7, Here DEF TypeOK, HeldOK, InForce, Fresh
<1>9. QuestionOK(c)'
  BY <1>1, <1>2, <1>3, <1>4, <1>5, <1>6, <1>7, Here DEF TypeOK, QuestionOK, HeldOK, InForce
<1>10. CallsOK'
  BY <1>1, <1>8, <1>9, OthersOK DEF TypeOK
<1>11. Fresh(file)' /\ Fresh(memory[ClientOf[c]])'
  BY <1>1, <1>2, <1>3, <1>4, <1>5, <1>6, <1>7, Here DEF Fresh, InForce, TypeOK, HeldOK
<1>12. CachesOK'
  BY <1>1, <1>11, OtherCachesOK DEF TypeOK
<1>13. held' \in [Callers -> [list : Nat, fetchedAt : Nat]] /\ due' \in [Callers -> Nat]
  BY <1>1, Here DEF TypeOK
<1>14. memory' \in [Clients -> [list : Nat, fetchedAt : Nat]] /\ file' \in [list : Nat, fetchedAt : Nat]
  BY <1>1, <1>2, <1>3, <1>4, <1>5, <1>6, <1>7, Here DEF TypeOK
<1>15. TypeOK'
  BY <1>1, <1>13, <1>14, <1>2, <1>3, <1>4, <1>5, <1>6, <1>7, Here DEF TypeOK, HeldOK, InForce
<1>16. ClockOK'
  BY <1>1 DEF ClockOK, TypeOK
<1>17. Order(c)'
  BY <1>1, <1>2, <1>3, <1>4, <1>5, <1>6, <1>7, Here DEF Order, Alone, OrderOK, TypeOK, Fresh, HeldOK
<1>18. OrderOK'
  BY <1>1, <1>17, OthersOrderOK DEF TypeOK
<1>19. QED  BY <1>10, <1>12, <1>15, <1>16, <1>18

\* The file takes over the response, or stays.
LEMMA SaveOK ==
    ASSUME IInv, NEW c \in Callers, Save(c)
    PROVE  IInv'
<1> USE Constants DEF IInv, RequestTimeout, NoEntry, NoQuestion, Current
<1>1. /\ pc[c] = "save" /\ pc' = [pc EXCEPT ![c] = "match"]
      /\ file' = [list |-> held[c].list, fetchedAt |-> now] \/ UNCHANGED file
      /\ due' = [due EXCEPT ![c] = now + LocalDelay]
      /\ UNCHANGED <<now, replacedAt, memory, refreshed, held, asked, answer>>
  BY DEF Save, GoTo, Within, Entry, aquaVars, callVars
<1>2. InForce(held[c].list, now, RequestTimeout + LocalDelay)
  BY <1>1, Here, Later DEF HeldOK
<1>3. InForce(held[c].list, now + LocalDelay, MaxAge)
  BY <1>1, <1>2, Here, Later DEF HeldOK, MaxAge
<1>4. Fresh([list |-> held[c].list, fetchedAt |-> now])
  BY <1>1, <1>2, <1>3, Here DEF Fresh
<1>5. [list |-> held[c].list, fetchedAt |-> now] \in [list : Nat, fetchedAt : Nat]
  BY <1>1, <1>2, <1>3, <1>4, Here
<1>6. HeldOK(c)'
  BY <1>1, <1>2, <1>3, <1>4, <1>5, Here DEF TypeOK, HeldOK, InForce, Fresh
<1>7. QuestionOK(c)'
  BY <1>1, <1>2, <1>3, <1>4, <1>5, Here DEF TypeOK, QuestionOK, HeldOK, InForce
<1>8. CallsOK'
  BY <1>1, <1>6, <1>7, OthersOK DEF TypeOK
<1>9. Fresh(file)' /\ Fresh(memory[ClientOf[c]])'
  BY <1>1, <1>2, <1>3, <1>4, <1>5, Here DEF Fresh, InForce, TypeOK, HeldOK
<1>10. CachesOK'
  BY <1>1, <1>9, OtherCachesOK DEF TypeOK
<1>11. held' \in [Callers -> [list : Nat, fetchedAt : Nat]] /\ due' \in [Callers -> Nat]
  BY <1>1, Here DEF TypeOK
<1>12. memory' \in [Clients -> [list : Nat, fetchedAt : Nat]] /\ file' \in [list : Nat, fetchedAt : Nat]
  BY <1>1, <1>2, <1>3, <1>4, <1>5, Here DEF TypeOK
<1>13. TypeOK'
  BY <1>1, <1>11, <1>12, <1>2, <1>3, <1>4, <1>5, Here DEF TypeOK, HeldOK, InForce
<1>14. ClockOK'
  BY <1>1 DEF ClockOK, TypeOK
<1>15. Order(c)'
  BY <1>1, <1>2, <1>3, <1>4, <1>5, Here DEF Order, Alone, OrderOK, TypeOK, Fresh, HeldOK
<1>16. OrderOK'
  BY <1>1, <1>15, OthersOrderOK DEF TypeOK
<1>17. QED  BY <1>8, <1>10, <1>13, <1>14, <1>16

\* A request fails.
LEMMA FetchFailsOK ==
    ASSUME IInv, NEW c \in Callers, FetchFails(c)
    PROVE  IInv'
<1> USE Constants DEF IInv, RequestTimeout, NoEntry, NoQuestion, Current
<1>1. /\ pc[c] = "fetch" /\ pc' = [d \in Callers |-> IF d = c THEN "idle" ELSE pc[d]]
      /\ asked' = [d \in Callers |-> IF d = c THEN NoQuestion ELSE asked[d]]
      /\ refreshed' = [d \in Callers |-> IF d = c THEN FALSE ELSE refreshed[d]]
      /\ held' = [d \in Callers |-> IF d = c THEN NoEntry ELSE held[d]]
      /\ due' = [d \in Callers |-> IF d = c THEN 0 ELSE due[d]]
      /\ answer' = [answer EXCEPT ![c] = Failed]
      /\ UNCHANGED <<now, replacedAt, memory, file>>
  BY DEF FetchFails, Return, Leave, aquaVars
<1>2. HeldOK(c)'
  BY <1>1, Here DEF TypeOK, HeldOK, InForce, Fresh
<1>3. QuestionOK(c)'
  BY <1>1, Here DEF TypeOK, QuestionOK, HeldOK, InForce
<1>4. CallsOK'
  BY <1>1, <1>2, <1>3, OthersOK DEF TypeOK
<1>5. Fresh(file)' /\ Fresh(memory[ClientOf[c]])'
  BY <1>1, Here DEF Fresh, InForce, TypeOK, HeldOK
<1>6. CachesOK'
  BY <1>1, <1>5, OtherCachesOK DEF TypeOK
<1>7. held' \in [Callers -> [list : Nat, fetchedAt : Nat]] /\ due' \in [Callers -> Nat]
  BY <1>1, Here DEF TypeOK
<1>8. memory' \in [Clients -> [list : Nat, fetchedAt : Nat]] /\ file' \in [list : Nat, fetchedAt : Nat]
  BY <1>1, Here DEF TypeOK
<1>9. TypeOK'
  BY <1>1, <1>7, <1>8, Here DEF TypeOK, HeldOK, InForce
<1>10. ClockOK'
  BY <1>1 DEF ClockOK, TypeOK
<1>11. Order(c)'
  BY <1>1, Here DEF Order, Alone, OrderOK, TypeOK, Fresh, HeldOK
<1>12. OrderOK'
  BY <1>1, <1>11, OthersOrderOK DEF TypeOK
<1>13. QED  BY <1>4, <1>6, <1>9, <1>10, <1>12

\* The list is searched.
LEMMA MatchOK ==
    ASSUME IInv, NEW c \in Callers, Match(c)
    PROVE  IInv'
<1> USE Constants DEF IInv, RequestTimeout, NoEntry, NoQuestion, Current
<1>1. CASE pc'[c] = "idle"
  <2>1. /\ pc[c] = "match" /\ pc' = [d \in Callers |-> IF d = c THEN "idle" ELSE pc[d]]
        /\ asked' = [d \in Callers |-> IF d = c THEN NoQuestion ELSE asked[d]]
        /\ refreshed' = [d \in Callers |-> IF d = c THEN FALSE ELSE refreshed[d]]
        /\ held' = [d \in Callers |-> IF d = c THEN NoEntry ELSE held[d]]
        /\ due' = [d \in Callers |-> IF d = c THEN 0 ELSE due[d]]
        /\ answer' = [answer EXCEPT ![c] = NameIn[asked[c].registry][held[c].list]]
        /\ UNCHANGED <<now, replacedAt, memory, file>>
    BY <1>1 DEF Match, Return, Leave, SendRequest, GoTo, aquaVars, TypeOK
  <2>2. held[c].list \in 1 .. Len(Lists) /\ asked[c].registry \in Registries
    BY <2>1, Here DEF HeldOK, InForce, QuestionOK
  <2>3. NameIn[asked[c].registry][held[c].list] \in Names \cup {NoName}
    BY <2>1, <2>2, Here, NameTypes
  <2>4. HeldOK(c)'
    BY <2>1, <2>2, <2>3, Here DEF TypeOK, HeldOK, InForce, Fresh
  <2>5. QuestionOK(c)'
    BY <2>1, <2>2, <2>3, Here DEF TypeOK, QuestionOK, HeldOK, InForce
  <2>6. CallsOK'
    BY <2>1, <2>4, <2>5, OthersOK DEF TypeOK
  <2>7. Fresh(file)' /\ Fresh(memory[ClientOf[c]])'
    BY <2>1, <2>2, <2>3, Here DEF Fresh, InForce, TypeOK, HeldOK
  <2>8. CachesOK'
    BY <2>1, <2>7, OtherCachesOK DEF TypeOK
  <2>9. held' \in [Callers -> [list : Nat, fetchedAt : Nat]] /\ due' \in [Callers -> Nat]
    BY <2>1, Here DEF TypeOK
  <2>10. memory' \in [Clients -> [list : Nat, fetchedAt : Nat]] /\ file' \in [list : Nat, fetchedAt : Nat]
    BY <2>1, <2>2, <2>3, Here DEF TypeOK
  <2>11. TypeOK'
    BY <2>1, <2>9, <2>10, <2>2, <2>3, Here DEF TypeOK, HeldOK, InForce
  <2>12. ClockOK'
    BY <2>1 DEF ClockOK, TypeOK
  <2>13. Order(c)'
    BY <2>1, <2>2, <2>3, Here DEF Order, Alone, OrderOK, TypeOK, Fresh, HeldOK
  <2>14. OrderOK'
    BY <2>1, <2>13, OthersOrderOK DEF TypeOK
  <2>15. QED  BY <2>6, <2>8, <2>11, <2>12, <2>14
<1>2. CASE pc'[c] = "fetch"
  <2>1. /\ pc[c] = "match" /\ pc' = [pc EXCEPT ![c] = "fetch"]
        /\ refreshed' = [refreshed EXCEPT ![c] = TRUE]
        /\ held' = [held EXCEPT ![c] = NoEntry]
        /\ due' = [due EXCEPT ![c] = now + RequestTimeout]
        /\ UNCHANGED <<now, replacedAt, memory, file, asked, answer>>
    BY <1>2 DEF Match, Return, Leave, SendRequest, GoTo, Hold, Within, aquaVars, TypeOK
  <2>2. HeldOK(c)'
    BY <2>1, Here DEF TypeOK, HeldOK, InForce, Fresh
  <2>3. QuestionOK(c)'
    BY <2>1, Here DEF TypeOK, QuestionOK, HeldOK, InForce
  <2>4. CallsOK'
    BY <2>1, <2>2, <2>3, OthersOK DEF TypeOK
  <2>5. Fresh(file)' /\ Fresh(memory[ClientOf[c]])'
    BY <2>1, Here DEF Fresh, InForce, TypeOK, HeldOK
  <2>6. CachesOK'
    BY <2>1, <2>5, OtherCachesOK DEF TypeOK
  <2>7. held' \in [Callers -> [list : Nat, fetchedAt : Nat]] /\ due' \in [Callers -> Nat]
    BY <2>1, Here DEF TypeOK
  <2>8. memory' \in [Clients -> [list : Nat, fetchedAt : Nat]] /\ file' \in [list : Nat, fetchedAt : Nat]
    BY <2>1, Here DEF TypeOK
  <2>9. TypeOK'
    BY <2>1, <2>7, <2>8, Here DEF TypeOK, HeldOK, InForce
  <2>10. ClockOK'
    BY <2>1 DEF ClockOK, TypeOK
  <2>11. Order(c)'
    BY <2>1, Here DEF Order, Alone, OrderOK, TypeOK, Fresh, HeldOK
  <2>12. OrderOK'
    BY <2>1, <2>11, OthersOrderOK DEF TypeOK
  <2>13. QED  BY <2>4, <2>6, <2>9, <2>10, <2>12
<1>3. QED  BY <1>1, <1>2 DEF Match, Return, Leave, SendRequest, GoTo, TypeOK

\* Aqua's lists are replaced: what was in force until now stays so.
LEMMA ReconfigureOK ==
    ASSUME IInv, Reconfigure
    PROVE  IInv'
<1> USE Constants DEF IInv, RequestTimeout, NoEntry, NoQuestion
<1>1. /\ Current < Len(Lists)
      /\ replacedAt' = Append(replacedAt, now)
      /\ UNCHANGED <<now, memory, file, pc, asked, refreshed, held, due, answer>>
  BY DEF Reconfigure
<1>2. /\ replacedAt \in Seq(Nat) /\ now \in Nat
      /\ Current \in Nat /\ Current' = Current + 1
  BY <1>1 DEF TypeOK, Current
<1>3. ASSUME NEW v, NEW t \in Nat, NEW d \in Nat, InForce(v, t, d), t <= now + d
      PROVE  v \in 1 .. Current' /\ (v < Current' => t <= replacedAt'[v] + d)
  <2>1. CASE v < Current
    BY <1>1, <1>2, <1>3, <2>1 DEF InForce, Current
  <2>2. CASE v = Current
    BY <1>1, <1>2, <1>3, <2>2 DEF InForce, Current
  <2>3. QED  BY <1>2, <1>3, <2>1, <2>2 DEF InForce
<1>4. TypeOK'  BY <1>1, <1>2 DEF TypeOK
<1>5. ClockOK'  BY <1>1, <1>2 DEF ClockOK
<1>6. ASSUME NEW e \in [list : Nat, fetchedAt : Nat], Fresh(e)
      PROVE  e # NoEntry =>
                /\ e.list \in 1 .. Current'
                /\ e.list < Current' =>
                      e.fetchedAt <= replacedAt'[e.list] + (RequestTimeout + LocalDelay)
                /\ e.fetchedAt <= now'
  <2>1. CASE e = NoEntry
    BY <2>1
  <2>2. CASE e # NoEntry
    <3>1. InForce(e.list, e.fetchedAt, RequestTimeout + LocalDelay) /\ e.fetchedAt <= now
      BY <1>6, <2>2 DEF Fresh
    <3>2. e.fetchedAt \in Nat /\ RequestTimeout + LocalDelay \in Nat
      BY <1>6
    <3>3. e.fetchedAt <= now + (RequestTimeout + LocalDelay)
      BY <1>2, <3>1, <3>2
    <3>4. QED  BY <1>1, <1>3, <3>1, <3>2, <3>3
  <2>3. QED  BY <2>1, <2>2
<1>7. Fresh(file)'
  BY <1>1, <1>6 DEF TypeOK, CachesOK, Fresh, InForce
<1>8. ASSUME NEW k \in Clients  PROVE Fresh(memory[k])'
  BY <1>1, <1>6 DEF TypeOK, CachesOK, Fresh, InForce
<1>9. CachesOK'  BY <1>7, <1>8 DEF CachesOK
<1>10. ASSUME NEW c \in Callers  PROVE HeldOK(c)' /\ QuestionOK(c)'
  <2>1. /\ held[c].list \in Nat /\ held[c].fetchedAt \in Nat /\ due[c] \in Nat
        /\ RequestTimeout + LocalDelay \in Nat /\ RequestTimeout \in Nat
    BY Here
  <2>2. pc[c] = "fetch" /\ held[c] # NoEntry =>
           /\ held[c].list \in 1 .. Current'
           /\ held[c].list < Current' => due[c] <= replacedAt'[held[c].list] + RequestTimeout
    <3>1. SUFFICES ASSUME pc[c] = "fetch", held[c] # NoEntry
                   PROVE  InForce(held[c].list, due[c], RequestTimeout) /\ due[c] <= now + RequestTimeout
      BY <1>3, <2>1
    <3>2. QED  BY <3>1, Here DEF HeldOK
  <2>3. pc[c] = "populate" =>
           /\ held[c].list \in 1 .. Current'
           /\ held[c].list < Current' =>
                 held[c].fetchedAt <= replacedAt'[held[c].list] + (RequestTimeout + LocalDelay)
    <3>1. SUFFICES ASSUME pc[c] = "populate"
                   PROVE  /\ InForce(held[c].list, held[c].fetchedAt, RequestTimeout + LocalDelay)
                          /\ held[c].fetchedAt <= now + (RequestTimeout + LocalDelay)
      BY <1>3, <2>1
    <3>2. InForce(held[c].list, held[c].fetchedAt, RequestTimeout + LocalDelay) /\ held[c].fetchedAt <= now
      BY <3>1, Here DEF HeldOK
    <3>3. QED  BY <1>2, <2>1, <3>2
  <2>4. pc[c] = "save" =>
           /\ held[c].list \in 1 .. Current'
           /\ held[c].list < Current' =>
                 due[c] <= replacedAt'[held[c].list] + (RequestTimeout + LocalDelay)
    <3>1. SUFFICES ASSUME pc[c] = "save"
                   PROVE  /\ InForce(held[c].list, due[c], RequestTimeout + LocalDelay)
                          /\ due[c] <= now + (RequestTimeout + LocalDelay)
      BY <1>3, <2>1
    <3>2. InForce(held[c].list, due[c], RequestTimeout + LocalDelay) /\ due[c] <= now + LocalDelay
      BY <3>1, Here DEF HeldOK
    <3>3. QED  BY <1>2, <2>1, <3>2
  <2>5. pc[c] = "match" =>
           /\ held[c].list \in 1 .. Current'
           /\ held[c].list < Current' => due[c] <= replacedAt'[held[c].list] + MaxAge
    <3>1. SUFFICES ASSUME pc[c] = "match"
                   PROVE  InForce(held[c].list, due[c], MaxAge) /\ due[c] <= now + MaxAge
      BY <1>3, <2>1, MaxAgeIs
    <3>2. InForce(held[c].list, due[c], MaxAge) /\ due[c] <= now + LocalDelay
      BY <3>1, Here DEF HeldOK
    <3>3. QED  BY <1>2, <2>1, <3>2, MaxAgeIs
  <2>6. HeldOK(c)'
    <3>1. HeldOK(c)  BY Here
    <3>2. MaxAge' = MaxAge  BY DEF MaxAge
    <3>3. QED  BY <1>1, <2>2, <2>3, <2>4, <2>5, <3>1, <3>2 DEF HeldOK, InForce
  <2>7. QuestionOK(c)'
    BY <1>1, <1>2, Here DEF QuestionOK
  <2>8. QED  BY <2>6, <2>7
<1>11. CallsOK'  BY <1>10 DEF CallsOK
<1>12. OrderOK'  BY <1>1 DEF OrderOK, Order, Alone
<1>13. QED  BY <1>4, <1>5, <1>9, <1>11, <1>12

\* The clock goes on until a step is due.
LEMMA TickOK ==
    ASSUME IInv, Tick
    PROVE  IInv'
<1> USE Constants DEF IInv, RequestTimeout, NoEntry, NoQuestion, Current
<1>1. /\ now' = now + 1 /\ now \in Nat
      /\ \A c \in Callers : pc[c] \in {"populate", "fetch", "save", "match"} => now < due[c]
      /\ UNCHANGED <<replacedAt, memory, file, pc, asked, refreshed, held, due, answer>>
  BY DEF Tick, TypeOK
<1>2. TypeOK'  BY <1>1 DEF TypeOK
<1>3. ClockOK'  BY <1>1 DEF ClockOK, TypeOK
<1>4. CachesOK'  BY <1>1 DEF CachesOK, Fresh, InForce, TypeOK
<1>5. ASSUME NEW c \in Callers  PROVE HeldOK(c)' /\ QuestionOK(c)'
  <2>1. QuestionOK(c)'  BY <1>1, Here DEF QuestionOK
  <2>2. HeldOK(c)'  BY <1>1, Here DEF HeldOK, InForce, MaxAge
  <2>3. QED  BY <2>1, <2>2
<1>6. CallsOK'  BY <1>5 DEF CallsOK
<1>7. OrderOK'  BY <1>1 DEF OrderOK, Order, Alone, TypeOK
<1>8. QED  BY <1>2, <1>3, <1>4, <1>6, <1>7

\* A process starts again without memory; its calls are gone.
LEMMA RestartOK ==
    ASSUME IInv, NEW k \in Clients, Restart(k)
    PROVE  IInv'
<1> USE Constants DEF IInv, RequestTimeout, NoEntry, NoQuestion, Current
<1> DEFINE C == {c \in Callers : ClientOf[c] = k /\ pc[c] # "idle"}
<1>1. /\ memory' = [memory EXCEPT ![k] = NoEntry]
      /\ pc' = [c \in Callers |-> IF c \in C THEN "idle" ELSE pc[c]]
      /\ asked' = [c \in Callers |-> IF c \in C THEN NoQuestion ELSE asked[c]]
      /\ refreshed' = [c \in Callers |-> IF c \in C THEN FALSE ELSE refreshed[c]]
      /\ held' = [c \in Callers |-> IF c \in C THEN NoEntry ELSE held[c]]
      /\ due' = [c \in Callers |-> IF c \in C THEN 0 ELSE due[c]]
      /\ answer' = [c \in Callers |-> IF c \in C THEN Failed ELSE answer[c]]
      /\ UNCHANGED <<now, replacedAt, file>>
  BY DEF Restart, Leave, aquaVars
<1> HIDE DEF C
<1>2. TypeOK'  BY <1>1 DEF TypeOK
<1>3. ClockOK'  BY <1>1 DEF ClockOK, TypeOK
<1>4. CachesOK'  BY <1>1 DEF CachesOK, Fresh, InForce, TypeOK
<1>5. ASSUME NEW c \in Callers  PROVE HeldOK(c)' /\ QuestionOK(c)'
  <2>1. QuestionOK(c)'  BY <1>1, Here DEF QuestionOK
  <2>2. HeldOK(c)'  BY <1>1, Here DEF HeldOK, InForce, MaxAge
  <2>3. QED  BY <2>1, <2>2
<1>6. CallsOK'  BY <1>5 DEF CallsOK
<1>7. ASSUME NEW c \in Callers  PROVE Order(c)'
  <2>1. CASE ClientOf[c] = k
    <3>1. memory'[ClientOf[c]] = NoEntry  BY <1>1, <2>1 DEF TypeOK
    <3>2. held'[c].fetchedAt \in Nat  BY <1>2 DEF TypeOK
    <3>3. QED  BY <3>1, <3>2 DEF Order, Alone
  <2>2. CASE ClientOf[c] # k
    <3>1. c \notin C  BY <2>2 DEF C
    <3>2. pc'[c] = pc[c] /\ held'[c] = held[c] /\ memory'[ClientOf[c]] = memory[ClientOf[c]]
      BY <1>1, <2>2, <3>1 DEF TypeOK
    <3>3. QED  BY <1>1, <3>2, Here DEF Order, Alone
  <2>3. QED  BY <2>1, <2>2
<1>8. OrderOK'  BY <1>7 DEF OrderOK
<1>9. QED  BY <1>2, <1>3, <1>4, <1>6, <1>8

\* A step that changes nothing.
LEMMA StutterOK ==
    ASSUME IInv, UNCHANGED vars
    PROVE  IInv'
<1> USE DEF vars, IInv
<1>1. TypeOK'  BY DEF TypeOK
<1>2. ClockOK'  BY DEF ClockOK, Current
<1>3. CachesOK'  BY DEF CachesOK, Fresh, InForce, Current
<1>4. CallsOK'  BY DEF CallsOK, HeldOK, QuestionOK, InForce, Current, MaxAge
<1>5. OrderOK'  BY DEF OrderOK, Order, Alone
<1>6. QED  BY <1>1, <1>2, <1>3, <1>4, <1>5

\* The inductive invariant holds in every reachable state, whatever the
\* processes, their callers and the lists.
THEOREM Invariance == Spec => []IInv
<1>1. ASSUME IInv, Next  PROVE IInv'
  BY <1>1, AskOK, CheckMemoryOK, ReadFileOK, PopulateOK, AquaAnswersOK, ResponseOK, SaveOK,
     FetchFailsOK, MatchOK, ReconfigureOK, TickOK, RestartOK DEF Next, FindRegistryByPrefix
<1>2. IInv /\ [Next]_vars => IInv'
  BY <1>1, StutterOK
<1>3. QED  BY InitOK, <1>2, PTL DEF Spec

\* For any processes and callers: the variables hold what the program can
\* store, and no call searches or saves a list that it does not have.
THEOREM TypeCorrect == Spec => []TypeOK
BY Invariance, PTL DEF IInv

-----------------------------------------------------------------------------
(* Refinement *)

\* The initial states are those of the contract.
LEMMA ContractInit == Init => Contract!Init
BY DEF Init, Contract!Init, NoQuestion, Contract!NoQuestion, Failed, Contract!Failed

\* Every step is a step of the contract or changes nothing it speaks of.
LEMMA ContractStep ==
    ASSUME IInv, Next
    PROVE  [Contract!Next]_(Contract!contractVars)
<1> USE DEF NoQuestion, Contract!NoQuestion, Failed, Contract!Failed, Current, Contract!Current
<1>1. ASSUME NEW c \in Callers, Ask(c)  PROVE Contract!Ask(c)
  <2>1. asked[c] = NoQuestion  BY <1>1, Here DEF Ask, QuestionOK
  <2>2. QED  BY <1>1, <2>1 DEF Ask, Contract!Ask, aquaVars
<1>2. ASSUME NEW c \in Callers,
             \/ CheckMemory(c) \/ ReadFile(c) \/ Populate(c) \/ Response(c)
             \/ Save(c) \/ AquaAnswers(c)
      PROVE  UNCHANGED Contract!contractVars
  BY <1>2 DEF CheckMemory, ReadFile, Populate, Response, Save, AquaAnswers, Contract!contractVars,
              aquaVars, callVars
<1>3. ASSUME NEW c \in Callers, FetchFails(c)  PROVE Contract!GiveUp
  <2>1. /\ pc[c] = "fetch"
        /\ asked' = [d \in Callers |-> IF d \in {c} THEN NoQuestion ELSE asked[d]]
        /\ answer' = [answer EXCEPT ![c] = Failed]
        /\ UNCHANGED <<now, replacedAt>>
    BY <1>3 DEF FetchFails, Return, Leave, aquaVars
  <2>2. asked[c] # NoQuestion
    BY <2>1, Here DEF QuestionOK
  <2>3. answer' = [d \in Callers |-> IF d \in {c} THEN Failed ELSE answer[d]]
    BY <2>1 DEF IInv, TypeOK
  <2>4. {c} \in SUBSET {d \in Callers : asked[d] # NoQuestion}
    BY <2>2
  <2>5. QED  BY <2>1, <2>3, <2>4 DEF Contract!GiveUp
<1>4. ASSUME NEW c \in Callers, Match(c)
      PROVE  Contract!Find(c) \/ Contract!FindNone(c) \/ UNCHANGED Contract!contractVars
  <2> DEFINE v == held[c].list
             name == NameIn[asked[c].registry][v]
  <2>1. /\ pc[c] = "match" /\ now <= due[c] /\ now \in Nat /\ due[c] \in Nat
        /\ InForce(v, due[c], MaxAge) /\ v \in Nat
        /\ QuestionOK(c) /\ asked[c] # NoQuestion
    BY <1>4, Here DEF Match, HeldOK, QuestionOK
  <2>2. InForce(v, now, MaxAge)
    BY <2>1, Later, MaxAgeIs DEF IInv
  <2>3. CASE pc'[c] = "idle"
    <3>1. /\ name # NoName \/ refreshed[c]
          /\ asked' = [d \in Callers |-> IF d \in {c} THEN NoQuestion ELSE asked[d]]
          /\ answer' = [answer EXCEPT ![c] = name]
          /\ UNCHANGED <<now, replacedAt>>
      BY <1>4, <2>3 DEF Match, Return, Leave, SendRequest, GoTo, aquaVars, IInv, TypeOK
    <3>2. asked' = [asked EXCEPT ![c] = NoQuestion]
      BY <3>1 DEF IInv, TypeOK
    <3>3. Contract!Answer(c, name)
      BY <3>1, <3>2 DEF Contract!Answer
    <3>4. CASE name # NoName
      <4>1. v \in 1 .. Current /\ (v < Current => now <= replacedAt[v] + MaxAge)
        BY <2>2 DEF InForce
      <4>2. QED  BY <2>1, <3>3, <3>4, <4>1 DEF Contract!Find
    <3>5. CASE name = NoName
      <4>1. v \in asked[c].since .. Current
        BY <2>1, <2>2, <3>1, <3>5 DEF InForce, QuestionOK, NoEntry, IInv, TypeOK
      <4>2. QED  BY <2>1, <3>3, <3>5, <4>1 DEF Contract!FindNone
    <3>6. QED  BY <3>4, <3>5
  <2>4. CASE pc'[c] # "idle"
    BY <1>4, <2>4 DEF Match, Return, Leave, aquaVars, Contract!contractVars
  <2>5. QED  BY <2>3, <2>4
<1>5. ASSUME Reconfigure  PROVE Contract!Reconfigure
  BY <1>5 DEF Reconfigure, Contract!Reconfigure
<1>6. ASSUME Tick  PROVE Contract!TimePasses
  BY <1>6 DEF Tick, Contract!TimePasses
<1>7. ASSUME NEW k \in Clients, Restart(k)  PROVE Contract!GiveUp
  <2> DEFINE C == {c \in Callers : ClientOf[c] = k /\ pc[c] # "idle"}
  <2>1. C \in SUBSET {c \in Callers : asked[c] # NoQuestion}
    BY Here DEF QuestionOK
  <2>2. /\ asked' = [c \in Callers |-> IF c \in C THEN NoQuestion ELSE asked[c]]
        /\ answer' = [c \in Callers |-> IF c \in C THEN Failed ELSE answer[c]]
        /\ UNCHANGED <<now, replacedAt>>
    BY <1>7 DEF Restart, Leave, aquaVars
  <2> HIDE DEF C
  <2>3. QED  BY <2>1, <2>2 DEF Contract!GiveUp
<1>8. QED
  BY <1>1, <1>2, <1>3, <1>4, <1>5, <1>6, <1>7 DEF Next, FindRegistryByPrefix, Contract!Next

\* For any processes that share a cache file, with any number of callers each,
\* any lists at Aqua and any delays: a registry is named only from a list that
\* was in force within MaxAge, and is said to be unknown only if it was so
\* during the call.
THEOREM Refinement == Spec => ImplementsContract
<1>1. IInv /\ [Next]_vars => [Contract!Next]_(Contract!contractVars)
  BY ContractStep DEF vars, Contract!contractVars
<1>2. QED  BY Invariance, ContractInit, <1>1, PTL DEF Spec, ImplementsContract, Contract!Spec

\* For any process with an only caller: its memory never goes back to a list
\* that was fetched before the one it holds.
THEOREM NeverGoesBack == Spec => MemoryNeverGoesBack
<1>1. ASSUME IInv, [Next]_vars, NEW c \in Callers, Alone(c)
      PROVE  \/ memory'[ClientOf[c]] = NoEntry
             \/ memory'[ClientOf[c]].fetchedAt >= memory[ClientOf[c]].fetchedAt
  <2> DEFINE k == ClientOf[c]
  <2>1. /\ k \in Clients /\ now \in Nat /\ memory[k].fetchedAt \in Nat
        /\ memory[k] = NoEntry \/ memory[k].fetchedAt <= now
        /\ memory \in [Clients -> [list : Nat, fetchedAt : Nat]]
    BY <1>1, Here DEF Fresh, IInv, TypeOK
  <2>2. CASE UNCHANGED memory
    BY <2>1, <2>2
  <2>3. ASSUME NEW d \in Callers, Populate(d)
        PROVE  memory'[k] = memory[k] \/ memory'[k].fetchedAt >= memory[k].fetchedAt
    <3>1. CASE d = c
      <4>1. memory'[k] = held[c] /\ pc[c] = "populate"
        BY <2>1, <2>3, <3>1 DEF Populate
      <4>2. memory[k].fetchedAt <= held[c].fetchedAt /\ held[c].fetchedAt \in Nat
        BY <1>1, <4>1, Here DEF Order
      <4>3. QED  BY <2>1, <4>1, <4>2
    <3>2. CASE d # c
      BY <1>1, <2>1, <2>3, <3>2 DEF Populate, Alone
    <3>3. QED  BY <3>1, <3>2
  <2>4. ASSUME NEW d \in Callers, Response(d)
        PROVE  memory'[k] = memory[k] \/ memory'[k].fetchedAt >= memory[k].fetchedAt
    <3>1. CASE d = c
      <4>1. memory'[k].fetchedAt = now
        BY <2>1, <2>4, <3>1 DEF Response, Entry
      <4>2. memory[k].fetchedAt <= now
        BY <2>1 DEF NoEntry
      <4>3. QED  BY <2>1, <4>1, <4>2
    <3>2. CASE d # c
      BY <1>1, <2>1, <2>4, <3>2 DEF Response, Alone
    <3>3. QED  BY <3>1, <3>2
  <2>5. ASSUME NEW j \in Clients, Restart(j)
        PROVE  memory'[k] = memory[k] \/ memory'[k] = NoEntry
    BY <2>1, <2>5 DEF Restart
  <2>6. UNCHANGED memory \/ (\E d \in Callers : Populate(d) \/ Response(d))
                        \/ \E j \in Clients : Restart(j)
    BY <1>1 DEF Next, FindRegistryByPrefix, Ask, CheckMemory, ReadFile, Save, FetchFails, Match,
                AquaAnswers, Reconfigure, Tick, vars
  <2>7. QED  BY <2>1, <2>2, <2>3, <2>4, <2>5, <2>6
<1>2. IInv /\ [Next]_vars =>
        [\A c \in Callers :
          LET k == ClientOf[c] IN
          (\A d \in Callers : ClientOf[d] = k => d = c) =>
              \/ memory'[k] = NoEntry
              \/ memory'[k].fetchedAt >= memory[k].fetchedAt]_vars
  BY <1>1 DEF Alone
<1>3. QED  BY Invariance, <1>2, PTL DEF Spec, MemoryNeverGoesBack
=============================================================================
