------------------------- MODULE TokenManagerProofs -------------------------
(***************************************************************************)
(* Proofs about TokenManager, for any number of callers and any validity.  *)
(***************************************************************************)
EXTENDS TokenManager, TLAPS

\* A cached token is given up at least one minute (two units) before the
\* server does: the cut to whole minutes never eats up the unused tenth.
LEMMA LifeTimes ==
    /\ ServerLife \in Nat /\ ClientLife \in Nat
    /\ ServerLife >= 2
    /\ ClientLife + 2 <= ServerLife
<1>1. TokenValidity \in Nat /\ TokenValidity >= 1
  BY TokenAssumption
<1>2. (9 * TokenValidity) \div 10 \in Nat /\ (9 * TokenValidity) \div 10 <= TokenValidity - 1
  BY <1>1
<1>3. QED  BY <1>1, <1>2 DEF ServerLife, ClientLife

-----------------------------------------------------------------------------
(***************************************************************************)
(* The inductive invariant adds how the times hang together: no request is *)
(* older than its timeout, a token on its way was issued after its request *)
(* was sent, a caller outside of a request has none, and the cached one is *)
(* given up before the server does, but not too early.                     *)
(***************************************************************************)
RequestsOK ==
    /\ \A c \in Callers : pc[c] \in {"fetch", "use"} => now <= deadline[c]
    /\ \A c \in Callers : pc[c] = "fetch" => deadline[c] <= now + 1
    /\ \A c \in Callers : pc[c] = "fetch" /\ held[c] # NoToken =>
                             /\ deadline[c] + ServerLife <= held[c] + 1
                             /\ held[c] <= now + ServerLife
    /\ \A c \in Callers : pc[c] = "use" => deadline[c] <= held[c]
    /\ \A c \in Callers : pc[c] \notin {"fetch", "use"} => held[c] = NoToken

CacheOK == token # NoToken => /\ tokenExpAt + 1 <= token
                              /\ token <= tokenExpAt + (ServerLife - ClientLife)

IInv == TypeOK /\ RequestsOK /\ CacheOK /\ OneFetchPerExpiry

LEMMA InitOK == Init => IInv
BY DEF Init, IInv, TypeOK, LockOK, RequestsOK, CacheOK, OneFetchPerExpiry, NoToken

LEMMA StepOK == IInv /\ Next => IInv'
<1> SUFFICES ASSUME IInv, Next  PROVE IInv'
  OBVIOUS
<1> USE LifeTimes DEF IInv, TypeOK, LockOK, RequestsOK, CacheOK, OneFetchPerExpiry,
                      HaveToken, lockVars, NoToken, RequestTimeout, Unlock, Admitted
<1>1. ASSUME NEW c \in Callers, Call(c)  PROVE IInv'
  BY <1>1 DEF Call
<1>2. ASSUME NEW c \in Callers, RLock(c)  PROVE IInv'
  BY <1>2 DEF RLock
<1>3. ASSUME NEW c \in Callers, CheckCached(c)  PROVE IInv'
  BY <1>3 DEF CheckCached, Use
<1>4. ASSUME NEW c \in Callers, AskForLock(c)  PROVE IInv'
  BY <1>4 DEF AskForLock
<1>5. ASSUME NEW c \in Callers, Lock(c)  PROVE IInv'
  BY <1>5 DEF Lock
<1>6. ASSUME NEW c \in Callers, DoubleCheck(c)  PROVE IInv'
  <2>1. CASE HaveToken
    <3>1. /\ UNCHANGED <<now, token, tokenExpAt>>
          /\ pc[c] = "recheck"
          /\ Unlock(c, "use")
          /\ held' = [held EXCEPT ![c] = token]
          /\ deadline' = [deadline EXCEPT ![c] = now + 1]
      BY <1>6, <2>1 DEF DoubleCheck, Use
    <3>2. TypeOK'  BY <3>1
    <3>3. RequestsOK' /\ CacheOK' /\ OneFetchPerExpiry'  BY <2>1, <3>1
    <3>4. QED  BY <3>2, <3>3
  <2>2. CASE ~HaveToken
    <3>1. /\ UNCHANGED <<now, token, tokenExpAt, readers, writer, held>>
          /\ pc[c] = "recheck"
          /\ pc' = [pc EXCEPT ![c] = "fetch"]
          /\ deadline' = [deadline EXCEPT ![c] = now + 1]
      BY <1>6, <2>2 DEF DoubleCheck, SendRequest
    <3>2. held[c] = NoToken  BY <3>1
    <3>3. TypeOK'  BY <3>1
    <3>4. RequestsOK' /\ CacheOK' /\ OneFetchPerExpiry'  BY <2>2, <3>1, <3>2
    <3>5. QED  BY <3>3, <3>4
  <2>3. QED  BY <2>1, <2>2
<1>7. ASSUME NEW c \in Callers, Response(c)  PROVE IInv'
  BY <1>7 DEF Response, Use
<1>8. ASSUME NEW c \in Callers, FetchFails(c)  PROVE IInv'
  BY <1>8 DEF FetchFails, Leave
<1>9. ASSUME NEW c \in Callers, Issue(c)  PROVE IInv'
  BY <1>9 DEF Issue
<1>10. ASSUME NEW c \in Callers, Used(c)  PROVE IInv'
  BY <1>10 DEF Used, Leave
<1>11. CASE Tick
  BY <1>11 DEF Tick
<1>12. QED
  BY <1>1, <1>2, <1>3, <1>4, <1>5, <1>6, <1>7, <1>8, <1>9, <1>10, <1>11 DEF Next

\* The inductive invariant holds in every reachable state, whatever the number
\* of callers and the validity that is asked for.
THEOREM Invariance == Spec => []IInv
<1>1. IInv /\ UNCHANGED vars => IInv'
  BY DEF vars, lockVars, IInv, TypeOK, LockOK, RequestsOK, CacheOK, OneFetchPerExpiry,
         HaveToken
<1>2. IInv /\ [Next]_vars => IInv'
  BY <1>1, StepOK
<1>3. QED  BY InitOK, <1>2, PTL DEF Spec

\* For any number of callers: the locks of GetToken and fetchToken are held
\* where the code says and are given back on every path.
THEOREM TypeCorrect == Spec => []TypeOK
BY Invariance, PTL DEF IInv

\* For any validity that may be configured: a request is never in flight with
\* a token that the server has stopped accepting.
THEOREM NeverUsedExpired == Spec => []TokenNeverUsedExpired
<1>1. IInv => TokenNeverUsedExpired
  BY DEF IInv, TypeOK, RequestsOK, TokenNeverUsedExpired
<1>2. QED  BY Invariance, <1>1, PTL

\* For any number of callers that wait for the write lock: none asks for a
\* token while a usable one is cached (the second look in fetchToken).
THEOREM OneFetch == Spec => []OneFetchPerExpiry
BY Invariance, PTL DEF IInv

-----------------------------------------------------------------------------
(* GetToken is one step *)

Asking == {c \in Callers : pc[c] \notin {"idle", "use"}}
Using  == [c \in Callers |-> IF pc[c] = "use" THEN held[c] ELSE NoToken]

ContractStep == [Contract!Next]_(Contract!tokenVars)

\* Nobody but c begins or ends a call, or gets or gives up a token.
OthersStay(c) ==
    \A d \in Callers \ {c} : /\ pc'[d] = "use" <=> pc[d] = "use"
                             /\ pc'[d] = "idle" <=> pc[d] = "idle"
                             /\ held'[d] = held[d]

LEMMA OneMoves ==
    ASSUME TypeOK, NEW c \in Callers, NEW next, NEW t,
           pc' = [pc EXCEPT ![c] = next] \/ pc' = Admitted(c, next),
           held' = held \/ held' = [held EXCEPT ![c] = t]
    PROVE  OthersStay(c) /\ pc'[c] = next
BY DEF TypeOK, Admitted, OthersStay

LEMMA ViewOfOne ==
    ASSUME NEW c \in Callers, OthersStay(c)
    PROVE  /\ Asking' = IF pc'[c] \in {"idle", "use"} THEN Asking \ {c} ELSE Asking \cup {c}
           /\ Using' = [Using EXCEPT ![c] = IF pc'[c] = "use" THEN held'[c] ELSE NoToken]
           /\ c \in Asking <=> pc[c] \notin {"idle", "use"}
           /\ Using[c] = IF pc[c] = "use" THEN held[c] ELSE NoToken
BY DEF OthersStay, Asking, Using

\* A caller who waits for a lock, or for an answer, is no nearer to its token.
LEMMA StillAsking ==
    ASSUME TypeOK, NEW c \in Callers, NEW next, NEW t,
           pc[c] \notin {"idle", "use"}, next \notin {"idle", "use"},
           pc' = [pc EXCEPT ![c] = next],
           held' = held \/ held' = [held EXCEPT ![c] = t],
           UNCHANGED <<now, token>>
    PROVE  ContractStep
<1>1. OthersStay(c) /\ pc'[c] = next
  BY OneMoves
<1>2. Asking' = Asking
  BY <1>1, ViewOfOne
<1>3. Using' = Using
  <2>1. Using' = [Using EXCEPT ![c] = NoToken] /\ Using[c] = NoToken
    BY <1>1, ViewOfOne
  <2>2. Using = [d \in Callers |-> Using[d]]
    BY DEF Using
  <2>3. QED  BY <2>1, <2>2
<1>4. QED  BY <1>2, <1>3 DEF ContractStep, Contract!tokenVars, Asking, Using

\* One whose call of GetToken returns t is given t.
LEMMA Given ==
    ASSUME TypeOK, NEW c \in Callers, NEW t \in Nat, t # NoToken,
           pc[c] \notin {"idle", "use"},
           pc' = [pc EXCEPT ![c] = "use"] \/ pc' = Admitted(c, "use"),
           held' = [held EXCEPT ![c] = t],
           UNCHANGED now
    PROVE  c \in Asking /\ Asking' = Asking \ {c} /\ Using' = [Using EXCEPT ![c] = t]
<1>1. OthersStay(c) /\ pc'[c] = "use" /\ held'[c] = t
  BY OneMoves DEF TypeOK
<1>2. QED  BY <1>1, ViewOfOne

\* HaveToken: the cached token outlives the request it will be used in.
LEMMA CachedUsable ==
    ASSUME IInv, HaveToken
    PROVE  token # Contract!NoToken /\ now + RequestTimeout <= token
<1>1. now \in Nat /\ tokenExpAt \in Nat /\ token \in Nat /\ now < tokenExpAt /\ tokenExpAt + 1 <= token
  BY DEF IInv, TypeOK, HaveToken, CacheOK
<1>2. now + 1 <= token
  BY <1>1
<1>3. QED  BY <1>2 DEF HaveToken, RequestTimeout, NoToken, Contract!NoToken

LEMMA ResponseStep ==
    ASSUME IInv, NEW c \in Callers, Response(c)
    PROVE  Contract!Renew(c)
<1> DEFINE t == held[c]
<1>1. /\ pc[c] = "fetch" /\ t # NoToken /\ t \in Nat /\ now \in Nat /\ deadline[c] \in Nat
      /\ token \in Nat /\ tokenExpAt \in Nat /\ ~HaveToken
  BY DEF Response, IInv, TypeOK, OneFetchPerExpiry
<1>2. /\ deadline[c] + ServerLife <= t + 1 /\ t <= now + ServerLife /\ now <= deadline[c]
  BY <1>1 DEF IInv, RequestsOK
<1>3. t \in (now + ServerLife) - RequestTimeout .. now + ServerLife
  <2> HIDE DEF t
  <2>1. now + ServerLife <= t + 1 /\ t <= now + ServerLife
    BY <1>1, <1>2, LifeTimes
  <2>2. QED  BY <1>1, <2>1, LifeTimes DEF RequestTimeout
<1>4. token # NoToken => token <= now + (ServerLife - ClientLife)
  <2>1. token # NoToken => tokenExpAt <= now /\ token <= tokenExpAt + (ServerLife - ClientLife)
    BY <1>1 DEF HaveToken, IInv, CacheOK
  <2>2. ServerLife - ClientLife \in Nat
    BY LifeTimes
  <2>3. QED  BY <1>1, <2>1, <2>2
<1>5. /\ c \in Asking /\ Asking' = Asking \ {c} /\ Using' = [Using EXCEPT ![c] = t]
      /\ token' = t /\ UNCHANGED now
  <2>1. /\ pc' = Admitted(c, "use") /\ held' = [held EXCEPT ![c] = t]
        /\ UNCHANGED now /\ token' = t
    BY DEF Response, Use, Unlock
  <2> HIDE DEF t
  <2>2. TypeOK /\ pc[c] \notin {"idle", "use"}
    BY <1>1 DEF IInv
  <2>3. QED  BY <1>1, <2>1, <2>2, Given
<1> HIDE DEF t
<1>6. QED
  BY <1>3, <1>4, <1>5 DEF Contract!Renew, Contract!Give, Asking, Using, NoToken, Contract!NoToken

LEMMA TickStep ==
    ASSUME IInv, Tick
    PROVE  Contract!Tick
<1>1. ASSUME NEW c \in Callers, Using[c] # NoToken  PROVE now < Using[c]
  <2>1. pc[c] = "use" /\ Using[c] = held[c]
    BY <1>1 DEF Using
  <2>2. now < deadline[c] /\ deadline[c] <= held[c]
    BY <2>1 DEF Tick, IInv, RequestsOK
  <2>3. now \in Nat /\ deadline[c] \in Nat /\ held[c] \in Nat
    BY DEF IInv, TypeOK
  <2>4. QED  BY <2>1, <2>2, <2>3
<1>2. now' = now + 1 /\ UNCHANGED <<token, Asking, Using>>
  BY DEF Tick, Asking, Using
<1>3. QED  BY <1>1, <1>2 DEF Contract!Tick, Asking, Using, NoToken, Contract!NoToken

LEMMA EveryStep == IInv /\ [Next]_vars => ContractStep
<1> SUFFICES ASSUME IInv, [Next]_vars  PROVE ContractStep
  OBVIOUS
<1> DEFINE Step(c) == \/ Contract!Ask(c) \/ Contract!Share(c) \/ Contract!Renew(c)
                      \/ Contract!Refuse(c) \/ Contract!Done(c)
<1>1. (\E c \in Callers : Step(c)) \/ Contract!Tick => ContractStep
  BY DEF ContractStep, Contract!Next
<1>2. TypeOK  BY DEF IInv
<1>3. ASSUME NEW c \in Callers, Call(c)  PROVE Step(c)
  <2>1. /\ pc[c] = "idle" /\ pc' = [pc EXCEPT ![c] = "rlock"]
        /\ UNCHANGED <<now, token, held>>
    BY <1>3 DEF Call
  <2>2. OthersStay(c) /\ pc'[c] = "rlock"
    BY <1>2, <2>1, OneMoves
  <2>3. c \notin Asking /\ Using[c] = NoToken /\ Asking' = Asking \cup {c}
        /\ Using' = [Using EXCEPT ![c] = NoToken]
    BY <2>1, <2>2, ViewOfOne
  <2>4. Using' = Using
    <3>1. Using = [d \in Callers |-> Using[d]]
      BY DEF Using
    <3>2. QED  BY <2>3, <3>1
  <2>5. Contract!Ask(c)
    BY <2>1, <2>3, <2>4 DEF Contract!Ask, Asking, Using, NoToken, Contract!NoToken
  <2>6. QED  BY <2>5
<1>4. ASSUME NEW c \in Callers, RLock(c) \/ AskForLock(c) \/ Lock(c) \/ Issue(c)
      PROVE  ContractStep
  <2>1. CASE RLock(c)
    BY <1>2, <2>1, StillAsking DEF RLock
  <2>2. CASE AskForLock(c)
    BY <1>2, <2>2, StillAsking DEF AskForLock, lockVars
  <2>3. CASE Lock(c)
    BY <1>2, <2>3, StillAsking DEF Lock
  <2>4. CASE Issue(c)
    <3>1. pc' = [pc EXCEPT ![c] = "fetch"]
      BY <1>2, <2>4 DEF Issue, TypeOK
    <3>2. QED  BY <1>2, <2>4, <3>1, StillAsking DEF Issue, lockVars
  <2>5. QED  BY <1>4, <2>1, <2>2, <2>3, <2>4
<1>5. ASSUME NEW c \in Callers, CheckCached(c) \/ DoubleCheck(c)
      PROVE  ContractStep
  <2>1. CASE HaveToken
    <3>1. /\ pc[c] \in {"check", "recheck"} /\ UNCHANGED <<now, token>>
          /\ held' = [held EXCEPT ![c] = token]
          /\ pc' = [pc EXCEPT ![c] = "use"] \/ pc' = Admitted(c, "use")
      BY <1>5, <2>1 DEF CheckCached, DoubleCheck, Use, Unlock
    <3>2. token \in Nat /\ token # NoToken
      BY <1>2, <2>1 DEF TypeOK, HaveToken
    <3>3. c \in Asking /\ Asking' = Asking \ {c} /\ Using' = [Using EXCEPT ![c] = token]
      BY <1>2, <3>1, <3>2, Given
    <3>4. Contract!Share(c)
      BY <2>1, <3>1, <3>3, CachedUsable DEF Contract!Share, Contract!Give, Asking, Using
    <3>5. QED  BY <1>1, <3>4
  <2>2. CASE ~HaveToken
    <3>1. /\ pc[c] \in {"check", "recheck"} /\ UNCHANGED <<now, token, held>>
          /\ pc' = [pc EXCEPT ![c] = "unlocked"] \/ pc' = [pc EXCEPT ![c] = "fetch"]
      BY <1>5, <2>2 DEF CheckCached, DoubleCheck, SendRequest, lockVars
    <3>2. QED  BY <1>2, <3>1, StillAsking
  <2>3. QED  BY <2>1, <2>2
<1>6. ASSUME NEW c \in Callers, Response(c)  PROVE Step(c)
  BY <1>6, ResponseStep
<1>7. ASSUME NEW c \in Callers, FetchFails(c)  PROVE Step(c)
  <2>1. /\ pc[c] = "fetch" /\ pc' = Admitted(c, "idle") /\ held' = [held EXCEPT ![c] = NoToken]
        /\ UNCHANGED <<now, token>>
    BY <1>7 DEF FetchFails, Leave, Unlock
  <2>2. OthersStay(c) /\ pc'[c] = "idle"
    BY <1>2, <2>1, OneMoves
  <2>3. c \in Asking /\ Asking' = Asking \ {c} /\ Using' = [Using EXCEPT ![c] = NoToken]
    BY <2>1, <2>2, ViewOfOne
  <2>4. Contract!Refuse(c)
    BY <2>1, <2>3 DEF Contract!Refuse, Contract!Give, Asking, Using, NoToken, Contract!NoToken
  <2>5. QED  BY <2>4
<1>8. ASSUME NEW c \in Callers, Used(c)  PROVE ContractStep
  <2>1. /\ pc[c] = "use" /\ pc' = [pc EXCEPT ![c] = "idle"] /\ held' = [held EXCEPT ![c] = NoToken]
        /\ UNCHANGED <<now, token>>
    BY <1>8 DEF Used, Leave
  <2>2. OthersStay(c) /\ pc'[c] = "idle"
    BY <1>2, <2>1, OneMoves
  <2>3. c \notin Asking /\ Asking' = Asking \ {c} /\ Using' = [Using EXCEPT ![c] = NoToken]
    BY <2>1, <2>2, ViewOfOne
  <2>4. CASE Using[c] # NoToken
    <3>1. Contract!Done(c)
      BY <2>1, <2>3, <2>4 DEF Contract!Done, Asking, Using, NoToken, Contract!NoToken
    <3>2. QED  BY <1>1, <3>1
  <2>5. CASE Using[c] = NoToken
    <3>1. Using = [d \in Callers |-> Using[d]]
      BY DEF Using
    <3>2. Using' = Using /\ Asking' = Asking
      BY <2>3, <2>5, <3>1
    <3>3. QED  BY <2>1, <3>2 DEF ContractStep, Contract!tokenVars, Asking, Using
  <2>6. QED  BY <2>4, <2>5
<1>9. CASE Tick
  BY <1>1, <1>9, TickStep
<1>10. CASE UNCHANGED vars
  BY <1>10 DEF vars, ContractStep, Contract!tokenVars
<1>11. QED
  BY <1>1, <1>3, <1>4, <1>5, <1>6, <1>7, <1>8, <1>9, <1>10 DEF Next

\* For any number of callers and any validity: GetToken, with its two locks,
\* its two looks at the cache and the request in between, is one step of a
\* service that shares one token, replaces it near its end only, and never
\* leaves a caller with one that has run out.
THEOREM Refinement == Spec => ImplementsContract
<1>1. Init => Contract!Init
  BY DEF Init, Contract!Init, NoToken, Contract!NoToken
<1>2. IInv /\ [Next]_vars => [Contract!Next]_(Contract!tokenVars)
  BY EveryStep DEF ContractStep
<1>3. QED  BY <1>1, <1>2, Invariance, PTL DEF Spec, ImplementsContract, Contract!Spec
=============================================================================
