---------------------------- MODULE TokenManager ----------------------------
(***************************************************************************)
(* The bearer token shared by all calls to Aqua, pkg/aqua/auth.go: a       *)
(* cached token behind a read-write lock, fetched again when 90% of its    *)
(* validity is over.  Any number of callers may share one TokenManager     *)
(* (the manager process has one today, the worker of the ImageScan         *)
(* controller); the write lock is held while the token is being fetched.   *)
(*                                                                         *)
(* The unit of time is 30 seconds, the timeout of the HTTP client.         *)
(***************************************************************************)
EXTENDS Naturals

CONSTANTS
    Callers,        \* goroutines that call GetToken
    TokenValidity,  \* the validity asked for, in minutes
    MaxTime         \* the clock stops here

ASSUME TokenAssumption == TokenValidity \in Nat \ {0} /\ MaxTime \in Nat

VARIABLES
    now,        \* the clock
    token,      \* the cached token, or NoToken; a token is named by the
                \* time at which the server stops accepting it
    tokenExpAt, \* the time at which the client stops using it
    readers,    \* who holds the read lock
    writer,     \* who holds the write lock (at most one caller)
    pc,         \* pc[c]: where caller c is
    held,       \* held[c]: the token c was given, by GetToken or by the server
    deadline    \* deadline[c]: when c's HTTP request times out

vars == <<now, token, tokenExpAt, readers, writer, pc, held, deadline>>
lockVars == <<readers, writer>>

NoToken == 0

RequestTimeout == 1

\* The server counts the minutes that were asked for; the client counts 90%
\* of them, cut down to whole minutes by the conversion to time.Duration.
ServerLife == 2 * TokenValidity
ClientLife == 2 * ((9 * TokenValidity) \div 10)

Init == /\ now = 1
        /\ token = NoToken
        /\ tokenExpAt = 0
        /\ readers = {}
        /\ writer = {}
        /\ pc = [c \in Callers |-> "idle"]
        /\ held = [c \in Callers |-> NoToken]
        /\ deadline = [c \in Callers |-> 0]

\* Mutant of HaveToken: a cached token is good for ever.
MutantNeverExpires == token # NoToken

HaveToken == token # NoToken /\ now < tokenExpAt

-----------------------------------------------------------------------------
(* GetToken *)

Call(c) ==
    /\ pc[c] = "idle"
    /\ pc' = [pc EXCEPT ![c] = "rlock"]
    /\ UNCHANGED <<now, token, tokenExpAt, lockVars, held, deadline>>

\* A writer that waits (at "lock") keeps new readers out.
RLock(c) ==
    /\ pc[c] = "rlock"
    /\ writer = {}
    /\ \A d \in Callers : pc[d] # "lock"
    /\ readers' = readers \cup {c}
    /\ pc' = [pc EXCEPT ![c] = "check"]
    /\ UNCHANGED <<now, token, tokenExpAt, writer, held, deadline>>

\* The caller has the token and puts it into a request of its own.
Use(c, t) ==
    /\ held' = [held EXCEPT ![c] = t]
    /\ deadline' = [deadline EXCEPT ![c] = now + RequestTimeout]

CheckCached(c) ==
    /\ pc[c] = "check"
    /\ readers' = readers \ {c}
    /\ \/ /\ HaveToken
          /\ Use(c, token)
          /\ pc' = [pc EXCEPT ![c] = "use"]
       \/ /\ ~HaveToken
          /\ pc' = [pc EXCEPT ![c] = "unlocked"]
          /\ UNCHANGED <<held, deadline>>
    /\ UNCHANGED <<now, token, tokenExpAt, writer>>

\* Anybody may get in between giving back one lock and asking for the other.
AskForLock(c) ==
    /\ pc[c] = "unlocked"
    /\ pc' = [pc EXCEPT ![c] = "lock"]
    /\ UNCHANGED <<now, token, tokenExpAt, lockVars, held, deadline>>

Lock(c) ==
    /\ pc[c] = "lock"
    /\ writer = {} /\ readers = {}
    /\ writer' = {c}
    /\ pc' = [pc EXCEPT ![c] = "recheck"]
    /\ UNCHANGED <<now, token, tokenExpAt, readers, held, deadline>>

\* Where the callers are when c, at "next" now, has given the write lock back:
\* it goes to all readers that wait at that moment, before the next writer.
Admitted(c, next) ==
    [d \in Callers |-> IF d = c THEN next ELSE IF pc[d] = "rlock" THEN "check" ELSE pc[d]]

Unlock(c, next) ==
    /\ writer' = {}
    /\ readers' = {d \in Callers : pc[d] = "rlock"}
    /\ pc' = Admitted(c, next)

SendRequest(c) ==
    /\ pc' = [pc EXCEPT ![c] = "fetch"]
    /\ deadline' = [deadline EXCEPT ![c] = now + RequestTimeout]
    /\ UNCHANGED <<lockVars, held>>

\* Mutant of DoubleCheck: the second look at the cache is missing.
MutantNoDoubleCheck(c) ==
    /\ pc[c] = "recheck"
    /\ SendRequest(c)
    /\ UNCHANGED <<now, token, tokenExpAt>>

\* Somebody else may have fetched a token since the read lock was given back.
DoubleCheck(c) ==
    /\ pc[c] = "recheck"
    /\ \/ HaveToken /\ Use(c, token) /\ Unlock(c, "use")
       \/ ~HaveToken /\ SendRequest(c)
    /\ UNCHANGED <<now, token, tokenExpAt>>

\* Mutant of Response: the answer is cached for the full validity.
MutantFullValidity(c) ==
    /\ pc[c] = "fetch"
    /\ held[c] # NoToken
    /\ token' = held[c]
    /\ tokenExpAt' = now + ServerLife
    /\ Use(c, held[c])
    /\ Unlock(c, "use")
    /\ UNCHANGED now

\* The answer arrives: the token is cached and returned.
Response(c) ==
    /\ pc[c] = "fetch"
    /\ held[c] # NoToken
    /\ token' = held[c]
    /\ tokenExpAt' = now + ClientLife
    /\ Use(c, held[c])
    /\ Unlock(c, "use")
    /\ UNCHANGED now

Leave(c) ==
    /\ held' = [held EXCEPT ![c] = NoToken]
    /\ deadline' = [deadline EXCEPT ![c] = 0]

\* Mutant of FetchFails: the lock is not released on an error.
MutantLockKept(c) ==
    /\ pc[c] = "fetch"
    /\ Leave(c)
    /\ pc' = [pc EXCEPT ![c] = "idle"]
    /\ UNCHANGED <<now, token, tokenExpAt, lockVars>>

\* The request fails or times out, whether or not the server had answered.
FetchFails(c) ==
    /\ pc[c] = "fetch"
    /\ Leave(c)
    /\ Unlock(c, "idle")
    /\ UNCHANGED <<now, token, tokenExpAt>>

\* The caller's own request reaches Aqua, or fails.
Used(c) ==
    /\ pc[c] = "use"
    /\ Leave(c)
    /\ pc' = [pc EXCEPT ![c] = "idle"]
    /\ UNCHANGED <<now, token, tokenExpAt, lockVars>>

-----------------------------------------------------------------------------
(* The token server and the clock *)

Issue(c) ==
    /\ pc[c] = "fetch"
    /\ held[c] = NoToken
    /\ held' = [held EXCEPT ![c] = now + ServerLife]
    /\ UNCHANGED <<now, token, tokenExpAt, lockVars, pc, deadline>>

\* No request outlives its timeout.
Tick ==
    /\ now < MaxTime
    /\ \A c \in Callers : pc[c] \in {"fetch", "use"} => now < deadline[c]
    /\ now' = now + 1
    /\ UNCHANGED <<token, tokenExpAt, lockVars, pc, held, deadline>>

Next == \/ \E c \in Callers :
              \/ Call(c) \/ RLock(c) \/ CheckCached(c)
              \/ AskForLock(c) \/ Lock(c) \/ DoubleCheck(c)
              \/ Response(c) \/ FetchFails(c) \/ Issue(c) \/ Used(c)
        \/ Tick

Spec == Init /\ [][Next]_vars

\* Requests end, by an answer or by their timeout; nobody is passed over for
\* ever by the lock (sync.RWMutex serves waiters in turn).
Fairness ==
    \A c \in Callers :
        /\ WF_vars(CheckCached(c)) /\ WF_vars(AskForLock(c)) /\ WF_vars(DoubleCheck(c))
        /\ WF_vars(Response(c) \/ FetchFails(c)) /\ WF_vars(Used(c))
        /\ SF_vars(RLock(c)) /\ SF_vars(Lock(c))

FairSpec == Spec /\ Fairness

-----------------------------------------------------------------------------
(* Properties *)

\* The locks are held where the code says, and exclude each other.
LockOK ==
    /\ \A c \in Callers : c \in readers <=> pc[c] = "check"
    /\ \A c \in Callers : c \in writer <=> pc[c] \in {"recheck", "fetch"}
    /\ \A c, d \in writer : c = d
    /\ readers = {} \/ writer = {}

\* Every variable holds a value the program can store, and the locks are in
\* order on every path, the error returns of fetchToken included.
TypeOK ==
    /\ now \in Nat /\ token \in Nat /\ tokenExpAt \in Nat
    /\ readers \subseteq Callers /\ writer \subseteq Callers
    /\ pc \in [Callers -> {"idle", "rlock", "check", "unlocked", "lock", "recheck",
                           "fetch", "use"}]
    /\ held \in [Callers -> Nat]
    /\ deadline \in [Callers -> Nat]
    /\ LockOK

\* A token that GetToken returned is one the server still accepts for as long
\* as the request it is used in can last: the time lost between its issue and
\* its arrival, and that request's own time, fit into the unused tenth of the
\* validity (cut to whole minutes, so at least one).
TokenNeverUsedExpired ==
    \A c \in Callers : pc[c] = "use" => now <= held[c]

\* A new token is asked for only while no usable one is cached: callers that
\* wait for the write lock do not fetch one after the other.
OneFetchPerExpiry ==
    \A c \in Callers : pc[c] = "fetch" => ~HaveToken

\* With its two locks, its two looks at the cache and the request between them,
\* GetToken is to its callers one step: they share one token, which is replaced
\* near its end only and never lost or overwritten by an older one.
Contract == INSTANCE TokenContract WITH
                asking  <- {c \in Callers : pc[c] \notin {"idle", "use"}},
                using   <- [c \in Callers |-> IF pc[c] = "use" THEN held[c] ELSE NoToken],
                Margin  <- ServerLife - ClientLife,
                Timeout <- RequestTimeout

ImplementsContract == Contract!Spec

\* Every call of GetToken comes back, with a token or an error.
EveryCallReturns ==
    \A c \in Callers : pc[c] = "rlock" ~> pc[c] \in {"use", "idle"}
=============================================================================
