---------------------------- MODULE RegistryCache ----------------------------
(***************************************************************************)
(* Aqua's list of registries as the client caches it, pkg/aqua/client.go   *)
(* and filecache.go: in the memory of each process, for CacheTTL, and in a *)
(* file that all processes on a machine share and that outlives them.      *)
(* Every call of the client looks a container registry up in that list; a  *)
(* miss fetches the list again.                                            *)
(*                                                                         *)
(* The unit of time is 30 seconds, the timeout of the HTTP client.  Only   *)
(* requests and, by at most LocalDelay each, the steps between looking at  *)
(* the clock and using what was read take time.                            *)
(***************************************************************************)
EXTENDS RegistryNames

CONSTANTS
    Clients,            \* processes, each with one client of Aqua
    Callers,            \* goroutines that look registries up
    ClientOf,           \* ClientOf[c]: the client that c shares
    Registries,         \* the container registries they look up
    Lists,              \* Lists[v]: the v-th list of registries at Aqua
    Names,              \* the names of Aqua's registries
    FileCacheEnabled,
    CacheTTL,
    LocalDelay,
    MaxTime             \* the clock stops here

ASSUME CacheAssumption ==
    /\ ClientOf \in [Callers -> Clients]
    /\ FileCacheEnabled \in BOOLEAN
    /\ CacheTTL \in Nat /\ LocalDelay \in Nat /\ MaxTime \in Nat
    /\ Lists \in Seq(Seq([name : Names, prefixes : Seq(Seq(STRING))])) /\ Lists # <<>>

RequestTimeout == 1

VARIABLES
    now,        \* the clock
    replacedAt, \* replacedAt[v]: when Aqua's v-th list was replaced
    memory,     \* memory[k]: what client k has in memory
    file,       \* what the cache file says
    pc,         \* pc[c]: where caller c is
    asked,      \* asked[c]: the registry c looks up, and (for the properties)
                \* the list that was in force when it began
    refreshed,  \* refreshed[c]: does c fetch because the list had no match?
    held,       \* held[c]: the list c has in hand, or NoEntry
    due,        \* due[c]: when c's present step will be over
    answer      \* answer[c]: what c was told last

vars == <<now, replacedAt, memory, file, pc, asked, refreshed, held, due, answer>>
aquaVars == <<now, replacedAt>>
callVars == <<asked, answer>>

\* An entry of a cache: which of Aqua's lists it is, and when it was fetched.
NoEntry     == [list |-> 0, fetchedAt |-> 0]
Entry(v, t) == [list |-> v, fetchedAt |-> t]

\* What a call is told that could not be, or is yet to be, answered.
Failed == "failed"

NoQuestion == [registry |-> <<>>, since |-> 0]

\* The list in force.
Current == Len(replacedAt) + 1

\* What the search of Aqua's v-th list gives.
NameIn == [r \in Registries |-> [v \in DOMAIN Lists |-> FindRegistryInList(r, Lists[v])]]

Init == /\ now = 1
        /\ replacedAt = <<>>
        /\ memory = [k \in Clients |-> NoEntry]
        /\ file = NoEntry
        /\ pc = [c \in Callers |-> "idle"]
        /\ asked = [c \in Callers |-> NoQuestion]
        /\ refreshed = [c \in Callers |-> FALSE]
        /\ held = [c \in Callers |-> NoEntry]
        /\ due = [c \in Callers |-> 0]
        /\ answer = [c \in Callers |-> Failed]

-----------------------------------------------------------------------------
(* FindRegistryByPrefix, GetRegistries and fetchRegistries.  With a default *)
(* registry configured the call returns its name and touches nothing.       *)

GoTo(c, next)  == pc' = [pc EXCEPT ![c] = next]
Within(c, d)   == due' = [due EXCEPT ![c] = now + d]
Hold(c, entry) == held' = [held EXCEPT ![c] = entry]

Ask(c) ==
    /\ pc[c] = "idle"
    /\ \E r \in Registries : asked' = [asked EXCEPT ![c] = [registry |-> r, since |-> Current]]
    /\ answer' = [answer EXCEPT ![c] = Failed]
    /\ GoTo(c, "memory")
    /\ UNCHANGED <<aquaVars, memory, file, refreshed, held, due>>

CheckMemory(c) ==
    LET entry == memory[ClientOf[c]] IN
    /\ pc[c] = "memory"
    /\ \/ /\ entry # NoEntry /\ now - entry.fetchedAt < CacheTTL
          /\ Hold(c, entry) /\ Within(c, LocalDelay) /\ GoTo(c, "match")
       \/ /\ ~(entry # NoEntry /\ now - entry.fetchedAt < CacheTTL)
          /\ GoTo(c, "file")
          /\ UNCHANGED <<held, due>>
    /\ UNCHANGED <<aquaVars, memory, file, refreshed, callVars>>

\* GET /api/v2/registries; Aqua has not answered yet.
SendRequest(c) ==
    /\ GoTo(c, "fetch") /\ Hold(c, NoEntry) /\ Within(c, RequestTimeout)

\* Mutant of ReadFile: the age of the file's list is not checked.
MutantFileNeverExpires(c) ==
    /\ pc[c] = "file"
    /\ \/ /\ FileCacheEnabled /\ file # NoEntry
          /\ Hold(c, file) /\ Within(c, LocalDelay) /\ GoTo(c, "populate")
       \/ SendRequest(c)
    /\ UNCHANGED <<aquaVars, memory, file, refreshed, callVars>>

\* The file may be unreadable, which is a miss.
ReadFile(c) ==
    /\ pc[c] = "file"
    /\ \/ /\ FileCacheEnabled /\ file # NoEntry /\ ~(now - file.fetchedAt > CacheTTL)
          /\ Hold(c, file) /\ Within(c, LocalDelay) /\ GoTo(c, "populate")
       \/ SendRequest(c)
    /\ UNCHANGED <<aquaVars, memory, file, refreshed, callVars>>

\* Mutant of Populate: what was read from the file counts as fetched now.
MutantPopulateNow(c) ==
    /\ pc[c] = "populate"
    /\ memory' = [memory EXCEPT ![ClientOf[c]] = Entry(held[c].list, now)]
    /\ Within(c, LocalDelay) /\ GoTo(c, "match")
    /\ UNCHANGED <<aquaVars, file, refreshed, held, callVars>>

\* Memory takes over the file's list with the file's time stamp, whatever it
\* holds by now.
Populate(c) ==
    /\ pc[c] = "populate"
    /\ memory' = [memory EXCEPT ![ClientOf[c]] = held[c]]
    /\ Within(c, LocalDelay) /\ GoTo(c, "match")
    /\ UNCHANGED <<aquaVars, file, refreshed, held, callVars>>

Response(c) ==
    /\ pc[c] = "fetch"
    /\ held[c] # NoEntry
    /\ memory' = [memory EXCEPT ![ClientOf[c]] = Entry(held[c].list, now)]
    /\ Within(c, LocalDelay) /\ GoTo(c, "save")
    /\ UNCHANGED <<aquaVars, file, refreshed, held, callVars>>

\* The file is replaced as a whole (written aside, then renamed), with a time
\* stamp of its own; if that fails the old one stays.
Save(c) ==
    /\ pc[c] = "save"
    /\ \/ FileCacheEnabled /\ file' = Entry(held[c].list, now)
       \/ UNCHANGED file
    /\ Within(c, LocalDelay) /\ GoTo(c, "match")
    /\ UNCHANGED <<aquaVars, memory, refreshed, held, callVars>>

\* The call is over and leaves nothing behind.
Leave(C) ==
    /\ pc' = [c \in Callers |-> IF c \in C THEN "idle" ELSE pc[c]]
    /\ asked' = [c \in Callers |-> IF c \in C THEN NoQuestion ELSE asked[c]]
    /\ refreshed' = [c \in Callers |-> IF c \in C THEN FALSE ELSE refreshed[c]]
    /\ held' = [c \in Callers |-> IF c \in C THEN NoEntry ELSE held[c]]
    /\ due' = [c \in Callers |-> IF c \in C THEN 0 ELSE due[c]]

Return(c, name) ==
    /\ answer' = [answer EXCEPT ![c] = name]
    /\ Leave({c})

\* Mutant of FetchFails: the error is dropped and the call goes on.
MutantErrorDropped(c) ==
    /\ pc[c] = "fetch"
    /\ Hold(c, NoEntry) /\ Within(c, LocalDelay) /\ GoTo(c, "match")
    /\ UNCHANGED <<aquaVars, memory, file, refreshed, callVars>>

\* No token, no connection, no answer in time, another status than 200, or
\* a body that is no list; both caches stay as they are.
FetchFails(c) ==
    /\ pc[c] = "fetch"
    /\ Return(c, Failed)
    /\ UNCHANGED <<aquaVars, memory, file>>

\* Mutant of Match: the list is not fetched again before the call gives up.
MutantNoRefresh(c) ==
    /\ pc[c] = "match"
    /\ Return(c, NameIn[asked[c].registry][held[c].list])
    /\ UNCHANGED <<aquaVars, memory, file>>

\* A list without match is fetched once more, be it fresh or not.
Match(c) ==
    LET name == NameIn[asked[c].registry][held[c].list] IN
    /\ pc[c] = "match"
    /\ \/ /\ name # NoName \/ refreshed[c]
          /\ Return(c, name)
       \/ /\ name = NoName /\ ~refreshed[c]
          /\ refreshed' = [refreshed EXCEPT ![c] = TRUE]
          /\ SendRequest(c)
          /\ UNCHANGED <<asked, answer>>
    /\ UNCHANGED <<aquaVars, memory, file>>

FindRegistryByPrefix(c) ==
    \/ Ask(c) \/ CheckMemory(c) \/ ReadFile(c) \/ Populate(c)
    \/ Response(c) \/ Save(c) \/ FetchFails(c) \/ Match(c)

-----------------------------------------------------------------------------
(* Aqua, the clock, and processes that end and start again *)

AquaAnswers(c) ==
    /\ pc[c] = "fetch"
    /\ held[c] = NoEntry
    /\ Hold(c, Entry(Current, 0))
    /\ UNCHANGED <<aquaVars, memory, file, pc, refreshed, due, callVars>>

Reconfigure ==
    /\ Current < Len(Lists)
    /\ replacedAt' = Append(replacedAt, now)
    /\ UNCHANGED <<now, memory, file, pc, asked, refreshed, held, due, answer>>

\* No request outlives its timeout, no local step its delay.
Tick ==
    /\ now < MaxTime
    /\ \A c \in Callers : pc[c] \in {"populate", "fetch", "save", "match"} => now < due[c]
    /\ now' = now + 1
    /\ UNCHANGED <<replacedAt, memory, file, pc, asked, refreshed, held, due, answer>>

\* A process may end anywhere, also between its two caches; the file stays.
Restart(k) ==
    /\ memory' = [memory EXCEPT ![k] = NoEntry]
    /\ LET C == {c \in Callers : ClientOf[c] = k /\ pc[c] # "idle"} IN
          /\ Leave(C)
          /\ answer' = [c \in Callers |-> IF c \in C THEN Failed ELSE answer[c]]
    /\ UNCHANGED <<aquaVars, file>>

Next == \/ \E c \in Callers : FindRegistryByPrefix(c) \/ AquaAnswers(c)
        \/ Reconfigure \/ Tick
        \/ \E k \in Clients : Restart(k)

Spec == Init /\ [][Next]_vars

-----------------------------------------------------------------------------
(* Properties *)

\* Every variable holds a value the program can store, and a call that has
\* come to saving or searching a list has one in hand, also after an error.
TypeOK ==
    /\ now \in Nat
    /\ replacedAt \in Seq(Nat)
    /\ memory \in [Clients -> [list : Nat, fetchedAt : Nat]]
    /\ file \in [list : Nat, fetchedAt : Nat]
    /\ pc \in [Callers -> {"idle", "memory", "file", "populate", "fetch", "save", "match"}]
    /\ asked \in [Callers -> [registry : Registries \cup {<<>>}, since : Nat]]
    /\ refreshed \in [Callers -> BOOLEAN]
    /\ held \in [Callers -> [list : Nat, fetchedAt : Nat]]
    /\ due \in [Callers -> Nat]
    /\ answer \in [Callers -> Names \cup {NoName, Failed}]
    /\ \A c \in Callers : pc[c] \in {"populate", "save", "match"} => held[c] # NoEntry

\* How old a list may be when a call is answered from it: a full CacheTTL
\* after the file was written, which came after a request and a delay, was
\* read just in time, and then two more delays.
MaxAge == CacheTTL + RequestTimeout + 3 * LocalDelay

\* Through both caches, shared files, failed requests and writes, restarts and
\* changes of Aqua's configuration: a registry is named only from a list that
\* was in force within MaxAge, and "no Aqua registry found", which makes an
\* ImageScan fail for good, is said only if Aqua had none during the call.
Contract == INSTANCE RegistryContract WITH Versions <- Len(Lists)

ImplementsContract == Contract!Spec

\* In a process with one caller, as the manager and aqua-trigger are, the list
\* in memory is never replaced by one that was fetched earlier, though the
\* file may hold one and be read when memory has expired.  (Two callers can:
\* one reads the file, the other refreshes, the first one overwrites.)
MemoryNeverGoesBack ==
    [][\A c \in Callers :
          LET k == ClientOf[c] IN
          (\A d \in Callers : ClientOf[d] = k => d = c) =>
              \/ memory'[k] = NoEntry
              \/ memory'[k].fetchedAt >= memory[k].fetchedAt]_vars
=============================================================================
