--------------------------- MODULE RegistryContract ---------------------------
(***************************************************************************)
(* What FindRegistryByPrefix promises to the calls of the Aqua client, of  *)
(* the caches behind it nothing said: the registry it names is one that a  *)
(* list of Aqua's named which was in force at most MaxAge ago, and it says *)
(* that Aqua has none only if that was so at some moment of the call.      *)
(***************************************************************************)
EXTENDS Naturals, Sequences

CONSTANTS
    Callers,        \* who looks registries up
    Registries,     \* the container registries they look up
    Versions,       \* how many lists of registries Aqua has had in the end
    NameIn,         \* NameIn[r][v]: the name that the v-th list has for r
    NoName,         \* what NameIn gives when the list has none
    MaxAge          \* how old an answer may be

\* What a call is told that could not be, or is yet to be, answered.
Failed == "failed"

VARIABLES
    now,        \* the clock
    replacedAt, \* replacedAt[v]: when the v-th list was replaced by the next
    asked,      \* asked[c]: what c waits for: a container registry and the
                \* list that was in force when it asked; or NoQuestion
    answer      \* answer[c]: what c was told last

contractVars == <<now, replacedAt, asked, answer>>

NoQuestion == [registry |-> <<>>, since |-> 0]

\* The list in force.
Current == Len(replacedAt) + 1

Init == /\ now = 1
        /\ replacedAt = <<>>
        /\ asked = [c \in Callers |-> NoQuestion]
        /\ answer = [c \in Callers |-> Failed]

Ask(c) ==
    /\ asked[c] = NoQuestion
    /\ \E r \in Registries : asked' = [asked EXCEPT ![c] = [registry |-> r, since |-> Current]]
    /\ answer' = [answer EXCEPT ![c] = Failed]
    /\ UNCHANGED <<now, replacedAt>>

Answer(c, name) ==
    /\ asked' = [asked EXCEPT ![c] = NoQuestion]
    /\ answer' = [answer EXCEPT ![c] = name]
    /\ UNCHANGED <<now, replacedAt>>

\* One of the lists that were in force within MaxAge names the registry.
Find(c) ==
    /\ asked[c] # NoQuestion
    /\ \E v \in 1 .. Current :
          LET name == NameIn[asked[c].registry][v] IN
          /\ v < Current => now <= replacedAt[v] + MaxAge
          /\ name # NoName
          /\ Answer(c, name)

\* One of the lists that were in force during the call does not.
FindNone(c) ==
    /\ asked[c] # NoQuestion
    /\ \E v \in asked[c].since .. Current :
          /\ NameIn[asked[c].registry][v] = NoName
          /\ Answer(c, NoName)

\* A call may fail, or end with its process; several do at once then.
GiveUp ==
    /\ \E C \in SUBSET {c \in Callers : asked[c] # NoQuestion} :
          /\ asked' = [c \in Callers |-> IF c \in C THEN NoQuestion ELSE asked[c]]
          /\ answer' = [c \in Callers |-> IF c \in C THEN Failed ELSE answer[c]]
    /\ UNCHANGED <<now, replacedAt>>

Reconfigure ==
    /\ Current < Versions
    /\ replacedAt' = Append(replacedAt, now)
    /\ UNCHANGED <<now, asked, answer>>

TimePasses == now' = now + 1 /\ UNCHANGED <<replacedAt, asked, answer>>

Next == \/ \E c \in Callers : Ask(c) \/ Find(c) \/ FindNone(c)
        \/ GiveUp \/ Reconfigure \/ TimePasses

Spec == Init /\ [][Next]_contractVars
=============================================================================
