--------------------------- MODULE TokenContract ---------------------------
(***************************************************************************)
(* What the token manager promises to those who call Aqua, as if GetToken  *)
(* were one step with no locks in it: there is one token at a time; who    *)
(* asks is given it or, only when it is about to run out, a new one in its *)
(* place, which the others are given from then on; and time never takes a  *)
(* token from a caller who is still using it.                              *)
(***************************************************************************)
EXTENDS Naturals

CONSTANTS
    Callers,
    ServerLife,     \* how long the server accepts a token
    Margin,         \* how long before its end a token may be replaced
    Timeout         \* how long a request, of the token's or with it, may take

NoToken == 0

VARIABLES
    now,        \* the clock
    token,      \* the one token, or NoToken; it is named for its end
    asking,     \* the callers that wait for a token
    using       \* using[c]: the token that c is using, or NoToken

tokenVars == <<now, token, asking, using>>

Init == /\ now = 1
        /\ token = NoToken
        /\ asking = {}
        /\ using = [c \in Callers |-> NoToken]

Ask(c) ==
    /\ c \notin asking /\ using[c] = NoToken
    /\ asking' = asking \cup {c}
    /\ UNCHANGED <<now, token, using>>

Give(c, t) ==
    /\ c \in asking
    /\ asking' = asking \ {c}
    /\ using' = [using EXCEPT ![c] = t]
    /\ UNCHANGED now

Share(c) ==
    /\ token # NoToken /\ now + Timeout <= token
    /\ Give(c, token)
    /\ UNCHANGED token

Renew(c) ==
    /\ token # NoToken => token <= now + Margin
    /\ \E t \in (now + ServerLife) - Timeout .. now + ServerLife :
          Give(c, t) /\ token' = t

Refuse(c) == Give(c, NoToken) /\ UNCHANGED token

Done(c) ==
    /\ using[c] # NoToken
    /\ using' = [using EXCEPT ![c] = NoToken]
    /\ UNCHANGED <<now, token, asking>>

Tick ==
    /\ \A c \in Callers : using[c] # NoToken => now < using[c]
    /\ now' = now + 1
    /\ UNCHANGED <<token, asking, using>>

Next == \/ \E c \in Callers : Ask(c) \/ Share(c) \/ Renew(c) \/ Refuse(c) \/ Done(c)
        \/ Tick

Spec == Init /\ [][Next]_tokenVars
=============================================================================
