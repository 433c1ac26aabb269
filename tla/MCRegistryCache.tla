--------------------------- MODULE MCRegistryCache ---------------------------
(***************************************************************************)
(* A small instance of RegistryCache: the manager, whose one worker at a   *)
(* time looks registries up, and aqua-trigger share a cache file while a   *)
(* registry is removed at Aqua and another one added.                      *)
(***************************************************************************)
EXTENDS RegistryCache

CONSTANTS m, t, manager, trigger

Owner == (m :> manager) @@ (t :> trigger)

Hub == [name |-> "hub", prefixes |-> << <<"docker.io">>, <<"index.docker.io">> >>]
Gcr == [name |-> "gcr", prefixes |-> << <<"https://", "gcr.io", "/">>, <<"gcr.io", "/", "team">> >>]

Configurations == << <<Gcr>>, <<Hub>> >>

Looked == {<<"index.docker.io">>, <<"gcr.io">>}

\* The two processes do the same: exchanging both them and their callers
\* gives a behaviour of the same kind.
ProcessSymmetry ==
    {p \in Permutations({m, t, manager, trigger}) :
        \A c \in {m, t} : p[c] \in {m, t} /\ p[Owner[c]] = Owner[p[c]]}
=============================================================================
