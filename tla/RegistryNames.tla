---------------------------- MODULE RegistryNames ----------------------------
(***************************************************************************)
(* How the Aqua client compares names of registries, pkg/aqua/client.go:   *)
(* mirrors for airgapped sites and the prefixes of Aqua's own registries.  *)
(* A string is the sequence of its pieces; "https://", "http://", "/",     *)
(* "=" and " " are pieces of their own, so that trimming, splitting and    *)
(* searching for a prefix do on sequences what the code does on strings.   *)
(***************************************************************************)
EXTENDS SequencesExt

TrimPrefix(s, piece) == IF s # <<>> /\ Head(s) = piece THEN Tail(s) ELSE s
TrimSuffix(s, piece) == IF s # <<>> /\ Last(s) = piece THEN Front(s) ELSE s

TrimSpace(s) ==
    LET ink == {n \in DOMAIN s : s[n] # " "}
    IN  IF ink = {} THEN <<>> ELSE SubSeq(s, Min(ink), Max(ink))

NormalizeRegistryURL(url) ==
    TrimSuffix(TrimPrefix(TrimPrefix(url, "https://"), "http://"), "/")

-----------------------------------------------------------------------------
(* Mirrors *)

IsDockerHubAlias(registry) == registry \in {<<"docker.io">>, <<"index.docker.io">>}

\* The host of a mirror, and the path that goes before an image's own name.
ParseMirrorURL(url) ==
    LET u     == NormalizeRegistryURL(url)
        slash == SelectInSeq(u, LAMBDA piece : piece = "/")
    IN  IF slash = 0 THEN [host |-> u, path |-> <<>>]
        ELSE [host |-> SubSeq(u, 1, slash - 1), path |-> SubSeq(u, slash + 1, Len(u))]

\* Mutant of IsSource: Docker Hub's two names are not known to be one.
MutantNoAlias(source, registry) ==
    NormalizeRegistryURL(source) = NormalizeRegistryURL(registry)

IsSource(source, registry) ==
    LET s == NormalizeRegistryURL(source)
        r == NormalizeRegistryURL(registry)
    IN  r = s \/ (IsDockerHubAlias(r) /\ IsDockerHubAlias(s))

\* Where an image is to be found: with the first mirror of its registry, if any.
ApplyRegistryMirror(place, mirrors) ==
    LET first == SelectInSeq(mirrors, LAMBDA m : IsSource(m.source, place.registry))
        at    == ParseMirrorURL(mirrors[first].mirror)
    IN  IF first = 0 THEN place
        ELSE [registry |-> at.host,
              image    |-> IF at.path = <<>> THEN place.image
                           ELSE at.path \o <<"/">> \o place.image]

\* One "source=mirror" of the flag; only the first "=" counts.
ParsePair(pair) ==
    LET eq == SelectInSeq(pair, LAMBDA piece : piece = "=")
    IN  [source |-> TrimSpace(SubSeq(pair, 1, eq - 1)),
         mirror |-> TrimSpace(SubSeq(pair, eq + 1, Len(pair)))]

\* The flag, split at its commas; blank parts are skipped.  One bad part is
\* an error for the whole flag.  mirrors[n] is what the first n parts give.
ParseRegistryMirrors(flag) ==
    LET part(n) == TrimSpace(flag[n])
        good(n) == /\ Contains(part(n), "=")
                   /\ ParsePair(part(n)).source # <<>> /\ ParsePair(part(n)).mirror # <<>>
        mirrors[n \in 0 .. Len(flag)] ==
            IF n = 0 THEN <<>>
            ELSE IF part(n) = <<>> THEN mirrors[n - 1]
            ELSE Append(mirrors[n - 1], ParsePair(part(n)))
    IN  IF \A n \in DOMAIN flag : part(n) = <<>> \/ good(n)
        THEN [ok |-> TRUE, mirrors |-> mirrors[Len(flag)]]
        ELSE [ok |-> FALSE, mirrors |-> <<>>]

-----------------------------------------------------------------------------
(* Aqua's registries *)

NoName == "no Aqua registry"

Matches(registry, prefix) ==
    \/ registry = prefix
    \/ IsPrefix(prefix \o <<"/">>, registry)
    \/ IsPrefix(registry, prefix)

\* The first registry of Aqua's list with a prefix for a container registry.
FindRegistryInList(registry, list) ==
    LET r   == NormalizeRegistryURL(registry)
        hit == SelectInSeq(list, LAMBDA reg : \E p \in ToSet(reg.prefixes) :
                                       Matches(r, NormalizeRegistryURL(p)))
    IN  IF hit = 0 THEN NoName ELSE list[hit].name

-----------------------------------------------------------------------------
(***************************************************************************)
(* What the mirrors are to do, said anew: the first one in the flag whose  *)
(* source is an image's registry, in any spelling, takes the registry's    *)
(* place, and a path in its URL goes before the image's own name.          *)
(***************************************************************************)
Canonical(registry) ==
    LET r == NormalizeRegistryURL(registry)
    IN  IF r = <<"docker.io">> THEN <<"index.docker.io">> ELSE r

\* One slash at the end of a URL does not count, nor does a second one that
\* ends a host without a path.
MirrorPrefix(mirror) ==
    LET u == NormalizeRegistryURL(mirror)
    IN  IF Contains(Front(u), "/") THEN u ELSE TrimSuffix(u, "/")

\* The parts of the flag that are about a registry.
MirrorsOf(flag, registry) ==
    {n \in DOMAIN flag :
        LET part == TrimSpace(flag[n])
        IN  part # <<>> /\ Canonical(ParsePair(part).source) = Canonical(registry)}

MirroredName(place, flag) ==
    LET mirrors == MirrorsOf(flag, place.registry)
        prefix  == IF mirrors = {} THEN place.registry
                   ELSE MirrorPrefix(ParsePair(TrimSpace(flag[Min(mirrors)])).mirror)
    IN  (prefix \o <<"/">>) \o place.image
=============================================================================
