---------------------------- MODULE MCAquaTrigger ----------------------------
(***************************************************************************)
(* A small instance of AquaTrigger: an image of Docker Hub, whose tag is   *)
(* moved between an index, an image and an index without platforms; one    *)
(* with a digest; and a reference that does not parse.                     *)
(***************************************************************************)
EXTENDS AquaTrigger

CONSTANTS app, lib, bad, nowhere, amd64, arm64, unspecified

Places == (app :> [registry |-> <<"index.docker.io">>, image |-> <<"library", "/", "app">>])
       @@ (lib :> [registry |-> <<"gcr.io">>, image |-> <<"lib">>])
       @@ (bad :> nowhere)

Pinned == (app :> "none") @@ (lib :> "d0") @@ (bad :> "none")

AllPlatforms == {amd64, arm64, unspecified}

Manifest(platform, digest) == [platform |-> platform, digest |-> digest]

AppContents ==
    {[index |-> TRUE,  manifests |-> <<Manifest(arm64, "d1"), Manifest(amd64, "d2")>>],
     [index |-> FALSE, manifests |-> <<Manifest(arm64, "d3")>>],
     [index |-> TRUE,  manifests |-> <<Manifest(arm64, "d1"), Manifest(unspecified, "d4")>>]}

Contents == (app :> AppContents) @@ (lib :> {[index |-> FALSE, manifests |-> <<>>]}) @@ (bad :> {[index |-> FALSE, manifests |-> <<>>]})

Workload(images) == [kind |-> "workload", images |-> images]
Doc(kind) == [kind |-> kind, images |-> <<>>]

Streams ==
    {<<Workload(<<app, lib, app>>), Doc("other"), Workload(<<lib>>)>>,
     <<Doc("unparsable"), Workload(<<bad, lib>>), Workload(<<app>>)>>,
     <<Doc("blank"), Workload(<<>>)>>,
     <<Workload(<<lib>>), Doc("error")>>}

\* None; Docker Hub behind a path of a mirror, with blanks; a mirror of all of
\* gcr.io, given after one that is never reached; one with a slash too many
\* after a blank part; and one without "=".
Flags ==
    {<<>>,
     << <<" ", "docker.io", "=", " ", "https://", "mirror", "/", "hub", "/">>, <<" ">> >>,
     << <<"quay.io", "=", "other">>, <<"http://", "gcr.io", "/", "=", "mirror">>,
        <<"gcr.io", "=", "last">> >>,
     << <<" ">>, <<"gcr.io", "=", "mirror", "/", "/">>, <<"gcr.io", "=", "last">> >>,
     << <<"docker.io">> >>}

AquaList ==
    <<[name |-> "hub", prefixes |-> << <<"docker.io">>, <<"index.docker.io">> >>],
      [name |-> "mirror", prefixes |-> << <<"https://", "mirror", "/", "hub">> >>],
      [name |-> "gcr", prefixes |-> << <<"gcr.io", "/">> >>]>>
=============================================================================
