----------------------------- MODULE ScanTypes -----------------------------
(***************************************************************************)
(* The ImageScan custom resource (api/v1alpha1/imagescan_types.go) and the *)
(* names the controllers use for it: what it says is kept to the phase,    *)
(* the image it was created for and the retry count; the digest is part of *)
(* its name.  Messages, times and vulnerability counts are left out: no    *)
(* branch of the program reads them.                                       *)
(***************************************************************************)
EXTENDS Naturals

CONSTANTS
    Namespaces, \* Kubernetes namespaces
    Digests,    \* sha256 digests
    Images,     \* image references as written in pods
    Repos,      \* (registry, repository) pairs as Aqua knows them
    RepoOf      \* RepoOf[i]: the repository of image i

ASSUME ImageAssumption == RepoOf \in [Images -> Repos]

\* ImageScans are named by a namespace and, through ScanName, by the digest
\* alone: two images with one digest share one ImageScan.
Scans == Namespaces \X Digests
ScanName(ns, digest) == <<ns, digest>>

Phases    == {"New", "Pending", "Registered", "Error"}
Terminal  == {"Registered", "Error"}

\* Aqua files its results under repository and digest.
Entries == Repos \X Digests
Entry(k, image) == <<RepoOf[image], k[2]>>

\* An ImageScan as stored: the image of its spec, its phase, its retry count.
Scan == [phase : Phases, image : Images, retryCount : Nat]

\* No such resource.
NoObject == [phase |-> "Absent"]

\* A scan with another status; what it is a scan of stays.
WithStatus(scan, phase, retryCount) ==
    [phase |-> phase, image |-> scan.image, retryCount |-> retryCount]

NewScan(image) == [phase |-> "New", image |-> image, retryCount |-> 0]
=============================================================================
