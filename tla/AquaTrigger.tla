----------------------------- MODULE AquaTrigger -----------------------------
(***************************************************************************)
(* The command aqua-trigger, cmd/trigger/aqua-trigger.go, with the digest  *)
(* resolver of pkg/imageref/resolver.go: it reads manifests from standard  *)
(* input, resolves the tags of their images to digests and asks Aqua to    *)
(* scan each image that has no result yet.  A signal cancels the context   *)
(* of all its requests.                                                    *)
(*                                                                         *)
(* Aqua and the container registries are external: they answer anything at *)
(* any time, and a tag may be moved while it is resolved.                  *)
(***************************************************************************)
EXTENDS RegistryNames

CONSTANTS
    Images,         \* image references as written in manifests
    PlaceOf,        \* PlaceOf[i]: its registry and repository, or NoPlace
    NoPlace,        \* of a reference that is not one
    PinnedTo,       \* PinnedTo[i]: the digest that i itself names, or NoDigest
    Digests,
    NoDigest,
    Platforms,
    Platform,       \* linux/amd64
    NoPlatform,     \* of a manifest that names no platform
    ContentsOf,     \* ContentsOf[i]: what may be under the tag i in its registry
    Inputs,         \* what may be on standard input
    MirrorFlags,    \* what --registry-mirrors may be
    DefaultRegistry,\* --registry, or NoName
    AquaRegistries  \* Aqua's list of registries

\* What is under a tag: an image, or an index of images for several platforms.
Content == [index : BOOLEAN, manifests : Seq([platform : Platforms, digest : Digests])]

\* A document of the input: a workload with the images of its containers (any
\* of the seven kinds), another kind, one that does not parse, white space, or
\* an error of the reader.
Kinds == {"workload", "other", "unparsable", "blank", "error"}
Documents == [kind : Kinds, images : Seq(Images)]

ASSUME TriggerAssumption ==
    /\ PinnedTo \in [Images -> Digests \cup {NoDigest}] /\ NoDigest \notin Digests
    /\ DOMAIN PlaceOf = Images
    /\ \A i \in Images : PlaceOf[i] # NoPlace =>
          PlaceOf[i] \in [registry : Seq(STRING), image : Seq(STRING)]
    /\ MirrorFlags \subseteq Seq(Seq(STRING))
    /\ ContentsOf \in [Images -> SUBSET Content]
    /\ {Platform, NoPlatform} \subseteq Platforms /\ NoPlatform # Platform
    /\ Inputs \subseteq Seq(Documents)

VARIABLES
    config,     \* the flags, and the documents on standard input
    pc,         \* where run is; "succeeded" and "failed" are its exit codes
    docs,       \* the documents not yet read
    todo,       \* the images read so far, or still to be processed by a loop
    resolved,   \* the images with a digest
    counts,     \* the numbers of the summary
    cancelled,  \* has there been a signal?
    content,    \* content[i]: what is under the tag i in its registry
    held,       \* held[i]: all that has been under the tag i since the command began
    found,      \* the images that Aqua said to have a result for
    accepted    \* the images that Aqua took for scanning, in turn

vars == <<config, pc, docs, todo, resolved, counts, cancelled, content, held, found, accepted>>
aquaVars == <<found, accepted>>
worldVars == <<config, cancelled, content, held>>

NoCounts == [resolveErrors |-> 0, scansTriggered |-> 0, alreadyScanned |-> 0, scanErrors |-> 0]

Init == /\ config \in [input : Inputs, mirrors : MirrorFlags, dryRun : BOOLEAN, complete : BOOLEAN]
        /\ pc = "start"
        /\ docs = config.input
        /\ todo = <<>> /\ resolved = <<>>
        /\ counts = NoCounts
        /\ cancelled = FALSE
        /\ content \in {f \in [Images -> UNION {ContentsOf[i] : i \in Images}] :
                           \A i \in Images : f[i] \in ContentsOf[i]}
        /\ held = [i \in Images |-> {content[i]}]
        /\ found = {} /\ accepted = <<>>

Exit(code) == pc' = code
Count(field) == counts' = [counts EXCEPT ![field] = @ + 1]

\* URL and key of Aqua are needed unless nothing is to be scanned; tracing may
\* fail to start.
Start ==
    /\ pc = "start"
    /\ \/ Exit("failed")
       \/ (config.dryRun \/ config.complete) /\ pc' = "read"
    /\ UNCHANGED <<worldVars, docs, todo, resolved, counts, aquaVars>>

-----------------------------------------------------------------------------
(* extractImagesFromManifests *)

\* kept[n] is what is kept of the first n images.
Deduplicate(s) ==
    LET kept[n \in 0 .. Len(s)] ==
            IF n = 0 THEN <<>>
            ELSE IF Contains(kept[n - 1], s[n]) THEN kept[n - 1]
            ELSE Append(kept[n - 1], s[n])
    IN  kept[Len(s)]

\* A document that is no workload, or none at all, is skipped.
ReadDocument ==
    /\ pc = "read" /\ docs # <<>> /\ Head(docs).kind # "error"
    /\ docs' = Tail(docs)
    /\ todo' = IF Head(docs).kind = "workload" THEN todo \o Deduplicate(Head(docs).images) ELSE todo
    /\ UNCHANGED <<worldVars, pc, resolved, counts, aquaVars>>

ReaderFails ==
    /\ pc = "read" /\ docs # <<>> /\ Head(docs).kind = "error"
    /\ Exit("failed")
    /\ UNCHANGED <<worldVars, docs, todo, resolved, counts, aquaVars>>

\* Mutant of EndOfInput: images that several documents name are kept.
MutantKeepsDuplicates ==
    /\ pc = "read" /\ docs = <<>>
    /\ pc' = IF todo = <<>> THEN "succeeded" ELSE "resolve"
    /\ UNCHANGED <<worldVars, docs, todo, resolved, counts, aquaVars>>

EndOfInput ==
    /\ pc = "read" /\ docs = <<>>
    /\ pc' = IF todo = <<>> THEN "succeeded" ELSE "resolve"
    /\ todo' = Deduplicate(todo)
    /\ UNCHANGED <<worldVars, docs, resolved, counts, aquaVars>>

-----------------------------------------------------------------------------
(* ResolveImageRef: as an index first, then as an image *)

Resolve(image, digest) ==
    /\ resolved' = Append(resolved, [image |-> image, digest |-> digest])
    /\ todo' = Tail(todo)
    /\ pc' = "resolve"
    /\ UNCHANGED counts

ResolveError ==
    /\ Count("resolveErrors")
    /\ todo' = Tail(todo)
    /\ pc' = "resolve"
    /\ UNCHANGED resolved

ResolveNext ==
    /\ pc = "resolve" /\ todo # <<>>
    /\ LET i == Head(todo) IN
          \/ PinnedTo[i] # NoDigest /\ Resolve(i, PinnedTo[i])
          \/ PinnedTo[i] = NoDigest /\ PlaceOf[i] = NoPlace /\ ResolveError
          \/ /\ PinnedTo[i] = NoDigest /\ PlaceOf[i] # NoPlace
             /\ pc' = "index"
             /\ UNCHANGED <<todo, resolved, counts>>
    /\ UNCHANGED <<worldVars, docs, aquaVars>>

\* Mutant of ResolveFromIndex: whatever the index lists first.
MutantFirstManifest(manifests) == manifests[1].digest

ResolveFromIndex(manifests) ==
    LET n == SelectInSeq(manifests, LAMBDA m : m.platform = Platform)
    IN  IF n = 0 THEN NoDigest ELSE manifests[n].digest

\* remote.Image: an image as it is, whatever its platform; of an index, the
\* first manifest for linux/amd64, which one that names no platform counts as.
RemoteImage(c) ==
    LET n == SelectInSeq(c.manifests, LAMBDA m : ~c.index \/ m.platform \in {Platform, NoPlatform})
    IN  IF n = 0 THEN NoDigest ELSE c.manifests[n].digest

FetchIndex ==
    /\ pc = "index" /\ ~cancelled
    /\ LET c == content[Head(todo)]
           digest == ResolveFromIndex(c.manifests)
       IN  /\ c.index /\ digest # NoDigest
           /\ Resolve(Head(todo), digest)
    /\ UNCHANGED <<worldVars, docs, aquaVars>>

\* No answer, not an index, or an index without the platform.
FetchIndexFails ==
    /\ pc = "index"
    /\ pc' = "image"
    /\ UNCHANGED <<worldVars, docs, todo, resolved, counts, aquaVars>>

FetchImage ==
    /\ pc = "image" /\ ~cancelled
    /\ RemoteImage(content[Head(todo)]) # NoDigest
    /\ Resolve(Head(todo), RemoteImage(content[Head(todo)]))
    /\ UNCHANGED <<worldVars, docs, aquaVars>>

\* Mutant of FetchImageFails: the registry is asked until it answers.
MutantRetriesForever ==
    /\ pc = "image"
    /\ pc' = "index"
    /\ UNCHANGED <<worldVars, docs, todo, resolved, counts, aquaVars>>

\* Mutant of FetchImageFails: the error is dropped.
MutantErrorDropped ==
    /\ pc = "image"
    /\ Resolve(Head(todo), NoDigest)
    /\ UNCHANGED <<worldVars, docs, aquaVars>>

FetchImageFails ==
    /\ pc = "image"
    /\ ResolveError
    /\ UNCHANGED <<worldVars, docs, aquaVars>>

Mirrors == [flag \in MirrorFlags |-> ParseRegistryMirrors(flag)]

ResolveDone ==
    /\ pc = "resolve" /\ todo = <<>>
    /\ \/ /\ resolved = <<>> /\ counts.resolveErrors > 0
          /\ Exit("failed")
       \/ /\ ~(resolved = <<>> /\ counts.resolveErrors > 0)
          /\ ~Mirrors[config.mirrors].ok
          /\ Exit("failed")
       \/ /\ ~(resolved = <<>> /\ counts.resolveErrors > 0)
          /\ Mirrors[config.mirrors].ok
          /\ pc' = IF config.dryRun THEN "succeeded" ELSE "process"
    /\ todo' = resolved
    /\ UNCHANGED <<worldVars, docs, resolved, counts, aquaVars>>

-----------------------------------------------------------------------------
(* GetScanResult and TriggerScan, image by image *)

\* The name under which Aqua knows the registry of an image, after mirroring;
\* NoName also if the image's reference does not parse.
AquaName(image, mirrors) ==
    IF PlaceOf[image] = NoPlace THEN NoName
    ELSE IF DefaultRegistry # NoName THEN DefaultRegistry
    ELSE FindRegistryInList(ApplyRegistryMirror(PlaceOf[image], mirrors).registry, AquaRegistries)

AquaNames == [flag \in MirrorFlags |-> [i \in Images |-> AquaName(i, Mirrors[flag].mirrors)]]

\* The image at hand is one that Aqua can be asked for.
Askable == AquaNames[config.mirrors][Head(todo).image] # NoName

ProcessNext ==
    /\ pc = "process" /\ todo # <<>>
    /\ pc' = IF cancelled THEN "failed" ELSE "check"
    /\ UNCHANGED <<worldVars, docs, todo, resolved, counts, aquaVars>>

ProcessedAs(field) ==
    /\ Count(field)
    /\ todo' = Tail(todo)
    /\ pc' = "process"

\* Mutant of Found: the image is counted, and scanned nevertheless.
MutantFallsThrough ==
    /\ pc = "check" /\ ~cancelled
    /\ Askable
    /\ found' = found \cup {Head(todo)}
    /\ Count("alreadyScanned")
    /\ pc' = "trigger"
    /\ UNCHANGED <<worldVars, docs, todo, resolved, accepted>>

Found ==
    /\ pc = "check" /\ ~cancelled
    /\ Askable
    /\ found' = found \cup {Head(todo)}
    /\ ProcessedAs("alreadyScanned")
    /\ UNCHANGED <<worldVars, docs, resolved, accepted>>

NotFound ==
    /\ pc = "check" /\ ~cancelled
    /\ Askable
    /\ pc' = "trigger"
    /\ UNCHANGED <<worldVars, docs, todo, resolved, counts, aquaVars>>

CheckFails ==
    /\ pc = "check"
    /\ ProcessedAs("scanErrors")
    /\ UNCHANGED <<worldVars, docs, resolved, aquaVars>>

Triggered ==
    /\ pc = "trigger" /\ ~cancelled
    /\ accepted' = Append(accepted, Head(todo))
    /\ ProcessedAs("scansTriggered")
    /\ UNCHANGED <<worldVars, docs, resolved, found>>

\* Mutant of TriggerFails: the request is repeated, whatever Aqua made of it.
MutantRepeatsRequest ==
    /\ pc = "trigger"
    /\ \/ accepted' = Append(accepted, Head(todo))
       \/ UNCHANGED accepted
    /\ UNCHANGED <<worldVars, pc, docs, todo, resolved, counts, found>>

\* Aqua may have taken the scan although its answer never came.
TriggerFails ==
    /\ pc = "trigger"
    /\ \/ accepted' = Append(accepted, Head(todo))
       \/ UNCHANGED accepted
    /\ ProcessedAs("scanErrors")
    /\ UNCHANGED <<worldVars, docs, resolved, found>>

\* Mutant of Summary: images without digest do not count as failed.
MutantResolveErrorsForgiven ==
    /\ pc = "process" /\ todo = <<>>
    /\ pc' = IF counts.scanErrors > 0 THEN "failed" ELSE "succeeded"
    /\ UNCHANGED <<worldVars, docs, todo, resolved, counts, aquaVars>>

Summary ==
    /\ pc = "process" /\ todo = <<>>
    /\ pc' = IF counts.resolveErrors + counts.scanErrors > 0 THEN "failed" ELSE "succeeded"
    /\ UNCHANGED <<worldVars, docs, todo, resolved, counts, aquaVars>>

-----------------------------------------------------------------------------
(* The world around *)

\* SIGINT or SIGTERM.  Reading standard input does not notice.
Signal ==
    /\ pc \notin {"start", "succeeded", "failed"} /\ ~cancelled
    /\ cancelled' = TRUE
    /\ UNCHANGED <<config, content, held, pc, docs, todo, resolved, counts, aquaVars>>

\* A tag that is being resolved is moved.
Push(i) ==
    /\ pc \in {"index", "image"} /\ i = Head(todo)
    /\ \E c \in ContentsOf[i] : /\ content' = [content EXCEPT ![i] = c]
                               /\ held' = [held EXCEPT ![i] = @ \cup {c}]
    /\ UNCHANGED <<config, cancelled, pc, docs, todo, resolved, counts, aquaVars>>

Run == \/ Start \/ ReadDocument \/ ReaderFails \/ EndOfInput
       \/ ResolveNext \/ FetchIndex \/ FetchIndexFails \/ FetchImage \/ FetchImageFails \/ ResolveDone
       \/ ProcessNext \/ Found \/ NotFound \/ CheckFails \/ Triggered \/ TriggerFails \/ Summary

Next == Run \/ Signal \/ \E i \in Images : Push(i)

Spec == Init /\ [][Next]_vars

\* The command goes on by itself, but for three waits: for its input; for a
\* container registry, which ends with an answer, or when the context is
\* cancelled; and for Aqua, which ends by the timeout of the HTTP client.
Local == Start \/ ReaderFails \/ ResolveNext \/ ResolveDone \/ ProcessNext \/ Summary
Cancel == cancelled /\ (FetchIndexFails \/ FetchImageFails)
Aqua == Found \/ NotFound \/ CheckFails \/ Triggered \/ TriggerFails
Fairness == WF_vars(Local) /\ WF_vars(Cancel) /\ WF_vars(Aqua)

FairSpec == Spec /\ Fairness

-----------------------------------------------------------------------------
(* Properties *)

\* The images of the workloads among some documents, and of those on standard
\* input.
NamedIn(ds) == UNION {ToSet(ds[n].images) : n \in {k \in DOMAIN ds : ds[k].kind = "workload"}}
Named == NamedIn(config.input)

Resolved == [image : Images, digest : Digests]

\* Every variable holds a value the program can store; above all, no image is
\* passed on without a digest.
TypeOK ==
    /\ config.input \in Inputs /\ config.mirrors \in MirrorFlags
    /\ config.dryRun \in BOOLEAN /\ config.complete \in BOOLEAN
    /\ pc \in {"start", "read", "resolve", "index", "image", "process", "check", "trigger",
               "succeeded", "failed"}
    /\ docs \in Seq(Documents)
    /\ resolved \in Seq(Resolved)
    /\ IF pc \in {"start", "read", "resolve", "index", "image"} THEN todo \in Seq(Images)
       ELSE todo \in Seq(Images \cup Resolved)
    /\ counts \in [DOMAIN NoCounts -> Nat]
    /\ cancelled \in BOOLEAN
    /\ \A i \in Images : content[i] \in held[i] /\ held[i] \subseteq ContentsOf[i]
    /\ found \subseteq Resolved /\ accepted \in Seq(Resolved)

\* Every image is asked for where the flag puts it: parsing keeps the mirrors in
\* their order, Docker Hub's two names are one registry, and a path in a
\* mirror's URL, less a slash at its end, goes before a slash and the image's own.
MirroredAsConfigured ==
    Mirrors[config.mirrors].ok =>
        \A i \in Images : PlaceOf[i] # NoPlace =>
            LET at == ApplyRegistryMirror(PlaceOf[i], Mirrors[config.mirrors].mirrors)
            IN  (at.registry \o <<"/">>) \o at.image = MirroredName(PlaceOf[i], config.mirrors)

\* Exit code 0, which lets a pipeline go on, means that Aqua has, or was asked
\* and agreed to make, a result for every image that the input names, whatever
\* failed on the way.  (Documents that do not parse name no images, and a dry
\* run promises nothing.)
ExitZeroMeansScanned ==
    pc = "succeeded" /\ ~config.dryRun =>
        \A i \in Named : \E img \in found \cup ToSet(accepted) : img.image = i

\* The summary counts every image of the input once: no image is lost between
\* the loops, and none counts twice.
SummaryAddsUp ==
    LET failed == counts.resolveErrors
        done   == counts.scansTriggered + counts.alreadyScanned + counts.scanErrors
    IN  /\ pc \in {"resolve", "index", "image"} =>
              Len(todo) + Len(resolved) + failed = Cardinality(Named)
        /\ pc \in {"process", "check", "trigger"} =>
              Len(todo) + done + failed = Cardinality(Named)

\* Aqua is asked at most once to scan an image, however many documents name it.
NoImageScannedTwice ==
    \A n, k \in DOMAIN accepted : accepted[n].image = accepted[k].image => n = k

\* A tag is resolved to what the nodes, which are linux/amd64, pull: a digest
\* that has been under the tag since the command began, of that platform if
\* there was a choice, wherever the tag moves between the two requests.
ResolvesToPlatform ==
    \A n \in DOMAIN resolved :
        LET img == resolved[n] IN
        \/ img.digest = PinnedTo[img.image]
        \/ \E c \in held[img.image] : \E m \in ToSet(c.manifests) :
              m.digest = img.digest /\ (c.index => m.platform \in {Platform, NoPlatform})

ImagesOf(s) == {s[n].image : n \in DOMAIN s}

\* The images that the present loop and those to come have to deal with.
Open ==
    IF pc \in {"start", "read"} THEN Named
    ELSE IF pc \in {"resolve", "index", "image"} THEN ToSet(todo) \cup ImagesOf(resolved)
    ELSE IF pc \in {"process", "check", "trigger"} THEN ImagesOf(todo)
    ELSE {}

\* With its loops one after the other, any request of which may fail, the
\* command is to the pipeline one that settles each image once, in a dry run
\* without Aqua, and that succeeds only when none is open and none was missed.
Contract == INSTANCE TriggerContract WITH
                dryRun <- config.dryRun,
                open   <- Open,
                missed <- counts.resolveErrors + counts.scanErrors > 0,
                known  <- {img.image : img \in found},
                taken  <- ImagesOf(accepted),
                exit   <- IF pc \in {"succeeded", "failed"} THEN pc ELSE "none"

ImplementsContract == Contract!Spec

\* After a signal the command ends, also while a container registry, for which
\* there is no timeout, does not answer; unless it waits for its input.
SignalEnds == cancelled /\ pc # "read" ~> pc \in {"succeeded", "failed"}
=============================================================================
