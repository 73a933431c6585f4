----------------------------- MODULE OciReplicate -----------------------------
(***************************************************************************)
(* OCI artefact replication (oci.replicate_artifact, src/oci/__init__.py). *)
(*                                                                         *)
(* The function reads the source manifest and, by its schema and media     *)
(* type, copies an image (config blob and layers, then the manifest), or a *)
(* manifest list (every kept sub-manifest by a recursive call, then the    *)
(* list), or wraps a single image in a one-entry list                      *)
(* (NORMALISE_TO_MULTIARCH).  A recursive call is a frame on a call stack. *)
(* Any registry call may raise, which ends the replication; a caller may   *)
(* then replicate again (a second attempt) against the same target.        *)
(*                                                                         *)
(* Manifests are records; their bytes are the record plus whether they are *)
(* the registry's original text ("raw") or json.dumps of the parsed        *)
(* manifest ("dumped").  A digest is identified with the bytes it hashes.  *)
(***************************************************************************)
EXTENDS Naturals, SequencesExt, FiniteSets

CONSTANTS
    Blobs,          \* blob digests
    SrcBlobs,       \* blobs the source repository holds
    Platforms,
    NoBlob,         \* cfg of a manifest list
    Placeholder,    \* config digest v1_manifest_to_v2 puts into a converted manifest
    AnnKeys,        \* annotation keys (with their values)
    Configs,        \* the calls to check: [src (raw bytes of the top-level
                    \* source manifest), mode, filter (the platforms
                    \* platform_filter keeps), annotations]
    DefaultImage,   \* [sources -> bytes]: what a registry answers for a list
                    \* when the accept header does not ask for lists
    SynthCfg,       \* the synthesised config blob of a v1 manifest's layers
    MaxAttempts

Raw(c) == [content |-> c, form |-> "raw"]
Dumped(c) == [content |-> c, form |-> "dumped"]

\* Faulty variant: the config blob is not among the blobs.
BlobsOfLayersOnly(m) == m.layers

\* The blobs of an image manifest, config first (manifest.blobs()).
BlobsOf(m) == <<m.cfg>> \o m.layers

\* oconv.v1_manifest_to_v2: a v2 manifest over the same layers whose config
\* digest names a blob that does not exist yet.
V1ToV2(c) == [c EXCEPT !.kind = "v2", !.cfg = Placeholder]

\* Python's list.insert(idx, x): appends when idx is past the end.
ListInsert(s, idx0, x) ==
    IF idx0 >= Len(s) THEN Append(s, x) ELSE InsertAt(s, idx0 + 1, x)

VARIABLES
    cfg,        \* [src, mode, filter, annotations] of this replication, and
                \* whether the source registry answers a list with an image
    stack,      \* frames of the active replicate_artifact calls
    attempt,    \* number of the current attempt
    outcome,    \* "running", "ok" or "failed" per attempt
    tgtBlobs,   \* blobs in the target repository
    tgtTag,     \* manifest bytes under the target tag (a set of at most one)
    tgtDigests, \* manifests put by digest
    blobPuts    \* number of blob PUTs, per attempt

vars == <<cfg, stack, attempt, outcome, tgtBlobs, tgtTag, tgtDigests, blobPuts>>

Top == stack[Len(stack)]

\* A new call frame; `tagged` tells whether the target reference has a tag.
\* The fields follow the locals of replicate_artifact: man is `manifest`,
\* raw is `raw_manifest`, idx and i the loop positions, ents is
\* `manifest.manifests` of a list, ret the bytes a nested call returned.
\* Faulty variant: manifest_dirty starts out set.
FrameDirty(origin, mode, tagged) ==
    [origin |-> origin, mode |-> mode, tagged |-> tagged, pc |-> "fetch",
     man |-> origin.content, raw |-> origin, idx |-> 1, needSynth |-> FALSE,
     needUnc |-> FALSE, i |-> 1, ents |-> <<>>, dirty |-> TRUE, ret |-> {}]

Frame(origin, mode, tagged) ==
    [origin |-> origin, mode |-> mode, tagged |-> tagged, pc |-> "fetch",
     man |-> origin.content, raw |-> origin, idx |-> 1, needSynth |-> FALSE,
     needUnc |-> FALSE, i |-> 1, ents |-> <<>>, dirty |-> FALSE, ret |-> {}]

\* The bytes a nested call returned.
Returned(f) == CHOOSE b \in f.ret : TRUE

SetTop(f) == stack' = [stack EXCEPT ![Len(stack)] = f]

Fail ==
    /\ stack' = <<>>
    /\ outcome' = [outcome EXCEPT ![attempt] = "failed"]

\* An exception that is no registry error (a KeyError) ends the replication.
Crash ==
    /\ stack' = <<>>
    /\ outcome' = [outcome EXCEPT ![attempt] = "crashed"]

\* Return from the top frame: the caller receives the manifest bytes.
Return(bytes) ==
    IF Len(stack) = 1
    THEN /\ stack' = <<>>
         /\ outcome' = [outcome EXCEPT ![attempt] = "ok"]
    ELSE /\ stack' = [Front(stack) EXCEPT ![Len(stack) - 1].ret = {bytes}]
         /\ UNCHANGED outcome

\* client.put_manifest; it may raise.
PutManifest(f, bytes) ==
    \/ /\ IF f.tagged
          THEN tgtTag' = {bytes} /\ UNCHANGED tgtDigests
          ELSE tgtDigests' = tgtDigests \cup {bytes} /\ UNCHANGED tgtTag
       /\ Return(bytes)
    \/ /\ Fail
       /\ UNCHANGED <<tgtTag, tgtDigests>>

\* The source manifest the registry answers for the top-level reference:
\* under REGISTRY_DEFAULTS some registries (c.listAsImage) answer a list
\* with one of its images.
Answer(c) ==
    IF c.src.content.kind = "list" /\ c.mode = "REGISTRY_DEFAULTS" /\ c.listAsImage
    THEN DefaultImage[c.src] ELSE c.src

-----------------------------------------------------------------------------
(* Steps of the top frame.  Every step performs at least one registry call *)
(* and may therefore raise instead (Fail).                                 *)

\* Faulty variant: a nested call inherits the caller's mode.
NestedModeInherited(f) == f.mode

\* The mode of a nested replicate_artifact call: it passes no mode.
NestedMode(f) == "REGISTRY_DEFAULTS"

\* client.manifest_raw and the dispatch on schema version and media type.
FetchManifest ==
    LET f == Top
        c == f.origin.content
    IN /\ stack # <<>>
       /\ f.pc = "fetch"
       /\ \/ /\ c.kind = "v1"
             /\ SetTop([f EXCEPT !.man = V1ToV2(c), !.needSynth = TRUE,
                                  !.needUnc = TRUE, !.pc = "blobs"])
             /\ UNCHANGED outcome
          \/ /\ c.kind = "v2" /\ f.mode = "NORMALISE_TO_MULTIARCH"
             /\ stack' = Append([stack EXCEPT ![Len(stack)].pc = "normalise"],
                                Frame(f.origin, NestedMode(f), FALSE))
             /\ UNCHANGED outcome
          \/ /\ c.kind = "v2" /\ f.mode # "NORMALISE_TO_MULTIARCH"
             /\ SetTop([f EXCEPT !.pc = "blobs"])
             /\ UNCHANGED outcome
          \/ /\ c.kind = "list"
             /\ SetTop([f EXCEPT !.ents = c.entries, !.pc = "entries"])
             /\ UNCHANGED outcome
          \/ Fail
       /\ UNCHANGED <<cfg, attempt, tgtBlobs, tgtTag, tgtDigests, blobPuts>>

\* Faulty variant: the HEAD request is not consulted.
SkipsExistingNever(f, b, isCfg) == FALSE

\* The blob need not be downloaded or uploaded: it exists in the target,
\* and either no uncompressed digests are needed or it is a layer whose
\* digest is computed from a download without upload.
SkipsExisting(f, b, isCfg) ==
    b \in tgtBlobs /\ (~f.needUnc \/ ~isCfg)

\* One iteration of the blob loop: HEAD in the target, then skip, download,
\* fall back to a synthesised config, or PUT.
CopyBlob ==
    LET f == Top
        b == BlobsOf(f.man)[f.idx]
        isCfg == f.idx = 1
        next == [f EXCEPT !.idx = @ + 1]
    IN /\ stack # <<>>
       /\ f.pc = "blobs"
       /\ f.idx <= Len(BlobsOf(f.man))
       /\ \/ /\ isCfg /\ f.needSynth
             /\ SetTop(next)
             /\ UNCHANGED <<outcome, tgtBlobs, blobPuts>>
          \/ /\ ~(isCfg /\ f.needSynth)
             /\ SkipsExisting(f, b, isCfg)
             /\ SetTop(next)
             /\ UNCHANGED <<outcome, tgtBlobs, blobPuts>>
          \/ /\ ~(isCfg /\ f.needSynth)
             /\ ~SkipsExisting(f, b, isCfg)
             /\ \/ /\ b \notin SrcBlobs /\ isCfg
                   /\ SetTop([next EXCEPT !.needSynth = TRUE])
                   /\ UNCHANGED <<outcome, tgtBlobs, blobPuts>>
                \/ /\ b \notin SrcBlobs /\ ~isCfg
                   /\ Fail
                   /\ UNCHANGED <<tgtBlobs, blobPuts>>
                \/ /\ b \in SrcBlobs
                   /\ tgtBlobs' = tgtBlobs \cup {b}
                   /\ blobPuts' = [blobPuts EXCEPT ![attempt] = @ + 1]
                   /\ SetTop(next)
                   /\ UNCHANGED outcome
          \/ /\ Fail
             /\ UNCHANGED <<tgtBlobs, blobPuts>>
       /\ UNCHANGED <<cfg, attempt, tgtTag, tgtDigests>>

\* After the blob loop: a config blob is synthesised from the v1 history and
\* PUT without a HEAD, and raw_manifest becomes the dumped manifest with
\* the new config digest; `manifest` itself keeps the old digest.  A v2
\* manifest has no history, so reading it raises KeyError.
SynthesiseCfg ==
    LET f == Top
        s == SynthCfg
    IN /\ stack # <<>>
       /\ f.pc = "blobs"
       /\ f.idx > Len(BlobsOf(f.man))
       /\ \/ /\ ~f.needSynth
             /\ SetTop([f EXCEPT !.pc = "annotate"])
             /\ UNCHANGED <<outcome, tgtBlobs, blobPuts>>
          \/ /\ f.needSynth /\ f.origin.content.kind = "v1"
             /\ tgtBlobs' = tgtBlobs \cup {s}
             /\ blobPuts' = [blobPuts EXCEPT ![attempt] = @ + 1]
             /\ SetTop([f EXCEPT !.raw = Dumped([f.man EXCEPT !.cfg = s]),
                                  !.pc = "annotate"])
             /\ UNCHANGED outcome
          \/ /\ f.needSynth /\ f.origin.content.kind # "v1"
             /\ Crash
             /\ UNCHANGED <<tgtBlobs, blobPuts>>
          \/ /\ f.needSynth
             /\ Fail
             /\ UNCHANGED <<tgtBlobs, blobPuts>>
       /\ UNCHANGED <<cfg, attempt, tgtTag, tgtDigests>>

\* Annotations are merged into `manifest`; if any is new or different the
\* manifest is dumped again.  Then the manifest is PUT and returned.
PutImageManifest ==
    LET f == Top
        ann == cfg.annotations
        dirty == ann # {} /\ ~(ann \subseteq f.man.ann)
        bytes == IF dirty THEN Dumped([f.man EXCEPT !.ann = @ \cup ann]) ELSE f.raw
    IN /\ stack # <<>>
       /\ f.pc = "annotate"
       /\ PutManifest(f, bytes)
       /\ UNCHANGED <<cfg, attempt, tgtBlobs, blobPuts>>

\* One iteration over the entries of a manifest list (over a copy, so the
\* positions are those of the source list): an entry the platform filter
\* rejects is removed; otherwise it is replicated by a nested call to an
\* untagged target reference with the default mode.
ReplicateSubManifest ==
    LET f == Top
        e == f.man.entries[f.i]
    IN /\ stack # <<>>
       /\ f.pc = "entries"
       /\ f.i <= Len(f.man.entries)
       /\ \/ /\ e.platform \notin cfg.filter
             /\ SetTop([f EXCEPT !.ents = RemoveFirst(@, e), !.dirty = TRUE,
                                 !.i = @ + 1])
             /\ UNCHANGED outcome
          \/ /\ e.platform \in cfg.filter
             /\ stack' = Append([stack EXCEPT ![Len(stack)].pc = "sub"],
                                Frame(e.digest, NestedMode(f), FALSE))
             /\ UNCHANGED outcome
          \/ Fail
       /\ UNCHANGED <<cfg, attempt, tgtBlobs, tgtTag, tgtDigests, blobPuts>>

\* `manifest.manifests.remove(sub_manifest)` then `.insert(idx, patched)`,
\* with idx the entry's position in the unfiltered source list.
PatchEntry(f, e) ==
    ListInsert(RemoveFirst(f.ents, e), f.i - 1, [e EXCEPT !.digest = Returned(f)])

\* The nested call returned: if the bytes it PUT hash differently from the
\* entry's digest, the entry is patched and the list becomes dirty.
SubManifestReturned ==
    LET f == Top
        e == f.man.entries[f.i]
    IN /\ stack # <<>>
       /\ f.pc = "sub"
       /\ f.ret # {}
       /\ SetTop([f EXCEPT !.ents = IF Returned(f) # e.digest THEN PatchEntry(f, e) ELSE @,
                           !.dirty = @ \/ Returned(f) # e.digest,
                           !.i = @ + 1, !.ret = {}, !.pc = "entries"])
       /\ UNCHANGED <<cfg, attempt, outcome, tgtBlobs, tgtTag, tgtDigests, blobPuts>>

\* After the entries: annotations, then the list is dumped only if dirty
\* (verbatim otherwise), PUT and returned.
PutListManifest ==
    LET f == Top
        ann == cfg.annotations
        dirty == f.dirty \/ (ann # {} /\ ~(ann \subseteq f.man.ann))
        bytes == IF dirty
                 THEN Dumped([f.man EXCEPT !.entries = f.ents, !.ann = @ \cup ann])
                 ELSE f.raw
    IN /\ stack # <<>>
       /\ f.pc = "entries"
       /\ f.i > Len(f.man.entries)
       /\ PutManifest(f, bytes)
       /\ UNCHANGED <<cfg, attempt, tgtBlobs, blobPuts>>

\* NORMALISE_TO_MULTIARCH, after the image was replicated by a nested call:
\* a one-entry list for the image's platform is dumped and PUT.
PutNormalisedList ==
    LET f == Top
        list == [kind |-> "list", cfg |-> NoBlob, layers |-> <<>>, ann |-> {},
                 platform |-> f.origin.content.platform,
                 entries |-> <<[digest |-> Returned(f),
                                platform |-> f.origin.content.platform]>>]
    IN /\ stack # <<>>
       /\ f.pc = "normalise"
       /\ f.ret # {}
       /\ PutManifest(f, Dumped(list))
       /\ UNCHANGED <<cfg, attempt, tgtBlobs, blobPuts>>

-----------------------------------------------------------------------------

Init ==
    /\ \E c \in Configs, listAsImage \in BOOLEAN :
          cfg = [src |-> c.src, mode |-> c.mode, filter |-> c.filter,
                 annotations |-> c.annotations, listAsImage |-> listAsImage]
    /\ attempt = 1
    /\ outcome = [a \in 1..MaxAttempts |-> IF a = 1 THEN "running" ELSE "none"]
    /\ stack = <<Frame(Answer(cfg), cfg.mode, TRUE)>>
    /\ tgtBlobs = {}
    /\ tgtTag = {}
    /\ tgtDigests = {}
    /\ blobPuts = [a \in 1..MaxAttempts |-> 0]

\* The caller replicates the same artefact again, after success or failure.
Replicate ==
    /\ stack = <<>>
    /\ attempt < MaxAttempts
    /\ attempt' = attempt + 1
    /\ outcome' = [outcome EXCEPT ![attempt + 1] = "running"]
    /\ stack' = <<Frame(Answer(cfg), cfg.mode, TRUE)>>
    /\ UNCHANGED <<cfg, tgtBlobs, tgtTag, tgtDigests, blobPuts>>

Next ==
    \/ FetchManifest
    \/ CopyBlob
    \/ SynthesiseCfg
    \/ PutImageManifest
    \/ ReplicateSubManifest
    \/ SubManifestReturned
    \/ PutListManifest
    \/ PutNormalisedList
    \/ Replicate

Spec == Init /\ [][Next]_vars

-----------------------------------------------------------------------------
(* Properties                                                              *)


TypeOK ==
    /\ attempt \in 1..MaxAttempts
    /\ outcome \in [1..MaxAttempts -> {"none", "running", "ok", "failed", "crashed"}]
    /\ tgtBlobs \subseteq Blobs
    /\ blobPuts \in [1..MaxAttempts -> Nat]
    /\ Len(stack) <= 2
    /\ \A k \in 1..Len(stack) :
          /\ stack[k].pc \in {"fetch", "blobs", "annotate", "entries", "sub", "normalise"}
          /\ stack[k].man.kind \in {"v2", "list"} \/ stack[k].pc = "fetch"

\* Everything a manifest in the target refers to is in the target: the
\* config blob and layers of an image, the sub-manifests of a list.  The
\* blob loop, the synthesis and the nested calls all precede the PUT of
\* the manifest that names their results.  A v1 image replicated with
\* annotations violates it (line 413: the PUT names the placeholder config),
\* so no passing run checks it.
ReferencedContentPresent ==
    \A m \in tgtDigests \cup tgtTag :
        IF m.content.kind = "list"
        THEN \A k \in 1..Len(m.content.entries) : m.content.entries[k].digest \in tgtDigests
        ELSE {m.content.cfg} \cup {m.content.layers[k] : k \in DOMAIN m.content.layers}
                \subseteq tgtBlobs

\* P5: with PREFER_MULTIARCH, no platform filter and no annotations, a
\* successful replication of a list leaves the source's bytes under the tag.
VerbatimList ==
    (/\ cfg.src.content.kind = "list" /\ cfg.mode = "PREFER_MULTIARCH"
     /\ cfg.filter = Platforms /\ cfg.annotations = {})
        => \A a \in 1..MaxAttempts : outcome[a] = "ok" => tgtTag = {cfg.src}

\* P6: replicating an artefact that has been replicated successfully PUTs
\* no blob; the HEAD requests find everything.
ReplicationIdempotent ==
    \A a \in 1..MaxAttempts - 1 :
        outcome[a] = "ok" => blobPuts[a + 1] = 0

\* P6 for sources that are not legacy v1 manifests, whose config blob is
\* synthesised and PUT without a HEAD: the skip of blobs already in the
\* target makes a second successful replication upload nothing.
VerbatimReplicationIdempotent ==
    cfg.src.content.kind # "v1" => ReplicationIdempotent

=============================================================================
