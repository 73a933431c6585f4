----------------------------- MODULE OciTarStream -----------------------------
(***************************************************************************)
(* oci.image_layers_as_tarfile_generator (src/oci/__init__.py): a         *)
(* generator that streams the blobs of an OCI image as the members of a    *)
(* tar archive, for upload to a scanner.  Per blob it yields a 512-byte    *)
(* header, the blob's bytes in chunks, then NUL bytes up to the next block *)
(* boundary; after the last blob two empty blocks end the archive.         *)
(*                                                                         *)
(* The stream is a sequence of segments: a header (with the member's       *)
(* digest and size), a data chunk or a run of NUL bytes, each with its      *)
(* length in bytes.  The registry streams exactly the size the manifest    *)
(* declares.  tarinfo.offset and offset_data are not written by tobuf() and *)
(* are left out.                                                           *)
(***************************************************************************)
EXTENDS Naturals, Sequences

CONSTANTS
    BlockSize,      \* tarfile.BLOCKSIZE
    ChunkSize,      \* chunk_size of iter_content (tarfile.RECORDSIZE)
    Manifests,      \* the manifests the registry may answer: an image
                    \* [kind |-> "image", config, layers] or a list
                    \* [kind |-> "list", manifests : a sequence of images]
    IncludeConfig,  \* include_config_blob values
    Fallback        \* fallback_to_first_subimage_if_index values

VARIABLES
    args,           \* include_config_blob and fallback_to_first_subimage_if_index
    manifest,       \* the manifest the registry answered
    blobs,          \* the blobs the loop iterates over
    i,              \* index of the current blob
    stage,          \* "fetch", "header", "data", "pad", "done" or "raised"
    uploadedBytes,  \* uploaded_bytes of the current member
    stream          \* the segments yielded so far

vars == <<args, manifest, blobs, i, stage, uploadedBytes, stream>>

Seg(kind, d, n) == [kind |-> kind, digest |-> d, len |-> n]
Header(b) == [kind |-> "header", digest |-> b.digest, len |-> BlockSize, size |-> b.size]

\* manifest.blobs(): the config blob first, then the layers.
BlobsOf(m) == <<m.config>> \o m.layers

-----------------------------------------------------------------------------

\* The manifest is fetched with prefer_multiarch; an index is replaced by
\* its first image with the fallback, and otherwise has no blobs() (the
\* AttributeError ends the generator).
FetchManifest ==
    /\ stage = "fetch"
    /\ LET m == IF manifest.kind = "list" /\ args.fallback THEN manifest.manifests[1]
                ELSE manifest
       IN IF m.kind = "list"
          THEN stage' = "raised" /\ UNCHANGED blobs
          ELSE /\ blobs' = IF args.includeConfig THEN BlobsOf(m) ELSE m.layers
               /\ stage' = "header"
    /\ UNCHANGED <<args, manifest, i, uploadedBytes, stream>>

\* `yield tarinfo_bytes` for the next blob, or the two empty blocks that
\* end the archive after the last one.
YieldHeader ==
    /\ stage = "header"
    /\ IF i <= Len(blobs)
       THEN /\ stream' = Append(stream, Header(blobs[i]))
            /\ uploadedBytes' = BlockSize
            /\ stage' = "data"
       ELSE /\ stream' = Append(stream, Seg("nul", "none", 2 * BlockSize))
            /\ stage' = "done"
            /\ UNCHANGED uploadedBytes
    /\ UNCHANGED <<args, manifest, blobs, i>>

\* One chunk of iter_content(chunk_size=chunk_size); uploaded_bytes counts
\* it.
YieldChunk ==
    LET left == BlockSize + blobs[i].size - uploadedBytes
        n == IF left < ChunkSize THEN left ELSE ChunkSize
    IN /\ stage = "data"
       /\ IF left > 0
          THEN /\ stream' = Append(stream, Seg("data", blobs[i].digest, n))
               /\ uploadedBytes' = uploadedBytes + n
               /\ UNCHANGED stage
          ELSE stage' = "pad" /\ UNCHANGED <<stream, uploadedBytes>>
       /\ UNCHANGED <<args, manifest, blobs, i>>

\* The NUL bytes that pad a member of n bytes (header included) to a
\* block boundary: `tarfile.BLOCKSIZE - (uploaded_bytes % tarfile.BLOCKSIZE)`.
Missing(n) == BlockSize - (n % BlockSize)

\* `if (missing := ...): yield tarfile.NUL * missing`, then the next blob.
YieldPadding ==
    /\ stage = "pad"
    /\ stream' = IF Missing(uploadedBytes) # 0
                 THEN Append(stream, Seg("nul", "none", Missing(uploadedBytes)))
                 ELSE stream
    /\ i' = i + 1
    /\ stage' = "header"
    /\ UNCHANGED <<args, manifest, blobs, uploadedBytes>>

Init ==
    /\ args \in [includeConfig : IncludeConfig, fallback : Fallback]
    /\ manifest \in Manifests
    /\ blobs = <<>>
    /\ i = 1
    /\ stage = "fetch"
    /\ uploadedBytes = 0
    /\ stream = <<>>

Next == FetchManifest \/ YieldHeader \/ YieldChunk \/ YieldPadding

Spec == Init /\ [][Next]_vars

-----------------------------------------------------------------------------
(* A tar reader over the stream                                            *)

\* The byte offset at which segment j starts.
RECURSIVE StartOf(_)
StartOf(j) == IF j = 1 THEN 0 ELSE StartOf(j - 1) + stream[j - 1].len

StreamLen == IF stream = <<>> THEN 0 ELSE StartOf(Len(stream)) + stream[Len(stream)].len

\* The header segment that starts at byte offset pos, if any.
HeadersAt(pos) == {j \in DOMAIN stream : stream[j].kind = "header" /\ StartOf(j) = pos}

CeilDiv(n, d) == (n + d - 1) \div d

\* The members a reader (tarfile with ignore_zeros False, GNU tar) lists:
\* from the block at pos on, a header is a member whose data takes the
\* following ceil(size / 512) blocks; an empty block ends the archive.
RECURSIVE MembersFrom(_)
MembersFrom(pos) ==
    IF pos >= StreamLen \/ HeadersAt(pos) = {} THEN <<>>
    ELSE LET h == stream[CHOOSE j \in HeadersAt(pos) : TRUE]
         IN <<h.digest>> \o MembersFrom(pos + BlockSize * (1 + CeilDiv(h.size, BlockSize)))

TypeOK ==
    /\ stage \in {"fetch", "header", "data", "pad", "done", "raised"}
    /\ i \in 1..Len(blobs) + 1
    /\ \A j \in DOMAIN stream : stream[j].kind \in {"header", "data", "nul"}

\* The docstring: the generator yields a tar archive with the image's blobs
\* as members.  When it is exhausted, a reader lists every blob of the
\* loop, in order, whatever the sizes of the blobs.
ArchiveListsEveryBlob ==
    stage = "done" => MembersFrom(0) = [k \in DOMAIN blobs |-> blobs[k].digest]
=============================================================================
