--------------------------- MODULE ComponentLookup ---------------------------
(***************************************************************************)
(* The layered component-descriptor lookup of src/cnudie/retrieve.py, as   *)
(* create_default_component_descriptor_lookup composes it: an in-memory    *)
(* LRU cache, a file-system cache, the delivery service and the OCI        *)
(* registry, asked in this order by composite_component_descriptor_lookup. *)
(* A cache layer that misses returns a WriteBack; when a later layer finds *)
(* the descriptor, the composite invokes the collected write-backs in      *)
(* order.                                                                  *)
(*                                                                         *)
(* Several processes look up descriptors; each has its own in-memory cache *)
(* and all share the cache directory.  A layer is either asked with the    *)
(* query's repository context, or, when the lookups were built with a      *)
(* mapping_config, with the repositories the mapping yields.  A descriptor *)
(* is identified with the (identity, repository) it is stored under, and   *)
(* its current_repository_ctx is that repository.                          *)
(***************************************************************************)
EXTENDS Naturals, SequencesExt, FiniteSets

CONSTANTS
    Procs,          \* processes sharing the cache directory
    Ids,            \* component identities
    Repos,          \* OCM repository contexts
    Stored,         \* SUBSET (Ids \X Repos): descriptors in the OCI registries
    DeliveryKnows,  \* SUBSET Stored: what the delivery service answers
    Mapping,        \* iter_ocm_repositories of the mapping config (a sequence)
    MappedChoices,  \* whether the lookups are built with a mapping_config
    Queries,        \* SUBSET [id : Ids, ctx : Repos]
    HasFs,          \* a cache_dir is configured
    HasDelivery,    \* a delivery client is available
    CacheSize,      \* maxsize of the in-memory LRUCache
    CrossDeviceChoices, \* whether the temp dir and cache_dir are on different devices
    MaxLookups      \* lookups per process

\* The descriptor stored under (i, r); its current repository context is r.
Desc(i, r) == [id |-> i, ctx |-> r]

\* The lookups create_default_component_descriptor_lookup composes.
Layers ==
    <<"memory">> \o (IF HasFs THEN <<"filesystem">> ELSE <<>>)
                 \o (IF HasDelivery THEN <<"delivery">> ELSE <<>>) \o <<"oci">>

LayerNames == {"memory", "filesystem", "delivery", "oci"}

Outcomes == {"none", "ok", "notfound", "error", "unreadable", "raised"}

\* The first element of sequence s that is in S.
FirstIn(s, S) == s[CHOOSE k \in DOMAIN s : s[k] \in S /\ \A j \in 1..k - 1 : s[j] \notin S]

VARIABLES
    mapped,     \* lookups built with a mapping_config
    crossDevice, \* the temp dir lies on another device than cache_dir
    pc,         \* "idle", "lookup" (asking layer `layer`) or "writeback"
    query,      \* the identity and repository context asked for
    layer,      \* index in Layers of the layer being asked
    writebacks, \* the names of the layers whose WriteBack was collected
    wbNext,     \* index of the next write-back to invoke
    found,      \* {} or {the descriptor a layer returned}
    hitLayer,   \* the index of the layer that returned it, 0 if none did
    invoked,    \* write-back invocations per layer during this lookup
    outcome,    \* how the last lookup of each process ended
    lru,        \* in-memory cache: [key, desc] entries, least recent first
    fs,         \* cache files: "absent", "partial" (being copied), "complete"
    fsDirs,     \* repository sub-directories of the cache directory
    moving,     \* {} or {the cache file a write-back is copying}
    count       \* lookups started per process

vars == <<mapped, crossDevice, pc, query, layer, writebacks, wbNext, found, hitLayer,
          invoked, outcome, lru, fs, fsDirs, moving, count>>

\* The repositories a layer asks, in order.
Candidates(p) == IF mapped THEN Mapping ELSE <<query[p].ctx>>

CachedKeys(p) == {lru[p][k].key : k \in DOMAIN lru[p]}

\* LRUCache.get of a present key makes it the most recently used.
Touch(s, key) == SelectSeq(s, LAMBDA e : e.key # key) \o SelectSeq(s, LAMBDA e : e.key = key)

\* Faulty variant: the cache never evicts.
LruSetNoEvict(s, key, d) ==
    Append(SelectSeq(s, LAMBDA e : e.key # key), [key |-> key, desc |-> d])

\* LRUCache.__setitem__: a new key evicts the least recently used entry
\* when the cache is full; the key becomes the most recently used.
LruSet(s, key, d) ==
    LET rest == SelectSeq(s, LAMBDA e : e.key # key)
    IN IF Len(rest) = Len(s) /\ Len(s) >= CacheSize
       THEN Append(Tail(s), [key |-> key, desc |-> d])
       ELSE Append(rest, [key |-> key, desc |-> d])

\* The lookup of process p ends.
End(p, o) ==
    /\ pc' = [pc EXCEPT ![p] = "idle"]
    /\ outcome' = [outcome EXCEPT ![p] = o]

\* The layer missed (returning a WriteBack if wb): the composite asks the
\* next one; after the last it raises OciImageNotFoundException
\* (default_absent_ok is False).
Advance(p, wb) ==
    /\ writebacks' = [writebacks EXCEPT ![p] = IF wb THEN Append(@, Layers[layer[p]]) ELSE @]
    /\ IF layer[p] = Len(Layers)
       THEN End(p, "notfound") /\ UNCHANGED layer
       ELSE layer' = [layer EXCEPT ![p] = @ + 1] /\ UNCHANGED <<pc, outcome>>
    /\ UNCHANGED <<found, hitLayer, wbNext>>

\* The layer returned descriptor d: the composite replays the write-backs.
Hit(p, d) ==
    /\ found' = [found EXCEPT ![p] = {d}]
    /\ hitLayer' = [hitLayer EXCEPT ![p] = layer[p]]
    /\ pc' = [pc EXCEPT ![p] = "writeback"]
    /\ wbNext' = [wbNext EXCEPT ![p] = 1]
    /\ UNCHANGED <<layer, writebacks, outcome>>

Asking(p, name) == pc[p] = "lookup" /\ Layers[layer[p]] = name

-----------------------------------------------------------------------------
(* One action per layer lookup, one per write-back.                        *)

StartLookup(p, q) ==
    /\ pc[p] = "idle"
    /\ count[p] < MaxLookups
    /\ pc' = [pc EXCEPT ![p] = "lookup"]
    /\ query' = [query EXCEPT ![p] = q]
    /\ layer' = [layer EXCEPT ![p] = 1]
    /\ writebacks' = [writebacks EXCEPT ![p] = <<>>]
    /\ found' = [found EXCEPT ![p] = {}]
    /\ hitLayer' = [hitLayer EXCEPT ![p] = 0]
    /\ invoked' = [invoked EXCEPT ![p] = [l \in LayerNames |-> 0]]
    /\ count' = [count EXCEPT ![p] = @ + 1]
    /\ UNCHANGED <<mapped, crossDevice, wbNext, outcome, lru, fs, fsDirs, moving>>

\* in_memory_cache_component_descriptor_lookup.lookup: the first candidate
\* repository with a cache entry answers; otherwise the WriteBack.
MemoryLookup(p) ==
    LET hits == {c \in Range(Candidates(p)) : <<query[p].id, c>> \in CachedKeys(p)}
        key == <<query[p].id, FirstIn(Candidates(p), hits)>>
    IN /\ Asking(p, "memory")
       /\ IF hits # {}
          THEN /\ lru' = [lru EXCEPT ![p] = Touch(@, key)]
               /\ Hit(p, Desc(key[1], key[2]))
          ELSE /\ Advance(p, TRUE)
               /\ UNCHANGED lru
       /\ UNCHANGED <<mapped, crossDevice, query, invoked, fs, fsDirs, moving, count>>

\* file_system_cache_component_descriptor_lookup.lookup: the path of the
\* first candidate only; an existing file is parsed (a partly copied one
\* fails to parse), a missing one has its directory created.
FsLookup(p) ==
    LET r == Head(Candidates(p))
        path == <<query[p].id, r>>
    IN /\ Asking(p, "filesystem")
       /\ CASE fs[path] = "complete" -> Hit(p, Desc(path[1], path[2])) /\ UNCHANGED fsDirs
            [] fs[path] = "partial"  -> End(p, "unreadable")
                                        /\ UNCHANGED <<layer, writebacks, wbNext, found,
                                                       hitLayer, fsDirs>>
            [] OTHER                 -> Advance(p, TRUE) /\ fsDirs' = fsDirs \cup {r}
       /\ UNCHANGED <<mapped, crossDevice, query, invoked, lru, fs, moving, count>>

\* delivery_service_component_descriptor_lookup.lookup: the service is
\* asked per candidate and every exception is swallowed, so any candidate
\* it knows may answer, or none.
DeliveryLookup(p) ==
    /\ Asking(p, "delivery")
    /\ \/ \E c \in Range(Candidates(p)) :
            /\ <<query[p].id, c>> \in DeliveryKnows
            /\ Hit(p, Desc(query[p].id, c))
       \/ Advance(p, FALSE)
    /\ UNCHANGED <<mapped, crossDevice, query, invoked, lru, fs, fsDirs, moving, count>>

\* Faulty variant: the loop over the mapping's repositories breaks after
\* the first one, whether its manifest exists or not.
OciPresentFirstOnly(p) ==
    {c \in {Head(Candidates(p))} : <<query[p].id, c>> \in Stored}

\* The candidate repositories in which the manifest of the queried
\* component descriptor exists.
OciPresent(p) == {c \in Range(Candidates(p)) : <<query[p].id, c>> \in Stored}

\* oci_component_descriptor_lookup.lookup: the first candidate whose
\* manifest exists; the blob requests that follow may raise.
OciLookup(p) ==
    LET present == OciPresent(p)
    IN /\ Asking(p, "oci")
       /\ IF present = {}
          THEN Advance(p, FALSE)
          ELSE \/ Hit(p, Desc(query[p].id, FirstIn(Candidates(p), present)))
               \/ /\ End(p, "error")
                  /\ UNCHANGED <<layer, writebacks, wbNext, found, hitLayer>>
       /\ UNCHANGED <<mapped, crossDevice, query, invoked, lru, fs, fsDirs, moving, count>>

\* Faulty variant: the composite keys the write-back by the queried context.
MemoryKeyQueried(p, d) == <<query[p].id, query[p].ctx>>

\* The in-memory write-back keys the descriptor by its own current
\* repository context.
MemoryKey(p, d) == <<query[p].id, d.ctx>>

\* Faulty variant: the last collected write-back is left out.
PendingWriteBacksOffByOne(p) == Len(writebacks[p]) - 1

\* `for wb in writebacks`: the write-backs the composite replays.
PendingWriteBacks(p) == Len(writebacks[p])

\* One write-back.  The file-system one writes a temp file in the default
\* temp dir and shutil.move's it to the descriptor's path; the move raises
\* when the repository's directory does not exist, and across devices it
\* copies into the (truncated) target file instead of renaming.
WriteBack(p) ==
    LET l == writebacks[p][wbNext[p]]
        d == CHOOSE x \in found[p] : TRUE
        path == <<query[p].id, d.ctx>>
    IN /\ pc[p] = "writeback"
       /\ moving[p] = {}
       /\ wbNext[p] <= PendingWriteBacks(p)
       /\ invoked' = [invoked EXCEPT ![p][l] = @ + 1]
       /\ wbNext' = [wbNext EXCEPT ![p] = @ + 1]
       /\ CASE l = "memory" ->
                 /\ lru' = [lru EXCEPT ![p] = LruSet(@, MemoryKey(p, d), d)]
                 /\ UNCHANGED <<pc, outcome, fs, moving>>
            [] d.ctx \notin fsDirs ->
                 /\ End(p, "raised")
                 /\ UNCHANGED <<lru, fs, moving>>
            [] crossDevice ->
                 /\ fs' = [fs EXCEPT ![path] = "partial"]
                 /\ moving' = [moving EXCEPT ![p] = {path}]
                 /\ UNCHANGED <<pc, outcome, lru>>
            [] OTHER ->
                 /\ fs' = [fs EXCEPT ![path] = "complete"]
                 /\ UNCHANGED <<pc, outcome, lru, moving>>
       /\ UNCHANGED <<mapped, crossDevice, query, layer, writebacks, found, hitLayer, fsDirs, count>>

\* The cross-device copy of shutil.move completes.
FinishMove(p) ==
    /\ moving[p] # {}
    /\ fs' = [q \in DOMAIN fs |-> IF q \in moving[p] THEN "complete" ELSE fs[q]]
    /\ moving' = [moving EXCEPT ![p] = {}]
    /\ UNCHANGED <<mapped, crossDevice, pc, query, layer, writebacks, wbNext, found, hitLayer,
                   invoked, outcome, lru, fsDirs, count>>

\* All write-backs done: the composite returns the descriptor.
ReturnDescriptor(p) ==
    /\ pc[p] = "writeback"
    /\ moving[p] = {}
    /\ wbNext[p] > PendingWriteBacks(p)
    /\ End(p, "ok")
    /\ UNCHANGED <<mapped, crossDevice, query, layer, writebacks, wbNext, found, hitLayer,
                   invoked, lru, fs, fsDirs, moving, count>>

-----------------------------------------------------------------------------

Init ==
    /\ mapped \in MappedChoices
    /\ crossDevice \in CrossDeviceChoices
    /\ pc = [p \in Procs |-> "idle"]
    /\ query = [p \in Procs |-> CHOOSE q \in Queries : TRUE]
    /\ layer = [p \in Procs |-> 1]
    /\ writebacks = [p \in Procs |-> <<>>]
    /\ wbNext = [p \in Procs |-> 1]
    /\ found = [p \in Procs |-> {}]
    /\ hitLayer = [p \in Procs |-> 0]
    /\ invoked = [p \in Procs |-> [l \in LayerNames |-> 0]]
    /\ outcome = [p \in Procs |-> "none"]
    /\ lru = [p \in Procs |-> <<>>]
    /\ fs = [k \in Ids \X Repos |-> "absent"]
    /\ fsDirs = {}
    /\ moving = [p \in Procs |-> {}]
    /\ count = [p \in Procs |-> 0]

Next ==
    \E p \in Procs :
        \/ \E q \in Queries : StartLookup(p, q)
        \/ MemoryLookup(p)
        \/ FsLookup(p)
        \/ DeliveryLookup(p)
        \/ OciLookup(p)
        \/ WriteBack(p)
        \/ FinishMove(p)
        \/ ReturnDescriptor(p)

Spec == Init /\ [][Next]_vars

-----------------------------------------------------------------------------
(* Properties                                                              *)

TypeOK ==
    /\ mapped \in BOOLEAN
    /\ crossDevice \in BOOLEAN
    /\ pc \in [Procs -> {"idle", "lookup", "writeback"}]
    /\ outcome \in [Procs -> Outcomes]
    /\ \A p \in Procs :
          /\ Len(lru[p]) <= CacheSize
          /\ Range(writebacks[p]) \subseteq {"memory", "filesystem"}
          /\ found[p] \subseteq {Desc(i, r) : i \in Ids, r \in Repos}
    /\ fs \in [Ids \X Repos -> {"absent", "partial", "complete"}]
    /\ fsDirs \subseteq Repos

\* P9: when a layer returns the descriptor, the composite has invoked,
\* by the time it returns or raises, the write-back of every earlier layer
\* that returned one exactly once, and no other.
WriteBackOnHit ==
    \A p \in Procs :
        (pc[p] = "idle" /\ hitLayer[p] # 0)
            => \A l \in LayerNames :
                  invoked[p][l] = IF l \in Range(writebacks[p]) THEN 1 ELSE 0

\* What a cache answers for a key is what the registry holds under that
\* key: every in-memory entry and every complete cache file of (i, r)
\* is the descriptor stored in repository r, although a lookup under a
\* mapping finds it while asked for another context.
CacheCoherent ==
    /\ \A p \in Procs : \A k \in DOMAIN lru[p] :
          /\ lru[p][k].key \in Stored
          /\ lru[p][k].desc = Desc(lru[p][k].key[1], lru[p][k].key[2])
    /\ \A path \in DOMAIN fs : fs[path] = "complete" => path \in Stored

\* The spec: cache files are written to a temp file in the cache directory
\* and renamed atomically, so a concurrent reader never parses a partly
\* written file.
FsCacheReadable == \A p \in Procs : outcome[p] # "unreadable"

\* The composite lookup, its caches and write-backs included, implements
\* the abstract lookup: a process is busy from StartLookup until End, an
\* unreadable cache file or a raising write-back is one more error, and
\* the descriptor returned is the one found.
ABS == INSTANCE ComponentLookupAbstract
    WITH apc <- [p \in Procs |-> IF pc[p] = "idle" THEN "idle" ELSE "busy"],
         aquery <- query,
         aoutcome <- [p \in Procs |-> IF outcome[p] \in {"none", "ok", "notfound"}
                                      THEN outcome[p] ELSE "error"],
         answer <- [p \in Procs |-> IF pc[p] = "idle" /\ outcome[p] = "ok"
                                    THEN found[p] ELSE {}],
         acount <- count

\* Every lookup the composite answers with a descriptor returns one of the
\* queried identity stored in a repository it was asked in (the query's
\* context, or one the mapping config yields), whichever cache answered;
\* it raises OciImageNotFoundException only when no such repository
\* stores it.
LookupRefinesAbstract == ABS!Spec

\* A lookup that found the descriptor returns it: the write-backs that
\* populate the caches never make it raise.
WriteBackNeverRaises == \A p \in Procs : outcome[p] # "raised"
=============================================================================
