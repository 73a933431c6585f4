---------------------------- MODULE ComponentIter ----------------------------
(***************************************************************************)
(* The component traversal of src/cnudie/iter.py.  iter() is a generator:  *)
(* inner_iter yields the node of a component, the nodes of its resources,  *)
(* and then the nodes of every component its componentReferences and its   *)
(* extra-component-references label name, by nested generators; the outer  *)
(* loop applies node_filter and, with prune_unique, drops component nodes  *)
(* of component versions already seen.  The nested generators are a stack  *)
(* of frames; each action is one resumption of the innermost generator.    *)
(*                                                                         *)
(* A component stands for its identity; a component has one resource       *)
(* (sources are yielded the same way and are left out); lookup always     *)
(* finds the referenced descriptor.                                        *)
(***************************************************************************)
EXTENDS Integers, Sequences, FiniteSets
LOCAL INSTANCE Relation
LOCAL INSTANCE Functions

CONSTANTS
    Comps,          \* component versions
    Order,          \* a sequence of Comps: the order references are listed in
    Root,           \* the component iter() is called with
    RefChoices,     \* possible componentReferences: [Comps -> SUBSET Comps]
    ExtraChoices,   \* possible extra-component-references labels
    Depths,         \* recursion_depth values (-1 is unlimited)
    NodeFilters,    \* node_filter values: "none" or "resources" (iter_resources)
    ComponentFilters \* component_filter values: the sets of components it excludes

\* The elements of S in the order of Order.
Ordered(S) == SelectSeq(Order, LAMBDA c : c \in S)

ReftypeNames == {"componentReference", "extraComponentRefsLabel"}

VARIABLES
    cfg,    \* the arguments: refs, extra, depth, prune, nodeFilter,
            \* componentFilter, reftypeFilter
    stack,  \* frames of the active inner_iter generators, innermost last
    out,    \* the nodes iter() has yielded
    seen    \* seen_component_ids

vars == <<cfg, stack, out, seen>>

ComponentNode(c) == [kind |-> "component", comp |-> c]
ResourceNode(c) == [kind |-> "resource", comp |-> c]

\* The whole configuration space, minus unlimited recursion into a cycle,
\* where iter() never ends.
Edge(refs, extra) == [x, y \in Comps |-> y \in refs[x] \/ y \in extra[x]]
Acyclic(refs, extra) == IsIrreflexive(TransitiveClosure(Edge(refs, extra), Comps), Comps)

Frame(c, depth, reftype) ==
    [comp |-> c, depth |-> depth, reftype |-> reftype, stage |-> "enter", k |-> 1]

Top == stack[Len(stack)]
SetTop(f) == stack' = [stack EXCEPT ![Len(stack)] = f]
Pop == stack' = SubSeq(stack, 1, Len(stack) - 1)

\* Faulty variant: the component id is never added to the seen set.
PassOuterLoopNoRecord(node) ==
    LET filtered == cfg.nodeFilter = "resources" /\ node.kind # "resource"
        pruned == cfg.prune /\ node.kind = "component" /\ node.comp \in seen
    IN /\ out' = IF filtered \/ pruned THEN out ELSE Append(out, node)
       /\ UNCHANGED seen

\* The body of the outer `for node in inner_iter(...)` loop for one node.
PassOuterLoop(node) ==
    LET filtered == cfg.nodeFilter = "resources" /\ node.kind # "resource"
        pruned == cfg.prune /\ node.kind = "component" /\ node.comp \in seen
    IN IF filtered \/ pruned
       THEN UNCHANGED <<out, seen>>
       ELSE /\ out' = Append(out, node)
            /\ seen' = IF cfg.prune /\ node.kind = "component"
                       THEN seen \cup {node.comp} ELSE seen

-----------------------------------------------------------------------------

\* inner_iter starts: the filters may end it at once; otherwise the
\* component node is yielded.
EnterComponent ==
    LET f == Top
    IN /\ stack # <<>>
       /\ f.stage = "enter"
       /\ IF f.comp \in cfg.componentFilter \/ f.reftype \in cfg.reftypeFilter
          THEN Pop /\ UNCHANGED <<out, seen>>
          ELSE SetTop([f EXCEPT !.stage = "resources"]) /\ PassOuterLoop(ComponentNode(f.comp))
       /\ UNCHANGED cfg

\* Faulty variant: the depth is decremented before the test for 0.
StopsAtDepthEarly(d) == d <= 1 /\ d # -1

\* recursion_depth == 0 ends the generator after the resources.
StopsAtDepth(d) == d = 0

\* Faulty variant: the references are resolved with the depth unchanged.
DecrementedDepthKept(d) == d

\* Faulty variant: the decrement without the `elif recursion_depth > 0`.
DecrementedDepthUnguarded(d) == d - 1

\* The depth the references are resolved with.
DecrementedDepth(d) == IF d > 0 THEN d - 1 ELSE d

\* The resource node is yielded; then the recursion depth is tested and
\* decremented.
YieldResources ==
    LET f == Top
    IN /\ stack # <<>>
       /\ f.stage = "resources"
       /\ PassOuterLoop(ResourceNode(f.comp))
       /\ IF StopsAtDepth(f.depth)
          THEN Pop
          ELSE SetTop([f EXCEPT !.stage = "refs", !.k = 1,
                                !.depth = DecrementedDepth(@)])
       /\ UNCHANGED cfg

\* The next componentReference is looked up and a nested inner_iter for it
\* is entered; after the last, the extra-references label is read.
ResolveReference ==
    LET f == Top
        refs == Ordered(cfg.refs[f.comp])
    IN /\ stack # <<>>
       /\ f.stage = "refs"
       /\ IF f.k <= Len(refs)
          THEN stack' = Append([stack EXCEPT ![Len(stack)].k = f.k + 1],
                               Frame(refs[f.k], f.depth, "componentReference"))
          ELSE IF cfg.extra[f.comp] = {}
               THEN Pop
               ELSE SetTop([f EXCEPT !.stage = "extras", !.k = 1])
       /\ UNCHANGED <<cfg, out, seen>>

\* The next entry of the label is looked up and entered with reftype
\* EXTRA_COMPONENT_REFS_LABEL; after the last the generator ends.
ResolveExtraReference ==
    LET f == Top
        extra == Ordered(cfg.extra[f.comp])
    IN /\ stack # <<>>
       /\ f.stage = "extras"
       /\ IF f.k <= Len(extra)
          THEN stack' = Append([stack EXCEPT ![Len(stack)].k = f.k + 1],
                               Frame(extra[f.k], f.depth, "extraComponentRefsLabel"))
          ELSE Pop
       /\ UNCHANGED <<cfg, out, seen>>

Init ==
    /\ cfg \in {c \in [refs : RefChoices, extra : ExtraChoices, depth : Depths,
                       prune : BOOLEAN, nodeFilter : NodeFilters,
                       componentFilter : ComponentFilters,
                       reftypeFilter : {{}, {"extraComponentRefsLabel"}}] :
                  c.depth = -1 => Acyclic(c.refs, c.extra)}
    /\ stack = <<Frame(Root, cfg.depth, "componentReference")>>
    /\ out = <<>>
    /\ seen = {}

Next ==
    \/ EnterComponent
    \/ YieldResources
    \/ ResolveReference
    \/ ResolveExtraReference

Spec == Init /\ [][Next]_vars

-----------------------------------------------------------------------------
(* components() of src/cnudie/retrieve.py, a second traversal of the       *)
(* componentReferences: a recursive generator that yields a component and  *)
(* then, depth first, every referenced version not yet in the list of      *)
(* visited versions, appending it to the list before resolving it.  It     *)
(* depends on the references only, so it is an operator of cfg.refs; the   *)
(* state is the yielded sequence and the visited versions.                 *)

RECURSIVE ResolveDependencies(_, _), ResolveReferences(_, _, _)

\* resolve_component_dependencies(c): yield c, then its references.
ResolveDependencies(c, st) ==
    ResolveReferences(Ordered(cfg.refs[c]), 1, [st EXCEPT !.out = Append(@, c)])

\* The `for component_ref in component.componentReferences` loop from the
\* k-th reference on.
ResolveReferences(rs, k, st) ==
    IF k > Len(rs) THEN st
    ELSE IF rs[k] \in st.visited THEN ResolveReferences(rs, k + 1, st)
    ELSE ResolveReferences(rs, k + 1,
                           ResolveDependencies(rs[k], [st EXCEPT !.visited = @ \cup {rs[k]}]))

\* Faulty variant: the visited list starts empty instead of with the root.
ComponentsRootUnvisited(c) == ResolveDependencies(c, [out |-> <<>>, visited |-> {}]).out

\* components(c): the sequence the generator yields.
Components(c) == ResolveDependencies(c, [out |-> <<>>, visited |-> {c}]).out

-----------------------------------------------------------------------------
(* Reference definitions and properties                                    *)

\* The components reachable from S in at most d steps along references of
\* a reftype the filter keeps, through components the filter keeps.
RECURSIVE ReachWithin(_, _)
ReachWithin(S, d) ==
    LET step == {y \in Comps \ cfg.componentFilter :
                   \E x \in S : \/ y \in cfg.refs[x]
                                \/ y \in cfg.extra[x]
                                   /\ "extraComponentRefsLabel" \notin cfg.reftypeFilter}
    IN IF d = 0 \/ step \subseteq S THEN S ELSE ReachWithin(S \cup step, d - 1)

\* What iter() promises: the transitive closure of the components reachable
\* within recursion_depth (-1: unbounded).
Expected ==
    IF Root \in cfg.componentFilter THEN {}
    ELSE ReachWithin({Root}, IF cfg.depth = -1 THEN Cardinality(Comps) ELSE cfg.depth)

Done == stack = <<>>

TypeOK ==
    /\ \A k \in 1..Len(stack) :
          /\ stack[k].stage \in {"enter", "resources", "refs", "extras"}
          /\ stack[k].reftype \in ReftypeNames
          /\ stack[k].depth \in Depths \cup 0..Cardinality(Comps)
    /\ \A k \in 1..Len(out) : out[k].kind \in {"component", "resource"}
    /\ seen \subseteq Comps

\* When the generator is exhausted, it has yielded a component node for
\* exactly the reachable components (none with iter_resources) and a
\* resource node of each of them, and with prune_unique no component node
\* twice.
YieldsClosure ==
    Done =>
        /\ {out[k].comp : k \in {j \in 1..Len(out) : out[j].kind = "resource"}} = Expected
        /\ {out[k].comp : k \in {j \in 1..Len(out) : out[j].kind = "component"}}
              = IF cfg.nodeFilter = "resources" THEN {} ELSE Expected
        /\ cfg.prune =>
              \A j, k \in 1..Len(out) :
                  (j < k /\ out[j].kind = "component") => out[j] # out[k]

\* components() yields every component version reachable from the root
\* along componentReferences, the root first, and each exactly once,
\* also when references form a diamond or a cycle through the root.
ComponentsOnce ==
    LET ys == Components(Root)
        reach == ReflexiveTransitiveClosure([x, y \in Comps |-> y \in cfg.refs[x]], Comps)
    IN /\ IsInjective(ys)
       /\ ys[1] = Root
       /\ {ys[k] : k \in DOMAIN ys} = {y \in Comps : reach[Root, y]}

\* inner_iter recurses through nested generators, one Python frame chain
\* per level, and never ends on a reference cycle by itself: the number
\* of nested generators never exceeds recursion_depth + 1, and with
\* unlimited depth (only on acyclic references) the number of components.
NestingBounded ==
    Len(stack) <= IF cfg.depth = -1 THEN Cardinality(Comps) ELSE cfg.depth + 1

=============================================================================
