--------------------------- MODULE MCComponentIter ---------------------------
(* Three component versions; references form a diamond, a chain, or a     *)
(* cycle through or below the root, and the extra-references label may    *)
(* add an edge or close a cycle.                                           *)
EXTENDS ComponentIter, Integers, TLC

CONSTANTS c1, c2, c3

MCComps == {c1, c2, c3}
MCOrder == <<c1, c2, c3>>

MCRefChoices ==
    { (c1 :> {c2, c3}) @@ (c2 :> {c3}) @@ (c3 :> {}),   \* diamond
      (c1 :> {c2}) @@ (c2 :> {c3}) @@ (c3 :> {}),       \* chain
      (c1 :> {c2}) @@ (c2 :> {c1, c3}) @@ (c3 :> {}),   \* cycle through the root
      (c1 :> {c2, c3}) @@ (c2 :> {c3}) @@ (c3 :> {c2}) } \* cycle below the root

MCExtraChoices ==
    { [c \in MCComps |-> {}],
      (c1 :> {c3}) @@ (c2 :> {}) @@ (c3 :> {}),
      (c1 :> {}) @@ (c2 :> {}) @@ (c3 :> {c2}) }

MCComponentFilters == {{}, {c2}, {c1}}

MCDepths == {-1, 0, 1, 2}
=============================================================================
