----------------------------- MODULE MCDesktop -----------------------------
(***************************************************************************)
(* Desktop.tla for TLC: the values of the constants that a .cfg file       *)
(* cannot write.                                                           *)
(***************************************************************************)
EXTENDS Desktop, TLC

CONSTANTS o1, o2, l1, t1, t2, x1

NoLayers == << >>
OneLayer == (l1 :> o1)

WindowSymmetry == Permutations({t1, t2})

NoRule        == [workspace |-> -1, floating |-> FALSE]
NoRules       == {NoRule}
ScratchRule   == [workspace |-> 1, floating |-> TRUE]
SomeRules     == {NoRule, ScratchRule}
=============================================================================
