------------------------------ MODULE MCPhysMem ------------------------------
(***************************************************************************)
(* An instance of PhysMem for TLC: six pages and a part of a seventh, of   *)
(* which the last four may be handed out.                                  *)
(***************************************************************************)
EXTENDS PhysMem

\* inside a page, over a boundary, ending at a boundary, empty, past the end
BoundaryRanges == {<<8200, 10>>, <<12287, 2>>, <<12288, 4096>>, <<4096, 0>>,
                   <<20480, 65536>>}
=============================================================================
