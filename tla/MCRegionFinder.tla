--------------------------- MODULE MCRegionFinder ---------------------------
(***************************************************************************)
(* Five blocks over three slots, so that 1 and 4, and 2 and 5, evict each  *)
(* other from the table; nested loops, a loop of one block, and a loop     *)
(* through all five that is too long for the buffer.                       *)
(***************************************************************************)
EXTENDS RegionFinder

FiveBlocks == 1..5

LoopEdges == { <<1, 2>>, <<2, 3>>, <<3, 1>>, <<3, 3>>, <<3, 4>>, <<4, 2>>,
               <<4, 5>>, <<5, 1>>, <<5, 4>> }
=============================================================================
