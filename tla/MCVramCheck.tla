---------------------------- MODULE MCVramCheck ----------------------------
(***************************************************************************)
(* VramCheck for TLC: an aperture of four words of two bytes, one word to  *)
(* a page, patterns that repeat after two words; numbers wrap at 16.  The  *)
(* memory is good, has a word stuck at one of the patterns, or a word      *)
(* stuck at neither.                                                       *)
(***************************************************************************)
EXTENDS VramCheck, TLC

CONSTANTS p1, p2

MCProcess == {p1, p2}
MCSizes   == {0, 1, 4, 5, 8, 15}
MCOffsets == {0, 1, 2, 4, 14}
MCFaults  == {<<>>, 10 :> 1, 12 :> -1}
Symmetry  == Permutations(MCProcess)
=============================================================================
