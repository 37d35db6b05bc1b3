------------------------- MODULE MCStage2Bootstrap -------------------------
(***************************************************************************)
(* Instances of the bootstrap for TLC.  An image of three or five bytes in *)
(* blocks of two ends in a partial block, one of six does not; repeated    *)
(* bytes make a block that is written twice or in the wrong place look     *)
(* almost right.                                                           *)
(***************************************************************************)
EXTENDS Stage2Bootstrap

MCByte == {0, 1}
MCImage3 == <<0, 1, 0>>
MCImage5 == <<0, 1, 0, 1, 0>>
MCImage6 == <<0, 1, 0, 1, 0, 0>>

(* 0 and the sizes on both sides of MaxStage2Size (4), of the image (3)    *)
(* and of MaxBlocks blocks (6), and one whose rounding up wraps (15).      *)
MCMisreadSizes == {0, 2, 4, 5, 7, 15}

MCAllDosFailures == {"create", "write", "close", "delete", "exec"}
MCLossy == {"lose_request", "lose_reply", "corrupt_reply"}
MCLossyAndLate == MCLossy \cup {"late"}
MCLossOnly == {"lose_request"}
MCSppOnly == {"SPP"}
MCNone == {}
=============================================================================
