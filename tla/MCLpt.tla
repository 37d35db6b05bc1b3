-------------------------------- MODULE MCLpt -------------------------------
(* Instances of the LPT port for TLC: two bytes whose nibbles differ, and a *)
(* request for a known mode, one with a flag to strip and an unknown one.   *)
EXTENDS Lpt

MCBytes == << <<1, 0, 0, 0, 0, 1, 1, 0>>, <<0, 1, 0, 1, 1, 1, 1, 0>> >>
MCXrvs  == {BYTE, [EPP EXCEPT ![3] = 1], EXT_LINK}
=============================================================================
