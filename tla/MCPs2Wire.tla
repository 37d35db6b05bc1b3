------------------------------ MODULE MCPs2Wire ------------------------------
(* Instances of the PS/2 wires for TLC: a script for an AT host, one for an *)
(* XT host that a raw (AT) byte follows, and a byte of a mouse packet.      *)
EXTENDS Ps2Wire

Byte1E == <<0, 1, 1, 1, 1, 0, 0, 0>>
At == [mode |-> "At", byte |-> Byte1E]
Xt == [mode |-> "Xt", byte |-> Byte1E]
MCSessions == { [wire |-> "kbd", keys |-> <<At>>],
                [wire |-> "kbd", keys |-> <<Xt, Xt, At>>],
                [wire |-> "aux", keys |-> <<At>>] }
=============================================================================
