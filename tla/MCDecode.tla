-------------------------------- MODULE MCDecode --------------------------------
(* DecodeUnit on encodings that cover every case of the switches. *)
EXTENDS DecodeUnit

CONSTANTS RDs, RAs, RBs,         \* values of three fields of 32-bit instructions
          Others                 \* lower halves besides

(* OP, rD and rA; rA's upper bits are func3 of the immediate forms. *)
MCUppers == {1024 * op + 32 * d + a : op \in 0 .. 31, d \in RDs, a \in RAs}

(* Below them rB with func6 and CU where OP is 0, else with func3 or the    *)
(* low bits of an immediate; and every 16-bit instruction.                  *)
MCLowers(h) ==
    IF h = 0 THEN 0 .. 2^15 - 1
    ELSE {1024 * b + x : b \in RBs,
                         x \in IF h < 1024 THEN 0 .. 127 ELSE 0 .. 7 \cup {64, 127}}
         \cup Others

MCAddresses == {<<40960, 4096>>, <<40704, 65532>>}       \* 0xA0001000, 0x9F00FFFC
================================================================================
