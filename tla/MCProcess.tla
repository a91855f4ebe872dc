------------------------------ MODULE MCProcess ------------------------------
(***************************************************************************)
(* Machines of one to three hardware threads, and one that does not tell;  *)
(* settings that are in range, out of it, and too large for 16 bits.       *)
(***************************************************************************)
EXTENDS Process

CONSTANTS s1, s2, s3

MCSessions == {s1, s2, s3}
MCHardware == 0 .. 3
MCPorts == {80, 19998, 65536 + 80, 65536 + 19998, -1}
MCThreads == {-1, 0, 2, 3, 65536 + 1}
MCPools == {0, 1, 5}
=============================================================================
