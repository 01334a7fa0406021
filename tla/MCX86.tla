--------------------------------- MODULE MCX86 ---------------------------------
(***************************************************************************)
(* Every opcode of one byte, and the two-byte ones up to the last that the *)
(* table fills.                                                            *)
(***************************************************************************)
EXTENDS X86

MCOpcodes == 0 .. \h103
=============================================================================
