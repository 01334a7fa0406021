-------------------------------- MODULE MCExpr --------------------------------
(***************************************************************************)
(* Operands for the model checker: a small number, a hexadecimal one whose *)
(* digits mean something else in base 10, two registers of which get_gpr   *)
(* knows the first.  Guest memory has different contents at different      *)
(* addresses, and less than a word can address.                            *)
(***************************************************************************)
EXTENDS Expr, TLC

MCOperands == {"3", "0x10", "$eax", "$esp"}
MCDecimal == ("3" :> 3) @@ ("10" :> 10)
MCHex == "0x10" :> 16
MCAfterX == "0x10" :> "10"
MCRegValue == [r \in Registers |-> IF r = "$eax" THEN 1 ELSE 2]
MCMem == [a \in 0 .. 11 |-> Wrap(7 * a + 3)]
=============================================================================
