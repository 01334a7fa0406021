------------------------------ MODULE MCWatchList ------------------------------
(***************************************************************************)
(* What a text may give: a division by zero, an address outside guest      *)
(* memory, a register that holds 1.                                        *)
(***************************************************************************)
EXTENDS WatchList

Gives(val, ok, dead) == [val |-> val, ok |-> ok, dead |-> dead]
Always(outcome) == [on |-> outcome, off |-> outcome]
MCReadings ==
  {Always(Gives(0, FALSE, FALSE)), Always(Gives(0, TRUE, TRUE)),
   [on |-> Gives(1, TRUE, FALSE), off |-> Gives(0, TRUE, FALSE)]}
===============================================================================
