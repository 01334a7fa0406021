------------------------------- MODULE MCMonitor -------------------------------
(***************************************************************************)
(* What a text may give in a state of the guest: a register that holds 0   *)
(* or 1, a division by zero, an address outside guest memory.              *)
(***************************************************************************)
EXTENDS Monitor

Gives(val, ok, dead) == [val |-> val, ok |-> ok, dead |-> dead]
Register(val) == [on |-> Gives(val, TRUE, FALSE), off |-> Gives(0, TRUE, FALSE)]
Always(outcome) == [on |-> outcome, off |-> outcome]

MCReadings ==
  {Register(0), Register(1), Always(Gives(0, FALSE, FALSE)), Always(Gives(0, TRUE, TRUE))}

(* A register that holds 1, and a text that fails with registers (divides  *)
(* by one that holds 0) and reads where there is no memory without.        *)
MCTwoReadings ==
  {Register(1), [on |-> Gives(0, FALSE, FALSE), off |-> Gives(0, TRUE, TRUE)]}
===============================================================================
