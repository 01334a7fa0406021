-------------------------------- MODULE Outcome --------------------------------
(***************************************************************************)
(* What the callers of expr() get from it (nemu/src/monitor/debug/expr.c,  *)
(* which module Expr models), for texts whose contents do not matter.      *)
(*                                                                         *)
(* A register is handed out only where the four bytes at `success' compare *)
(* equal to 1; otherwise it counts as 0 (expr.c:236).  The caller's flag   *)
(* is one byte long: the three behind it hold whatever is there.  What a   *)
(* text gives in a state of the guest is therefore a pair of outcomes: on  *)
(* with registers handed out to the end, or to the failure that is its     *)
(* own, off with none.                                                     *)
(***************************************************************************)
EXTENDS Integers

CONSTANTS Vals,     \* values an expression may have
          Readings  \* what texts may give

(* val is what expr() returns, ok what it leaves in a success that was     *)
(* TRUE, dead that an Assert of memory.c ends the process.                 *)
Outcomes == [val : Vals, ok : BOOLEAN, dead : BOOLEAN]

ASSUME OutcomeAssumption == 0 \in Vals /\ Readings \subseteq [on : Outcomes, off : Outcomes]

Shown(reading, readable) == IF readable THEN reading.on ELSE reading.off

(* check() hands one success to expr() for all the texts it compares: r    *)
(* are their readings, in its order.  Registers are handed out up to the   *)
(* first text that fails; clean tells whether the bytes behind it are 0.   *)
Readable(r, clean, i) == clean /\ \A j \in 1 .. i - 1 : r[j].on.ok

Seen(r, clean, i) == Shown(r[i], Readable(r, clean, i))
===============================================================================
