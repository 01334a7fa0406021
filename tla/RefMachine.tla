------------------------------ MODULE RefMachine ------------------------------
(***************************************************************************)
(* The reference machine of differential testing, a QEMU, as NEMU sees it  *)
(* through nemu/tools/qemu-diff/src/gdb-host.c: the commands that may be   *)
(* given to it, and what they do.                                          *)
(***************************************************************************)
EXTENDS Integers

CONSTANTS Regs,  \* values of a part of the registers
          None   \* no command, no answer

(* Registers: those difftest_setregs copies, and the rest of QEMU's.       *)
RegFile == [shared : Regs, rest : Regs]

(* "M": copy len bytes of a buffer, from off on, to address at (there is   *)
(* one area of memory for each buffer).  "G": write all registers, for     *)
(* `who'; "g": read them.  "vCont;s:1": execute an instruction.            *)
Copy(buf, at, len) == [op |-> "M", buf |-> buf, at |-> at, off |-> 0, len |-> len]
WriteRegs(who, regs) == [op |-> "G", who |-> who, regs |-> regs]
ReadRegs == [op |-> "g"]
Step == [op |-> "vCont"]

(* The bytes a copy leaves: which byte of which buffer at which address.   *)
Bytes(c) == {<<c.buf, c.at + i, c.off + i>> : i \in 0 .. c.len - 1}

(* The states and answers a command may lead to.  QEMU may refuse to write *)
(* memory; an instruction may change every register.                       *)
Effect(c, r) ==
  CASE c.op = "g" -> {<<r, [is |-> "regs", regs |-> r.regs]>>}
    [] c.op = "G" -> {<<[r EXCEPT !.regs = c.regs], [is |-> "OK"]>>}
    [] c.op = "vCont" -> {<<[r EXCEPT !.regs = f], [is |-> "T05"]>> : f \in RegFile}
    [] c.op = "M" -> {<<[r EXCEPT !.mem = @ \cup Bytes(c)], [is |-> "OK"]>>,
                      <<r, [is |-> "E"]>>}

Answers == [is : {"regs"}, regs : RegFile] \cup [is : {"OK", "E", "T05"}]

Fresh == [regs : RegFile, mem : {{}}]
=============================================================================
