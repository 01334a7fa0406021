--------------------------------- MODULE Risc ---------------------------------
(***************************************************************************)
(* NEMU's riscv32 and mips32 interpreters: exec_once (cpu/cpu.c), the      *)
(* opcode tables and isa_exec (exec/exec.c), the decode helpers            *)
(* (decode.c), ld, st, lui, inv and nemu_trap.  An instruction is the      *)
(* fields it is cut into.  Any may be fetched at any address, so the       *)
(* guest's program, which may change itself, is arbitrary.                 *)
(***************************************************************************)
EXTENDS Integers

CONSTANTS ByteValues, WordBytes, Regs, RetReg, Low, PmemLow, PmemHigh

VARIABLES arch,      \* the ISA NEMU is built for
          phase,     \* fetch, execute, return, dead
          gpr, mem, pc,
          state, halt_ret,
          exec,      \* execute function of the opcode entry
          width,     \* decinfo.width
          seq_pc,
          src, src2, dest, \* operands: addr and val, val, reg and val
          instr,     \* decinfo.isa.instr
          done       \* the instruction executed last, as the manual has it

decinfo == <<exec, width, seq_pc, src, src2, dest, instr>>
machine == <<gpr, mem, pc, state, halt_ret>>
vars == <<arch, phase, machine, decinfo, done>>

Manual == INSTANCE Isa32 WITH R <- [r \in Regs \ {0} |-> gpr[r]],
                              pc <- IF phase = "return" THEN seq_pc ELSE pc,
                              ret <- halt_ret,
                              dead <- phase = "dead"

Word == Manual!Word

Wrap(n) == Manual!Wrap(n)

ASSUME RiscAssumption ==
  /\ ByteValues \in Nat \ {0} /\ WordBytes \in Nat \ {0} /\ Low \in Nat \ {0}
  /\ Regs \subseteq Nat /\ 0 \in Regs /\ RetReg \in Regs \ {0}
  /\ PmemLow \in Nat /\ PmemHigh \in Nat /\ PmemLow <= PmemHigh /\ PmemHigh < Manual!W

-----------------------------------------------------------------------------
(* Fields of an instruction: rt and rs of mips32; rd, or rs2 of a store,   *)
(* and rs1 of riscv32.  The immediate is signed, but for lui.              *)
Fields(op, rd, rs, imm, funct3) == [op |-> op, rd |-> rd, rs |-> rs, imm |-> imm, funct3 |-> funct3]
Codes ==
  {Fields(op, d, s, k, f) : op \in {"ld", "st"}, d \in Regs, s \in Regs, k \in Manual!Offsets, f \in {0, 2}}
    \cup {Fields("lui", d, s, k, 0) : d \in Regs, s \in Regs, k \in Manual!Uppers}
    \cup {Fields(op, 0, 0, 0, 0) : op \in {"trap", "empty", "special", "low"}}

NoCode == Fields("none", 0, 0, 0, 0)

(* What the manual calls it.  (Of riscv32, only the loads and stores of a  *)
(* word, funct3 = 2, are there.)                                           *)
Meaning(i) ==
  CASE i.op = "ld" /\ (arch = "riscv32" => i.funct3 = 2) -> Manual!Instruction("load", i.rd, i.rs, i.imm)
    [] i.op = "st" /\ (arch = "riscv32" => i.funct3 = 2) -> Manual!Instruction("store", i.rd, i.rs, i.imm)
    [] i.op = "lui" -> Manual!Instruction("lui", i.rd, 0, i.imm)
    [] i.op = "trap" -> Manual!Instruction("trap", 0, 0, 0)
    [] OTHER -> Manual!Instruction("invalid", 0, 0, 0)

(* opcode_table: the execute function and the width.                       *)
Entry(ex, w) == [exec |-> ex, width |-> w]
EMPTY == Entry("inv", 0)
opcode_table(i) ==
  CASE i.op = "ld" -> IF arch = "riscv32" THEN Entry("load", 0) ELSE Entry("ld", 4)
    [] i.op = "st" -> IF arch = "riscv32" THEN Entry("store", 0) ELSE Entry("st", 4)
    [] i.op = "lui" -> Entry("lui", 0)
    [] i.op = "trap" -> Entry("nemu_trap", 0)
    [] i.op = "special" /\ arch = "mips32" -> Entry("special", 0)
    [] OTHER -> EMPTY

(* load_table and store_table of riscv32, special_table of mips32.         *)
second_table(ex, i) ==
  CASE ex = "load" /\ i.funct3 = 2 -> Entry("ld", 4)
    [] ex = "store" /\ i.funct3 = 2 -> Entry("st", 4)
    [] OTHER -> EMPTY

-----------------------------------------------------------------------------
(* Registers, and what an operand is before it is decoded.                 *)

Stale == -1
NoOperand == [addr |-> Stale, val |-> Stale]
NoDest == [reg |-> Stale, val |-> Stale]

rtl_lr(r) == IF r # 0 THEN gpr[r] ELSE 0

(* Bug of rtl_sr: register 0 is like any other.                            *)
rtl_sr_any(r, v) == gpr' = [gpr EXCEPT ![r] = v]

rtl_sr(r, v) == gpr' = IF r # 0 THEN [gpr EXCEPT ![r] = v] ELSE gpr

Init ==
  /\ arch \in {"riscv32", "mips32"}
  /\ phase = "fetch"
  /\ gpr = [r \in Regs |-> 0]
  /\ mem \in [Manual!Memory -> 0 .. ByteValues - 1]
  /\ pc \in Manual!Pmem
  /\ state = "RUNNING" /\ halt_ret = 0
  /\ exec = "none" /\ width = 0 /\ seq_pc = Stale
  /\ src = NoOperand /\ src2 = Stale /\ dest = NoDest
  /\ instr = NoCode
  /\ done = Manual!Instruction("none", 0, 0, 0)

Die == phase' = "dead" /\ UNCHANGED <<arch, machine, decinfo, done>>

-----------------------------------------------------------------------------
(* isa_exec: fetch, look the opcode up, decode.                            *)

(* The address of a load or a store.                                       *)
DecodeAddr(i) ==
  src' = [addr |-> Wrap(rtl_lr(i.rs) + i.imm), val |-> rtl_lr(i.rs)] /\ src2' = Wrap(i.imm)

decode_ld(i) == i.op = "ld" /\ DecodeAddr(i) /\ dest' = [reg |-> i.rd, val |-> Stale]

(* Bug of decode_st: the stored register is not loaded.                    *)
decode_st_not(i) == i.op = "st" /\ DecodeAddr(i) /\ dest' = [reg |-> i.rd, val |-> Stale]

decode_st(i) == i.op = "st" /\ DecodeAddr(i) /\ dest' = [reg |-> i.rd, val |-> rtl_lr(i.rd)]

(* U of riscv32 shifts the immediate; IU of mips32 leaves that to lui.     *)
decode_lui(i) ==
  /\ i.op = "lui"
  /\ dest' = [reg |-> i.rd, val |-> Stale]
  /\ IF arch = "riscv32"
     THEN src' = [NoOperand EXCEPT !.val = Wrap(i.imm * Low)] /\ src2' = Stale
     ELSE src' = [NoOperand EXCEPT !.val = rtl_lr(i.rs)] /\ src2' = i.imm

decode_none(i) ==
  i.op \notin {"ld", "st", "lui"} /\ src' = NoOperand /\ src2' = Stale /\ dest' = NoDest

(* The bits that are not 3 in a 16-bit instruction of riscv32 (op "low")   *)
(* fail an assertion; on mips32 they belong to no opcode.                  *)
isa_exec ==
  /\ phase = "fetch"
  /\ state = "RUNNING"
  /\ \/ pc \notin Manual!Pmem /\ Die
     \/ arch = "riscv32" /\ Die
     \/ /\ pc \in Manual!Pmem
        /\ \E i \in Codes :
             /\ arch = "riscv32" => i.op # "low"
             /\ instr' = i
             /\ exec' = opcode_table(i).exec
             /\ width' = opcode_table(i).width
             /\ decode_ld(i) \/ decode_st(i) \/ decode_lui(i) \/ decode_none(i)
        /\ seq_pc' = Wrap(pc + WordBytes)
        /\ phase' = "execute"
        /\ UNCHANGED <<arch, machine, done>>

-----------------------------------------------------------------------------
(* The execute functions.                                                  *)

exec_second ==
  /\ exec \in {"load", "store", "special"}
  /\ exec' = second_table(exec, instr).exec
  /\ width' = second_table(exec, instr).width
  /\ UNCHANGED <<arch, phase, machine, done, seq_pc, src, src2, dest, instr>>

Finish == phase' = "return" /\ UNCHANGED <<arch, pc, exec, width, src, src2, dest, instr>>

(* Devices are left aside: an address outside the memory ends NEMU.        *)
Accessed == width = 4 /\ src.addr \in Manual!Pmem

exec_ld ==
  /\ exec = "ld"
  /\ IF Accessed
     THEN /\ rtl_sr(dest.reg, Manual!LoadWord(mem, src.addr))
          /\ Finish /\ UNCHANGED <<mem, state, halt_ret, seq_pc>>
     ELSE phase' = "dead" /\ UNCHANGED <<arch, machine, decinfo>>

exec_st ==
  /\ exec = "st"
  /\ IF Accessed
     THEN /\ mem' = Manual!StoreWord(mem, src.addr, dest.val)
          /\ Finish /\ UNCHANGED <<gpr, state, halt_ret, seq_pc>>
     ELSE phase' = "dead" /\ UNCHANGED <<arch, machine, decinfo>>

exec_lui ==
  /\ exec = "lui"
  /\ rtl_sr(dest.reg, IF arch = "riscv32" THEN src.val ELSE Wrap(src2 * Low))
  /\ Finish /\ UNCHANGED <<mem, state, halt_ret, seq_pc>>

exec_nemu_trap ==
  /\ exec = "nemu_trap"
  /\ state' = "END"
  /\ halt_ret' = gpr[RetReg]
  /\ Finish /\ UNCHANGED <<gpr, mem, seq_pc>>

(* The pc goes back, and two words are fetched for the message.            *)
exec_inv ==
  /\ exec = "inv"
  /\ IF Wrap(pc + WordBytes) \in Manual!Pmem
     THEN /\ seq_pc' = Wrap(pc + 2 * WordBytes)
          /\ state' = "ABORT"
          /\ halt_ret' = -1
          /\ Finish /\ UNCHANGED <<gpr, mem>>
     ELSE phase' = "dead" /\ UNCHANGED <<arch, machine, decinfo>>

Execute ==
  /\ phase = "execute"
  /\ \/ exec_second
     \/ /\ exec_ld \/ exec_st \/ exec_lui \/ exec_nemu_trap \/ exec_inv
        /\ done' = Meaning(instr)

(* update_pc.  What is left in decinfo is forgotten.                       *)
exec_once ==
  /\ phase = "return"
  /\ pc' = seq_pc
  /\ phase' = "fetch"
  /\ exec' = "none" /\ width' = 0 /\ seq_pc' = Stale
  /\ src' = NoOperand /\ src2' = Stale /\ dest' = NoDest
  /\ instr' = NoCode
  /\ UNCHANGED <<arch, gpr, mem, state, halt_ret, done>>

Next == isa_exec \/ Execute \/ exec_once

Spec == Init /\ [][Next]_vars

-----------------------------------------------------------------------------
(* "The zero register is always 0" (init.c:17), whatever a guest loads     *)
(* into it.                                                                *)
ZeroRegister == gpr[0] = 0

(* Fetch, decode and execute together do to the registers, the memory and  *)
(* the pc what the manual says the instruction does, and NEMU dies only of *)
(* an access outside the memory or of a fetch.                             *)
IsaSpec == Manual!Spec
===============================================================================
