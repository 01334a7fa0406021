------------------------------- MODULE Risc_proof -------------------------------
(***************************************************************************)
(* Proofs about Risc, for words of any width, any number of registers and  *)
(* any memory: the zero register stays 0, and fetching, decoding and       *)
(* executing in their three phases implement Isa32, the manual's one-step  *)
(* instructions.                                                           *)
(***************************************************************************)
EXTENDS Risc, TLAPS

ISAs == {"riscv32", "mips32"}

-----------------------------------------------------------------------------
(* The inductive invariant.  What the decode helpers leave in decinfo is   *)
(* what the execute function will need: the opcode entry of the            *)
(* instruction, or of its second table, the address and the value that the *)
(* registers give, and the next pc.                                        *)
Registers == gpr = [r \in Regs |-> gpr[r]] /\ gpr[0] = 0

Looked(ex, w) ==
  \/ ex = opcode_table(instr).exec /\ w = opcode_table(instr).width
  \/ /\ opcode_table(instr).exec \in {"load", "store", "special"}
     /\ ex = second_table(opcode_table(instr).exec, instr).exec
     /\ w = second_table(opcode_table(instr).exec, instr).width

Operands ==
  /\ instr.op \in {"ld", "st"} => src.addr = Wrap(rtl_lr(instr.rs) + instr.imm)
  /\ instr.op \in {"ld", "st", "lui"} => dest.reg = instr.rd
  /\ instr.op = "st" => dest.val = rtl_lr(instr.rd)
  /\ instr.op = "lui" =>
       IF arch = "riscv32" THEN src.val = Wrap(instr.imm * Low) ELSE src2 = instr.imm

Decoded ==
  /\ state = "RUNNING" /\ pc \in Manual!Pmem /\ seq_pc = Wrap(pc + WordBytes)
  /\ instr \in Codes
  /\ Looked(exec, width)
  /\ Operands

IInv == arch \in ISAs /\ Registers /\ (phase = "execute" => Decoded)

-----------------------------------------------------------------------------
(* The fields of an instruction.                                           *)
LEMMA CodeFields ==
  ASSUME NEW i \in Codes
  PROVE  /\ i.op \in {"ld", "st", "lui", "trap", "empty", "special", "low"}
         /\ i.rd \in Regs /\ i.rs \in Regs
         /\ i.op \in {"ld", "st"} => i.imm \in Manual!Offsets
         /\ i.op = "lui" => i.imm \in Manual!Uppers
BY RiscAssumption DEF Codes, Fields

(* The manual knows every instruction that the tables do.                  *)
LEMMA MeaningKnown ==
  ASSUME NEW i \in Codes
  PROVE  Meaning(i) \in Manual!Instructions
BY CodeFields, RiscAssumption DEF Meaning, Manual!Instructions, Manual!Instruction

(* What an execute function has to do, by the manual.                      *)
LEMMA ExecMeaning ==
  ASSUME arch \in ISAs, instr \in Codes, Looked(exec, width)
  PROVE  /\ exec = "ld" => /\ instr.op = "ld" /\ width = 4
                           /\ Meaning(instr) = Manual!Instruction("load", instr.rd, instr.rs, instr.imm)
         /\ exec = "st" => /\ instr.op = "st" /\ width = 4
                           /\ Meaning(instr) = Manual!Instruction("store", instr.rd, instr.rs, instr.imm)
         /\ exec = "lui" => /\ instr.op = "lui"
                            /\ Meaning(instr) = Manual!Instruction("lui", instr.rd, 0, instr.imm)
         /\ exec = "nemu_trap" => Meaning(instr) = Manual!Instruction("trap", 0, 0, 0)
         /\ exec = "inv" => Meaning(instr) = Manual!Instruction("invalid", 0, 0, 0)
<1>1. instr.op \in {"ld", "st", "lui", "trap", "empty", "special", "low"}
  BY CodeFields
<1>2. CASE arch = "riscv32" /\ instr.funct3 = 2
  BY <1>1, <1>2 DEF Looked, opcode_table, second_table, Entry, EMPTY, Meaning
<1>3. CASE arch = "riscv32" /\ instr.funct3 # 2
  BY <1>1, <1>3 DEF Looked, opcode_table, second_table, Entry, EMPTY, Meaning
<1>4. CASE arch = "mips32"
  BY <1>1, <1>4 DEF Looked, opcode_table, second_table, Entry, EMPTY, Meaning
<1>. QED  BY <1>2, <1>3, <1>4 DEF ISAs

-----------------------------------------------------------------------------
(* The invariant is kept by every phase.                                   *)
LEMMA InitIInv == Init => IInv
BY RiscAssumption DEF Init, IInv, Registers, ISAs

LEMMA WriteRegisters ==
  ASSUME Registers, NEW r \in Regs, NEW v, rtl_sr(r, v)
  PROVE  /\ Registers'
         /\ [x \in Regs \ {0} |-> gpr'[x]] =
              [x \in Regs \ {0} |-> IF x = r THEN v ELSE gpr[x]]
BY RiscAssumption DEF Registers, rtl_sr

LEMMA FetchIInv == ASSUME IInv, isa_exec  PROVE IInv'
<1>1. CASE Die
  BY <1>1 DEF Die, IInv, Registers, machine
<1>2. CASE ~ Die
  <2>1. PICK i \in Codes :
          /\ instr' = i
          /\ exec' = opcode_table(i).exec
          /\ width' = opcode_table(i).width
          /\ decode_ld(i) \/ decode_st(i) \/ decode_lui(i) \/ decode_none(i)
    BY <1>2 DEF isa_exec
  <2>2. /\ state = "RUNNING" /\ pc \in Manual!Pmem /\ seq_pc' = Wrap(pc + WordBytes)
        /\ UNCHANGED <<arch, machine>>
    BY <1>2 DEF isa_exec
  <2>3. Operands'
    BY <2>1, <2>2 DEF Operands, decode_ld, decode_st, decode_lui, decode_none, DecodeAddr,
                      rtl_lr, machine, Wrap, NoOperand
  <2>4. opcode_table(i)' = opcode_table(i) /\ Looked(exec, width)'
    BY <2>1, <2>2 DEF Looked, opcode_table, Entry, EMPTY
  <2>5. Decoded'
    BY <2>1, <2>2, <2>3, <2>4 DEF Decoded, machine, Manual!Pmem, Wrap, Manual!Wrap, Manual!W
  <2>. QED  BY <2>2, <2>5 DEF IInv, Registers, machine
<1>. QED  BY <1>1, <1>2

LEMMA SecondIInv == ASSUME IInv, phase = "execute", exec_second  PROVE IInv'
<1>1. /\ exec' = second_table(exec, instr).exec /\ width' = second_table(exec, instr).width
      /\ exec \in {"load", "store", "special"}
      /\ UNCHANGED <<arch, phase, machine, seq_pc, src, src2, dest, instr>>
  BY DEF exec_second
<1>2. Decoded /\ instr \in Codes
  BY DEF IInv, Decoded
<1>3. exec = opcode_table(instr).exec
  BY <1>1, <1>2 DEF Decoded, Looked, second_table, Entry, EMPTY
<1>4. Looked(exec, width)'
  BY <1>1, <1>3 DEF Looked, opcode_table, second_table, Entry, EMPTY
<1>5. Operands'
  BY <1>1, <1>2 DEF Decoded, Operands, rtl_lr, machine, Wrap
<1>. QED  BY <1>1, <1>2, <1>4, <1>5 DEF IInv, Decoded, Registers, machine, Manual!Pmem, Wrap

LEMMA ExecuteIInv ==
  ASSUME IInv, phase = "execute",
         exec_ld \/ exec_st \/ exec_lui \/ exec_nemu_trap \/ exec_inv
  PROVE  IInv'
<1>1. Decoded /\ Registers /\ arch \in ISAs
  BY DEF IInv
<1>2. arch' = arch /\ phase' # "execute"
  BY DEF exec_ld, exec_st, exec_lui, exec_nemu_trap, exec_inv, Finish
<1>3. exec \in {"ld", "lui"} => dest.reg \in Regs
  BY <1>1, ExecMeaning, CodeFields DEF Decoded, Operands
<1>4. Registers'
  <2>1. CASE exec_ld
    BY <2>1, <1>1, <1>3, WriteRegisters DEF exec_ld, machine, Registers
  <2>2. CASE exec_lui
    BY <2>2, <1>1, <1>3, WriteRegisters DEF exec_lui
  <2>3. CASE exec_st \/ exec_nemu_trap \/ exec_inv
    BY <2>3, <1>1 DEF exec_st, exec_nemu_trap, exec_inv, machine, Registers
  <2>. QED  BY <2>1, <2>2, <2>3
<1>. QED  BY <1>1, <1>2, <1>4 DEF IInv

LEMMA StepIInv == ASSUME IInv, [Next]_vars  PROVE IInv'
<1>1. CASE isa_exec
  BY <1>1, FetchIInv
<1>2. CASE Execute
  BY <1>2, SecondIInv, ExecuteIInv DEF Execute
<1>3. CASE exec_once
  BY <1>3 DEF exec_once, IInv, Registers
<1>4. CASE UNCHANGED vars
  BY <1>4 DEF vars, machine, decinfo, IInv, Registers, Decoded, Looked, Operands, opcode_table,
              second_table, rtl_lr, Entry, EMPTY, Manual!Pmem, Wrap
<1>. QED  BY <1>1, <1>2, <1>3, <1>4 DEF Next

THEOREM Inductive == Spec => []IInv
<1>1. Init => IInv
  BY InitIInv
<1>2. IInv /\ [Next]_vars => IInv'
  BY StepIInv
<1>. QED  BY <1>1, <1>2, PTL DEF Spec

(* Nothing that a guest loads or computes reaches register 0 (rtl_sr).     *)
THEOREM ZeroRegisterCorrect == Spec => []ZeroRegister
<1>1. IInv => ZeroRegister
  BY DEF IInv, Registers, ZeroRegister
<1>. QED  BY <1>1, Inductive, PTL

-----------------------------------------------------------------------------
(* The refinement.  A read of the interpreter is the manual's; the three   *)
(* phases of an instruction are one step, taken by its execute function.   *)
LEMMA ReadRegister ==
  ASSUME Registers, NEW r \in Regs
  PROVE  Manual!Read(r) = rtl_lr(r)
BY DEF Manual!Read, rtl_lr

LEMMA InitRefines == Init => Manual!Init
BY RiscAssumption DEF Init, Manual!Init

LEMMA ExecuteRefines ==
  ASSUME IInv, phase = "execute",
         exec_ld \/ exec_st \/ exec_lui \/ exec_nemu_trap \/ exec_inv, done' = Meaning(instr)
  PROVE  Manual!Next
<1>0. PICK i : i = Meaning(instr)
  OBVIOUS
<1>1. Decoded /\ Registers /\ arch \in ISAs /\ instr \in Codes /\ Looked(exec, width)
  BY DEF IInv, Decoded
<1>2. i \in Manual!Instructions /\ instr.rd \in Regs /\ instr.rs \in Regs
  BY <1>0, <1>1, MeaningKnown, CodeFields
<1>3. SUFFICES Manual!Perform(i)
  <2>1. state = "RUNNING" /\ phase # "dead" /\ pc \in Manual!Pmem
    BY <1>1 DEF Decoded
  <2>. QED  BY <1>2, <2>1 DEF Manual!Next, Manual!Pmem
<1>4. instr.op \in {"ld", "st"} => src.addr = Manual!Wrap(Manual!Read(instr.rs) + instr.imm)
  BY <1>1, <1>2, ReadRegister DEF Decoded, Operands, Wrap
<1>5. CASE exec_ld
  <2>1. /\ i = Manual!Instruction("load", instr.rd, instr.rs, instr.imm)
        /\ instr.op = "ld" /\ width = 4 /\ dest.reg = instr.rd
    BY <1>1, <1>5, <1>0, ExecMeaning DEF exec_ld, Decoded, Operands
  <2>2. i.op = "load" /\ i.rd = instr.rd /\ Manual!Address(i) = src.addr
    BY <2>1, <1>4 DEF Manual!Instruction, Manual!Address
  <2>3. CASE src.addr \in Manual!Pmem
    <3>1. /\ rtl_sr(instr.rd, Manual!LoadWord(mem, src.addr)) /\ phase' = "return"
          /\ UNCHANGED <<mem, state, halt_ret, seq_pc>>
      BY <1>5, <2>1, <2>3 DEF exec_ld, Accessed, Finish
    <3>2. Manual!Write(i.rd, Manual!LoadWord(mem, Manual!Address(i)))
      BY <1>1, <1>2, <2>2, <3>1, WriteRegisters DEF Manual!Write
    <3>3. Manual!NextPc
      BY <1>1, <3>1 DEF Manual!NextPc, Decoded, Wrap
    <3>4. Manual!Load(i)
      BY <2>2, <2>3, <3>1, <3>2, <3>3 DEF Manual!Load
    <3>. QED  BY <1>0, <3>4 DEF Manual!Perform
  <2>4. CASE src.addr \notin Manual!Pmem
    <3>1. phase' = "dead" /\ UNCHANGED machine
      BY <1>5, <2>4 DEF exec_ld, Accessed
    <3>2. Manual!Fault(i)
      BY <2>2, <2>4, <3>1 DEF Manual!Fault, machine
    <3>. QED  BY <1>0, <3>2 DEF Manual!Perform
  <2>. QED  BY <2>3, <2>4
<1>6. CASE exec_st
  <2>1. /\ i = Manual!Instruction("store", instr.rd, instr.rs, instr.imm)
        /\ instr.op = "st" /\ width = 4 /\ dest.val = Manual!Read(instr.rd)
    BY <1>1, <1>2, <1>6, <1>0, ExecMeaning, ReadRegister DEF exec_st, Decoded, Operands
  <2>2. i.op = "store" /\ i.rd = instr.rd /\ Manual!Address(i) = src.addr
    BY <2>1, <1>4 DEF Manual!Instruction, Manual!Address
  <2>3. CASE src.addr \in Manual!Pmem
    <3>1. /\ mem' = Manual!StoreWord(mem, src.addr, dest.val) /\ phase' = "return"
          /\ UNCHANGED <<gpr, state, halt_ret, seq_pc>>
      BY <1>6, <2>1, <2>3 DEF exec_st, Accessed, Finish
    <3>2. Manual!NextPc
      BY <1>1, <3>1 DEF Manual!NextPc, Decoded, Wrap
    <3>3. Manual!Store(i)
      BY <2>1, <2>2, <2>3, <3>1, <3>2 DEF Manual!Store
    <3>. QED  BY <1>0, <3>3 DEF Manual!Perform
  <2>4. CASE src.addr \notin Manual!Pmem
    <3>1. phase' = "dead" /\ UNCHANGED machine
      BY <1>6, <2>4 DEF exec_st, Accessed
    <3>2. Manual!Fault(i)
      BY <2>2, <2>4, <3>1 DEF Manual!Fault, machine
    <3>. QED  BY <1>0, <3>2 DEF Manual!Perform
  <2>. QED  BY <2>3, <2>4
<1>7. CASE exec_lui
  <2>1. /\ i = Manual!Instruction("lui", instr.rd, 0, instr.imm)
        /\ instr.op = "lui" /\ dest.reg = instr.rd
    BY <1>1, <1>7, <1>0, ExecMeaning DEF exec_lui, Decoded, Operands
  <2>2. i.op = "lui" /\ i.rd = instr.rd /\ i.off = instr.imm
    BY <2>1 DEF Manual!Instruction
  <2>3. (IF arch = "riscv32" THEN src.val ELSE Wrap(src2 * Low)) = Manual!Wrap(i.off * Low)
    BY <1>1, <2>1, <2>2 DEF Decoded, Operands, Wrap
  <2>4. /\ rtl_sr(instr.rd, Manual!Wrap(i.off * Low)) /\ phase' = "return"
        /\ UNCHANGED <<mem, state, halt_ret, seq_pc>>
    BY <1>7, <2>1, <2>3 DEF exec_lui, Finish
  <2>5. Manual!Write(i.rd, Manual!Wrap(i.off * Low))
    BY <1>1, <1>2, <2>2, <2>4, WriteRegisters DEF Manual!Write
  <2>6. Manual!NextPc
    BY <1>1, <2>4 DEF Manual!NextPc, Decoded, Wrap
  <2>7. Manual!Lui(i)
    BY <2>2, <2>4, <2>5, <2>6 DEF Manual!Lui
  <2>. QED  BY <1>0, <2>7 DEF Manual!Perform
<1>8. CASE exec_nemu_trap
  <2>1. i.op = "trap"
    BY <1>1, <1>8, <1>0, ExecMeaning DEF exec_nemu_trap, Manual!Instruction
  <2>2. /\ state' = "END" /\ halt_ret' = gpr[RetReg] /\ phase' = "return"
        /\ UNCHANGED <<gpr, mem, seq_pc>>
    BY <1>8 DEF exec_nemu_trap, Finish
  <2>3. Manual!Read(RetReg) = gpr[RetReg]
    BY <1>1, ReadRegister, RiscAssumption DEF rtl_lr
  <2>4. Manual!NextPc
    BY <1>1, <2>2 DEF Manual!NextPc, Decoded, Wrap
  <2>5. Manual!Trap(i)
    BY <2>1, <2>2, <2>3, <2>4 DEF Manual!Trap
  <2>. QED  BY <1>0, <2>5 DEF Manual!Perform
<1>9. CASE exec_inv
  <2>1. i.op = "invalid"
    BY <1>1, <1>9, <1>0, ExecMeaning DEF exec_inv, Manual!Instruction
  <2>2. CASE Wrap(pc + WordBytes) \in Manual!Pmem
    <3>1. /\ seq_pc' = Wrap(pc + 2 * WordBytes) /\ state' = "ABORT" /\ halt_ret' = -1
          /\ phase' = "return" /\ UNCHANGED <<gpr, mem>>
      BY <1>9, <2>2 DEF exec_inv, Finish
    <3>2. Manual!Invalid(i)
      BY <2>1, <2>2, <3>1 DEF Manual!Invalid, Wrap
    <3>. QED  BY <1>0, <3>2 DEF Manual!Perform
  <2>3. CASE Wrap(pc + WordBytes) \notin Manual!Pmem
    <3>1. phase' = "dead" /\ UNCHANGED machine
      BY <1>9, <2>3 DEF exec_inv
    <3>2. Manual!Fault(i)
      BY <2>1, <2>3, <3>1 DEF Manual!Fault, machine, Wrap
    <3>. QED  BY <1>0, <3>2 DEF Manual!Perform
  <2>. QED  BY <2>2, <2>3
<1>. QED  BY <1>5, <1>6, <1>7, <1>8, <1>9

LEMMA NextRefines == ASSUME IInv, [Next]_vars  PROVE [Manual!Next]_(Manual!vars)
<1>1. CASE isa_exec
  <2>1. CASE Die
    <3>1. phase = "fetch" /\ state = "RUNNING" /\ phase' = "dead" /\ UNCHANGED <<machine, decinfo, done>>
      BY <1>1, <2>1 DEF isa_exec, Die
    <3>2. Manual!FetchFault
      BY <3>1 DEF Manual!FetchFault, machine, decinfo
    <3>. QED  BY <3>1, <3>2 DEF Manual!Next
  <2>2. CASE ~ Die
    BY <1>1, <2>2 DEF isa_exec, machine, Manual!vars
  <2>. QED  BY <2>1, <2>2
<1>2. CASE Execute
  <2>1. CASE exec_second
    BY <1>2, <2>1 DEF Execute, exec_second, machine, Manual!vars
  <2>2. CASE ~ exec_second
    BY <1>2, <2>2, ExecuteRefines DEF Execute
  <2>. QED  BY <2>1, <2>2
<1>3. CASE exec_once
  BY <1>3 DEF exec_once, Manual!vars
<1>4. CASE UNCHANGED vars
  BY <1>4 DEF vars, machine, decinfo, Manual!vars
<1>. QED  BY <1>1, <1>2, <1>3, <1>4 DEF Next

(* Fetching, decoding with what the second tables add, executing and       *)
(* updating the pc implement the manual's instructions (exec_once).        *)
THEOREM ImplementsIsa == Spec => IsaSpec
<1>1. Init => Manual!Init
  BY InitRefines
<1>2. IInv /\ [Next]_vars => [Manual!Next]_(Manual!vars)
  BY NextRefines
<1>. QED  BY <1>1, <1>2, Inductive, PTL DEF Spec, IsaSpec, Manual!Spec
===============================================================================
