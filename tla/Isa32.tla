--------------------------------- MODULE Isa32 ---------------------------------
(***************************************************************************)
(* The subset of MIPS32 and RV32I that NEMU's mips32 and riscv32           *)
(* interpreters have at this commit, one instruction per step.  A word is  *)
(* WordBytes bytes of ByteValues values each.  Register 0 is no variable:  *)
(* it reads as 0.  As in NEMU, and not in the MIPS32 manual, a word may be *)
(* loaded from and stored at any address, aligned or not.                  *)
(***************************************************************************)
EXTENDS Integers

CONSTANTS ByteValues, \* 256
          WordBytes,  \* 4
          Regs,       \* register numbers, 0 among them
          RetReg,     \* the register that holds the guest's verdict at a trap
          Low,        \* values of the lower part of a word: 2^12 or 2^16
          PmemLow, PmemHigh \* first and last address of the guest's memory

W == ByteValues ^ WordBytes
Word == 0 .. W - 1
Wrap(n) == n % W

Pmem == PmemLow .. PmemHigh
(* With what follows the memory: only an access's first byte is checked.   *)
Memory == PmemLow .. PmemHigh + WordBytes - 1

Offsets == -(Low \div 2) .. Low \div 2 - 1
Uppers == 0 .. W \div Low - 1

(* What Bytes bytes at address a hold, and memory with v there.            *)
LoadWord(m, a) ==
  LET sum[k \in 0 .. WordBytes] ==
        IF k = 0 THEN 0 ELSE sum[k - 1] + m[a + k - 1] * ByteValues ^ (k - 1)
  IN  sum[WordBytes]
StoreWord(m, a, v) ==
  [x \in DOMAIN m |->
     IF x \in a .. a + WordBytes - 1 THEN (v \div ByteValues ^ (x - a)) % ByteValues ELSE m[x]]

VARIABLES R,      \* the registers other than 0
          mem,
          pc,
          state,  \* RUNNING, END, ABORT
          ret,    \* what the trap reports
          dead,   \* NEMU has died
          done    \* the last instruction

vars == <<R, mem, pc, state, ret, dead, done>>

Read(r) == IF r = 0 THEN 0 ELSE R[r]
Write(r, v) == R' = [x \in Regs \ {0} |-> IF x = r THEN v ELSE R[x]]
Address(i) == Wrap(Read(i.rs) + i.off)

Instruction(op, rd, rs, off) == [op |-> op, rd |-> rd, rs |-> rs, off |-> off]
Instructions ==
  {Instruction(o, d, s, off) : o \in {"load", "store"}, d \in Regs, s \in Regs, off \in Offsets}
    \cup {Instruction("lui", d, 0, k) : d \in Regs, k \in Uppers}
    \cup {Instruction(o, 0, 0, 0) : o \in {"trap", "invalid"}}

Init ==
  /\ R = [r \in Regs \ {0} |-> 0] /\ mem \in [Memory -> 0 .. ByteValues - 1]
  /\ pc \in Pmem
  /\ state = "RUNNING" /\ ret = 0 /\ dead = FALSE
  /\ done = Instruction("none", 0, 0, 0)

NextPc == pc' = Wrap(pc + WordBytes)

Load(i) ==
  /\ i.op = "load" /\ Address(i) \in Pmem
  /\ Write(i.rd, LoadWord(mem, Address(i))) /\ NextPc
  /\ UNCHANGED <<mem, state, ret, dead>>

Store(i) ==
  /\ i.op = "store" /\ Address(i) \in Pmem
  /\ mem' = StoreWord(mem, Address(i), Read(i.rd)) /\ NextPc
  /\ UNCHANGED <<R, state, ret, dead>>

Lui(i) ==
  /\ i.op = "lui"
  /\ Write(i.rd, Wrap(i.off * Low)) /\ NextPc
  /\ UNCHANGED <<mem, state, ret, dead>>

Trap(i) ==
  /\ i.op = "trap"
  /\ state' = "END" /\ ret' = Read(RetReg) /\ NextPc
  /\ UNCHANGED <<R, mem, dead>>

(* NEMU shows two words, and goes on after them.                           *)
Invalid(i) ==
  /\ i.op = "invalid" /\ Wrap(pc + WordBytes) \in Pmem
  /\ state' = "ABORT" /\ ret' = -1 /\ pc' = Wrap(pc + 2 * WordBytes)
  /\ UNCHANGED <<R, mem, dead>>

(* NEMU dies of an access outside the memory (devices are left aside).     *)
Fault(i) ==
  /\ \/ i.op \in {"load", "store"} /\ Address(i) \notin Pmem
     \/ i.op = "invalid" /\ Wrap(pc + WordBytes) \notin Pmem
  /\ dead' = TRUE
  /\ UNCHANGED <<R, mem, pc, state, ret>>

Perform(i) == done' = i /\ (Load(i) \/ Store(i) \/ Lui(i) \/ Trap(i) \/ Invalid(i) \/ Fault(i))

(* The fetch fails, or what is fetched belongs to no 32-bit instruction.   *)
FetchFault == dead' = TRUE /\ UNCHANGED <<R, mem, pc, state, ret, done>>

Next ==
  /\ state = "RUNNING" /\ ~ dead
  /\ \/ pc \in Pmem /\ \E i \in Instructions : Perform(i)
     \/ FetchFault

Spec == Init /\ [][Next]_vars
=============================================================================
