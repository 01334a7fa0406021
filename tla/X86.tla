---------------------------------- MODULE X86 ----------------------------------
(***************************************************************************)
(* The x86 interpreter: exec_once and isa_exec (nemu/src/cpu/cpu.c,        *)
(* isa/x86/exec/exec.c), with the decode helpers and the execute functions *)
(* that the opcode table reaches.                                          *)
(*                                                                         *)
(* Contents are symbolic: a byte is named for the place that held it when  *)
(* the instruction began, a register's byte, a byte of the one memory      *)
(* operand, a byte of the immediate, or Zero.  An address is the sum that  *)
(* load_addr forms, not yet added up.  The bytes of an instruction appear  *)
(* when they are fetched; instr keeps them for the properties.  Whether an *)
(* address is one of memory or of a device is left open: any access may    *)
(* fail the Assert of check_bound (device/io/map.c), or one of the         *)
(* device's callback, and ends the process.                                *)
(***************************************************************************)
EXTENDS Integers, Sequences

CONSTANTS Opcodes,     \* values of the first byte, and of the second with 0x100
          Fields,      \* register numbers in ModR/M and SIB bytes
          MaxPrefixes  \* operand-size prefixes of an instruction (bound)

ASSUME X86Assumption ==
  /\ Opcodes \subseteq 0 .. 511
  /\ Fields \subseteq 0 .. 7
  /\ MaxPrefixes \in Nat

VARIABLES phase,     \* opcode, decode, return, or one of Deaths
          is_operand_size_16,
          todo,      \* decode helpers still to be called
          exec,      \* the execute function of the entry
          src, dest, \* id_src, id_dest
          seq_pc,    \* decinfo.seq_pc - cpu.pc
          logged,    \* bytes of the instruction in log_bytebuf
          loads,     \* memory operands read
          writes,    \* places written, each with the byte written
          state,     \* nemu_state.state
          instr      \* what has been fetched

decinfo == <<is_operand_size_16, todo, exec, src, dest>>
effects == <<loads, writes, state>>
vars == <<phase, decinfo, seq_pc, logged, effects, instr>>

R_EAX == 0
R_CL == 1
R_ESP == 4
R_EBP == 5
None == -1

-----------------------------------------------------------------------------
(* Places and contents.                                                    *)

Zero == <<"zero", 0, 0>>

Extend(bytes) == [k \in 1 .. 4 |-> IF k <= Len(bytes) THEN bytes[k] ELSE Zero]

(* The byte registers 4 .. 7 are the second bytes of the first four.       *)
reg_b(r) == << <<"reg", r % 4, 1 + r \div 4>> >>
RegPlaces(r, w) == IF w = 1 THEN reg_b(r) ELSE [k \in 1 .. w |-> <<"reg", r, k>>]
MemPlaces(w) == [k \in 1 .. w |-> <<"mem", 0, k>>]
ImmPlaces(w) == [k \in 1 .. w |-> <<"imm", 0, k>>]

NoAddr == [disp |-> 0, base |-> None, index |-> None, scale |-> 0]
Operand(type, w, reg, addr, val) ==
  [type |-> type, width |-> w, reg |-> reg, addr |-> addr, val |-> val]
(* What an earlier instruction has left.                                   *)
Stale(w) == Operand("stale", w, None, NoAddr, <<>>)

RegOperand(r, w, load) ==
  Operand("reg", w, r, NoAddr, IF load THEN Extend(RegPlaces(r, w)) ELSE <<>>)
MemOperand(a, w, load) ==
  Operand("mem", w, None, a, IF load THEN Extend(MemPlaces(w)) ELSE <<>>)

-----------------------------------------------------------------------------
(* The opcode table.  An entry: the decode helpers, in order, the execute  *)
(* function, the width (0: that of the operand size).                      *)

Entry(decode, ex, w) == [decode |-> decode, exec |-> ex, width |-> w]
EMPTY == Entry(<<>>, "inv", 0)

(* The decode helpers.  Rm: which operand the ModR/M byte's E is, whether  *)
(* it is loaded, and which the G is.                                       *)
Rm(e, load, g) == [k |-> "rm", to |-> e, load |-> load, g |-> g]
Op(k, to, load) == [k |-> k, to |-> to, load |-> load, g |-> "none"]
I2E == <<Rm("dest", TRUE, "none"), Op("I", "src", TRUE)>>
SI2E == <<Rm("dest", TRUE, "none"), Op("SI", "src", TRUE)>>
mov_I2E == <<Rm("dest", FALSE, "none"), Op("I", "src", TRUE)>>
(* Bug of mov_G2E: the destination is loaded, as G2E does.                 *)
G2E == <<Rm("dest", TRUE, "src")>>
mov_G2E == <<Rm("dest", FALSE, "src")>>
mov_E2G == <<Rm("src", TRUE, "dest")>>
E == <<Rm("dest", TRUE, "none")>>
O2a == <<Op("O", "src", TRUE), Op("a", "dest", FALSE)>>
a2O == <<Op("a", "src", TRUE), Op("O", "dest", FALSE)>>
mov_I2r == <<Op("r", "dest", FALSE), Op("I", "src", TRUE)>>
gp2_Ib2E == E \o <<Op("Ib", "src", TRUE)>>
gp2_1_E == E \o <<Op("1", "src", TRUE)>>
gp2_cl2E == E \o <<Op("cl", "src", TRUE)>>
gp7_E == <<Rm("dest", FALSE, "none")>>

ByteOr(op) == IF op % 2 = 0 THEN 1 ELSE 0

(* Every group's eight entries are EMPTY.                                  *)
GroupTable == [ext_opcode \in 0 .. 7 |-> EMPTY]

opcode_table(op) ==
  CASE op = \h0f -> Entry(<<>>, "2byte_esc", 0)
    [] op = \h66 -> Entry(<<>>, "operand_size", 0)
    [] op \in {\h80, \h81} -> Entry(I2E, "group", ByteOr(op))
    [] op = \h83 -> Entry(SI2E, "group", 0)
    [] op \in {\h88, \h89} -> Entry(mov_G2E, "mov", ByteOr(op))
    [] op \in {\h8a, \h8b} -> Entry(mov_E2G, "mov", ByteOr(op))
    [] op \in {\ha0, \ha1} -> Entry(O2a, "mov", ByteOr(op))
    [] op \in {\ha2, \ha3} -> Entry(a2O, "mov", ByteOr(op))
    [] op \in \hb0 .. \hb7 -> Entry(mov_I2r, "mov", 1)
    [] op \in \hb8 .. \hbf -> Entry(mov_I2r, "mov", 0)
    [] op \in {\hc0, \hc1} -> Entry(gp2_Ib2E, "group", ByteOr(op))
    [] op \in {\hc6, \hc7} -> Entry(mov_I2E, "mov", ByteOr(op))
    [] op \in {\hd0, \hd1} -> Entry(gp2_1_E, "group", ByteOr(op))
    [] op \in {\hd2, \hd3} -> Entry(gp2_cl2E, "group", ByteOr(op))
    [] op = \hd6 -> Entry(<<>>, "nemu_trap", 0)
    [] op \in {\hf6, \hf7} -> Entry(E, "group", ByteOr(op))
    [] op = \hfe -> Entry(E, "group", 1)
    [] op = \hff -> Entry(E, "group", 0)
    [] op = \h101 -> Entry(gp7_E, "group", 0)
    [] OTHER -> EMPTY

-----------------------------------------------------------------------------
NoRM == [mod |-> None, reg |-> 0, rm |-> 0, base |-> 0, index |-> 0, ss |-> 0, disp |-> 0]
NoInstr == [prefixes |-> 0, opcode |-> None, rm |-> NoRM]

Init ==
  /\ phase = "opcode"
  /\ is_operand_size_16 = FALSE
  /\ todo = <<>> /\ exec = "none"
  /\ src = Stale(0) /\ dest = Stale(0)
  /\ seq_pc = 0 /\ logged = 0
  /\ loads = {} /\ writes = {} /\ state = "RUNNING"
  /\ instr = NoInstr

(* Where the process may end: an access of vaddr_read or vaddr_write that  *)
(* fetches, loads or stores; a TODO; operand_write's assert(0).            *)
Deaths == {"fetch", "load", "store", "todo", "assert"}

(* instr_fetch of n bytes.                                                 *)
Fetch(n) == seq_pc' = seq_pc + n /\ logged' = logged + n

Die(where) ==
  /\ phase' = where
  /\ UNCHANGED <<decinfo, seq_pc, logged, effects, instr>>

Width(w) == IF w # 0 THEN w ELSE IF is_operand_size_16 THEN 2 ELSE 4

(* isa_exec and exec_2byte_esc up to idex: opcode, set_width, lookup.      *)
Dispatch(op) ==
  LET e == opcode_table(op)
  IN  /\ Fetch(1)
      /\ instr' = [instr EXCEPT !.opcode = op]
      /\ todo' = e.decode
      /\ exec' = e.exec
      /\ src' = [src EXCEPT !.width = Width(e.width)]
      /\ dest' = [dest EXCEPT !.width = Width(e.width)]
      /\ phase' = "decode"

isa_exec ==
  /\ phase = "opcode"
  /\ state = "RUNNING"
  /\ \/ /\ \E op \in Opcodes \cap 0 .. 255 :
             /\ op = \h66 => instr.prefixes < MaxPrefixes
             /\ Dispatch(op)
        /\ UNCHANGED <<is_operand_size_16, effects>>
     \/ Die("fetch")

-----------------------------------------------------------------------------
(* Operands.                                                               *)

(* ModR/M bytes, with the SIB byte and the displacement if they have one.  *)
ModRMs ==
  {m \in [mod : 0 .. 3, reg : Fields, rm : Fields, base : Fields \cup {0},
          index : Fields \cup {0}, ss : {0, 2}, disp : {1, 255}] :
     m.mod = 3 \/ m.rm # R_ESP => m.base = 0 /\ m.index = 0 /\ m.ss = 0}

int8(n) == IF n >= 128 THEN n - 256 ELSE n

(* The address of a memory operand, and the bytes fetched for it.          *)
load_addr(m) ==
  LET sib == m.rm = R_ESP
      base_reg == IF sib THEN m.base ELSE m.rm
      index_reg == IF sib /\ m.index # R_ESP THEN m.index ELSE None
      absolute == m.mod = 0 /\ base_reg = R_EBP
      disp_size == CASE m.mod = 0 /\ ~ absolute -> 0 [] m.mod = 1 -> 1 [] OTHER -> 4
  IN  [bytes |-> disp_size + (IF sib THEN 1 ELSE 0),
       addr |-> [disp |-> CASE disp_size = 0 -> 0 [] disp_size = 1 -> int8(m.disp) [] OTHER -> m.disp,
                 base |-> IF absolute THEN None ELSE base_reg,
                 index |-> index_reg,
                 scale |-> IF index_reg = None THEN 0 ELSE m.ss]]

(* Operand `to' becomes o.                                                 *)
Set(to, o) ==
  /\ src' = IF to = "src" THEN o ELSE src
  /\ dest' = IF to = "dest" THEN o ELSE dest
Current(to) == IF to = "src" THEN src ELSE dest
Loaded(o, load) == loads' = IF load THEN loads \cup {o.addr} ELSE loads

read_ModR_M ==
  /\ Head(todo).k = "rm"
  /\ \E m \in ModRMs :
       LET d == Head(todo)
           w == Current(d.to).width
           rm == IF m.mod = 3 THEN RegOperand(m.rm, w, d.load)
                 ELSE MemOperand(load_addr(m).addr, w, d.load)
           g == RegOperand(m.reg, w, d.g = "src")
       IN  /\ instr' = [instr EXCEPT !.rm = m]
           /\ Fetch(1 + (IF m.mod = 3 THEN 0 ELSE load_addr(m).bytes))
           /\ src' = IF d.to = "src" THEN rm ELSE IF d.g = "src" THEN g ELSE src
           /\ dest' = IF d.to = "dest" THEN rm ELSE IF d.g = "dest" THEN g ELSE dest
           /\ Loaded(rm, d.load /\ m.mod # 3)

(* Ib, Iv: gp2_Ib2E sets the width first.                                  *)
decode_op_I ==
  /\ Head(todo).k \in {"I", "Ib"}
  /\ LET w == IF Head(todo).k = "Ib" THEN 1 ELSE Current(Head(todo).to).width
     IN  /\ Fetch(w)
         /\ Set(Head(todo).to, Operand("imm", w, None, NoAddr, Extend(ImmPlaces(w))))
  /\ UNCHANGED <<loads, instr>>

(* AL or eAX, the register in the opcode, and CL; none is fetched.         *)
decode_op_reg ==
  /\ Head(todo).k \in {"a", "r", "cl"}
  /\ LET d == Head(todo)
         r == CASE d.k = "a" -> R_EAX [] d.k = "r" -> instr.opcode % 8 [] d.k = "cl" -> R_CL
         o == RegOperand(r, Current(d.to).width, d.load)
     IN  Set(d.to, IF d.k = "cl" THEN [o EXCEPT !.val = Extend(reg_b(R_CL))] ELSE o)
  /\ UNCHANGED <<seq_pc, logged, loads, instr>>

decode_op_1 ==
  /\ Head(todo).k = "1"
  /\ Set(Head(todo).to, Operand("imm", Current(Head(todo).to).width, None, NoAddr, Extend(ImmPlaces(1))))
  /\ UNCHANGED <<seq_pc, logged, loads, instr>>

(* The address that is in the instruction itself.                          *)
Absolute == [NoAddr EXCEPT !.disp = 1]

decode_op_O ==
  /\ Head(todo).k = "O"
  /\ Fetch(4)
  /\ LET d == Head(todo)
         o == MemOperand(Absolute, Current(d.to).width, d.load)
     IN  Set(d.to, o) /\ Loaded(o, d.load)
  /\ UNCHANGED instr

Helper ==
  /\ read_ModR_M \/ decode_op_I \/ decode_op_reg \/ decode_op_1 \/ decode_op_O
  /\ todo' = Tail(todo)
  /\ UNCHANGED <<is_operand_size_16, exec, writes, state>>

(* A helper is called.  The operand's load, or a fetch, may fail; the      *)
(* helper decode_op_SI is a TODO.                                          *)
Decode ==
  /\ phase = "decode"
  /\ todo # <<>>
  /\ \/ Helper /\ UNCHANGED phase
     \/ Helper /\ loads' # loads /\ phase' = "load"
     \/ Head(todo).k \in {"rm", "I", "Ib", "O"} /\ Die("fetch")
     \/ Head(todo).k = "SI" /\ Die("todo")

-----------------------------------------------------------------------------
(* The execute functions.                                                  *)

Places(o) == IF o.type = "reg" THEN RegPlaces(o.reg, o.width) ELSE MemPlaces(o.width)

operand_write(o, val) ==
  IF o.type \in {"reg", "mem"}
  THEN \/ /\ writes' = writes \cup {<<Places(o)[k], val[k]>> : k \in 1 .. o.width}
          /\ phase' = "return"
          /\ UNCHANGED <<decinfo, seq_pc, logged, loads, state, instr>>
       \/ o.type = "mem" /\ Die("store")
  ELSE Die("assert")

exec_mov == exec = "mov" /\ operand_write(dest, src.val)

(* Bug of InvBytes: temp has three words.                                  *)
InvBytesMore == 12

(* Bytes that inv shows, from the start of the instruction.                *)
InvBytes == 8

(* Bug of exec_inv: the guest is not ended.                                *)
exec_inv_on ==
  /\ exec = "inv"
  /\ seq_pc' = InvBytes
  /\ logged' = logged + InvBytes
  /\ phase' = "return"
  /\ UNCHANGED <<decinfo, effects, instr>>

(* The pc goes back to the start, and the bytes to show are fetched again: *)
(* four where the opcode has been fetched, and four that may not be there. *)
exec_inv ==
  /\ exec = "inv"
  /\ \/ /\ seq_pc' = InvBytes
        /\ logged' = logged + InvBytes
        /\ state' = "ABORT"
        /\ phase' = "return"
        /\ UNCHANGED <<decinfo, loads, writes, instr>>
     \/ Die("fetch")

exec_nemu_trap ==
  /\ exec = "nemu_trap"
  /\ state' = "END"
  /\ phase' = "return"
  /\ UNCHANGED <<decinfo, seq_pc, logged, loads, writes, instr>>

exec_group ==
  /\ exec = "group"
  /\ exec' = GroupTable[instr.rm.reg].exec
  /\ UNCHANGED <<phase, is_operand_size_16, todo, src, dest, seq_pc, logged, effects, instr>>

exec_2byte_esc ==
  /\ exec = "2byte_esc"
  /\ \/ /\ \E op \in Opcodes \cap 256 .. 511 : Dispatch(op)
        /\ UNCHANGED <<is_operand_size_16, effects>>
     \/ Die("fetch")

(* isa_exec is called again, whatever has been fetched before.             *)
exec_operand_size ==
  /\ exec = "operand_size"
  /\ is_operand_size_16' = TRUE
  /\ instr' = [instr EXCEPT !.prefixes = @ + 1, !.opcode = None]
  /\ phase' = "opcode"
  /\ UNCHANGED <<todo, exec, src, dest, seq_pc, logged, effects>>

Execute ==
  /\ phase = "decode"
  /\ todo = <<>>
  /\ \/ exec_mov \/ exec_inv \/ exec_nemu_trap
     \/ exec_group \/ exec_2byte_esc \/ exec_operand_size

(* Bug of ReturnPrefix: the flag is not reset.                             *)
ReturnPrefixNot == is_operand_size_16

(* Every activation of exec_operand_size resets the flag as it returns.    *)
ReturnPrefix == IF instr.prefixes > 0 THEN FALSE ELSE is_operand_size_16

(* The activations return, update_pc takes seq_pc over, asm_print empties  *)
(* log_bytebuf; the next instruction begins if the guest still runs.       *)
exec_once ==
  /\ phase = "return"
  /\ is_operand_size_16' = ReturnPrefix
  /\ phase' = "opcode"
  /\ todo' = <<>> /\ exec' = "none"
  /\ src' = Stale(src.width) /\ dest' = Stale(dest.width)
  /\ seq_pc' = 0 /\ logged' = 0
  /\ loads' = {} /\ writes' = {} /\ UNCHANGED state
  /\ instr' = NoInstr

Next == isa_exec \/ Decode \/ Execute \/ exec_once

Spec == Init /\ [][Next]_vars

-----------------------------------------------------------------------------
(* The i386's mov, from its instruction format.                            *)

op == instr.opcode
rm == instr.rm
Movs == (\h88 .. \h8b) \cup (\ha0 .. \ha3) \cup (\hb0 .. \hbf) \cup {\hc6, \hc7}
ToByte == IF op \in \hb0 .. \hbf THEN op < \hb8 ELSE op % 2 = 0
MovWidth == IF ToByte THEN 1 ELSE IF instr.prefixes > 0 THEN 2 ELSE 4

ByteRegisters == << <<0, 1>>, <<1, 1>>, <<2, 1>>, <<3, 1>>, <<0, 2>>, <<1, 2>>, <<2, 2>>, <<3, 2>> >>
Register(r) ==
  IF MovWidth = 1 THEN << <<"reg", ByteRegisters[r + 1][1], ByteRegisters[r + 1][2]>> >>
  ELSE [k \in 1 .. MovWidth |-> <<"reg", r, k>>]
ModRM == IF rm.mod = 3 THEN Register(rm.rm) ELSE MemPlaces(MovWidth)
MovTo == CASE op \in {\h88, \h89, \hc6, \hc7} -> ModRM
           [] op \in {\h8a, \h8b} -> Register(rm.reg)
           [] op \in {\ha0, \ha1} -> Register(R_EAX)
           [] op \in {\ha2, \ha3} -> MemPlaces(MovWidth)
           [] OTHER -> Register(op % 8)
MovFrom == CASE op \in {\h88, \h89} -> Register(rm.reg)
             [] op \in {\h8a, \h8b} -> ModRM
             [] op \in {\ha0, \ha1} -> MemPlaces(MovWidth)
             [] op \in {\ha2, \ha3} -> Register(R_EAX)
             [] OTHER -> ImmPlaces(MovWidth)

HasSIB == rm.mod \in 0 .. 2 /\ rm.rm = 4
DispLen == CASE rm.mod = 1 -> 1
             [] rm.mod = 2 -> 4
             [] rm.mod = 0 /\ (rm.rm = 5 \/ (rm.rm = 4 /\ rm.base = 5)) -> 4
             [] OTHER -> 0
MovLen ==
  instr.prefixes + 1
    + (IF op \in {\h88, \h89, \h8a, \h8b, \hc6, \hc7} THEN 1 + DispLen ELSE 0)
    + (IF HasSIB THEN 1 ELSE 0)
    + (IF op \in \ha0 .. \ha3 THEN 4 ELSE 0)
    + (IF op \in (\hb0 .. \hbf) \cup {\hc6, \hc7} THEN MovWidth ELSE 0)

EffectiveAddress ==
  LET bare == rm.mod = 0 /\ DispLen = 4
  IN  [disp |-> CASE DispLen = 0 -> 0 [] DispLen = 1 /\ rm.disp = 255 -> -1 [] OTHER -> rm.disp,
       base |-> IF bare THEN -1 ELSE IF HasSIB THEN rm.base ELSE rm.rm,
       index |-> IF HasSIB /\ rm.index # 4 THEN rm.index ELSE -1,
       scale |-> IF HasSIB /\ rm.index # 4 THEN rm.ss ELSE 0]
OperandAddresses ==
  CASE op \in \ha0 .. \ha3 -> {Absolute}
    [] op \in \hb0 .. \hbf -> {}
    [] rm.mod = 3 -> {}
    [] OTHER -> {EffectiveAddress}

(* A mov copies exactly the bytes the i386 does, byte registers and 16-bit *)
(* operands included, and is as long (opcode table, set_width, ModR/M and  *)
(* SIB decoding, operand_write).                                           *)
MovCopies ==
  phase = "return" /\ op \in Movs =>
    /\ writes = {<<MovTo[k], MovFrom[k]>> : k \in 1 .. MovWidth}
    /\ seq_pc = MovLen

(* A mov reads memory where the i386 does and nowhere else: a store to a   *)
(* device does not read it first (the load flags of the decode helpers).   *)
MovTouches ==
  phase = "return" /\ op \in Movs =>
    /\ loads = IF MovFrom = MemPlaces(MovWidth) THEN OperandAddresses ELSE {}
    /\ dest.type = "mem" => OperandAddresses = {dest.addr}

(* The opcodes whose E is loaded before the group's EMPTY entry is looked  *)
(* up (the gp1 .. gp5 rows of the opcode table).                           *)
LoadingGroups ==
  {\h80, \h81, \h83, \hc0, \hc1, \hf6, \hf7, \hfe, \hff} \cup (\hd0 .. \hd3)

(* What is no mov writes nothing and, if the process survives it, ends the *)
(* guest through inv or nemu_trap.  The process ends with nothing written  *)
(* either, and only where the bytes fetched ask for it: at a store only in *)
(* a mov to memory, at a load only in a mov from memory or a group's       *)
(* memory operand, at a TODO only in 0x83 (exec.c, modrm.c, special.c).    *)
OthersRefused ==
  /\ phase = "return" /\ op \notin Movs =>
       writes = {} /\ state = (IF op = \hd6 THEN "END" ELSE "ABORT")
  /\ phase \in Deaths => writes = {}
  /\ phase = "store" => op \in Movs /\ MovTo = MemPlaces(MovWidth)
  /\ phase = "load" => \/ op \in Movs /\ MovFrom = MemPlaces(MovWidth)
                       \/ op \in LoadingGroups /\ rm.mod # 3
  /\ phase = "todo" => op = \h83
  /\ phase # "assert"

(* An instruction of up to nine prefixes fits in log_bytebuf: 26 bytes of  *)
(* three characters each in 80 (instr_fetch, inv's second fetch, log.c).   *)
LOG_BYTES == 26
OneInstrFits == instr.prefixes <= 9 => logged <= LOG_BYTES
===============================================================================
