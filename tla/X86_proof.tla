------------------------------ MODULE X86_proof ------------------------------
(***************************************************************************)
(* Proofs about X86, for any opcodes, any fields of ModR/M and SIB bytes   *)
(* and any number of prefixes: a mov copies the bytes the i386 copies and  *)
(* reads no other memory, any other opcode is refused without an effect,   *)
(* and an instruction of up to nine prefixes fits in the trace buffer.     *)
(***************************************************************************)
EXTENDS X86, SequenceTheorems, TLAPS

-----------------------------------------------------------------------------
(* The opcode table.                                                       *)

LEMMA TableOfMovs ==
  ASSUME NEW o \in Int
  PROVE  /\ o \in {\h88, \h89} => opcode_table(o) = Entry(mov_G2E, "mov", ByteOr(o))
         /\ o \in {\h8a, \h8b} => opcode_table(o) = Entry(mov_E2G, "mov", ByteOr(o))
         /\ o \in {\ha0, \ha1} => opcode_table(o) = Entry(O2a, "mov", ByteOr(o))
         /\ o \in {\ha2, \ha3} => opcode_table(o) = Entry(a2O, "mov", ByteOr(o))
         /\ o \in \hb0 .. \hb7 => opcode_table(o) = Entry(mov_I2r, "mov", 1)
         /\ o \in \hb8 .. \hbf => opcode_table(o) = Entry(mov_I2r, "mov", 0)
         /\ o \in {\hc6, \hc7} => opcode_table(o) = Entry(mov_I2E, "mov", ByteOr(o))
<1>1. ASSUME o \in {\h88, \h89}  PROVE opcode_table(o) = Entry(mov_G2E, "mov", ByteOr(o))
  <2>1. CASE o = \h88
    BY <2>1 DEF opcode_table
  <2>2. CASE o = \h89
    BY <2>2 DEF opcode_table
  <2>. QED  BY <1>1, <2>1, <2>2
<1>2. ASSUME o \in {\h8a, \h8b}  PROVE opcode_table(o) = Entry(mov_E2G, "mov", ByteOr(o))
  <2>1. CASE o = \h8a
    BY <2>1 DEF opcode_table
  <2>2. CASE o = \h8b
    BY <2>2 DEF opcode_table
  <2>. QED  BY <1>2, <2>1, <2>2
<1>3. ASSUME o \in {\ha0, \ha1}  PROVE opcode_table(o) = Entry(O2a, "mov", ByteOr(o))
  <2>1. CASE o = \ha0
    BY <2>1 DEF opcode_table
  <2>2. CASE o = \ha1
    BY <2>2 DEF opcode_table
  <2>. QED  BY <1>3, <2>1, <2>2
<1>4. ASSUME o \in {\ha2, \ha3}  PROVE opcode_table(o) = Entry(a2O, "mov", ByteOr(o))
  <2>1. CASE o = \ha2
    BY <2>1 DEF opcode_table
  <2>2. CASE o = \ha3
    BY <2>2 DEF opcode_table
  <2>. QED  BY <1>4, <2>1, <2>2
<1>5. ASSUME o \in \hb0 .. \hb7  PROVE opcode_table(o) = Entry(mov_I2r, "mov", 1)
  <2>1. CASE o = \hb0
    BY <2>1 DEF opcode_table
  <2>2. CASE o = \hb1
    BY <2>2 DEF opcode_table
  <2>3. CASE o = \hb2
    BY <2>3 DEF opcode_table
  <2>4. CASE o = \hb3
    BY <2>4 DEF opcode_table
  <2>5. CASE o = \hb4
    BY <2>5 DEF opcode_table
  <2>6. CASE o = \hb5
    BY <2>6 DEF opcode_table
  <2>7. CASE o = \hb6
    BY <2>7 DEF opcode_table
  <2>8. CASE o = \hb7
    BY <2>8 DEF opcode_table
  <2>. QED  BY <1>5, <2>1, <2>2, <2>3, <2>4, <2>5, <2>6, <2>7, <2>8
<1>6. ASSUME o \in \hb8 .. \hbf  PROVE opcode_table(o) = Entry(mov_I2r, "mov", 0)
  <2>1. CASE o = \hb8
    BY <2>1 DEF opcode_table
  <2>2. CASE o = \hb9
    BY <2>2 DEF opcode_table
  <2>3. CASE o = \hba
    BY <2>3 DEF opcode_table
  <2>4. CASE o = \hbb
    BY <2>4 DEF opcode_table
  <2>5. CASE o = \hbc
    BY <2>5 DEF opcode_table
  <2>6. CASE o = \hbd
    BY <2>6 DEF opcode_table
  <2>7. CASE o = \hbe
    BY <2>7 DEF opcode_table
  <2>8. CASE o = \hbf
    BY <2>8 DEF opcode_table
  <2>. QED  BY <1>6, <2>1, <2>2, <2>3, <2>4, <2>5, <2>6, <2>7, <2>8
<1>7. ASSUME o \in {\hc6, \hc7}  PROVE opcode_table(o) = Entry(mov_I2E, "mov", ByteOr(o))
  <2>1. CASE o = \hc6
    BY <2>1 DEF opcode_table
  <2>2. CASE o = \hc7
    BY <2>2 DEF opcode_table
  <2>. QED  BY <1>7, <2>1, <2>2
<1>. QED  BY <1>1, <1>2, <1>3, <1>4, <1>5, <1>6, <1>7

(* The decode lists of the groups whose second helper is written.          *)
GroupLists == {I2E, gp2_Ib2E, gp2_1_E, gp2_cl2E}

Described(o) ==
  /\ opcode_table(o).width \in {0, 1}
  /\ \/ /\ opcode_table(o).decode = <<>>
        /\ \/ opcode_table(o).exec = "inv"
           \/ opcode_table(o).exec = "2byte_esc" /\ o = \h0f
           \/ opcode_table(o).exec = "operand_size" /\ o = \h66
           \/ opcode_table(o).exec = "nemu_trap" /\ o = \hd6
     \/ /\ opcode_table(o).exec = "group"
        /\ \/ opcode_table(o).decode \in GroupLists /\ o < 256 /\ o \in LoadingGroups
           \/ opcode_table(o).decode = SI2E /\ o = \h83
           \/ opcode_table(o).decode = E /\ o \in LoadingGroups
           \/ opcode_table(o).decode = gp7_E

LEMMA TableOfOthers == ASSUME NEW o \in Int, o \notin Movs  PROVE Described(o)
<1>0. ByteOr(o) \in {0, 1}
  BY DEF ByteOr
<1>1. ASSUME o = \h0f  PROVE Described(o)
  <2>1. opcode_table(o) = Entry(<<>>, "2byte_esc", 0)
    BY <1>1 DEF opcode_table
  <2>. QED  BY <1>0, <1>1, <2>1 DEF Described, Entry, GroupLists, LoadingGroups
<1>2. ASSUME o = \h66  PROVE Described(o)
  <2>1. opcode_table(o) = Entry(<<>>, "operand_size", 0)
    BY <1>2 DEF opcode_table
  <2>. QED  BY <1>0, <1>2, <2>1 DEF Described, Entry, GroupLists, LoadingGroups
<1>3. ASSUME o = \h80  PROVE Described(o)
  <2>1. opcode_table(o) = Entry(I2E, "group", ByteOr(o))
    BY <1>3 DEF opcode_table
  <2>. QED  BY <1>0, <1>3, <2>1 DEF Described, Entry, GroupLists, LoadingGroups
<1>4. ASSUME o = \h81  PROVE Described(o)
  <2>1. opcode_table(o) = Entry(I2E, "group", ByteOr(o))
    BY <1>4 DEF opcode_table
  <2>. QED  BY <1>0, <1>4, <2>1 DEF Described, Entry, GroupLists, LoadingGroups
<1>5. ASSUME o = \h83  PROVE Described(o)
  <2>1. opcode_table(o) = Entry(SI2E, "group", 0)
    BY <1>5 DEF opcode_table
  <2>. QED  BY <1>0, <1>5, <2>1 DEF Described, Entry, GroupLists, LoadingGroups
<1>6. ASSUME o = \hc0  PROVE Described(o)
  <2>1. opcode_table(o) = Entry(gp2_Ib2E, "group", ByteOr(o))
    BY <1>6 DEF opcode_table
  <2>. QED  BY <1>0, <1>6, <2>1 DEF Described, Entry, GroupLists, LoadingGroups
<1>7. ASSUME o = \hc1  PROVE Described(o)
  <2>1. opcode_table(o) = Entry(gp2_Ib2E, "group", ByteOr(o))
    BY <1>7 DEF opcode_table
  <2>. QED  BY <1>0, <1>7, <2>1 DEF Described, Entry, GroupLists, LoadingGroups
<1>8. ASSUME o = \hd0  PROVE Described(o)
  <2>1. opcode_table(o) = Entry(gp2_1_E, "group", ByteOr(o))
    BY <1>8 DEF opcode_table
  <2>. QED  BY <1>0, <1>8, <2>1 DEF Described, Entry, GroupLists, LoadingGroups
<1>9. ASSUME o = \hd1  PROVE Described(o)
  <2>1. opcode_table(o) = Entry(gp2_1_E, "group", ByteOr(o))
    BY <1>9 DEF opcode_table
  <2>. QED  BY <1>0, <1>9, <2>1 DEF Described, Entry, GroupLists, LoadingGroups
<1>10. ASSUME o = \hd2  PROVE Described(o)
  <2>1. opcode_table(o) = Entry(gp2_cl2E, "group", ByteOr(o))
    BY <1>10 DEF opcode_table
  <2>. QED  BY <1>0, <1>10, <2>1 DEF Described, Entry, GroupLists, LoadingGroups
<1>11. ASSUME o = \hd3  PROVE Described(o)
  <2>1. opcode_table(o) = Entry(gp2_cl2E, "group", ByteOr(o))
    BY <1>11 DEF opcode_table
  <2>. QED  BY <1>0, <1>11, <2>1 DEF Described, Entry, GroupLists, LoadingGroups
<1>12. ASSUME o = \hd6  PROVE Described(o)
  <2>1. opcode_table(o) = Entry(<<>>, "nemu_trap", 0)
    BY <1>12 DEF opcode_table
  <2>. QED  BY <1>0, <1>12, <2>1 DEF Described, Entry, GroupLists, LoadingGroups
<1>13. ASSUME o = \hf6  PROVE Described(o)
  <2>1. opcode_table(o) = Entry(E, "group", ByteOr(o))
    BY <1>13 DEF opcode_table
  <2>. QED  BY <1>0, <1>13, <2>1 DEF Described, Entry, GroupLists, LoadingGroups
<1>14. ASSUME o = \hf7  PROVE Described(o)
  <2>1. opcode_table(o) = Entry(E, "group", ByteOr(o))
    BY <1>14 DEF opcode_table
  <2>. QED  BY <1>0, <1>14, <2>1 DEF Described, Entry, GroupLists, LoadingGroups
<1>15. ASSUME o = \hfe  PROVE Described(o)
  <2>1. opcode_table(o) = Entry(E, "group", 1)
    BY <1>15 DEF opcode_table
  <2>. QED  BY <1>0, <1>15, <2>1 DEF Described, Entry, GroupLists, LoadingGroups
<1>16. ASSUME o = \hff  PROVE Described(o)
  <2>1. opcode_table(o) = Entry(E, "group", 0)
    BY <1>16 DEF opcode_table
  <2>. QED  BY <1>0, <1>16, <2>1 DEF Described, Entry, GroupLists, LoadingGroups
<1>17. ASSUME o = \h101  PROVE Described(o)
  <2>1. opcode_table(o) = Entry(gp7_E, "group", 0)
    BY <1>17 DEF opcode_table
  <2>. QED  BY <1>0, <1>17, <2>1 DEF Described, Entry, GroupLists, LoadingGroups
<1>18. ASSUME o \notin {\h0f, \h66, \h80, \h81, \h83, \hc0, \hc1, \hd0, \hd1, \hd2, \hd3, \hd6},
             o \notin {\hf6, \hf7, \hfe, \hff, \h101}
      PROVE  Described(o)
  <2>1. opcode_table(o) = EMPTY
    BY <1>18, SMTT(30) DEF opcode_table, Movs
  <2>. QED  BY <2>1 DEF Described, Entry, EMPTY
<1>. QED  BY <1>1, <1>2, <1>3, <1>4, <1>5, <1>6, <1>7, <1>8, <1>9,
             <1>10, <1>11, <1>12, <1>13, <1>14, <1>15, <1>16, <1>17, <1>18

LEMMA PairConcat == ASSUME NEW a, NEW b  PROVE <<a>> \o <<b>> = <<a, b>>
<1>. DEFINE A == {a, b}
            x == <<a>> \o <<b>>
<1>1. <<a>> \in Seq(A) /\ <<b>> \in Seq(A) /\ Len(<<a>>) = 1 /\ Len(<<b>>) = 1
  OBVIOUS
<1>2. /\ x \in Seq(A) /\ Len(x) = Len(<<a>>) + Len(<<b>>)
      /\ \A i \in 1 .. Len(<<a>>) + Len(<<b>>) :
            x[i] = IF i <= Len(<<a>>) THEN <<a>>[i] ELSE <<b>>[i - Len(<<a>>)]
  BY <1>1, ConcatProperties
<1>. HIDE DEF x
<1>3. x[1] = a /\ x[2] = b /\ Len(x) = 2
  BY <1>1, <1>2
<1>4. x = <<a, b>>
  BY <1>2, <1>3
<1>. QED  BY <1>4 DEF x

(* The decode lists, helper by helper.                                     *)
LEMMA Lists ==
  /\ I2E = <<Rm("dest", TRUE, "none"), Op("I", "src", TRUE)>>
  /\ SI2E = <<Rm("dest", TRUE, "none"), Op("SI", "src", TRUE)>>
  /\ gp2_Ib2E = <<Rm("dest", TRUE, "none"), Op("Ib", "src", TRUE)>>
  /\ gp2_1_E = <<Rm("dest", TRUE, "none"), Op("1", "src", TRUE)>>
  /\ gp2_cl2E = <<Rm("dest", TRUE, "none"), Op("cl", "src", TRUE)>>
  BY PairConcat DEF I2E, SI2E, gp2_Ib2E, gp2_1_E, gp2_cl2E, E

LEMMA ListParts ==
  ASSUME NEW a, NEW b
  PROVE  /\ Head(<<a>>) = a /\ Tail(<<a>>) = <<>> /\ <<a>> # <<>>
         /\ Head(<<a, b>>) = a /\ Tail(<<a, b>>) = <<b>> /\ <<a, b>> # <<>>
<1>1. Tail(<<a, b>>) = <<b>>
  <2>. DEFINE A == {a, b}
              s == <<a, b>>
  <2>1. s \in Seq(A) /\ Len(s) = 2 /\ s # <<>> /\ s[2] = b
    OBVIOUS
  <2>. DEFINE u == Tail(s)
  <2>. HIDE DEF A, s
  <2>2. u \in Seq(A) /\ Len(u) = 1 /\ u[1] = b
    BY <2>1, HeadTailProperties
  <2>. HIDE DEF u
  <2>3. u = <<b>>
    BY <2>2
  <2>. QED  BY <2>3 DEF s, u
<1>. QED  BY <1>1

(* What a helper's record says.                                            *)
LEMMA RmFields ==
  ASSUME NEW to, NEW load, NEW g
  PROVE  /\ Rm(to, load, g).k = "rm" /\ Rm(to, load, g).to = to
         /\ Rm(to, load, g).load = load /\ Rm(to, load, g).g = g
  BY DEF Rm

LEMMA OpFields ==
  ASSUME NEW k, NEW to, NEW load
  PROVE  Op(k, to, load).k = k /\ Op(k, to, load).to = to /\ Op(k, to, load).load = load
  BY DEF Op

-----------------------------------------------------------------------------
(* ModR/M and SIB bytes.                                                   *)

(* The operand E of a ModR/M byte, and the bytes fetched for it.           *)
RMOf(m, w, load) ==
  IF m.mod = 3 THEN RegOperand(m.rm, w, load) ELSE MemOperand(load_addr(m).addr, w, load)
RMBytes(m) == 1 + (IF m.mod = 3 THEN 0 ELSE load_addr(m).bytes)

LEMMA ModRMFields ==
  ASSUME NEW m \in ModRMs
  PROVE  /\ m.mod \in 0 .. 3 /\ m.reg \in 0 .. 7 /\ m.rm \in 0 .. 7 /\ m.base \in 0 .. 7
         /\ m.index \in 0 .. 7 /\ m.ss \in {0, 2} /\ m.disp \in {1, 255}
         /\ m.mod = 3 \/ m.rm # R_ESP => m.base = 0 /\ m.index = 0 /\ m.ss = 0
<1>. DEFINE Record == [mod : 0 .. 3, reg : Fields, rm : Fields, base : Fields \cup {0},
                       index : Fields \cup {0}, ss : {0, 2}, disp : {1, 255}]
<1>1. m \in Record /\ (m.mod = 3 \/ m.rm # R_ESP => m.base = 0 /\ m.index = 0 /\ m.ss = 0)
  BY DEF ModRMs
<1>2. /\ m.mod \in 0 .. 3 /\ m.reg \in Fields /\ m.rm \in Fields /\ m.base \in Fields \cup {0}
      /\ m.index \in Fields \cup {0} /\ m.ss \in {0, 2} /\ m.disp \in {1, 255}
  BY <1>1
<1>. HIDE DEF Record
<1>. DEFINE numbers == 0 .. 7
<1>3. Fields \subseteq numbers /\ 0 \in numbers
  BY X86Assumption
<1>. HIDE DEF numbers
<1>4. m.reg \in numbers /\ m.rm \in numbers /\ m.base \in numbers /\ m.index \in numbers
  BY <1>2, <1>3
<1>. QED  BY <1>1, <1>2, <1>4, Zenon DEF numbers

LEMMA RMBytesBound ==
  ASSUME NEW m \in ModRMs
  PROVE  RMBytes(m) \in 1 .. 6
<1>1. load_addr(m).bytes \in 0 .. 5
  BY ModRMFields DEF load_addr
<1>. QED  BY <1>1 DEF RMBytes

-----------------------------------------------------------------------------
(* Operands.                                                               *)

Imm(w) == Operand("imm", w, None, NoAddr, Extend(ImmPlaces(w)))

OperandFields == {"type", "width", "reg", "addr", "val"}
InstrFields == {"prefixes", "opcode", "rm"}

LEMMA OperandShape ==
  ASSUME NEW t, NEW w, NEW r, NEW a, NEW v
  PROVE  /\ DOMAIN Operand(t, w, r, a, v) = OperandFields
         /\ Operand(t, w, r, a, v).type = t /\ Operand(t, w, r, a, v).width = w
         /\ Operand(t, w, r, a, v).reg = r /\ Operand(t, w, r, a, v).addr = a
         /\ Operand(t, w, r, a, v).val = v
  BY DEF Operand, OperandFields

LEMMA RegShape ==
  ASSUME NEW r, NEW w, NEW load
  PROVE  DOMAIN RegOperand(r, w, load) = OperandFields /\ RegOperand(r, w, load).width = w
  BY OperandShape DEF RegOperand

LEMMA MemShape ==
  ASSUME NEW a, NEW w, NEW load
  PROVE  /\ DOMAIN MemOperand(a, w, load) = OperandFields
         /\ MemOperand(a, w, load).width = w /\ MemOperand(a, w, load).addr = a
  BY OperandShape DEF MemOperand

LEMMA RMShape ==
  ASSUME NEW m, NEW w, NEW load
  PROVE  DOMAIN RMOf(m, w, load) = OperandFields /\ RMOf(m, w, load).width = w
  BY RegShape, MemShape DEF RMOf

LEMMA ImmShape ==
  ASSUME NEW w
  PROVE  DOMAIN Imm(w) = OperandFields /\ Imm(w).width = w
  BY OperandShape DEF Imm

-----------------------------------------------------------------------------
(* The inductive invariant.  Before a prefix or the opcode nothing has     *)
(* happened but fetches; while an instruction is decoded, the operands of  *)
(* the helpers already called are those its bytes name, with the width of  *)
(* the opcode and the prefixes of this instruction.                        *)
Shape ==
  /\ DOMAIN src = OperandFields /\ DOMAIN dest = OperandFields /\ DOMAIN instr = InstrFields
  /\ instr.prefixes \in Nat
  /\ is_operand_size_16 \in BOOLEAN /\ (is_operand_size_16 <=> instr.prefixes > 0)

Fresh ==
  /\ loads = {} /\ writes = {}
  /\ seq_pc = instr.prefixes /\ logged = instr.prefixes
  /\ rm = NoRM

(* What an instruction may have fetched before it is executed.             *)
Most == instr.prefixes + (IF instr.prefixes > 0 THEN 9 ELSE 11)

GoodWidth(w) == w \in {1, 2, 4} /\ (instr.prefixes > 0 => w # 4)

entry == opcode_table(op)

Decoding ==
  /\ state = "RUNNING" /\ writes = {}
  /\ op \in 0 .. 511
  /\ \/ exec = entry.exec
     \/ exec = "inv" /\ todo = <<>> /\ entry.exec = "group"
  /\ GoodWidth(src.width) /\ GoodWidth(dest.width)
  /\ seq_pc = logged /\ logged \in Nat /\ logged <= Most

Start == instr.prefixes + (IF op < 256 THEN 1 ELSE 2)
RMLoads == IF rm.mod = 3 THEN {} ELSE {load_addr(rm).addr}

(* No helper has been called.                                              *)
Begun ==
  /\ todo = entry.decode
  /\ src.width = Width(entry.width) /\ dest.width = Width(entry.width)
  /\ loads = {} /\ rm = NoRM
  /\ seq_pc = Start

(* The first of two helpers has been called.                               *)
Half ==
  /\ entry.decode # <<>>
  /\ todo = Tail(entry.decode) /\ todo # <<>>
  /\ seq_pc <= Start + 6
  /\ entry.exec = "group" => rm.reg \in 0 .. 7
  /\ op \in (\ha0 .. \ha3) \cup (\hb0 .. \hbf) => rm = NoRM
  /\ op \in {\ha0, \ha1} => /\ src = MemOperand(Absolute, MovWidth, TRUE)
                            /\ dest.width = MovWidth
                            /\ seq_pc = Start + 4
                            /\ loads = {Absolute}
  /\ op \in {\ha2, \ha3} => /\ src = RegOperand(R_EAX, MovWidth, TRUE)
                            /\ dest.width = MovWidth
                            /\ seq_pc = Start
                            /\ loads = {}
  /\ op \in \hb0 .. \hbf => /\ dest = RegOperand(op % 8, MovWidth, FALSE)
                            /\ src.width = MovWidth
                            /\ seq_pc = Start
                            /\ loads = {}
  /\ op \in {\hc6, \hc7} => /\ rm \in ModRMs
                            /\ dest = RMOf(rm, MovWidth, FALSE)
                            /\ src.width = MovWidth
                            /\ seq_pc = Start + RMBytes(rm)
                            /\ loads = {}

(* All helpers have been called.                                           *)
Decoded ==
  /\ todo = <<>> /\ entry.decode # <<>>
  /\ entry.exec = "group" => rm.reg \in 0 .. 7
  /\ op \in (\ha0 .. \ha3) \cup (\hb0 .. \hbf) => rm = NoRM
  /\ op \in {\h88, \h89} => /\ rm \in ModRMs
                            /\ dest = RMOf(rm, MovWidth, FALSE)
                            /\ src = RegOperand(rm.reg, MovWidth, TRUE)
                            /\ seq_pc = Start + RMBytes(rm)
                            /\ loads = {}
  /\ op \in {\h8a, \h8b} => /\ rm \in ModRMs
                            /\ src = RMOf(rm, MovWidth, TRUE)
                            /\ dest = RegOperand(rm.reg, MovWidth, FALSE)
                            /\ seq_pc = Start + RMBytes(rm)
                            /\ loads = RMLoads
  /\ op \in {\ha0, \ha1} => /\ src = MemOperand(Absolute, MovWidth, TRUE)
                            /\ dest = RegOperand(R_EAX, MovWidth, FALSE)
                            /\ seq_pc = Start + 4
                            /\ loads = {Absolute}
  /\ op \in {\ha2, \ha3} => /\ src = RegOperand(R_EAX, MovWidth, TRUE)
                            /\ dest = MemOperand(Absolute, MovWidth, FALSE)
                            /\ seq_pc = Start + 4
                            /\ loads = {}
  /\ op \in \hb0 .. \hbf => /\ dest = RegOperand(op % 8, MovWidth, FALSE)
                            /\ src = Imm(MovWidth)
                            /\ seq_pc = Start + MovWidth
                            /\ loads = {}
  /\ op \in {\hc6, \hc7} => /\ rm \in ModRMs
                            /\ dest = RMOf(rm, MovWidth, FALSE)
                            /\ src = Imm(MovWidth)
                            /\ seq_pc = Start + RMBytes(rm) + MovWidth
                            /\ loads = {}

Ended == MovCopies /\ MovTouches /\ OthersRefused

IInv ==
  /\ phase \notin Deaths => Shape
  /\ phase = "opcode" => Fresh
  /\ phase = "decode" => Decoding /\ (Begun \/ Half \/ Decoded)
  /\ phase \notin {"opcode", "decode"} =>
       instr.prefixes \in Nat /\ logged \in Nat /\ logged <= Most + 8
  /\ phase \in {"opcode", "decode", "return"} \cup Deaths
  /\ Ended

LEMMA InitIInv == Init => IInv
<1>. SUFFICES ASSUME Init  PROVE IInv
  OBVIOUS
<1>1. DOMAIN src = OperandFields /\ DOMAIN dest = OperandFields
  BY OperandShape DEF Init, Stale
<1>2. DOMAIN instr = InstrFields /\ instr.prefixes = 0
  BY DEF Init, NoInstr, InstrFields
<1>3. Shape
  <2>1. instr.prefixes \in Nat /\ ~ (instr.prefixes > 0)
    BY <1>2
  <2>2. is_operand_size_16 = FALSE
    BY DEF Init
  <2>. QED  BY <1>1, <1>2, <2>1, <2>2, Zenon DEF Shape
<1>4. Fresh
  BY <1>2 DEF Init, Fresh, NoInstr, rm
<1>5. phase = "opcode"
  BY DEF Init
<1>. QED  BY <1>3, <1>4, <1>5 DEF IInv, Ended, MovCopies, MovTouches, OthersRefused, Deaths

(* The lengths of an instruction: at most 26 with nine prefixes.           *)
LEMMA InvFits == IInv => OneInstrFits
<1>. SUFFICES ASSUME IInv, instr.prefixes <= 9  PROVE logged <= LOG_BYTES
  BY DEF OneInstrFits
<1>1. instr.prefixes \in Nat
  BY DEF IInv, Shape, Deaths
<1>2. Most + 8 <= 26 /\ Most \in Nat
  BY <1>1 DEF Most
<1>3. CASE phase = "opcode"
  BY <1>1, <1>3 DEF IInv, Fresh, LOG_BYTES
<1>4. CASE phase = "decode"
  BY <1>1, <1>2, <1>4 DEF IInv, Decoding, LOG_BYTES
<1>5. CASE phase \notin {"opcode", "decode"}
  BY <1>1, <1>2, <1>5 DEF IInv, LOG_BYTES
<1>. QED  BY <1>3, <1>4, <1>5 DEF IInv

-----------------------------------------------------------------------------
(* The start of an instruction.                                            *)

LEMMA MovClasses ==
  ASSUME NEW o \in Movs
  PROVE  /\ o \in Int
         /\ \/ o \in {\h88, \h89} \/ o \in {\h8a, \h8b}
            \/ o \in {\ha0, \ha1} \/ o \in {\ha2, \ha3}
            \/ o \in \hb0 .. \hb7 \/ o \in \hb8 .. \hbf \/ o \in {\hc6, \hc7}
  BY DEF Movs

LEMMA EntryParts ==
  ASSUME NEW d, NEW x, NEW w
  PROVE  Entry(d, x, w).decode = d /\ Entry(d, x, w).exec = x /\ Entry(d, x, w).width = w
  BY DEF Entry

LEMMA TableWidths ==
  ASSUME NEW o \in Int
  PROVE  opcode_table(o).width \in {0, 1}
<1>1. CASE o \in Movs
  <2>1. ByteOr(o) \in {0, 1}
    BY DEF ByteOr
  <2>. QED  BY <1>1, <2>1, MovClasses, TableOfMovs, EntryParts
<1>2. CASE o \notin Movs
  BY <1>2, TableOfOthers DEF Described
<1>. QED  BY <1>1, <1>2

(* A mov is what the table sends to exec_mov.                              *)
LEMMA TableExec ==
  ASSUME NEW o \in Int
  PROVE  o \in Movs <=> opcode_table(o).exec = "mov"
<1>1. CASE o \in Movs
  BY <1>1, MovClasses, TableOfMovs, EntryParts
<1>2. CASE o \notin Movs
  BY <1>2, TableOfOthers DEF Described
<1>. QED  BY <1>1, <1>2

LEMMA NotEnded ==
  ASSUME phase' \in {"opcode", "decode"}
  PROVE  Ended'
  BY DEF Ended, MovCopies, MovTouches, OthersRefused, Deaths

LEMMA DispatchStep ==
  ASSUME Shape, loads = {}, writes = {}, rm = NoRM, state = "RUNNING", NEW o \in 0 .. 511,
         seq_pc = instr.prefixes + (IF o < 256 THEN 0 ELSE 1), logged = seq_pc,
         Dispatch(o), UNCHANGED <<is_operand_size_16, effects>>
  PROVE  IInv'
<1>. DEFINE w == Width(opcode_table(o).width)
<1>1. /\ instr' = [instr EXCEPT !.opcode = o]
      /\ src' = [src EXCEPT !.width = w] /\ dest' = [dest EXCEPT !.width = w]
      /\ todo' = opcode_table(o).decode /\ exec' = opcode_table(o).exec
      /\ phase' = "decode"
      /\ seq_pc' = seq_pc + 1 /\ logged' = logged + 1
  BY DEF Dispatch, Fetch
<1>2. w \in {1, 2, 4} /\ (instr.prefixes > 0 => w # 4)
  <2>1. opcode_table(o).width \in {0, 1}
    BY TableWidths
  <2>. QED  BY <2>1 DEF Width, Shape
<1>3. DOMAIN instr' = InstrFields /\ op' = o /\ instr'.prefixes = instr.prefixes /\ rm' = rm
  BY <1>1 DEF Shape, InstrFields, op, rm
<1>. HIDE DEF w
<1>4. /\ DOMAIN src' = OperandFields /\ DOMAIN dest' = OperandFields
      /\ src'.width = w /\ dest'.width = w
  BY <1>1 DEF Shape, OperandFields
<1>5. instr.prefixes \in Nat
  BY DEF Shape
<1>6. Shape'
  BY <1>3, <1>4, <1>5 DEF Shape
<1>7. entry' = opcode_table(o)
  BY <1>3 DEF entry
<1>8. seq_pc' = Start' /\ seq_pc' \in Nat /\ logged' = seq_pc' /\ seq_pc' <= instr.prefixes + 2
  BY <1>1, <1>3, <1>5 DEF Start
<1>9. Most' \in Nat /\ instr.prefixes + 2 <= Most'
  BY <1>3, <1>5 DEF Most
<1>10. Decoding'
  <2>1. GoodWidth(src.width)' /\ GoodWidth(dest.width)'
    BY <1>2, <1>3, <1>4 DEF GoodWidth
  <2>2. logged' \in Nat /\ logged' <= Most'
    BY <1>5, <1>8, <1>9
  <2>. QED  BY <1>1, <1>3, <1>7, <1>8, <2>1, <2>2 DEF Decoding, effects
<1>11. Begun'
  <2>1. Width(entry.width)' = w
    BY <1>7 DEF w, Width
  <2>. QED  BY <1>1, <1>3, <1>4, <1>7, <1>8, <2>1 DEF Begun, effects
<1>. QED  BY <1>1, <1>6, <1>10, <1>11, NotEnded DEF IInv

(* The process ends, at a fetch, a store or a TODO.                        *)
LEMMA DieStep ==
  ASSUME instr.prefixes \in Nat, logged \in Nat, logged <= Most + 8, writes = {},
         NEW where \in {"fetch", "store", "todo"}, Die(where),
         where = "store" => op \in Movs /\ MovTo = MemPlaces(MovWidth),
         where = "todo" => op = \h83
  PROVE  IInv'
<1>1. phase' = where /\ UNCHANGED <<logged, writes, instr>>
  BY DEF Die, effects
<1>2. op' = op /\ MovTo' = MovTo /\ MovWidth' = MovWidth /\ Most' = Most
  BY <1>1 DEF op, Most, MovTo, ModRM, Register, MovWidth, ToByte, rm
<1>3. Ended'
  <2>1. MovCopies' /\ MovTouches'
    BY <1>1 DEF MovCopies, MovTouches
  <2>2. OthersRefused'
    BY <1>1, <1>2 DEF OthersRefused
  <2>. QED  BY <2>1, <2>2 DEF Ended
<1>. QED  BY <1>1, <1>2, <1>3 DEF IInv, Deaths

LEMMA IsaExecStep ==
  ASSUME IInv, isa_exec
  PROVE  IInv'
<1>1. Shape /\ Fresh /\ state = "RUNNING" /\ instr.prefixes \in Nat
  BY DEF isa_exec, IInv, Shape, Deaths
<1>2. ASSUME NEW o \in Opcodes \cap 0 .. 255, Dispatch(o), UNCHANGED <<is_operand_size_16, effects>>
      PROVE  IInv'
  <2>1. o \in 0 .. 511 /\ o < 256
    OBVIOUS
  <2>2. seq_pc = instr.prefixes + (IF o < 256 THEN 0 ELSE 1) /\ logged = seq_pc
    BY <1>1, <2>1 DEF Fresh
  <2>. QED  BY <1>1, <1>2, <2>1, <2>2, DispatchStep DEF Fresh
<1>3. CASE Die("fetch")
  BY <1>1, <1>3, DieStep DEF Fresh, Most
<1>. QED  BY <1>2, <1>3 DEF isa_exec

-----------------------------------------------------------------------------
(* What one decode helper does.                                            *)

(* The helper is called and returns.                                       *)
Helps == phase = "decode" /\ todo # <<>> /\ Helper /\ UNCHANGED phase

Kept ==
  /\ phase' = "decode" /\ todo' = Tail(todo)
  /\ UNCHANGED <<is_operand_size_16, exec, writes, state>>
  /\ DOMAIN instr' = InstrFields /\ op' = op /\ instr'.prefixes = instr.prefixes

Fetched(n) == seq_pc' = seq_pc + n /\ logged' = logged + n

LEMMA RmStep ==
  ASSUME Shape, Helps, NEW e \in {"src", "dest"}, NEW load \in BOOLEAN,
         NEW g \in {"src", "dest", "none"}, g # e, Head(todo) = Rm(e, load, g)
  PROVE  \E m \in ModRMs :
           /\ Kept /\ rm' = m /\ Fetched(RMBytes(m))
           /\ e = "dest" =>
                /\ dest' = RMOf(m, dest.width, load)
                /\ src' = IF g = "src" THEN RegOperand(m.reg, dest.width, TRUE) ELSE src
           /\ e = "src" =>
                /\ src' = RMOf(m, src.width, load)
                /\ dest' = IF g = "dest" THEN RegOperand(m.reg, src.width, FALSE) ELSE dest
           /\ loads' = IF load /\ m.mod # 3 THEN loads \cup {load_addr(m).addr} ELSE loads
<1>. DEFINE d == Head(todo)
<1>1. d.k = "rm" /\ d.to = e /\ d.load = load /\ d.g = g
  BY RmFields
<1>2. /\ read_ModR_M
      /\ todo' = Tail(todo) /\ UNCHANGED <<phase, is_operand_size_16, exec, writes, state>>
      /\ phase = "decode"
  BY <1>1 DEF Helps, Helper, decode_op_I, decode_op_reg, decode_op_1, decode_op_O
<1>. HIDE DEF d
<1>3. PICK m \in ModRMs :
        LET w == Current(d.to).width
            x == IF m.mod = 3 THEN RegOperand(m.rm, w, d.load)
                 ELSE MemOperand(load_addr(m).addr, w, d.load)
            y == RegOperand(m.reg, w, d.g = "src")
        IN  /\ instr' = [instr EXCEPT !.rm = m]
            /\ Fetch(1 + (IF m.mod = 3 THEN 0 ELSE load_addr(m).bytes))
            /\ src' = IF d.to = "src" THEN x ELSE IF d.g = "src" THEN y ELSE src
            /\ dest' = IF d.to = "dest" THEN x ELSE IF d.g = "dest" THEN y ELSE dest
            /\ Loaded(x, d.load /\ m.mod # 3)
  BY <1>2, Zenon DEF read_ModR_M, d
<1>. DEFINE w == Current(e).width
<1>4. /\ instr' = [instr EXCEPT !.rm = m]
      /\ Fetched(RMBytes(m))
      /\ src' = IF e = "src" THEN RMOf(m, w, load)
                ELSE IF g = "src" THEN RegOperand(m.reg, w, g = "src") ELSE src
      /\ dest' = IF e = "dest" THEN RMOf(m, w, load)
                 ELSE IF g = "dest" THEN RegOperand(m.reg, w, g = "src") ELSE dest
      /\ Loaded(RMOf(m, w, load), load /\ m.mod # 3)
  BY <1>1, <1>3, Zenon DEF Fetched, Fetch, RMBytes, RMOf
<1>5. DOMAIN instr' = InstrFields /\ op' = op /\ instr'.prefixes = instr.prefixes /\ rm' = m
  BY <1>4 DEF Shape, InstrFields, op, rm
<1>6. loads' = IF load /\ m.mod # 3 THEN loads \cup {load_addr(m).addr} ELSE loads
  <2>1. m.mod # 3 => RMOf(m, w, load).addr = load_addr(m).addr
    BY MemShape DEF RMOf
  <2>. QED  BY <1>4, <2>1 DEF Loaded
<1>7. Kept
  BY <1>2, <1>5 DEF Kept
<1>8. CASE e = "dest"
  <2>1. w = dest.width
    BY <1>8 DEF Current
  <2>2. g = "src" => (g = "src") = TRUE
    OBVIOUS
  <2>. QED  BY <1>4, <1>5, <1>6, <1>7, <1>8, <2>1, <2>2
<1>9. CASE e = "src"
  <2>1. w = src.width
    BY <1>9 DEF Current
  <2>2. (g = "src") = FALSE
    BY <1>9
  <2>. QED  BY <1>4, <1>5, <1>6, <1>7, <1>9, <2>1, <2>2
<1>. QED  BY <1>8, <1>9

(* I and Ib give the source.                                               *)
LEMMA ImmStep ==
  ASSUME Shape, Helps, NEW k \in {"I", "Ib"}, Head(todo) = Op(k, "src", TRUE)
  PROVE  \E w \in {1, src.width} :
           /\ Kept /\ rm' = rm /\ Fetched(w)
           /\ k = "I" => w = src.width
           /\ src' = Imm(w) /\ dest' = dest /\ loads' = loads
<1>. DEFINE d == Head(todo)
            w == IF k = "Ib" THEN 1 ELSE src.width
<1>1. d.k = k /\ d.to = "src"
  BY DEF Op
<1>2. /\ decode_op_I
      /\ todo' = Tail(todo) /\ UNCHANGED <<phase, is_operand_size_16, exec, writes, state>>
      /\ phase = "decode"
  BY <1>1 DEF Helps, Helper, read_ModR_M, decode_op_reg, decode_op_1, decode_op_O
<1>. HIDE DEF d
<1>3. /\ Fetch(w) /\ Set("src", Operand("imm", w, None, NoAddr, Extend(ImmPlaces(w))))
      /\ UNCHANGED <<loads, instr>>
  BY <1>1, <1>2 DEF decode_op_I, d, Current
<1>. HIDE DEF w
<1>4. src' = Imm(w) /\ dest' = dest /\ Fetched(w)
  BY <1>3 DEF Set, Imm, Fetched, Fetch
<1>5. Kept /\ rm' = rm
  BY <1>2, <1>3 DEF Kept, op, rm, Shape
<1>. QED  BY <1>3, <1>4, <1>5 DEF w

(* 1 and cl give the source, of the width that it has.                     *)
LEMMA ShiftStep ==
  ASSUME Shape, Helps, NEW k \in {"1", "cl"}, Head(todo) = Op(k, "src", TRUE)
  PROVE  /\ Kept /\ rm' = rm /\ UNCHANGED <<seq_pc, logged>>
         /\ DOMAIN src' = OperandFields /\ src'.width = src.width
         /\ dest' = dest /\ loads' = loads
<1>. DEFINE d == Head(todo)
<1>1. d.k = k /\ d.to = "src" /\ d.load = TRUE
  BY DEF Op
<1>2. /\ k = "1" => decode_op_1
      /\ k = "cl" => decode_op_reg
      /\ todo' = Tail(todo) /\ UNCHANGED <<phase, is_operand_size_16, exec, writes, state>>
      /\ phase = "decode"
  BY <1>1 DEF Helps, Helper, read_ModR_M, decode_op_I, decode_op_reg, decode_op_1, decode_op_O
<1>. HIDE DEF d
<1>3. CASE k = "1"
  <2>1. /\ src' = Operand("imm", src.width, None, NoAddr, Extend(ImmPlaces(1)))
        /\ dest' = dest /\ UNCHANGED <<seq_pc, logged, loads, instr>>
    BY <1>1, <1>2, <1>3 DEF decode_op_1, d, Current, Set
  <2>2. DOMAIN src' = OperandFields /\ src'.width = src.width
    BY <2>1, OperandShape
  <2>3. Kept /\ rm' = rm
    BY <1>2, <2>1 DEF Kept, op, rm, Shape
  <2>. QED  BY <2>1, <2>2, <2>3
<1>4. CASE k = "cl"
  <2>. DEFINE o == RegOperand(R_CL, src.width, TRUE)
  <2>1. /\ src' = [o EXCEPT !.val = Extend(reg_b(R_CL))]
        /\ dest' = dest /\ UNCHANGED <<seq_pc, logged, loads, instr>>
    <3>1. (CASE d.k = "a" -> R_EAX [] d.k = "r" -> instr.opcode % 8 [] d.k = "cl" -> R_CL) = R_CL
      BY <1>1, <1>4
    <3>2. /\ Set("src", [o EXCEPT !.val = Extend(reg_b(R_CL))])
          /\ UNCHANGED <<seq_pc, logged, loads, instr>>
      BY <1>1, <1>2, <1>4, <3>1 DEF decode_op_reg, d, Current
    <3>. QED  BY <3>2 DEF Set
  <2>2. DOMAIN o = OperandFields /\ o.width = src.width
    BY RegShape
  <2>. HIDE DEF o
  <2>3. DOMAIN src' = OperandFields /\ src'.width = src.width
    BY <2>1, <2>2 DEF OperandFields
  <2>4. Kept /\ rm' = rm
    BY <1>2, <2>1 DEF Kept, op, rm, Shape
  <2>. QED  BY <2>1, <2>3, <2>4
<1>. QED  BY <1>3, <1>4

(* AL or eAX, or the register in the opcode.                               *)
LEMMA RegStep ==
  ASSUME Shape, Helps, NEW k \in {"a", "r"}, NEW e \in {"src", "dest"}, NEW load \in BOOLEAN,
         Head(todo) = Op(k, e, load)
  PROVE  /\ Kept /\ rm' = rm /\ UNCHANGED <<seq_pc, logged>> /\ loads' = loads
         /\ e = "src" => /\ dest' = dest
                         /\ src' = RegOperand(IF k = "a" THEN R_EAX ELSE op % 8, src.width, load)
         /\ e = "dest" => /\ src' = src
                          /\ dest' = RegOperand(IF k = "a" THEN R_EAX ELSE op % 8, dest.width, load)
<1>. DEFINE d == Head(todo)
            r == IF k = "a" THEN R_EAX ELSE op % 8
<1>1. d.k = k /\ d.to = e /\ d.load = load
  BY OpFields
<1>2. /\ decode_op_reg
      /\ todo' = Tail(todo) /\ UNCHANGED <<phase, is_operand_size_16, exec, writes, state>>
      /\ phase = "decode"
  BY <1>1 DEF Helps, Helper, read_ModR_M, decode_op_I, decode_op_1, decode_op_O
<1>. HIDE DEF d
<1>3. (CASE d.k = "a" -> R_EAX [] d.k = "r" -> instr.opcode % 8 [] d.k = "cl" -> R_CL) = r
  BY <1>1 DEF op
<1>. HIDE DEF r
<1>4. /\ Set(e, RegOperand(r, Current(e).width, load))
      /\ UNCHANGED <<seq_pc, logged, loads, instr>>
  BY <1>1, <1>2, <1>3 DEF decode_op_reg, d
<1>5. Kept /\ rm' = rm /\ UNCHANGED <<seq_pc, logged>> /\ loads' = loads
  BY <1>2, <1>4 DEF Kept, op, rm, Shape
<1>6. e = "src" => dest' = dest /\ src' = RegOperand(r, src.width, load)
  BY <1>4 DEF Set, Current
<1>7. e = "dest" => src' = src /\ dest' = RegOperand(r, dest.width, load)
  BY <1>4 DEF Set, Current
<1>. QED  BY <1>5, <1>6, <1>7 DEF r

(* The address in the instruction.                                         *)
LEMMA OffsetStep ==
  ASSUME Shape, Helps, NEW e \in {"src", "dest"}, NEW load \in BOOLEAN,
         Head(todo) = Op("O", e, load)
  PROVE  /\ Kept /\ rm' = rm /\ Fetched(4)
         /\ loads' = IF load THEN loads \cup {Absolute} ELSE loads
         /\ e = "src" => dest' = dest /\ src' = MemOperand(Absolute, src.width, load)
         /\ e = "dest" => src' = src /\ dest' = MemOperand(Absolute, dest.width, load)
<1>. DEFINE d == Head(todo)
<1>1. d.k = "O" /\ d.to = e /\ d.load = load
  BY OpFields
<1>2. /\ decode_op_O
      /\ todo' = Tail(todo) /\ UNCHANGED <<phase, is_operand_size_16, exec, writes, state>>
      /\ phase = "decode"
  BY <1>1 DEF Helps, Helper, read_ModR_M, decode_op_I, decode_op_1, decode_op_reg
<1>. HIDE DEF d
<1>. DEFINE o == MemOperand(Absolute, Current(e).width, load)
<1>4. Set(e, o) /\ Loaded(o, load) /\ UNCHANGED instr /\ Fetch(4)
  BY <1>1, <1>2 DEF decode_op_O, d
<1>5. o.addr = Absolute
  BY MemShape
<1>6. loads' = IF load THEN loads \cup {Absolute} ELSE loads
  <2>. HIDE DEF o
  <2>. QED  BY <1>4, <1>5 DEF Loaded
<1>7. Kept /\ rm' = rm
  BY <1>2, <1>4 DEF Kept, op, rm, Shape
<1>10. Fetched(4)
  BY <1>4 DEF Fetched, Fetch
<1>8. e = "src" => dest' = dest /\ src' = MemOperand(Absolute, src.width, load)
  BY <1>4 DEF Set, Current
<1>9. e = "dest" => src' = src /\ dest' = MemOperand(Absolute, dest.width, load)
  BY <1>4 DEF Set, Current
<1>. QED  BY <1>6, <1>7, <1>8, <1>9, <1>10

(* decode_op_SI does not return.                                           *)
LEMMA SignedStep ==
  ASSUME Helps, Head(todo) = Op("SI", "src", TRUE)
  PROVE  FALSE
<1>1. Head(todo).k = "SI"
  BY DEF Op
<1>. QED  BY <1>1 DEF Helps, Helper, read_ModR_M, decode_op_I, decode_op_reg, decode_op_1, decode_op_O

-----------------------------------------------------------------------------
(* The decode helpers preserve the invariant.                              *)

(* set_width gives a mov the width of the i386's.                          *)
LEMMA MovWidths ==
  ASSUME Shape, op \in Movs
  PROVE  Width(entry.width) = MovWidth /\ GoodWidth(MovWidth)
<1>1. op \in Int /\ instr.prefixes \in Nat
  BY MovClasses DEF Shape
<1>2. CASE op \in \hb0 .. \hb7
  <2>1. entry.width = 1
    BY <1>1, <1>2, TableOfMovs, EntryParts DEF entry
  <2>2. ToByte
    BY <1>1, <1>2 DEF ToByte
  <2>. QED  BY <2>1, <2>2 DEF Width, MovWidth, GoodWidth
<1>3. CASE op \in \hb8 .. \hbf
  <2>1. entry.width = 0
    BY <1>1, <1>3, TableOfMovs, EntryParts DEF entry
  <2>2. ~ ToByte
    BY <1>1, <1>3 DEF ToByte
  <2>. QED  BY <1>1, <2>1, <2>2 DEF Width, MovWidth, GoodWidth, Shape
<1>4. CASE op \in {\h88, \h89, \h8a, \h8b, \ha0, \ha1, \ha2, \ha3, \hc6, \hc7}
  <2>1. entry.width = ByteOr(op)
    BY <1>1, <1>4, TableOfMovs, EntryParts DEF entry
  <2>2. ToByte <=> op % 2 = 0
    BY <1>1, <1>4 DEF ToByte
  <2>3. op % 2 = 0 => entry.width = 1
    BY <2>1 DEF ByteOr
  <2>4. op % 2 # 0 => entry.width = 0
    BY <2>1 DEF ByteOr
  <2>. HIDE DEF entry
  <2>5. CASE op % 2 = 0
    BY <2>2, <2>3, <2>5 DEF Width, MovWidth, GoodWidth
  <2>6. CASE op % 2 # 0
    BY <1>1, <2>2, <2>4, <2>6 DEF Width, MovWidth, GoodWidth, Shape
  <2>. QED  BY <2>5, <2>6
<1>. QED  BY <1>2, <1>3, <1>4, MovClasses

(* What the helpers of an opcode that is no mov are.                       *)
OneHelper(s) == \E load \in BOOLEAN : s = <<Rm("dest", load, "none")>>
TwoHelpers(s, o) ==
  \/ s = <<Rm("dest", TRUE, "none"), Op("SI", "src", TRUE)>> /\ o = \h83
  \/ /\ o < 256
     /\ \/ \E k \in {"I", "Ib"} : s = <<Rm("dest", TRUE, "none"), Op(k, "src", TRUE)>>
        \/ \E k \in {"1", "cl"} : s = <<Rm("dest", TRUE, "none"), Op(k, "src", TRUE)>>

LEMMA GroupDecode ==
  ASSUME NEW o \in Int, o \notin Movs, opcode_table(o).decode # <<>>
  PROVE  /\ opcode_table(o).exec = "group"
         /\ \/ OneHelper(opcode_table(o).decode)
            \/ TwoHelpers(opcode_table(o).decode, o)
<1>. DEFINE s == opcode_table(o).decode
<1>1. /\ opcode_table(o).exec = "group"
      /\ \/ s \in GroupLists /\ o < 256
         \/ s = SI2E /\ o = \h83
         \/ s \in {E, gp7_E}
  BY TableOfOthers DEF Described
<1>. HIDE DEF s
<1>2. ASSUME s \in {E, gp7_E}  PROVE OneHelper(s)
  BY <1>2 DEF OneHelper, E, gp7_E
<1>3. ASSUME s = SI2E, o = \h83  PROVE TwoHelpers(s, o)
  BY <1>3, Lists DEF TwoHelpers
<1>4. ASSUME s \in GroupLists, o < 256  PROVE TwoHelpers(s, o)
  <2>1. CASE s = I2E
    BY <1>4, <2>1, Lists, Zenon DEF TwoHelpers
  <2>2. CASE s = gp2_Ib2E
    BY <1>4, <2>2, Lists, Zenon DEF TwoHelpers
  <2>3. CASE s = gp2_1_E
    BY <1>4, <2>3, Lists, Zenon DEF TwoHelpers
  <2>4. CASE s = gp2_cl2E
    BY <1>4, <2>4, Lists, Zenon DEF TwoHelpers
  <2>. QED  BY <1>4, <2>1, <2>2, <2>3, <2>4 DEF GroupLists
<1>. QED  BY <1>1, <1>2, <1>3, <1>4 DEF s

(* What the bytes read so far name does not change.                        *)
LEMMA Stable ==
  ASSUME Kept
  PROVE  /\ op' = op /\ entry' = entry /\ Start' = Start /\ Most' = Most
         /\ MovWidth' = MovWidth /\ phase' = "decode" /\ todo' = Tail(todo)
<1>1. op' = op /\ instr'.prefixes = instr.prefixes
  BY DEF Kept
<1>. QED  BY <1>1 DEF Kept, entry, Start, Most, MovWidth, ToByte

LEMMA StillDecoding ==
  ASSUME Shape, Decoding, Kept, exec = entry.exec, NEW n \in Nat,
         Fetched(n), seq_pc + n <= Most,
         DOMAIN src' = OperandFields, DOMAIN dest' = OperandFields,
         GoodWidth(src'.width), GoodWidth(dest'.width)
  PROVE  Shape' /\ Decoding'
<1>1. Shape'
  <2>1. DOMAIN instr' = InstrFields /\ instr'.prefixes = instr.prefixes
    BY DEF Kept
  <2>2. is_operand_size_16' = is_operand_size_16
    BY DEF Kept
  <2>3. instr.prefixes \in Nat /\ is_operand_size_16 \in BOOLEAN
        /\ (is_operand_size_16 <=> instr.prefixes > 0)
    BY DEF Shape
  <2>. QED  BY <2>1, <2>2, <2>3, Zenon DEF Shape
<1>2. GoodWidth(src.width)' /\ GoodWidth(dest.width)'
  BY DEF GoodWidth, Kept
<1>3. seq_pc' = logged' /\ logged' \in Nat /\ logged' <= Most'
  BY Stable DEF Decoding, Fetched
<1>4. state' = "RUNNING" /\ writes' = {} /\ op' \in 0 .. 511 /\ exec' = entry'.exec
  BY Stable DEF Decoding, Kept
<1>. QED  BY <1>1, <1>2, <1>3, <1>4, Zenon DEF Decoding

(* IInv after a helper that leaves the instruction to be decoded.          *)
LEMMA DecodesOn ==
  ASSUME Kept, Shape', Decoding', Begun' \/ Half' \/ Decoded'
  PROVE  IInv'
<1>1. phase' = "decode"
  BY DEF Kept
<1>. QED  BY <1>1, NotEnded DEF IInv

(* What IInv says while helpers are left.                                  *)
LEMMA DecodeFacts ==
  ASSUME IInv, phase = "decode", todo # <<>>
  PROVE  /\ Shape /\ Decoding /\ (Begun \/ Half)
         /\ exec = entry.exec /\ todo # <<>>
         /\ op \in Int /\ instr.prefixes \in Nat /\ seq_pc \in Nat /\ Start \in Nat /\ Most \in Nat
         /\ DOMAIN src = OperandFields /\ DOMAIN dest = OperandFields
         /\ GoodWidth(src.width) /\ GoodWidth(dest.width)
         /\ Start + 6 <= Most
<1>1. phase = "decode" /\ todo # <<>>
  OBVIOUS
<1>2. Shape /\ Decoding /\ (Begun \/ Half)
  BY <1>1 DEF IInv, Decoded, Deaths
<1>3. exec = entry.exec /\ op \in Int /\ instr.prefixes \in Nat /\ seq_pc \in Nat
  BY <1>1, <1>2 DEF Decoding, Shape
<1>4. Start \in Nat /\ Most \in Nat /\ Start + 6 <= Most
  BY <1>3 DEF Start, Most
<1>5. /\ DOMAIN src = OperandFields /\ DOMAIN dest = OperandFields
      /\ GoodWidth(src.width) /\ GoodWidth(dest.width)
  BY <1>2 DEF Shape, Decoding
<1>. QED  BY <1>1, <1>2, <1>3, <1>4, <1>5

LEMMA Exclusive ==
  ASSUME NEW o \in Int
  PROVE  /\ o \in {\h88, \h89} =>
              /\ o \notin {\h8a, \h8b} /\ o \notin {\ha0, \ha1} /\ o \notin {\ha2, \ha3}
              /\ o \notin \hb0 .. \hbf /\ o \notin {\hc6, \hc7}
              /\ o \notin (\ha0 .. \ha3) \cup (\hb0 .. \hbf)
         /\ o \in {\h8a, \h8b} =>
              /\ o \notin {\h88, \h89} /\ o \notin {\ha0, \ha1} /\ o \notin {\ha2, \ha3}
              /\ o \notin \hb0 .. \hbf /\ o \notin {\hc6, \hc7}
              /\ o \notin (\ha0 .. \ha3) \cup (\hb0 .. \hbf)
         /\ o \in {\ha0, \ha1} =>
              /\ o \notin {\h88, \h89} /\ o \notin {\h8a, \h8b} /\ o \notin {\ha2, \ha3}
              /\ o \notin \hb0 .. \hbf /\ o \notin {\hc6, \hc7}
         /\ o \in {\ha2, \ha3} =>
              /\ o \notin {\h88, \h89} /\ o \notin {\h8a, \h8b} /\ o \notin {\ha0, \ha1}
              /\ o \notin \hb0 .. \hbf /\ o \notin {\hc6, \hc7}
         /\ o \in \hb0 .. \hbf =>
              /\ o \notin {\h88, \h89} /\ o \notin {\h8a, \h8b} /\ o \notin {\ha0, \ha1}
              /\ o \notin {\ha2, \ha3} /\ o \notin {\hc6, \hc7}
         /\ o \in {\hc6, \hc7} =>
              /\ o \notin {\h88, \h89} /\ o \notin {\h8a, \h8b} /\ o \notin {\ha0, \ha1}
              /\ o \notin {\ha2, \ha3} /\ o \notin \hb0 .. \hbf
              /\ o \notin (\ha0 .. \ha3) \cup (\hb0 .. \hbf)
         /\ o \notin Movs =>
              /\ o \notin {\h88, \h89} /\ o \notin {\h8a, \h8b} /\ o \notin {\ha0, \ha1}
              /\ o \notin {\ha2, \ha3} /\ o \notin \hb0 .. \hbf /\ o \notin {\hc6, \hc7}
              /\ o \notin (\ha0 .. \ha3) \cup (\hb0 .. \hbf)
  BY DEF Movs

LEMMA BegunRmStep ==
  ASSUME IInv, Helps, Begun,
         op \in {\h88, \h89} \/ op \in {\h8a, \h8b} \/ op \in {\hc6, \hc7}
  PROVE  IInv'
<1>1. /\ Shape /\ Decoding /\ exec = entry.exec /\ op \in Movs
      /\ op \in Int /\ instr.prefixes \in Nat /\ seq_pc \in Nat /\ Start \in Nat /\ Most \in Nat
      /\ DOMAIN src = OperandFields /\ DOMAIN dest = OperandFields
      /\ Start + 6 <= Most
  BY DecodeFacts DEF Helps, Movs
<1>2. src.width = MovWidth /\ dest.width = MovWidth /\ GoodWidth(MovWidth)
  BY <1>1, MovWidths DEF Begun
<1>3. seq_pc = Start /\ loads = {} /\ todo = entry.decode
  BY DEF Begun
<1>4. CASE op \in {\h88, \h89}
  <2>0. entry.decode = mov_G2E /\ entry.exec = "mov"
    BY <1>1, <1>4, TableOfMovs, EntryParts DEF entry
  <2>1. todo = <<Rm("dest", FALSE, "src")>>
    BY <1>3, <2>0 DEF mov_G2E
  <2>2. Head(todo) = Rm("dest", FALSE, "src") /\ Tail(todo) = <<>> /\ todo # <<>>
    BY <2>1, ListParts
  <2>3. PICK m \in ModRMs :
           /\ Kept /\ rm' = m /\ Fetched(RMBytes(m))
           /\ dest' = RMOf(m, dest.width, FALSE)
           /\ src' = RegOperand(m.reg, dest.width, TRUE)
           /\ loads' = loads
    BY <1>1, <2>2, RmStep, Zenon
  <2>10. dest' = RMOf(m, MovWidth, FALSE) /\ src' = RegOperand(m.reg, MovWidth, TRUE)
    BY <1>2, <2>3
  <2>4. RMBytes(m) \in Nat /\ RMBytes(m) <= 6
    BY RMBytesBound
  <2>9. seq_pc + RMBytes(m) <= Most
    BY <1>1, <1>3, <2>4
  <2>5. /\ DOMAIN dest' = OperandFields /\ dest'.width = MovWidth
        /\ DOMAIN src' = OperandFields /\ src'.width = MovWidth
    <3>1. \A b \in BOOLEAN : /\ DOMAIN RMOf(m, MovWidth, b) = OperandFields
                             /\ RMOf(m, MovWidth, b).width = MovWidth
                             /\ DOMAIN RegOperand(m.reg, MovWidth, b) = OperandFields
                             /\ RegOperand(m.reg, MovWidth, b).width = MovWidth
      BY RMShape, RegShape
    <3>. QED  BY <2>10, <3>1
  <2>6. Shape' /\ Decoding'
    BY <1>1, <1>2, <2>3, <2>4, <2>5, <2>9, StillDecoding, Zenon
  <2>11. /\ rm' \in ModRMs /\ dest' = RMOf(rm', MovWidth', FALSE)
         /\ src' = RegOperand(rm'.reg, MovWidth', TRUE)
         /\ seq_pc' = Start' + RMBytes(rm') /\ loads' = {}
    BY <1>3, <2>3, <2>10, Stable DEF Fetched
  <2>12. op' \in {\h88, \h89}
    BY <1>4, <2>3, Stable
  <2>13. /\ op' \notin {\h8a, \h8b}
         /\ op' \notin {\ha0, \ha1}
         /\ op' \notin {\ha2, \ha3}
         /\ op' \notin \hb0 .. \hbf
         /\ op' \notin {\hc6, \hc7}
         /\ op' \notin (\ha0 .. \ha3) \cup (\hb0 .. \hbf)
    BY <1>1, <2>12, Exclusive, <2>3, Stable
  <2>14. todo' = <<>> /\ entry'.decode # <<>> /\ entry'.exec # "group"
    BY <1>3, <2>0, <2>2, <2>3, Stable
  <2>7. Decoded'
    BY <2>11, <2>13, <2>14, Zenon DEF Decoded
  <2>. QED  BY <2>3, <2>6, <2>7, DecodesOn
<1>5. CASE op \in {\h8a, \h8b}
  <2>0. entry.decode = mov_E2G /\ entry.exec = "mov"
    BY <1>1, <1>5, TableOfMovs, EntryParts DEF entry
  <2>1. todo = <<Rm("src", TRUE, "dest")>>
    BY <1>3, <2>0 DEF mov_E2G
  <2>2. Head(todo) = Rm("src", TRUE, "dest") /\ Tail(todo) = <<>> /\ todo # <<>>
    BY <2>1, ListParts
  <2>3. PICK m \in ModRMs :
           /\ Kept /\ rm' = m /\ Fetched(RMBytes(m))
           /\ src' = RMOf(m, src.width, TRUE)
           /\ dest' = RegOperand(m.reg, src.width, FALSE)
           /\ loads' = IF m.mod # 3 THEN loads \cup {load_addr(m).addr} ELSE loads
    BY <1>1, <2>2, RmStep, Zenon
  <2>10. src' = RMOf(m, MovWidth, TRUE) /\ dest' = RegOperand(m.reg, MovWidth, FALSE)
    BY <1>2, <2>3
  <2>4. RMBytes(m) \in Nat /\ RMBytes(m) <= 6
    BY RMBytesBound
  <2>9. seq_pc + RMBytes(m) <= Most
    BY <1>1, <1>3, <2>4
  <2>5. /\ DOMAIN dest' = OperandFields /\ dest'.width = MovWidth
        /\ DOMAIN src' = OperandFields /\ src'.width = MovWidth
    <3>1. \A b \in BOOLEAN : /\ DOMAIN RMOf(m, MovWidth, b) = OperandFields
                             /\ RMOf(m, MovWidth, b).width = MovWidth
                             /\ DOMAIN RegOperand(m.reg, MovWidth, b) = OperandFields
                             /\ RegOperand(m.reg, MovWidth, b).width = MovWidth
      BY RMShape, RegShape
    <3>. QED  BY <2>10, <3>1
  <2>6. Shape' /\ Decoding'
    BY <1>1, <1>2, <2>3, <2>4, <2>5, <2>9, StillDecoding, Zenon
  <2>7. loads' = RMLoads'
    BY <1>3, <2>3 DEF RMLoads
  <2>11. /\ rm' \in ModRMs /\ src' = RMOf(rm', MovWidth', TRUE)
         /\ dest' = RegOperand(rm'.reg, MovWidth', FALSE)
         /\ seq_pc' = Start' + RMBytes(rm') /\ loads' = RMLoads'
    BY <1>3, <2>3, <2>10, Stable, <2>7 DEF Fetched
  <2>12. op' \in {\h8a, \h8b}
    BY <1>5, <2>3, Stable
  <2>13. /\ op' \notin {\h88, \h89}
         /\ op' \notin {\ha0, \ha1}
         /\ op' \notin {\ha2, \ha3}
         /\ op' \notin \hb0 .. \hbf
         /\ op' \notin {\hc6, \hc7}
         /\ op' \notin (\ha0 .. \ha3) \cup (\hb0 .. \hbf)
    BY <1>1, <2>12, Exclusive, <2>3, Stable
  <2>14. todo' = <<>> /\ entry'.decode # <<>> /\ entry'.exec # "group"
    BY <1>3, <2>0, <2>2, <2>3, Stable
  <2>8. Decoded'
    BY <2>11, <2>13, <2>14, Zenon DEF Decoded
  <2>. QED  BY <2>3, <2>6, <2>8, DecodesOn
<1>6. CASE op \in {\hc6, \hc7}
  <2>0. entry.decode = mov_I2E /\ entry.exec = "mov"
    BY <1>1, <1>6, TableOfMovs, EntryParts DEF entry
  <2>1. todo = <<Rm("dest", FALSE, "none"), Op("I", "src", TRUE)>>
    BY <1>3, <2>0 DEF mov_I2E
  <2>2. Head(todo) = Rm("dest", FALSE, "none") /\ Tail(todo) # <<>> /\ todo # <<>>
    BY <2>1, ListParts
  <2>3. PICK m \in ModRMs :
           /\ Kept /\ rm' = m /\ Fetched(RMBytes(m))
           /\ dest' = RMOf(m, dest.width, FALSE)
           /\ src' = src
           /\ loads' = loads
    BY <1>1, <2>2, RmStep, Zenon
  <2>10. dest' = RMOf(m, MovWidth, FALSE) /\ src'.width = MovWidth
    BY <1>2, <2>3
  <2>4. RMBytes(m) \in Nat /\ RMBytes(m) <= 6
    BY RMBytesBound
  <2>9. seq_pc + RMBytes(m) <= Most
    BY <1>1, <1>3, <2>4
  <2>5. /\ DOMAIN dest' = OperandFields /\ dest'.width = MovWidth
        /\ DOMAIN src' = OperandFields /\ src'.width = MovWidth
    <3>1. \A b \in BOOLEAN : /\ DOMAIN RMOf(m, MovWidth, b) = OperandFields
                             /\ RMOf(m, MovWidth, b).width = MovWidth
      BY RMShape
    <3>. QED  BY <1>1, <2>3, <2>10, <3>1
  <2>6. Shape' /\ Decoding'
    BY <1>1, <1>2, <2>3, <2>4, <2>5, <2>9, StillDecoding, Zenon
  <2>8. seq_pc' <= Start' + 6
    BY <1>1, <1>3, <2>3, <2>4, Stable DEF Fetched
  <2>11. /\ rm' \in ModRMs /\ dest' = RMOf(rm', MovWidth', FALSE)
         /\ src'.width = MovWidth'
         /\ seq_pc' = Start' + RMBytes(rm') /\ loads' = {}
    BY <1>3, <2>3, <2>10, Stable DEF Fetched
  <2>12. op' \in {\hc6, \hc7}
    BY <1>6, <2>3, Stable
  <2>13. /\ op' \notin {\h88, \h89}
         /\ op' \notin {\h8a, \h8b}
         /\ op' \notin {\ha0, \ha1}
         /\ op' \notin {\ha2, \ha3}
         /\ op' \notin \hb0 .. \hbf
         /\ op' \notin (\ha0 .. \ha3) \cup (\hb0 .. \hbf)
    BY <1>1, <2>12, Exclusive, <2>3, Stable
  <2>14. todo' = Tail(entry'.decode) /\ todo' # <<>> /\ entry'.decode # <<>> /\ entry'.exec # "group"
    BY <1>3, <2>0, <2>2, <2>3, Stable
  <2>7. Half'
    BY <2>8, <2>11, <2>13, <2>14, Zenon DEF Half
  <2>. QED  BY <2>3, <2>6, <2>7, DecodesOn
<1>. QED  BY <1>4, <1>5, <1>6

(* The first helper of a mov with an absolute address, or of one whose     *)
(* register is in the opcode.                                              *)
LEMMA BegunPlainStep ==
  ASSUME IInv, Helps, Begun,
         op \in {\ha0, \ha1} \/ op \in {\ha2, \ha3} \/ op \in \hb0 .. \hbf
  PROVE  IInv'
<1>1. /\ Shape /\ Decoding /\ exec = entry.exec /\ op \in Movs
      /\ op \in Int /\ instr.prefixes \in Nat /\ seq_pc \in Nat /\ Start \in Nat /\ Most \in Nat
      /\ DOMAIN src = OperandFields /\ DOMAIN dest = OperandFields
      /\ Start + 6 <= Most
  BY DecodeFacts DEF Helps, Movs
<1>2. src.width = MovWidth /\ dest.width = MovWidth /\ GoodWidth(MovWidth)
  BY <1>1, MovWidths DEF Begun
<1>3. seq_pc = Start /\ loads = {} /\ todo = entry.decode /\ rm = NoRM
  BY DEF Begun
<1>4. CASE op \in {\ha0, \ha1}
  <2>0. entry.decode = O2a /\ entry.exec = "mov"
    BY <1>1, <1>4, TableOfMovs, EntryParts DEF entry
  <2>1. todo = <<Op("O", "src", TRUE), Op("a", "dest", FALSE)>>
    BY <1>3, <2>0 DEF O2a
  <2>2. Head(todo) = Op("O", "src", TRUE) /\ Tail(todo) # <<>> /\ todo # <<>>
    BY <2>1, ListParts
  <2>3. /\ Kept /\ rm' = rm /\ Fetched(4)
        /\ src' = MemOperand(Absolute, src.width, TRUE) /\ dest' = dest
        /\ loads' = loads \cup {Absolute}
    BY <1>1, <2>2, OffsetStep, Zenon
  <2>4. src' = MemOperand(Absolute, MovWidth, TRUE) /\ dest' = dest
    BY <1>2, <2>3
  <2>5. /\ DOMAIN dest' = OperandFields /\ dest'.width = MovWidth
        /\ DOMAIN src' = OperandFields /\ src'.width = MovWidth
    <3>1. \A b \in BOOLEAN : DOMAIN MemOperand(Absolute, MovWidth, b) = OperandFields
                             /\ MemOperand(Absolute, MovWidth, b).width = MovWidth
      BY MemShape
    <3>. QED  BY <1>1, <1>2, <2>4, <3>1
  <2>6. Fetched(4) /\ seq_pc + 4 <= Most /\ 4 \in Nat
    BY <1>1, <1>3, <2>3
  <2>7. Shape' /\ Decoding'
    BY <1>1, <1>2, <2>3, <2>5, <2>6, StillDecoding, Zenon
  <2>8. seq_pc' = Start' + 4 /\ seq_pc' <= Start' + 6
    BY <1>1, <1>3, <2>3, Stable DEF Fetched
  <2>11. /\ src' = MemOperand(Absolute, MovWidth', TRUE)
         /\ dest'.width = MovWidth'
         /\ loads' = {Absolute} /\ rm' = NoRM
    BY <1>3, <2>3, <2>4, <2>5, Stable
  <2>12. op' \in {\ha0, \ha1}
    BY <1>4, <2>3, Stable
  <2>13. /\ op' \notin {\h88, \h89}
         /\ op' \notin {\h8a, \h8b}
         /\ op' \notin {\ha2, \ha3}
         /\ op' \notin \hb0 .. \hbf
         /\ op' \notin {\hc6, \hc7}
    BY <1>1, <2>12, Exclusive, <2>3, Stable
  <2>14. /\ todo' = Tail(entry'.decode) /\ todo' # <<>>
         /\ entry'.decode # <<>> /\ entry'.exec # "group"
    BY <1>3, <2>0, <2>2, <2>3, Stable
  <2>15. Half'
    BY <2>8, <2>11, <2>13, <2>14, Zenon DEF Half
  <2>. QED  BY <2>3, <2>7, <2>15, DecodesOn
<1>5. CASE op \in {\ha2, \ha3}
  <2>0. entry.decode = a2O /\ entry.exec = "mov"
    BY <1>1, <1>5, TableOfMovs, EntryParts DEF entry
  <2>1. todo = <<Op("a", "src", TRUE), Op("O", "dest", FALSE)>>
    BY <1>3, <2>0 DEF a2O
  <2>2. Head(todo) = Op("a", "src", TRUE) /\ Tail(todo) # <<>> /\ todo # <<>>
    BY <2>1, ListParts
  <2>3. /\ Kept /\ rm' = rm /\ UNCHANGED <<seq_pc, logged>>
        /\ src' = RegOperand(R_EAX, src.width, TRUE) /\ dest' = dest
        /\ loads' = loads
    BY <1>1, <2>2, RegStep, Zenon
  <2>4. src' = RegOperand(R_EAX, MovWidth, TRUE) /\ dest' = dest
    BY <1>2, <2>3
  <2>5. /\ DOMAIN dest' = OperandFields /\ dest'.width = MovWidth
        /\ DOMAIN src' = OperandFields /\ src'.width = MovWidth
    <3>1. \A b \in BOOLEAN : DOMAIN RegOperand(R_EAX, MovWidth, b) = OperandFields
                             /\ RegOperand(R_EAX, MovWidth, b).width = MovWidth
      BY RegShape
    <3>. QED  BY <1>1, <1>2, <2>4, <3>1
  <2>6. Fetched(0) /\ seq_pc + 0 <= Most /\ 0 \in Nat
    <3>1. logged = seq_pc
      BY <1>1 DEF Decoding
    <3>. QED  BY <1>1, <1>3, <2>3, <3>1 DEF Fetched
  <2>7. Shape' /\ Decoding'
    BY <1>1, <1>2, <2>3, <2>5, <2>6, StillDecoding, Zenon
  <2>8. seq_pc' = Start' /\ seq_pc' <= Start' + 6
    BY <1>1, <1>3, <2>3, Stable DEF Fetched
  <2>11. /\ src' = RegOperand(R_EAX, MovWidth', TRUE)
         /\ dest'.width = MovWidth'
         /\ loads' = {} /\ rm' = NoRM
    BY <1>3, <2>3, <2>4, <2>5, Stable
  <2>12. op' \in {\ha2, \ha3}
    BY <1>5, <2>3, Stable
  <2>13. /\ op' \notin {\h88, \h89}
         /\ op' \notin {\h8a, \h8b}
         /\ op' \notin {\ha0, \ha1}
         /\ op' \notin \hb0 .. \hbf
         /\ op' \notin {\hc6, \hc7}
    BY <1>1, <2>12, Exclusive, <2>3, Stable
  <2>14. /\ todo' = Tail(entry'.decode) /\ todo' # <<>>
         /\ entry'.decode # <<>> /\ entry'.exec # "group"
    BY <1>3, <2>0, <2>2, <2>3, Stable
  <2>15. Half'
    BY <2>8, <2>11, <2>13, <2>14, Zenon DEF Half
  <2>. QED  BY <2>3, <2>7, <2>15, DecodesOn
<1>6. CASE op \in \hb0 .. \hbf
  <2>0. entry.decode = mov_I2r /\ entry.exec = "mov"
    <3>1. op \in \hb0 .. \hb7 \/ op \in \hb8 .. \hbf
      BY <1>6
    <3>. QED  BY <1>1, <3>1, TableOfMovs, EntryParts DEF entry
  <2>1. todo = <<Op("r", "dest", FALSE), Op("I", "src", TRUE)>>
    BY <1>3, <2>0 DEF mov_I2r
  <2>2. Head(todo) = Op("r", "dest", FALSE) /\ Tail(todo) # <<>> /\ todo # <<>>
    BY <2>1, ListParts
  <2>3. /\ Kept /\ rm' = rm /\ UNCHANGED <<seq_pc, logged>>
        /\ dest' = RegOperand(op % 8, dest.width, FALSE) /\ src' = src
        /\ loads' = loads
    BY <1>1, <2>2, RegStep, Zenon
  <2>4. dest' = RegOperand(op % 8, MovWidth, FALSE) /\ src' = src
    BY <1>2, <2>3
  <2>5. /\ DOMAIN dest' = OperandFields /\ dest'.width = MovWidth
        /\ DOMAIN src' = OperandFields /\ src'.width = MovWidth
    <3>1. \A b \in BOOLEAN : DOMAIN RegOperand(op % 8, MovWidth, b) = OperandFields
                             /\ RegOperand(op % 8, MovWidth, b).width = MovWidth
      BY RegShape
    <3>. QED  BY <1>1, <1>2, <2>4, <3>1
  <2>6. Fetched(0) /\ seq_pc + 0 <= Most /\ 0 \in Nat
    <3>1. logged = seq_pc
      BY <1>1 DEF Decoding
    <3>. QED  BY <1>1, <1>3, <2>3, <3>1 DEF Fetched
  <2>7. Shape' /\ Decoding'
    BY <1>1, <1>2, <2>3, <2>5, <2>6, StillDecoding, Zenon
  <2>8. seq_pc' = Start' /\ seq_pc' <= Start' + 6
    BY <1>1, <1>3, <2>3, Stable DEF Fetched
  <2>11. /\ dest' = RegOperand(op' % 8, MovWidth', FALSE)
         /\ src'.width = MovWidth'
         /\ loads' = {} /\ rm' = NoRM
    BY <1>3, <2>3, <2>4, <2>5, Stable
  <2>12. op' \in \hb0 .. \hbf
    BY <1>6, <2>3, Stable
  <2>13. /\ op' \notin {\h88, \h89}
         /\ op' \notin {\h8a, \h8b}
         /\ op' \notin {\ha0, \ha1}
         /\ op' \notin {\ha2, \ha3}
         /\ op' \notin {\hc6, \hc7}
    BY <1>1, <2>12, Exclusive, <2>3, Stable
  <2>14. /\ todo' = Tail(entry'.decode) /\ todo' # <<>>
         /\ entry'.decode # <<>> /\ entry'.exec # "group"
    BY <1>3, <2>0, <2>2, <2>3, Stable
  <2>15. Half'
    BY <2>8, <2>11, <2>13, <2>14, Zenon DEF Half
  <2>. QED  BY <2>3, <2>7, <2>15, DecodesOn
<1>. QED  BY <1>4, <1>5, <1>6

(* The first helper of a group, the E of its ModR/M byte.                  *)
LEMMA BegunGroupStep ==
  ASSUME IInv, Helps, Begun, op \notin Movs
  PROVE  IInv'
<1>1. /\ Shape /\ Decoding /\ exec = entry.exec
      /\ op \in Int /\ instr.prefixes \in Nat /\ seq_pc \in Nat /\ Start \in Nat /\ Most \in Nat
      /\ DOMAIN src = OperandFields /\ DOMAIN dest = OperandFields
      /\ GoodWidth(src.width) /\ GoodWidth(dest.width)
      /\ Start + 6 <= Most
  BY DecodeFacts DEF Helps
<1>2. seq_pc = Start /\ todo = entry.decode
  BY DEF Begun
<1>3. entry.decode # <<>>
  BY <1>2, DecodeFacts DEF Helps
<1>4. entry.exec = "group" /\ (OneHelper(todo) \/ TwoHelpers(todo, op))
  BY <1>1, <1>2, <1>3, GroupDecode DEF entry
<1>5. PICK load \in BOOLEAN : Head(todo) = Rm("dest", load, "none")
  <2>1. CASE OneHelper(todo)
    <3>1. PICK load \in BOOLEAN : todo = <<Rm("dest", load, "none")>>
      BY <2>1 DEF OneHelper
    <3>2. Head(todo) = Rm("dest", load, "none")
      BY <3>1, ListParts, Zenon
    <3>. QED  BY <3>2
  <2>2. CASE TwoHelpers(todo, op)
    <3>1. PICK k \in {"SI", "I", "Ib", "1", "cl"} :
             todo = <<Rm("dest", TRUE, "none"), Op(k, "src", TRUE)>>
      BY <2>2, Zenon DEF TwoHelpers
    <3>2. Head(todo) = Rm("dest", TRUE, "none")
      BY <3>1, ListParts, Zenon
    <3>. QED  BY <3>2
  <2>. QED  BY <1>4, <2>1, <2>2
<1>6. PICK m \in ModRMs :
        /\ Kept /\ rm' = m /\ Fetched(RMBytes(m))
        /\ dest' = RMOf(m, dest.width, load)
        /\ src' = src
  BY <1>1, <1>5, RmStep, Zenon
<1>7. RMBytes(m) \in Nat /\ RMBytes(m) <= 6
  BY RMBytesBound
<1>8. seq_pc + RMBytes(m) <= Most
  BY <1>1, <1>2, <1>7
<1>9. DOMAIN dest' = OperandFields /\ dest'.width = dest.width
  BY <1>6, RMShape
<1>10. Shape' /\ Decoding'
  BY <1>1, <1>6, <1>7, <1>8, <1>9, StillDecoding, Zenon
<1>11. rm'.reg \in 0 .. 7
  BY <1>6, ModRMFields
<1>12. /\ op' \notin {\h88, \h89}
       /\ op' \notin {\h8a, \h8b}
       /\ op' \notin {\ha0, \ha1}
       /\ op' \notin {\ha2, \ha3}
       /\ op' \notin \hb0 .. \hbf
       /\ op' \notin {\hc6, \hc7}
       /\ op' \notin (\ha0 .. \ha3) \cup (\hb0 .. \hbf)
  BY <1>1, <1>6, Stable, Exclusive
<1>13. seq_pc' <= Start' + 6
  BY <1>1, <1>2, <1>6, <1>7, Stable DEF Fetched
<1>14. todo' = Tail(entry'.decode) /\ entry'.decode # <<>>
  BY <1>2, <1>3, <1>6, Stable
<1>15. CASE Tail(todo) = <<>>
  <2>1. todo' = <<>>
    BY <1>15, <1>6, Stable
  <2>2. Decoded'
    BY <1>11, <1>12, <1>14, <2>1, Zenon DEF Decoded
  <2>. QED  BY <1>6, <1>10, <2>2, DecodesOn
<1>16. CASE Tail(todo) # <<>>
  <2>1. todo' # <<>>
    BY <1>16, <1>6, Stable
  <2>2. Half'
    BY <1>11, <1>12, <1>13, <1>14, <2>1, Zenon DEF Half
  <2>. QED  BY <1>6, <1>10, <2>2, DecodesOn
<1>. QED  BY <1>15, <1>16

LEMMA BegunStep == ASSUME IInv, Helps, Begun  PROVE IInv'
<1>1. CASE op \in Movs
  <2>1. \/ op \in {\h88, \h89} \/ op \in {\h8a, \h8b} \/ op \in {\ha0, \ha1}
        \/ op \in {\ha2, \ha3} \/ op \in \hb0 .. \hbf \/ op \in {\hc6, \hc7}
    BY <1>1 DEF Movs
  <2>. QED  BY <2>1, BegunRmStep, BegunPlainStep
<1>2. CASE op \notin Movs
  BY <1>2, BegunGroupStep
<1>. QED  BY <1>1, <1>2

(* The second helper of a mov.                                             *)
LEMMA HalfMovStep ==
  ASSUME IInv, Helps, Half, op \in Movs
  PROVE  IInv'
<1>1. /\ Shape /\ Decoding /\ exec = entry.exec
      /\ op \in Int /\ instr.prefixes \in Nat /\ seq_pc \in Nat /\ Start \in Nat /\ Most \in Nat
      /\ DOMAIN src = OperandFields /\ DOMAIN dest = OperandFields
  BY DecodeFacts DEF Helps
<1>2. GoodWidth(MovWidth)
  BY <1>1, MovWidths
<1>3. todo = Tail(entry.decode) /\ todo # <<>> /\ entry.decode # <<>>
  BY DEF Half
<1>8. MovWidth \in Nat /\ Start + 6 + MovWidth <= Most
  <2>1. Start = instr.prefixes + 1
    BY <1>1 DEF Start, Movs
  <2>. QED  BY <1>1, <1>2, <2>1 DEF GoodWidth, Most
<1>4. CASE op \in {\ha0, \ha1}
  <2>0. entry.decode = O2a /\ entry.exec = "mov"
    BY <1>1, <1>4, TableOfMovs, EntryParts DEF entry
  <2>1. todo = <<Op("a", "dest", FALSE)>>
    <3>1. Tail(<<Op("O", "src", TRUE), Op("a", "dest", FALSE)>>) = <<Op("a", "dest", FALSE)>>
      BY ListParts, Zenon
    <3>. QED  BY <1>3, <2>0, <3>1 DEF O2a
  <2>2. Head(todo) = Op("a", "dest", FALSE) /\ Tail(todo) = <<>>
    BY <2>1, ListParts
  <2>16. op \in (\ha0 .. \ha3) \cup (\hb0 .. \hbf)
    BY <1>1, <1>4
  <2>9. /\ src = MemOperand(Absolute, MovWidth, TRUE) /\ dest.width = MovWidth
        /\ seq_pc = Start + 4 /\ loads = {Absolute} /\ rm = NoRM
    BY <1>4, <2>16 DEF Half
  <2>3. /\ Kept /\ rm' = rm /\ UNCHANGED <<seq_pc, logged>>
        /\ dest' = RegOperand(R_EAX, dest.width, FALSE) /\ src' = src
        /\ loads' = loads
    BY <1>1, <2>2, RegStep, Zenon
  <2>4. /\ src' = MemOperand(Absolute, MovWidth', TRUE)
        /\ dest' = RegOperand(R_EAX, MovWidth', FALSE)
    BY <2>3, <2>9, Stable
  <2>5. /\ DOMAIN dest' = OperandFields /\ dest'.width = MovWidth
        /\ DOMAIN src' = OperandFields /\ src'.width = MovWidth
    <3>1. \A b \in BOOLEAN : /\ DOMAIN RegOperand(R_EAX, MovWidth, b) = OperandFields
                             /\ RegOperand(R_EAX, MovWidth, b).width = MovWidth
                             /\ DOMAIN MemOperand(Absolute, MovWidth, b) = OperandFields
                             /\ MemOperand(Absolute, MovWidth, b).width = MovWidth
      BY RegShape, MemShape
    <3>. QED  BY <2>3, <2>4, <3>1, Stable
  <2>6. Fetched(0) /\ seq_pc + 0 <= Most /\ 0 \in Nat
    <3>1. logged = seq_pc
      BY <1>1 DEF Decoding
    <3>. QED  BY <1>1, <1>8, <2>3, <2>9, <3>1 DEF Fetched
  <2>7. Shape' /\ Decoding'
    BY <1>1, <1>2, <2>3, <2>5, <2>6, StillDecoding, Zenon
  <2>11. /\ seq_pc' = Start' + 4
         /\ loads' = {Absolute} /\ rm' = NoRM
    BY <1>1, <2>3, <2>6, <2>9, Stable DEF Fetched
  <2>12. op' \in {\ha0, \ha1}
    BY <1>4, <2>3, Stable
  <2>13. /\ op' \notin {\h88, \h89}
         /\ op' \notin {\h8a, \h8b}
         /\ op' \notin {\ha2, \ha3}
         /\ op' \notin \hb0 .. \hbf
         /\ op' \notin {\hc6, \hc7}
    BY <1>1, <2>12, Exclusive, <2>3, Stable
  <2>14. todo' = <<>> /\ entry'.decode # <<>> /\ entry'.exec # "group"
    BY <1>3, <2>0, <2>2, <2>3, Stable
  <2>15. Decoded'
    BY <2>4, <2>11, <2>13, <2>14, Zenon DEF Decoded
  <2>. QED  BY <2>3, <2>7, <2>15, DecodesOn
<1>5. CASE op \in {\ha2, \ha3}
  <2>0. entry.decode = a2O /\ entry.exec = "mov"
    BY <1>1, <1>5, TableOfMovs, EntryParts DEF entry
  <2>1. todo = <<Op("O", "dest", FALSE)>>
    <3>1. Tail(<<Op("a", "src", TRUE), Op("O", "dest", FALSE)>>) = <<Op("O", "dest", FALSE)>>
      BY ListParts, Zenon
    <3>. QED  BY <1>3, <2>0, <3>1 DEF a2O
  <2>2. Head(todo) = Op("O", "dest", FALSE) /\ Tail(todo) = <<>>
    BY <2>1, ListParts
  <2>16. op \in (\ha0 .. \ha3) \cup (\hb0 .. \hbf)
    BY <1>1, <1>5
  <2>9. /\ src = RegOperand(R_EAX, MovWidth, TRUE) /\ dest.width = MovWidth
        /\ seq_pc = Start /\ loads = {} /\ rm = NoRM
    BY <1>5, <2>16 DEF Half
  <2>3. /\ Kept /\ rm' = rm /\ Fetched(4)
        /\ dest' = MemOperand(Absolute, dest.width, FALSE) /\ src' = src
        /\ loads' = loads
    BY <1>1, <2>2, OffsetStep, Zenon
  <2>4. /\ src' = RegOperand(R_EAX, MovWidth', TRUE)
        /\ dest' = MemOperand(Absolute, MovWidth', FALSE)
    BY <2>3, <2>9, Stable
  <2>5. /\ DOMAIN dest' = OperandFields /\ dest'.width = MovWidth
        /\ DOMAIN src' = OperandFields /\ src'.width = MovWidth
    <3>1. \A b \in BOOLEAN : /\ DOMAIN RegOperand(R_EAX, MovWidth, b) = OperandFields
                             /\ RegOperand(R_EAX, MovWidth, b).width = MovWidth
                             /\ DOMAIN MemOperand(Absolute, MovWidth, b) = OperandFields
                             /\ MemOperand(Absolute, MovWidth, b).width = MovWidth
      BY RegShape, MemShape
    <3>. QED  BY <2>3, <2>4, <3>1, Stable
  <2>6. Fetched(4) /\ seq_pc + 4 <= Most /\ 4 \in Nat
    BY <1>1, <1>8, <2>3, <2>9
  <2>7. Shape' /\ Decoding'
    BY <1>1, <1>2, <2>3, <2>5, <2>6, StillDecoding, Zenon
  <2>11. /\ seq_pc' = Start' + 4
         /\ loads' = {} /\ rm' = NoRM
    BY <1>1, <2>3, <2>6, <2>9, Stable DEF Fetched
  <2>12. op' \in {\ha2, \ha3}
    BY <1>5, <2>3, Stable
  <2>13. /\ op' \notin {\h88, \h89}
         /\ op' \notin {\h8a, \h8b}
         /\ op' \notin {\ha0, \ha1}
         /\ op' \notin \hb0 .. \hbf
         /\ op' \notin {\hc6, \hc7}
    BY <1>1, <2>12, Exclusive, <2>3, Stable
  <2>14. todo' = <<>> /\ entry'.decode # <<>> /\ entry'.exec # "group"
    BY <1>3, <2>0, <2>2, <2>3, Stable
  <2>15. Decoded'
    BY <2>4, <2>11, <2>13, <2>14, Zenon DEF Decoded
  <2>. QED  BY <2>3, <2>7, <2>15, DecodesOn
<1>6. CASE op \in \hb0 .. \hbf
  <2>0. entry.decode = mov_I2r /\ entry.exec = "mov"
    <3>1. op \in \hb0 .. \hb7 \/ op \in \hb8 .. \hbf
      BY <1>6
    <3>. QED  BY <1>1, <3>1, TableOfMovs, EntryParts DEF entry
  <2>1. todo = <<Op("I", "src", TRUE)>>
    <3>1. Tail(<<Op("r", "dest", FALSE), Op("I", "src", TRUE)>>) = <<Op("I", "src", TRUE)>>
      BY ListParts, Zenon
    <3>. QED  BY <1>3, <2>0, <3>1 DEF mov_I2r
  <2>2. Head(todo) = Op("I", "src", TRUE) /\ Tail(todo) = <<>>
    BY <2>1, ListParts
  <2>9. /\ dest = RegOperand(op % 8, MovWidth, FALSE) /\ src.width = MovWidth
        /\ seq_pc = Start /\ loads = {} /\ rm = NoRM
    BY <1>6 DEF Half
  <2>3. /\ Kept /\ rm' = rm /\ Fetched(src.width)
        /\ src' = Imm(src.width) /\ dest' = dest
        /\ loads' = loads
    BY <1>1, <2>2, ImmStep
  <2>4. /\ src' = Imm(MovWidth')
        /\ dest' = RegOperand(op' % 8, MovWidth', FALSE)
    BY <2>3, <2>9, Stable
  <2>5. /\ DOMAIN dest' = OperandFields /\ dest'.width = MovWidth
        /\ DOMAIN src' = OperandFields /\ src'.width = MovWidth
    <3>1. \A b \in BOOLEAN : /\ DOMAIN RegOperand(op % 8, MovWidth, b) = OperandFields
                             /\ RegOperand(op % 8, MovWidth, b).width = MovWidth
      BY RegShape
    <3>2. DOMAIN Imm(MovWidth) = OperandFields /\ Imm(MovWidth).width = MovWidth
      BY ImmShape
    <3>. QED  BY <2>3, <2>4, <3>1, <3>2, Stable
  <2>6. Fetched(MovWidth) /\ seq_pc + MovWidth <= Most /\ MovWidth \in Nat
    BY <1>1, <1>8, <2>3, <2>9
  <2>7. Shape' /\ Decoding'
    BY <1>1, <1>2, <2>3, <2>5, <2>6, StillDecoding, Zenon
  <2>11. /\ seq_pc' = Start' + MovWidth'
         /\ loads' = {} /\ rm' = NoRM
    BY <1>1, <2>3, <2>6, <2>9, Stable DEF Fetched
  <2>12. op' \in \hb0 .. \hbf
    BY <1>6, <2>3, Stable
  <2>13. /\ op' \notin {\h88, \h89}
         /\ op' \notin {\h8a, \h8b}
         /\ op' \notin {\ha0, \ha1}
         /\ op' \notin {\ha2, \ha3}
         /\ op' \notin {\hc6, \hc7}
    BY <1>1, <2>12, Exclusive, <2>3, Stable
  <2>14. todo' = <<>> /\ entry'.decode # <<>> /\ entry'.exec # "group"
    BY <1>3, <2>0, <2>2, <2>3, Stable
  <2>15. Decoded'
    BY <2>4, <2>11, <2>13, <2>14, Zenon DEF Decoded
  <2>. QED  BY <2>3, <2>7, <2>15, DecodesOn
<1>7. CASE op \in {\hc6, \hc7}
  <2>0. entry.decode = mov_I2E /\ entry.exec = "mov"
    BY <1>1, <1>7, TableOfMovs, EntryParts DEF entry
  <2>1. todo = <<Op("I", "src", TRUE)>>
    <3>1. Tail(<<Rm("dest", FALSE, "none"), Op("I", "src", TRUE)>>) = <<Op("I", "src", TRUE)>>
      BY ListParts, Zenon
    <3>. QED  BY <1>3, <2>0, <3>1 DEF mov_I2E
  <2>2. Head(todo) = Op("I", "src", TRUE) /\ Tail(todo) = <<>>
    BY <2>1, ListParts
  <2>9. /\ dest = RMOf(rm, MovWidth, FALSE) /\ src.width = MovWidth /\ rm \in ModRMs
        /\ seq_pc = Start + RMBytes(rm) /\ loads = {}
    BY <1>7 DEF Half
  <2>3. /\ Kept /\ rm' = rm /\ Fetched(src.width)
        /\ src' = Imm(src.width) /\ dest' = dest
        /\ loads' = loads
    BY <1>1, <2>2, ImmStep
  <2>4. /\ src' = Imm(MovWidth')
        /\ dest' = RMOf(rm', MovWidth', FALSE)
    BY <2>3, <2>9, Stable
  <2>5. /\ DOMAIN dest' = OperandFields /\ dest'.width = MovWidth
        /\ DOMAIN src' = OperandFields /\ src'.width = MovWidth
    <3>1. \A b \in BOOLEAN : /\ DOMAIN RMOf(rm, MovWidth, b) = OperandFields
                             /\ RMOf(rm, MovWidth, b).width = MovWidth
      BY RMShape
    <3>2. DOMAIN Imm(MovWidth) = OperandFields /\ Imm(MovWidth).width = MovWidth
      BY ImmShape
    <3>. QED  BY <2>3, <2>4, <3>1, <3>2, Stable
  <2>6. Fetched(MovWidth) /\ seq_pc + MovWidth <= Most /\ MovWidth \in Nat
    BY <1>1, <1>8, <2>3, <2>9, RMBytesBound
  <2>7. Shape' /\ Decoding'
    BY <1>1, <1>2, <2>3, <2>5, <2>6, StillDecoding, Zenon
  <2>11. /\ seq_pc' = Start' + RMBytes(rm') + MovWidth'
         /\ loads' = {} /\ rm' \in ModRMs
    BY <1>1, <2>3, <2>6, <2>9, Stable DEF Fetched
  <2>12. op' \in {\hc6, \hc7}
    BY <1>7, <2>3, Stable
  <2>13. /\ op' \notin {\h88, \h89}
         /\ op' \notin {\h8a, \h8b}
         /\ op' \notin {\ha0, \ha1}
         /\ op' \notin {\ha2, \ha3}
         /\ op' \notin \hb0 .. \hbf
         /\ op' \notin (\ha0 .. \ha3) \cup (\hb0 .. \hbf)
    BY <1>1, <2>12, Exclusive, <2>3, Stable
  <2>14. todo' = <<>> /\ entry'.decode # <<>> /\ entry'.exec # "group"
    BY <1>3, <2>0, <2>2, <2>3, Stable
  <2>15. Decoded'
    BY <2>4, <2>11, <2>13, <2>14, Zenon DEF Decoded
  <2>. QED  BY <2>3, <2>7, <2>15, DecodesOn
<1>9. CASE op \in {\h88, \h89}
  <2>1. entry.decode = mov_G2E
    BY <1>1, <1>9, TableOfMovs, EntryParts DEF entry
  <2>2. entry.decode = <<Rm("dest", FALSE, "src")>>
    BY <2>1 DEF mov_G2E
  <2>. QED  BY <1>3, <2>2, ListParts, Zenon
<1>10. CASE op \in {\h8a, \h8b}
  <2>1. entry.decode = mov_E2G
    BY <1>1, <1>10, TableOfMovs, EntryParts DEF entry
  <2>2. entry.decode = <<Rm("src", TRUE, "dest")>>
    BY <2>1 DEF mov_E2G
  <2>. QED  BY <1>3, <2>2, ListParts, Zenon
<1>11. \/ op \in {\h88, \h89} \/ op \in {\h8a, \h8b} \/ op \in {\ha0, \ha1}
       \/ op \in {\ha2, \ha3} \/ op \in \hb0 .. \hbf \/ op \in {\hc6, \hc7}
  BY DEF Movs
<1>. QED  BY <1>4, <1>5, <1>6, <1>7, <1>9, <1>10, <1>11

(* The second helper of a group, when it returns.                          *)
LEMMA HalfGroupStep ==
  ASSUME IInv, Helps, Half, op \notin Movs
  PROVE  IInv'
<1>1. /\ Shape /\ Decoding /\ exec = entry.exec
      /\ op \in Int /\ instr.prefixes \in Nat /\ seq_pc \in Nat /\ Start \in Nat /\ Most \in Nat
      /\ DOMAIN src = OperandFields /\ DOMAIN dest = OperandFields
      /\ GoodWidth(src.width) /\ GoodWidth(dest.width)
  BY DecodeFacts DEF Helps
<1>2. /\ todo = Tail(entry.decode) /\ todo # <<>> /\ entry.decode # <<>>
      /\ seq_pc <= Start + 6
  BY DEF Half
<1>3. entry.exec = "group" /\ (OneHelper(entry.decode) \/ TwoHelpers(entry.decode, op))
  BY <1>1, <1>2, GroupDecode DEF entry
<1>4. rm.reg \in 0 .. 7
  BY <1>3 DEF Half
<1>5. CASE OneHelper(entry.decode)
  <2>1. PICK load \in BOOLEAN : entry.decode = <<Rm("dest", load, "none")>>
    BY <1>5 DEF OneHelper
  <2>2. Tail(<<Rm("dest", load, "none")>>) = <<>>
    BY ListParts, Zenon
  <2>. QED  BY <1>2, <2>1, <2>2
<1>6. CASE TwoHelpers(entry.decode, op)
  <2>1. PICK k \in {"SI", "I", "Ib", "1", "cl"} :
          /\ entry.decode = <<Rm("dest", TRUE, "none"), Op(k, "src", TRUE)>>
          /\ k = "SI" => op = \h83
          /\ k # "SI" => op < 256
    <3>1. ASSUME op = \h83, entry.decode = <<Rm("dest", TRUE, "none"), Op("SI", "src", TRUE)>>
          PROVE  \E k \in {"SI", "I", "Ib", "1", "cl"} :
                   /\ entry.decode = <<Rm("dest", TRUE, "none"), Op(k, "src", TRUE)>>
                   /\ k = "SI" => op = \h83
                   /\ k # "SI" => op < 256
      BY <3>1, Zenon
    <3>2. ASSUME op < 256, NEW k \in {"I", "Ib"},
                 entry.decode = <<Rm("dest", TRUE, "none"), Op(k, "src", TRUE)>>
          PROVE  \E j \in {"SI", "I", "Ib", "1", "cl"} :
                   /\ entry.decode = <<Rm("dest", TRUE, "none"), Op(j, "src", TRUE)>>
                   /\ j = "SI" => op = \h83
                   /\ j # "SI" => op < 256
      BY <3>2, Zenon
    <3>3. ASSUME op < 256, NEW k \in {"1", "cl"},
                 entry.decode = <<Rm("dest", TRUE, "none"), Op(k, "src", TRUE)>>
          PROVE  \E j \in {"SI", "I", "Ib", "1", "cl"} :
                   /\ entry.decode = <<Rm("dest", TRUE, "none"), Op(j, "src", TRUE)>>
                   /\ j = "SI" => op = \h83
                   /\ j # "SI" => op < 256
      BY <3>3, Zenon
    <3>. QED  BY <1>6, <3>1, <3>2, <3>3, Zenon DEF TwoHelpers
  <2>2. Head(todo) = Op(k, "src", TRUE) /\ Tail(todo) = <<>>
    <3>1. Tail(<<Rm("dest", TRUE, "none"), Op(k, "src", TRUE)>>) = <<Op(k, "src", TRUE)>>
      BY ListParts, Zenon
    <3>2. todo = <<Op(k, "src", TRUE)>>
      BY <1>2, <2>1, <3>1
    <3>. QED  BY <3>2, ListParts, Zenon
  <2>3. CASE k = "SI"
    BY <2>2, <2>3, SignedStep
  <2>4. ASSUME NEW w \in {0, 1, src.width}, k # "SI", Kept, rm' = rm, Fetched(w),
               DOMAIN src' = OperandFields, GoodWidth(src'.width), dest' = dest
        PROVE  IInv'
    <3>1. w \in Nat /\ seq_pc + w <= Most
      <4>1. Start = instr.prefixes + 1
        BY <1>1, <2>1, <2>4 DEF Start
      <4>2. w \in {0, 1, 2, 4} /\ (instr.prefixes > 0 => w # 4)
        BY <1>1, <2>4 DEF GoodWidth
      <4>3. seq_pc <= instr.prefixes + 7
        BY <1>1, <1>2, <4>1
      <4>. QED  BY <1>1, <4>2, <4>3 DEF Most
    <3>2. DOMAIN dest' = OperandFields /\ GoodWidth(dest'.width)
      BY <1>1, <2>4
    <3>3. Shape' /\ Decoding'
      BY <1>1, <2>4, <3>1, <3>2, StillDecoding, Zenon
    <3>4. /\ op' \notin {\h88, \h89}
         /\ op' \notin {\h8a, \h8b}
         /\ op' \notin {\ha0, \ha1}
         /\ op' \notin {\ha2, \ha3}
         /\ op' \notin \hb0 .. \hbf
         /\ op' \notin {\hc6, \hc7}
         /\ op' \notin (\ha0 .. \ha3) \cup (\hb0 .. \hbf)
      BY <1>1, <2>4, Stable, Exclusive
    <3>5. todo' = <<>> /\ entry'.decode # <<>> /\ rm'.reg \in 0 .. 7
      BY <1>2, <1>4, <2>2, <2>4, Stable
    <3>6. Decoded'
      BY <3>4, <3>5, Zenon DEF Decoded
    <3>. QED  BY <2>4, <3>3, <3>6, DecodesOn
  <2>5. CASE k \in {"I", "Ib"}
    <3>1. PICK w \in {1, src.width} :
            /\ Kept /\ rm' = rm /\ Fetched(w)
            /\ src' = Imm(w) /\ dest' = dest
      BY <1>1, <2>2, <2>5, ImmStep, Zenon
    <3>2. DOMAIN src' = OperandFields /\ src'.width = w
      BY <3>1, ImmShape
    <3>3. GoodWidth(src'.width)
      BY <1>1, <3>1, <3>2 DEF GoodWidth
    <3>. QED  BY <2>4, <2>5, <3>1, <3>2, <3>3
  <2>6. CASE k \in {"1", "cl"}
    <3>1. /\ Kept /\ rm' = rm /\ UNCHANGED <<seq_pc, logged>>
          /\ DOMAIN src' = OperandFields /\ src'.width = src.width
          /\ dest' = dest
      BY <1>1, <2>2, <2>6, ShiftStep, Zenon
    <3>2. Fetched(0)
      BY <1>1, <3>1 DEF Fetched, Decoding
    <3>3. GoodWidth(src'.width)
      BY <1>1, <3>1
    <3>. QED  BY <2>4, <2>6, <3>1, <3>2, <3>3
  <2>. QED  BY <2>1, <2>3, <2>5, <2>6
<1>. QED  BY <1>3, <1>5, <1>6

LEMMA HelpsStep == ASSUME IInv, Helps  PROVE IInv'
  BY DecodeFacts, BegunStep, HalfMovStep, HalfGroupStep DEF Helps

(* The helpers that load memory.                                           *)
LEMMA Loader ==
  ASSUME Shape, Helper, loads' # loads
  PROVE  \/ /\ Head(todo).k = "rm" /\ Head(todo).load
            /\ \E m \in ModRMs : m.mod # 3 /\ rm' = m /\ Fetched(RMBytes(m))
                                /\ op' = op /\ instr'.prefixes = instr.prefixes
         \/ /\ Head(todo).k = "O" /\ Head(todo).load
            /\ Fetched(4) /\ instr' = instr
<1>. DEFINE d == Head(todo)
<1>1. CASE read_ModR_M
  <2>. HIDE DEF d
  <2>1. PICK m \in ModRMs :
          /\ instr' = [instr EXCEPT !.rm = m]
          /\ Fetch(1 + (IF m.mod = 3 THEN 0 ELSE load_addr(m).bytes))
          /\ \E x : Loaded(x, d.load /\ m.mod # 3)
    BY <1>1, Zenon DEF read_ModR_M, d
  <2>2. d.load /\ m.mod # 3
    BY <2>1 DEF Loaded
  <2>3. rm' = m /\ op' = op /\ instr'.prefixes = instr.prefixes
    BY <2>1 DEF Shape, InstrFields, op, rm
  <2>4. Fetched(RMBytes(m))
    BY <2>1 DEF Fetched, Fetch, RMBytes
  <2>5. d.k = "rm"
    BY <1>1 DEF read_ModR_M, d
  <2>. QED  BY <2>2, <2>3, <2>4, <2>5 DEF d
<1>2. CASE decode_op_O
  <2>. HIDE DEF d
  <2>1. d.k = "O" /\ instr' = instr /\ Fetch(4) /\ (\E o : Loaded(o, d.load))
    BY <1>2, Zenon DEF decode_op_O, d
  <2>2. d.load /\ Fetched(4)
    BY <2>1 DEF Loaded, Fetched, Fetch
  <2>. QED  BY <2>1, <2>2 DEF d
<1>3. CASE decode_op_I \/ decode_op_reg \/ decode_op_1
  BY <1>3 DEF decode_op_I, decode_op_reg, decode_op_1
<1>. QED  BY <1>1, <1>2, <1>3 DEF Helper

(* The helpers of every entry that has some.                               *)
ListOf(s, o) ==
  \/ s = <<Rm("dest", FALSE, "src")>>
  \/ s = <<Rm("src", TRUE, "dest")>> /\ o \in {\h8a, \h8b}
  \/ s = <<Op("O", "src", TRUE), Op("a", "dest", FALSE)>> /\ o \in {\ha0, \ha1}
  \/ s = <<Op("a", "src", TRUE), Op("O", "dest", FALSE)>>
  \/ s = <<Op("r", "dest", FALSE), Op("I", "src", TRUE)>>
  \/ s = <<Rm("dest", FALSE, "none"), Op("I", "src", TRUE)>>
  \/ s = <<Rm("dest", FALSE, "none")>>
  \/ s = <<Rm("dest", TRUE, "none")>> /\ o \in LoadingGroups
  \/ \E k \in {"I", "Ib", "1", "cl", "SI"} :
       /\ s = <<Rm("dest", TRUE, "none"), Op(k, "src", TRUE)>>
       /\ o \in LoadingGroups
       /\ k = "SI" => o = \h83

LEMMA AllLists ==
  ASSUME NEW o \in 0 .. 511, opcode_table(o).decode # <<>>
  PROVE  ListOf(opcode_table(o).decode, o)
<1>. DEFINE s == opcode_table(o).decode
<1>1. o \in Int
  OBVIOUS
<1>2. CASE o \in Movs
  <2>1. /\ o \in {\h88, \h89} => s = mov_G2E
        /\ o \in {\h8a, \h8b} => s = mov_E2G
        /\ o \in {\ha0, \ha1} => s = O2a
        /\ o \in {\ha2, \ha3} => s = a2O
        /\ o \in \hb0 .. \hb7 \/ o \in \hb8 .. \hbf => s = mov_I2r
        /\ o \in {\hc6, \hc7} => s = mov_I2E
    BY <1>1, TableOfMovs, EntryParts
  <2>. HIDE DEF s
  <2>2. \/ s = mov_G2E
        \/ s = mov_E2G /\ o \in {\h8a, \h8b}
        \/ s = O2a /\ o \in {\ha0, \ha1}
        \/ s = a2O \/ s = mov_I2r \/ s = mov_I2E
    <3>1. \/ o \in {\h88, \h89} \/ o \in {\h8a, \h8b}
          \/ o \in {\ha0, \ha1} \/ o \in {\ha2, \ha3}
          \/ o \in \hb0 .. \hb7 \/ o \in \hb8 .. \hbf \/ o \in {\hc6, \hc7}
      BY <1>2, MovClasses
    <3>2. CASE o \in {\h88, \h89} \/ o \in {\ha2, \ha3} \/ o \in {\hc6, \hc7}
      BY <2>1, <3>2
    <3>3. CASE o \in {\h8a, \h8b}
      BY <2>1, <3>3
    <3>4. CASE o \in {\ha0, \ha1}
      BY <2>1, <3>4
    <3>5. CASE o \in \hb0 .. \hb7 \/ o \in \hb8 .. \hbf
      BY <2>1, <3>5
    <3>. QED  BY <3>1, <3>2, <3>3, <3>4, <3>5
  <2>. QED  BY <2>2, Zenon DEF ListOf, mov_G2E, mov_E2G, O2a, a2O, mov_I2r, mov_I2E, s
<1>3. CASE o \notin Movs
  <2>1. \/ s \in GroupLists /\ o \in LoadingGroups
        \/ s = SI2E /\ o = \h83
        \/ s = E /\ o \in LoadingGroups
        \/ s = gp7_E
    BY <1>1, <1>3, TableOfOthers DEF Described
  <2>. HIDE DEF s
  <2>2. CASE s = gp7_E
    BY <2>2, Zenon DEF ListOf, gp7_E, s
  <2>3. CASE s = E /\ o \in LoadingGroups
    BY <2>3, Zenon DEF ListOf, E, s
  <2>4. CASE s = SI2E /\ o = \h83
    <3>1. o \in LoadingGroups
      BY <2>4 DEF LoadingGroups
    <3>2. s = <<Rm("dest", TRUE, "none"), Op("SI", "src", TRUE)>>
      BY <2>4, Lists
    <3>3. \E k \in {"I", "Ib", "1", "cl", "SI"} :
            /\ s = <<Rm("dest", TRUE, "none"), Op(k, "src", TRUE)>>
            /\ o \in LoadingGroups
            /\ k = "SI" => o = \h83
      BY <2>4, <3>1, <3>2, Zenon
    <3>. QED  BY <3>3, Zenon DEF ListOf, s
  <2>5. ASSUME s \in GroupLists, o \in LoadingGroups  PROVE ListOf(s, o)
    <3>1. \E k \in {"I", "Ib", "1", "cl"} : s = <<Rm("dest", TRUE, "none"), Op(k, "src", TRUE)>>
      BY <2>5, Lists DEF GroupLists
    <3>. QED  BY <2>5, <3>1 DEF ListOf
  <2>. QED  BY <2>1, <2>2, <2>3, <2>4, <2>5 DEF s
<1>. QED  BY <1>2, <1>3

(* Only a first helper loads memory, that of a mov from memory or of a     *)
(* group; only 0x83 has the helper that is not written.                    *)
OnlyFirst(s, o) ==
  /\ Head(s).k = "rm" /\ Head(s).load => o \in {\h8a, \h8b} \/ o \in LoadingGroups
  /\ Head(s).k = "O" /\ Head(s).load => o \in {\ha0, \ha1}
  /\ Head(s).k # "SI"
  /\ Tail(s) # <<>> => /\ Head(Tail(s)).k # "rm"
                       /\ Head(Tail(s)).k = "O" => ~ Head(Tail(s)).load
                       /\ Head(Tail(s)).k = "SI" => o = \h83

LEMMA Loads ==
  ASSUME NEW o \in 0 .. 511, opcode_table(o).decode # <<>>
  PROVE  OnlyFirst(opcode_table(o).decode, o)
<1>. DEFINE s == opcode_table(o).decode
<1>1. ListOf(s, o)
  BY AllLists
<1>. SUFFICES OnlyFirst(s, o)
  OBVIOUS
<1>. HIDE DEF s
<1>2. ASSUME NEW a, s = <<a>>, a.k = "rm",
             a.load => o \in {\h8a, \h8b} \/ o \in LoadingGroups
      PROVE  OnlyFirst(s, o)
  <2>1. Head(<<a>>) = a /\ Tail(<<a>>) = <<>>
    BY ListParts, Zenon
  <2>2. Head(s) = a /\ Tail(s) = <<>>
    BY <1>2, <2>1
  <2>. QED  BY <1>2, <2>2 DEF OnlyFirst
<1>3. ASSUME NEW a, NEW b, s = <<a, b>>, a.k # "SI", b.k # "rm",
             a.k = "rm" /\ a.load => o \in {\h8a, \h8b} \/ o \in LoadingGroups,
             a.k = "O" /\ a.load => o \in {\ha0, \ha1},
             b.k = "O" => ~ b.load, b.k = "SI" => o = \h83
      PROVE  OnlyFirst(s, o)
  <2>1. Head(<<a, b>>) = a /\ Tail(<<a, b>>) = <<b>> /\ Head(<<b>>) = b
    BY ListParts, Zenon
  <2>2. Head(s) = a /\ Head(Tail(s)) = b
    BY <1>3, <2>1
  <2>. QED  BY <1>3, <2>2 DEF OnlyFirst
<1>4. CASE s = <<Rm("dest", FALSE, "src")>>
  <2>. DEFINE a == Rm("dest", FALSE, "src")
  <2>1. a.k = "rm" /\ ~ a.load
    BY DEF Rm
  <2>2. s = <<a>>
    BY <1>4
  <2>. HIDE DEF a
  <2>. QED  BY <1>2, <1>4, <2>1, <2>2
<1>5. CASE s = <<Rm("src", TRUE, "dest")>> /\ o \in {\h8a, \h8b}
  <2>. DEFINE a == Rm("src", TRUE, "dest")
  <2>1. a.k = "rm"
    BY DEF Rm
  <2>2. s = <<a>>
    BY <1>5
  <2>. HIDE DEF a
  <2>. QED  BY <1>2, <1>5, <2>1, <2>2
<1>6. CASE s = <<Op("O", "src", TRUE), Op("a", "dest", FALSE)>> /\ o \in {\ha0, \ha1}
  <2>. DEFINE a == Op("O", "src", TRUE)
              b == Op("a", "dest", FALSE)
  <2>1. a.k = "O" /\ b.k = "a"
    BY DEF Op
  <2>2. s = <<a, b>>
    BY <1>6
  <2>. HIDE DEF a, b
  <2>3. Head(<<a, b>>) = a /\ Tail(<<a, b>>) = <<b>> /\ Head(<<b>>) = b
    BY ListParts, Zenon
  <2>4. Head(s) = a /\ Head(Tail(s)) = b
    BY <2>2, <2>3
  <2>. QED  BY <1>6, <2>1, <2>4 DEF OnlyFirst
<1>7. CASE s = <<Op("a", "src", TRUE), Op("O", "dest", FALSE)>>
  <2>. DEFINE a == Op("a", "src", TRUE)
              b == Op("O", "dest", FALSE)
  <2>1. a.k = "a" /\ b.k = "O" /\ ~ b.load
    BY DEF Op, Rm
  <2>2. s = <<a, b>>
    BY <1>7
  <2>. HIDE DEF a, b
  <2>. QED  BY <1>3, <1>7, <2>1, <2>2
<1>8. CASE s = <<Op("r", "dest", FALSE), Op("I", "src", TRUE)>>
  <2>. DEFINE a == Op("r", "dest", FALSE)
              b == Op("I", "src", TRUE)
  <2>1. a.k = "r" /\ b.k = "I"
    BY DEF Op, Rm
  <2>2. s = <<a, b>>
    BY <1>8
  <2>. HIDE DEF a, b
  <2>. QED  BY <1>3, <1>8, <2>1, <2>2
<1>9. CASE s = <<Rm("dest", FALSE, "none"), Op("I", "src", TRUE)>>
  <2>. DEFINE a == Rm("dest", FALSE, "none")
              b == Op("I", "src", TRUE)
  <2>1. a.k = "rm" /\ ~ a.load /\ b.k = "I"
    BY DEF Op, Rm
  <2>2. s = <<a, b>>
    BY <1>9
  <2>. HIDE DEF a, b
  <2>. QED  BY <1>3, <1>9, <2>1, <2>2
<1>10. CASE s = <<Rm("dest", FALSE, "none")>>
  <2>. DEFINE a == Rm("dest", FALSE, "none")
  <2>1. a.k = "rm" /\ ~ a.load
    BY DEF Rm
  <2>2. s = <<a>>
    BY <1>10
  <2>. HIDE DEF a
  <2>. QED  BY <1>2, <1>10, <2>1, <2>2
<1>11. CASE s = <<Rm("dest", TRUE, "none")>> /\ o \in LoadingGroups
  <2>. DEFINE a == Rm("dest", TRUE, "none")
  <2>1. a.k = "rm"
    BY DEF Rm
  <2>2. s = <<a>>
    BY <1>11
  <2>. HIDE DEF a
  <2>. QED  BY <1>2, <1>11, <2>1, <2>2
<1>12. ASSUME NEW k \in {"I", "Ib", "1", "cl", "SI"},
              s = <<Rm("dest", TRUE, "none"), Op(k, "src", TRUE)>>,
              o \in LoadingGroups, k = "SI" => o = \h83
       PROVE  OnlyFirst(s, o)
  <2>. DEFINE a == Rm("dest", TRUE, "none")
              b == Op(k, "src", TRUE)
  <2>1. a.k = "rm" /\ b.k = k
    BY DEF Op, Rm
  <2>2. s = <<a, b>>
    BY <1>12
  <2>. HIDE DEF a, b
  <2>3. /\ a.k # "SI" /\ b.k # "rm"
        /\ a.k = "rm" /\ a.load => o \in {\h8a, \h8b} \/ o \in LoadingGroups
        /\ a.k = "O" /\ a.load => o \in {\ha0, \ha1}
        /\ b.k = "O" => ~ b.load
        /\ b.k = "SI" => o = \h83
    <3>1. k # "rm" /\ k # "O"
      BY <1>12
    <3>. QED  BY <1>12, <2>1, <3>1
  <2>4. Head(<<a, b>>) = a /\ Tail(<<a, b>>) = <<b>> /\ Head(<<b>>) = b
    BY ListParts, Zenon
  <2>5. Head(s) = a /\ Head(Tail(s)) = b
    BY <2>2, <2>4
  <2>. QED  BY <2>3, <2>5 DEF OnlyFirst
<1>. QED  BY <1>1, <1>4, <1>5, <1>6, <1>7, <1>8, <1>9, <1>10, <1>11, <1>12 DEF ListOf

(* The load of a memory operand fails.                                     *)
LEMMA LoadStep ==
  ASSUME IInv, phase = "decode", todo # <<>>, Helper, loads' # loads, phase' = "load"
  PROVE  IInv'
<1>1. /\ Shape /\ Decoding /\ (Begun \/ Half)
      /\ op \in Int /\ instr.prefixes \in Nat /\ Start \in Nat /\ Most \in Nat
      /\ Start + 6 <= Most
  BY DecodeFacts
<1>2. op \in 0 .. 511 /\ seq_pc = logged /\ logged \in Nat /\ writes = {}
  BY <1>1 DEF Decoding
<1>3. writes' = {}
  BY <1>2 DEF Helper
<1>4. Begun /\ Head(todo).load /\ Head(todo).k \in {"rm", "O"}
  <2>1. Head(todo).load /\ Head(todo).k \in {"rm", "O"}
    BY <1>1, Loader
  <2>2. ASSUME Half  PROVE FALSE
    <3>1. entry.decode # <<>> /\ todo = Tail(entry.decode) /\ todo # <<>>
      BY <2>2 DEF Half
    <3>2. OnlyFirst(entry.decode, op)
      BY <1>2, <3>1, Loads DEF entry
    <3>. QED  BY <2>1, <3>1, <3>2 DEF OnlyFirst
  <2>. QED  BY <1>1, <2>1, <2>2
<1>5. seq_pc = Start /\ rm = NoRM /\ todo = entry.decode /\ entry.decode # <<>>
  BY <1>4 DEF Begun
<1>6. CASE Head(todo).k = "rm"
  <2>1. PICK m \in ModRMs : /\ m.mod # 3 /\ rm' = m /\ Fetched(RMBytes(m))
                            /\ op' = op /\ instr'.prefixes = instr.prefixes
    BY <1>1, <1>6, Loader
  <2>2. logged' \in Nat /\ logged' <= Most' + 8 /\ instr'.prefixes \in Nat
    <3>1. RMBytes(m) \in Nat /\ RMBytes(m) <= 6
      BY RMBytesBound
    <3>2. Most' = Most
      BY <2>1 DEF Most
    <3>3. logged' = logged + RMBytes(m)
      BY <2>1 DEF Fetched
    <3>4. logged <= Start /\ instr'.prefixes \in Nat
      BY <1>1, <1>2, <1>5, <2>1
    <3>. QED  BY <1>1, <1>2, <3>1, <3>2, <3>3, <3>4
  <2>3. op' \in {\h8a, \h8b} \/ op' \in LoadingGroups
    BY <1>2, <1>4, <1>5, <1>6, <2>1, Loads DEF OnlyFirst, entry
  <2>4. op' \in {\h8a, \h8b} => op' \in Movs /\ MovFrom' = MemPlaces(MovWidth')
    <3>1. ASSUME op' \in {\h8a, \h8b}  PROVE MovFrom' = ModRM'
      BY <3>1 DEF MovFrom
    <3>2. ModRM' = MemPlaces(MovWidth')
      BY <2>1 DEF ModRM, MemPlaces
    <3>. QED  BY <3>1, <3>2 DEF Movs
  <2>5. Ended'
    BY <1>3, <2>1, <2>3, <2>4 DEF Ended, MovCopies, MovTouches, OthersRefused, MemPlaces
  <2>. QED  BY <2>2, <2>5 DEF IInv, Deaths
<1>7. CASE Head(todo).k = "O"
  <2>1. Fetched(4) /\ instr' = instr
    BY <1>1, <1>7, Loader
  <2>2. op' = op /\ Most' = Most /\ instr'.prefixes \in Nat
    BY <1>1, <2>1 DEF op, Most
  <2>3. logged' \in Nat /\ logged' <= Most' + 8
    <3>1. logged' = logged + 4 /\ logged = Start
      BY <1>2, <1>5, <2>1 DEF Fetched
    <3>. QED  BY <1>1, <1>2, <2>2, <3>1
  <2>4. op' \in {\ha0, \ha1}
    BY <1>2, <1>4, <1>5, <1>7, <2>2, Loads DEF OnlyFirst, entry
  <2>5. op' \in Movs /\ MovFrom' = MemPlaces(MovWidth')
    BY <2>4 DEF Movs, MovFrom, MemPlaces
  <2>6. Ended'
    BY <1>3, <2>5 DEF Ended, MovCopies, MovTouches, OthersRefused, MemPlaces
  <2>. QED  BY <2>2, <2>3, <2>6 DEF IInv, Deaths
<1>. QED  BY <1>4, <1>6, <1>7

LEMMA DecodeStep == ASSUME IInv, Decode  PROVE IInv'
<1>1. /\ phase = "decode" /\ todo # <<>> /\ Shape /\ Decoding /\ (Begun \/ Half)
      /\ instr.prefixes \in Nat /\ Most \in Nat
  BY DecodeFacts DEF Decode
<1>2. logged \in Nat /\ logged <= Most + 8 /\ writes = {} /\ op \in 0 .. 511
  BY <1>1 DEF Decoding
<1>3. CASE Helper /\ UNCHANGED phase
  BY <1>1, <1>3, HelpsStep DEF Helps
<1>4. CASE Helper /\ loads' # loads /\ phase' = "load"
  BY <1>1, <1>4, LoadStep
<1>5. CASE Die("fetch")
  BY <1>1, <1>2, <1>5, DieStep
<1>6. CASE Head(todo).k = "SI" /\ Die("todo")
  <2>1. op = \h83
    <3>1. /\ entry.decode # <<>>
          /\ todo = entry.decode \/ (todo = Tail(entry.decode) /\ Tail(entry.decode) # <<>>)
      BY <1>1 DEF Begun, Half
    <3>2. OnlyFirst(entry.decode, op)
      BY <1>2, <3>1, Loads DEF entry
    <3>. QED  BY <1>6, <3>1, <3>2 DEF OnlyFirst
  <2>. QED  BY <1>1, <1>2, <1>6, <2>1, DieStep
<1>. QED  BY <1>3, <1>4, <1>5, <1>6 DEF Decode

-----------------------------------------------------------------------------
(* The operands of a mov are those of the i386's.                          *)

LEMMA Lengths ==
  ASSUME NEW w \in Nat, NEW S, NEW f \in [1 .. w -> S]
  PROVE  Len(f) = w
<1>1. f \in Seq(S)
  OBVIOUS
<1>2. Len(f) \in Nat /\ DOMAIN f = 1 .. Len(f)
  BY <1>1, LenProperties
<1>3. 1 .. Len(f) = 1 .. w
  BY <1>2
<1>. QED  BY <1>2, <1>3

LEMMA RegisterPlaces ==
  ASSUME NEW r \in 0 .. 7
  PROVE  RegPlaces(r, MovWidth) = Register(r)
<1>1. CASE MovWidth = 1
  <2>1. r % 4 = ByteRegisters[r + 1][1] /\ 1 + r \div 4 = ByteRegisters[r + 1][2]
    <3>1. CASE r = 0
      BY <3>1 DEF ByteRegisters
    <3>2. CASE r = 1
      BY <3>2 DEF ByteRegisters
    <3>3. CASE r = 2
      BY <3>3 DEF ByteRegisters
    <3>4. CASE r = 3
      BY <3>4 DEF ByteRegisters
    <3>5. CASE r = 4
      BY <3>5 DEF ByteRegisters
    <3>6. CASE r = 5
      BY <3>6 DEF ByteRegisters
    <3>7. CASE r = 6
      BY <3>7 DEF ByteRegisters
    <3>8. CASE r = 7
      BY <3>8 DEF ByteRegisters
    <3>. QED  BY <3>1, <3>2, <3>3, <3>4, <3>5, <3>6, <3>7, <3>8
  <2>. QED  BY <1>1, <2>1, Zenon DEF RegPlaces, Register, reg_b
<1>2. CASE MovWidth # 1
  BY <1>2, Zenon DEF RegPlaces, Register
<1>. QED  BY <1>1, <1>2

(* A source of w bytes has them as the first bytes of its value.           *)
LEMMA Extended ==
  ASSUME NEW w \in {1, 2, 4}, NEW bytes, Len(bytes) = w, NEW k \in 1 .. w
  PROVE  Extend(bytes)[k] = bytes[k]
  BY DEF Extend

LEMMA PlacesLengths ==
  ASSUME NEW w \in {1, 2, 4}, NEW r
  PROVE  Len(RegPlaces(r, w)) = w /\ Len(MemPlaces(w)) = w /\ Len(ImmPlaces(w)) = w
<1>. DEFINE reg == [k \in 1 .. w |-> <<"reg", r, k>>]
            mem == [k \in 1 .. w |-> <<"mem", 0, k>>]
            imm == [k \in 1 .. w |-> <<"imm", 0, k>>]
<1>1. /\ reg \in [1 .. w -> {reg[k] : k \in 1 .. w}]
      /\ mem \in [1 .. w -> {mem[k] : k \in 1 .. w}]
      /\ imm \in [1 .. w -> {imm[k] : k \in 1 .. w}]
  OBVIOUS
<1>. HIDE DEF reg, mem, imm
<1>2. Len(reg) = w /\ Len(mem) = w /\ Len(imm) = w
  BY <1>1, Lengths
<1>3. Len(reg_b(r)) = 1
  BY DEF reg_b
<1>. QED  BY <1>2, <1>3 DEF reg, mem, imm, RegPlaces, MemPlaces, ImmPlaces

(* The operand of a ModR/M byte.                                           *)
LEMMA RMBytesRight ==
  ASSUME rm \in ModRMs
  PROVE  RMBytes(rm) = 1 + DispLen + (IF HasSIB THEN 1 ELSE 0)
<1>. DEFINE m == rm
<1>1. /\ m.mod \in 0 .. 3 /\ m.rm \in 0 .. 7 /\ m.base \in 0 .. 7
  BY ModRMFields
<1>. HIDE DEF m
<1>2. RMBytes(m) = IF m.mod = 3 THEN 1
                   ELSE 1 + (IF m.rm = 4 THEN 1 ELSE 0)
                          + (IF m.mod = 1 THEN 1
                             ELSE IF m.mod = 2 \/ (IF m.rm = 4 THEN m.base ELSE m.rm) = 5 THEN 4
                             ELSE 0)
  BY <1>1 DEF RMBytes, load_addr, R_ESP, R_EBP
<1>3. DispLen = CASE m.mod = 1 -> 1
                  [] m.mod = 2 -> 4
                  [] m.mod = 0 /\ (m.rm = 5 \/ (m.rm = 4 /\ m.base = 5)) -> 4
                  [] OTHER -> 0
  BY Zenon DEF DispLen, m
<1>4. HasSIB <=> m.mod \in 0 .. 2 /\ m.rm = 4
  BY Zenon DEF HasSIB, m
<1>5. RMBytes(m) = 1 + DispLen + (IF m.mod \in 0 .. 2 /\ m.rm = 4 THEN 1 ELSE 0)
  BY <1>1, <1>2, <1>3
<1>. QED  BY <1>4, <1>5 DEF m

LEMMA AddressRight ==
  ASSUME rm \in ModRMs, rm.mod # 3
  PROVE  load_addr(rm).addr = EffectiveAddress
<1>. DEFINE m == rm
<1>1. /\ m.mod \in 0 .. 2 /\ m.rm \in 0 .. 7 /\ m.base \in 0 .. 7 /\ m.index \in 0 .. 7
      /\ m.ss \in {0, 2} /\ m.disp \in {1, 255}
  BY ModRMFields
<1>. HIDE DEF m
<1>2. DispLen = CASE m.mod = 1 -> 1
                  [] m.mod = 2 -> 4
                  [] m.mod = 0 /\ (m.rm = 5 \/ (m.rm = 4 /\ m.base = 5)) -> 4
                  [] OTHER -> 0
  BY Zenon DEF DispLen, m
<1>3. HasSIB <=> m.mod \in 0 .. 2 /\ m.rm = 4
  BY Zenon DEF HasSIB, m
<1>4. EffectiveAddress =
        [disp |-> CASE DispLen = 0 -> 0 [] DispLen = 1 /\ m.disp = 255 -> -1 [] OTHER -> m.disp,
         base |-> IF m.mod = 0 /\ DispLen = 4 THEN -1 ELSE IF HasSIB THEN m.base ELSE m.rm,
         index |-> IF HasSIB /\ m.index # 4 THEN m.index ELSE -1,
         scale |-> IF HasSIB /\ m.index # 4 THEN m.ss ELSE 0]
  BY Zenon DEF EffectiveAddress, m
<1>5. load_addr(m).addr = EffectiveAddress
  <2>. DEFINE sib == m.rm = R_ESP
              base_reg == IF sib THEN m.base ELSE m.rm
              index_reg == IF sib /\ m.index # R_ESP THEN m.index ELSE None
              absolute == m.mod = 0 /\ base_reg = R_EBP
              disp_size == CASE m.mod = 0 /\ ~ absolute -> 0 [] m.mod = 1 -> 1 [] OTHER -> 4
              disp == CASE disp_size = 0 -> 0 [] disp_size = 1 -> int8(m.disp) [] OTHER -> m.disp
              base == IF absolute THEN None ELSE base_reg
              scale == IF index_reg = None THEN 0 ELSE m.ss
  <2>1. load_addr(m).addr = [disp |-> disp, base |-> base, index |-> index_reg, scale |-> scale]
    BY DEF load_addr
  <2>2. disp_size = DispLen
    BY <1>1, <1>2 DEF R_ESP, R_EBP
  <2>3. disp = CASE DispLen = 0 -> 0 [] DispLen = 1 /\ m.disp = 255 -> -1 [] OTHER -> m.disp
    <3>. HIDE DEF disp_size
    <3>1. DispLen \in {0, 1, 4}
      BY <1>1, <1>2
    <3>. QED  BY <1>1, <2>2, <3>1 DEF int8
  <2>4. base = IF m.mod = 0 /\ DispLen = 4 THEN -1 ELSE IF HasSIB THEN m.base ELSE m.rm
    BY <1>1, <1>2, <1>3 DEF None, R_ESP, R_EBP
  <2>5. index_reg = IF HasSIB /\ m.index # 4 THEN m.index ELSE -1
    BY <1>1, <1>3 DEF None, R_ESP
  <2>6. scale = IF HasSIB /\ m.index # 4 THEN m.ss ELSE 0
    BY <1>1, <1>3 DEF None, R_ESP
  <2>. HIDE DEF disp, base, index_reg, scale
  <2>. QED  BY <1>4, <2>1, <2>3, <2>4, <2>5, <2>6, Zenon
<1>. QED  BY <1>5 DEF m

LEMMA RegOperandIs ==
  ASSUME NEW r, NEW w, NEW load \in BOOLEAN
  PROVE  /\ RegOperand(r, w, load).type = "reg" /\ RegOperand(r, w, load).width = w
         /\ Places(RegOperand(r, w, load)) = RegPlaces(r, w)
         /\ load => RegOperand(r, w, load).val = Extend(RegPlaces(r, w))
<1>1. /\ RegOperand(r, w, load).type = "reg" /\ RegOperand(r, w, load).width = w
      /\ RegOperand(r, w, load).reg = r
  BY OperandShape DEF RegOperand
<1>2. load => RegOperand(r, w, load).val = Extend(RegPlaces(r, w))
  BY OperandShape DEF RegOperand
<1>. QED  BY <1>1, <1>2, Zenon DEF Places

LEMMA MemOperandIs ==
  ASSUME NEW a, NEW w, NEW load \in BOOLEAN
  PROVE  /\ MemOperand(a, w, load).type = "mem" /\ MemOperand(a, w, load).width = w
         /\ MemOperand(a, w, load).addr = a
         /\ Places(MemOperand(a, w, load)) = MemPlaces(w)
         /\ load => MemOperand(a, w, load).val = Extend(MemPlaces(w))
<1>1. /\ MemOperand(a, w, load).type = "mem" /\ MemOperand(a, w, load).width = w
      /\ MemOperand(a, w, load).addr = a
  BY OperandShape DEF MemOperand
<1>2. load => MemOperand(a, w, load).val = Extend(MemPlaces(w))
  BY OperandShape DEF MemOperand
<1>3. "mem" # "reg"
  OBVIOUS
<1>. QED  BY <1>1, <1>2, <1>3, Zenon DEF Places

LEMMA ImmIs == ASSUME NEW w  PROVE Imm(w).val = Extend(ImmPlaces(w))
  BY OperandShape DEF Imm

LEMMA RMOperandIs ==
  ASSUME rm \in ModRMs, NEW load \in BOOLEAN
  PROVE  LET o == RMOf(rm, MovWidth, load)
         IN  /\ o.type \in {"reg", "mem"} /\ o.width = MovWidth /\ Places(o) = ModRM
             /\ o.type = "mem" => rm.mod # 3 /\ o.addr = EffectiveAddress
             /\ load => o.val = Extend(ModRM)
<1>. DEFINE o == RMOf(rm, MovWidth, load)
<1>1. rm.rm \in 0 .. 7
  BY ModRMFields
<1>2. CASE rm.mod = 3
  <2>1. o = RegOperand(rm.rm, MovWidth, load) /\ ModRM = RegPlaces(rm.rm, MovWidth)
    BY <1>1, <1>2, RegisterPlaces DEF RMOf, ModRM
  <2>. HIDE DEF o
  <2>2. /\ o.type = "reg" /\ o.width = MovWidth /\ Places(o) = ModRM
        /\ load => o.val = Extend(ModRM)
    BY <2>1, RegOperandIs
  <2>. QED  BY <2>2 DEF o
<1>3. CASE rm.mod # 3
  <2>1. o = MemOperand(load_addr(rm).addr, MovWidth, load) /\ ModRM = MemPlaces(MovWidth)
    BY <1>3 DEF RMOf, ModRM
  <2>. HIDE DEF o
  <2>2. /\ o.type = "mem" /\ o.width = MovWidth /\ Places(o) = ModRM
        /\ o.addr = EffectiveAddress
        /\ load => o.val = Extend(ModRM)
    BY <1>3, <2>1, MemOperandIs, AddressRight
  <2>. QED  BY <1>3, <2>2 DEF o
<1>. QED  BY <1>2, <1>3

LEMMA NotMemory ==
  ASSUME NEW w \in {1, 2, 4}, NEW r
  PROVE  RegPlaces(r, w) # MemPlaces(w) /\ ImmPlaces(w) # MemPlaces(w)
<1>1. MemPlaces(w)[1] = <<"mem", 0, 1>> /\ ImmPlaces(w)[1] = <<"imm", 0, 1>>
  BY DEF MemPlaces, ImmPlaces
<1>2. RegPlaces(r, w)[1][1] = "reg"
  BY DEF RegPlaces, reg_b
<1>3. MemPlaces(w)[1][1] = "mem" /\ ImmPlaces(w)[1][1] = "imm"
  BY <1>1
<1>. QED  BY <1>2, <1>3

LEMMA ModRMLength ==
  ASSUME rm \in ModRMs
  PROVE  Len(ModRM) = MovWidth \/ MovWidth \notin {1, 2, 4}
<1>. SUFFICES ASSUME MovWidth \in {1, 2, 4}  PROVE Len(ModRM) = MovWidth
  OBVIOUS
<1>1. rm.rm \in 0 .. 7
  BY ModRMFields
<1>2. ModRM = RegPlaces(rm.rm, MovWidth) \/ ModRM = MemPlaces(MovWidth)
  BY <1>1, RegisterPlaces DEF ModRM
<1>. QED  BY <1>2, PlacesLengths

(* What the i386 says of a mov, of the operands decoded for it.            *)
MovOperands ==
  /\ dest.type \in {"reg", "mem"} /\ dest.width = MovWidth
  /\ Places(dest) = MovTo
  /\ src.val = Extend(MovFrom) /\ Len(MovFrom) = MovWidth
  /\ seq_pc = MovLen
  /\ loads = IF MovFrom = MemPlaces(MovWidth) THEN OperandAddresses ELSE {}
  /\ dest.type = "mem" => OperandAddresses = {dest.addr}

LEMMA DispLenNat == DispLen \in Nat
  BY DEF DispLen

LEMMA MovRight ==
  ASSUME Shape, Decoding, Decoded, op \in Movs
  PROVE  MovOperands
<1>1. op \in Int /\ op < 256 /\ instr.prefixes \in Nat /\ Start = instr.prefixes + 1
  <2>1. op \in Int /\ op < 256
    BY MovClasses
  <2>2. instr.prefixes \in Nat
    BY DEF Shape
  <2>. QED  BY <2>1, <2>2 DEF Start
<1>2. MovWidth \in {1, 2, 4}
  BY MovWidths DEF GoodWidth
<1>3. CASE op \in {\h88, \h89}
  <2>1. /\ op \notin {\h8a, \h8b}
        /\ op \notin {\ha0, \ha1}
        /\ op \notin {\ha2, \ha3}
        /\ op \notin \hb0 .. \hbf
        /\ op \notin {\hc6, \hc7}
    BY <1>1, <1>3, Exclusive
  <2>2. /\ rm \in ModRMs /\ rm.reg \in 0 .. 7
        /\ dest = RMOf(rm, MovWidth, FALSE) /\ src = RegOperand(rm.reg, MovWidth, TRUE)
        /\ seq_pc = Start + RMBytes(rm) /\ loads = {}
    BY <1>3, ModRMFields DEF Decoded
  <2>3. MovTo = ModRM /\ MovFrom = RegPlaces(rm.reg, MovWidth)
    <3>1. MovTo = ModRM /\ MovFrom = Register(rm.reg)
      BY <1>3 DEF MovTo, MovFrom
    <3>. QED  BY <2>2, <3>1, RegisterPlaces
  <2>4. MovLen = Start + RMBytes(rm)
    <3>1. op \notin \ha0 .. \ha3 /\ op \notin (\hb0 .. \hbf) \cup {\hc6, \hc7}
      BY <1>3
    <3>2. MovLen = instr.prefixes + 1 + (1 + DispLen) + (IF HasSIB THEN 1 ELSE 0)
      BY <1>1, <1>3, <3>1, DispLenNat DEF MovLen
    <3>. QED  BY <1>1, <2>2, <3>2, RMBytesRight, DispLenNat
  <2>5. MovFrom # MemPlaces(MovWidth) /\ Len(MovFrom) = MovWidth
    BY <1>2, <2>3, NotMemory, PlacesLengths
  <2>6. OperandAddresses = IF rm.mod = 3 THEN {} ELSE {EffectiveAddress}
    <3>1. op \notin \ha0 .. \ha3
      BY <1>3
    <3>. QED  BY <2>1, <3>1, Zenon DEF OperandAddresses
  <2>7. /\ dest.type \in {"reg", "mem"} /\ dest.width = MovWidth /\ Places(dest) = ModRM
        /\ dest.type = "mem" => rm.mod # 3 /\ dest.addr = EffectiveAddress
    BY <2>2, RMOperandIs
  <2>8. src.val = Extend(RegPlaces(rm.reg, MovWidth))
    BY <2>2, RegOperandIs
  <2>. QED  BY <2>2, <2>3, <2>4, <2>5, <2>6, <2>7, <2>8 DEF MovOperands
<1>4. CASE op \in {\h8a, \h8b}
  <2>1. /\ op \notin {\h88, \h89}
        /\ op \notin {\ha0, \ha1}
        /\ op \notin {\ha2, \ha3}
        /\ op \notin \hb0 .. \hbf
        /\ op \notin {\hc6, \hc7}
    BY <1>1, <1>4, Exclusive
  <2>2. /\ rm \in ModRMs /\ rm.reg \in 0 .. 7
        /\ src = RMOf(rm, MovWidth, TRUE) /\ dest = RegOperand(rm.reg, MovWidth, FALSE)
        /\ seq_pc = Start + RMBytes(rm) /\ loads = RMLoads
    BY <1>4, ModRMFields DEF Decoded
  <2>3. MovTo = RegPlaces(rm.reg, MovWidth) /\ MovFrom = ModRM
    <3>1. MovTo = Register(rm.reg) /\ MovFrom = ModRM
      BY <1>4 DEF MovTo, MovFrom
    <3>. QED  BY <2>2, <3>1, RegisterPlaces
  <2>4. MovLen = Start + RMBytes(rm)
    <3>1. op \notin \ha0 .. \ha3 /\ op \notin (\hb0 .. \hbf) \cup {\hc6, \hc7}
      BY <1>4
    <3>2. MovLen = instr.prefixes + 1 + (1 + DispLen) + (IF HasSIB THEN 1 ELSE 0)
      BY <1>1, <1>4, <3>1, DispLenNat DEF MovLen
    <3>. QED  BY <1>1, <2>2, <3>2, RMBytesRight, DispLenNat
  <2>5. Len(MovFrom) = MovWidth
    BY <1>2, <2>2, <2>3, ModRMLength
  <2>6. OperandAddresses = IF rm.mod = 3 THEN {} ELSE {EffectiveAddress}
    <3>1. op \notin \ha0 .. \ha3
      BY <1>4
    <3>. QED  BY <2>1, <3>1, Zenon DEF OperandAddresses
  <2>7. loads = OperandAddresses
    BY <2>2, <2>6, AddressRight DEF RMLoads
  <2>8. MovFrom # MemPlaces(MovWidth) => OperandAddresses = {}
    BY <2>3, <2>6 DEF ModRM
  <2>9. dest.type = "reg" /\ dest.width = MovWidth /\ Places(dest) = RegPlaces(rm.reg, MovWidth)
    BY <2>2, RegOperandIs
  <2>10. src.val = Extend(ModRM)
    BY <2>2, RMOperandIs
  <2>. QED  BY <2>2, <2>3, <2>4, <2>5, <2>7, <2>8, <2>9, <2>10 DEF MovOperands
<1>5. CASE op \in {\ha0, \ha1}
  <2>1. /\ op \notin {\h88, \h89}
        /\ op \notin {\h8a, \h8b}
        /\ op \notin {\ha2, \ha3}
        /\ op \notin \hb0 .. \hbf
        /\ op \notin {\hc6, \hc7}
    BY <1>1, <1>5, Exclusive
  <2>10. op \in \ha0 .. \ha3 /\ op \in (\ha0 .. \ha3) \cup (\hb0 .. \hbf)
    BY <1>1, <1>5
  <2>2. /\ src = MemOperand(Absolute, MovWidth, TRUE) /\ dest = RegOperand(R_EAX, MovWidth, FALSE)
        /\ seq_pc = Start + 4 /\ loads = {Absolute} /\ rm = NoRM
    BY <1>5, <2>10 DEF Decoded
  <2>3. MovTo = RegPlaces(R_EAX, MovWidth) /\ MovFrom = MemPlaces(MovWidth)
    <3>1. MovTo = Register(R_EAX) /\ MovFrom = MemPlaces(MovWidth)
      BY <1>5 DEF MovTo, MovFrom
    <3>. QED  BY <3>1, RegisterPlaces DEF R_EAX
  <2>4. MovLen = Start + 4
    <3>1. op \notin {\h88, \h89, \h8a, \h8b, \hc6, \hc7} /\ op \in \ha0 .. \ha3
          /\ op \notin (\hb0 .. \hbf) \cup {\hc6, \hc7}
      BY <1>1, <1>5
    <3>2. ~ HasSIB
      BY <2>2 DEF HasSIB, NoRM, None
    <3>. QED  BY <1>1, <3>1, <3>2 DEF MovLen
  <2>5. Len(MovFrom) = MovWidth
    BY <1>2, <2>3, PlacesLengths
  <2>6. OperandAddresses = {Absolute}
    <3>1. rm.mod # 3
      BY <2>2 DEF NoRM, None
    <3>. QED  BY <2>1, <2>10, <3>1 DEF OperandAddresses
  <2>7. dest.type = "reg" /\ dest.width = MovWidth /\ Places(dest) = RegPlaces(R_EAX, MovWidth)
    BY <2>2, RegOperandIs
  <2>8. src.val = Extend(MemPlaces(MovWidth))
    BY <2>2, MemOperandIs
  <2>. QED  BY <2>2, <2>3, <2>4, <2>5, <2>6, <2>7, <2>8 DEF MovOperands
<1>6. CASE op \in {\ha2, \ha3}
  <2>1. /\ op \notin {\h88, \h89}
        /\ op \notin {\h8a, \h8b}
        /\ op \notin {\ha0, \ha1}
        /\ op \notin \hb0 .. \hbf
        /\ op \notin {\hc6, \hc7}
    BY <1>1, <1>6, Exclusive
  <2>10. op \in \ha0 .. \ha3 /\ op \in (\ha0 .. \ha3) \cup (\hb0 .. \hbf)
    BY <1>1, <1>6
  <2>2. /\ src = RegOperand(R_EAX, MovWidth, TRUE) /\ dest = MemOperand(Absolute, MovWidth, FALSE)
        /\ seq_pc = Start + 4 /\ loads = {} /\ rm = NoRM
    BY <1>6, <2>10 DEF Decoded
  <2>3. MovTo = MemPlaces(MovWidth) /\ MovFrom = RegPlaces(R_EAX, MovWidth)
    <3>1. MovTo = MemPlaces(MovWidth) /\ MovFrom = Register(R_EAX)
      BY <1>6 DEF MovTo, MovFrom
    <3>. QED  BY <3>1, RegisterPlaces DEF R_EAX
  <2>4. MovLen = Start + 4
    <3>1. op \notin {\h88, \h89, \h8a, \h8b, \hc6, \hc7} /\ op \in \ha0 .. \ha3
          /\ op \notin (\hb0 .. \hbf) \cup {\hc6, \hc7}
      BY <1>1, <1>6
    <3>2. ~ HasSIB
      BY <2>2 DEF HasSIB, NoRM, None
    <3>. QED  BY <1>1, <3>1, <3>2 DEF MovLen
  <2>5. MovFrom # MemPlaces(MovWidth) /\ Len(MovFrom) = MovWidth
    BY <1>2, <2>3, NotMemory, PlacesLengths
  <2>6. OperandAddresses = {Absolute}
    <3>1. rm.mod # 3
      BY <2>2 DEF NoRM, None
    <3>. QED  BY <2>1, <2>10, <3>1 DEF OperandAddresses
  <2>7. /\ dest.type = "mem" /\ dest.width = MovWidth /\ dest.addr = Absolute
        /\ Places(dest) = MemPlaces(MovWidth)
    <3>1. /\ dest.type = "mem" /\ dest.width = MovWidth /\ dest.addr = Absolute
      <4>1. \A b \in BOOLEAN : /\ MemOperand(Absolute, MovWidth, b).type = "mem"
                               /\ MemOperand(Absolute, MovWidth, b).width = MovWidth
                               /\ MemOperand(Absolute, MovWidth, b).addr = Absolute
        BY MemOperandIs
      <4>. QED  BY <2>2, <4>1
    <3>2. Places(dest) = MemPlaces(MovWidth)
      BY <2>2, MemOperandIs
    <3>. QED  BY <3>1, <3>2
  <2>8. src.val = Extend(RegPlaces(R_EAX, MovWidth))
    BY <2>2, RegOperandIs
  <2>. QED  BY <2>2, <2>3, <2>4, <2>5, <2>6, <2>7, <2>8 DEF MovOperands
<1>7. CASE op \in \hb0 .. \hbf
  <2>1. /\ op \notin {\h88, \h89}
        /\ op \notin {\h8a, \h8b}
        /\ op \notin {\ha0, \ha1}
        /\ op \notin {\ha2, \ha3}
        /\ op \notin {\hc6, \hc7}
    BY <1>1, <1>7, Exclusive
  <2>2. /\ dest = RegOperand(op % 8, MovWidth, FALSE) /\ src = Imm(MovWidth)
        /\ seq_pc = Start + MovWidth /\ loads = {} /\ rm = NoRM
    BY <1>7 DEF Decoded
  <2>3. MovTo = RegPlaces(op % 8, MovWidth) /\ MovFrom = ImmPlaces(MovWidth)
    <3>1. MovTo = Register(op % 8) /\ MovFrom = ImmPlaces(MovWidth)
      BY <2>1, <1>1, <1>7, Zenon DEF MovTo, MovFrom
    <3>2. op % 8 \in 0 .. 7
      BY <1>1
    <3>. QED  BY <3>1, <3>2, RegisterPlaces
  <2>4. MovLen = Start + MovWidth
    <3>1. op \notin {\h88, \h89, \h8a, \h8b, \hc6, \hc7} /\ op \notin \ha0 .. \ha3
          /\ op \in (\hb0 .. \hbf) \cup {\hc6, \hc7}
      BY <1>1, <1>7
    <3>2. ~ HasSIB
      BY <2>2 DEF HasSIB, NoRM, None
    <3>. QED  BY <1>1, <1>2, <3>1, <3>2 DEF MovLen
  <2>5. MovFrom # MemPlaces(MovWidth) /\ Len(MovFrom) = MovWidth
    BY <1>2, <2>3, NotMemory, PlacesLengths
  <2>7. dest.type = "reg" /\ dest.width = MovWidth /\ Places(dest) = RegPlaces(op % 8, MovWidth)
    BY <2>2, RegOperandIs
  <2>8. src.val = Extend(ImmPlaces(MovWidth))
    BY <2>2, ImmIs
  <2>. QED  BY <2>2, <2>3, <2>4, <2>5, <2>7, <2>8 DEF MovOperands
<1>8. CASE op \in {\hc6, \hc7}
  <2>1. /\ op \notin {\h88, \h89}
        /\ op \notin {\h8a, \h8b}
        /\ op \notin {\ha0, \ha1}
        /\ op \notin {\ha2, \ha3}
        /\ op \notin \hb0 .. \hbf
    BY <1>1, <1>8, Exclusive
  <2>2. /\ rm \in ModRMs
        /\ dest = RMOf(rm, MovWidth, FALSE) /\ src = Imm(MovWidth)
        /\ seq_pc = Start + RMBytes(rm) + MovWidth /\ loads = {}
    BY <1>8 DEF Decoded
  <2>3. MovTo = ModRM /\ MovFrom = ImmPlaces(MovWidth)
    BY <2>1, <1>8 DEF MovTo, MovFrom
  <2>4. MovLen = Start + RMBytes(rm) + MovWidth
    <3>1. op \notin \ha0 .. \ha3 /\ op \in (\hb0 .. \hbf) \cup {\hc6, \hc7}
      BY <1>8
    <3>2. MovLen = instr.prefixes + 1 + (1 + DispLen) + (IF HasSIB THEN 1 ELSE 0) + MovWidth
      BY <1>1, <1>2, <1>8, <3>1, DispLenNat DEF MovLen
    <3>. QED  BY <1>1, <1>2, <2>2, <3>2, RMBytesRight, DispLenNat
  <2>5. MovFrom # MemPlaces(MovWidth) /\ Len(MovFrom) = MovWidth
    BY <1>2, <2>3, NotMemory, PlacesLengths
  <2>6. OperandAddresses = IF rm.mod = 3 THEN {} ELSE {EffectiveAddress}
    <3>1. op \notin \ha0 .. \ha3
      BY <1>8
    <3>. QED  BY <2>1, <3>1, Zenon DEF OperandAddresses
  <2>7. /\ dest.type \in {"reg", "mem"} /\ dest.width = MovWidth /\ Places(dest) = ModRM
        /\ dest.type = "mem" => rm.mod # 3 /\ dest.addr = EffectiveAddress
    BY <2>2, RMOperandIs
  <2>8. src.val = Extend(ImmPlaces(MovWidth))
    BY <2>2, ImmIs
  <2>. QED  BY <2>2, <2>3, <2>4, <2>5, <2>6, <2>7, <2>8 DEF MovOperands
<1>9. \/ op \in {\h88, \h89} \/ op \in {\h8a, \h8b} \/ op \in {\ha0, \ha1}
      \/ op \in {\ha2, \ha3} \/ op \in \hb0 .. \hbf \/ op \in {\hc6, \hc7}
  BY DEF Movs
<1>. QED  BY <1>3, <1>4, <1>5, <1>6, <1>7, <1>8, <1>9

-----------------------------------------------------------------------------
(* The execute functions.                                                  *)

LEMMA ExecuteFacts ==
  ASSUME IInv, Execute
  PROVE  /\ Shape /\ Decoding /\ phase = "decode" /\ todo = <<>>
         /\ Decoded \/ (Begun /\ entry.decode = <<>>)
         /\ op \in 0 .. 511 /\ op \in Int /\ instr.prefixes \in Nat
         /\ exec = entry.exec \/ (entry.exec = "group" /\ exec = "inv")
         /\ logged \in Nat /\ logged <= Most /\ Most \in Nat
         /\ writes = {}
<1>1. /\ Shape /\ Decoding /\ phase = "decode" /\ todo = <<>>
      /\ Begun \/ Half \/ Decoded
  BY DEF IInv, Execute, Deaths
<1>2. instr.prefixes \in Nat /\ Most \in Nat
  BY <1>1 DEF Shape, Most
<1>3. op \in Int
  BY <1>1 DEF Decoding
<1>4. exec = entry.exec \/ (entry.exec = "group" /\ exec = "inv")
  BY <1>1 DEF Decoding
<1>. QED  BY <1>1, <1>2, <1>3, <1>4 DEF Begun, Half, Decoding

(* A fetch of an execute function fails.                                   *)
LEMMA FetchStep == ASSUME IInv, Execute, Die("fetch")  PROVE IInv'
  BY ExecuteFacts, DieStep

LEMMA MovsHaveOperands ==
  ASSUME NEW o \in Movs
  PROVE  opcode_table(o).decode # <<>>
<1>1. /\ mov_G2E # <<>> /\ mov_E2G # <<>> /\ O2a # <<>> /\ a2O # <<>>
      /\ mov_I2r # <<>> /\ mov_I2E # <<>>
  BY ListParts, Zenon DEF mov_G2E, mov_E2G, O2a, a2O, mov_I2r, mov_I2E
<1>. QED  BY <1>1, MovClasses, TableOfMovs, EntryParts

LEMMA GroupsHaveOperands ==
  ASSUME NEW o \in Int, o \notin Movs, opcode_table(o).exec = "group"
  PROVE  opcode_table(o).decode # <<>>
<1>1. I2E # <<>> /\ SI2E # <<>> /\ gp2_Ib2E # <<>> /\ gp2_1_E # <<>> /\ gp2_cl2E # <<>>
  BY Lists, ListParts, Zenon
<1>2. E # <<>> /\ gp7_E # <<>>
  BY ListParts, Zenon DEF E, gp7_E
<1>. QED  BY <1>1, <1>2, TableOfOthers DEF Described, GroupLists

(* The state after an execute function that changes nothing of the         *)
(* instruction.                                                            *)
LEMMA Returned ==
  ASSUME Shape, instr' = instr, UNCHANGED decinfo, phase' = "return",
         logged' \in Nat, logged' <= Most + 8, Ended'
  PROVE  IInv'
<1>1. Shape' /\ instr'.prefixes \in Nat
  BY DEF Shape, decinfo
<1>2. Most' = Most
  BY DEF Most
<1>. QED  BY <1>1, <1>2 DEF IInv, Deaths

LEMMA MovOperandsRight ==
  ASSUME IInv, Execute, exec = "mov"
  PROVE  /\ Shape /\ Decoding /\ phase = "decode" /\ op \in 0 .. 511 /\ instr.prefixes \in Nat
         /\ logged \in Nat /\ logged <= Most /\ Most \in Nat /\ writes = {}
         /\ op \in Movs /\ MovOperands /\ MovWidth \in {1, 2, 4}
<1>1. /\ Shape /\ Decoding /\ phase = "decode" /\ op \in 0 .. 511 /\ instr.prefixes \in Nat
      /\ logged \in Nat /\ logged <= Most /\ Most \in Nat /\ writes = {}
  BY ExecuteFacts
<1>2. op \in Movs
  <2>1. entry.exec = "mov"
    BY <1>1 DEF Decoding
  <2>. QED  BY <1>1, <2>1, TableExec DEF entry
<1>3. Decoded
  BY <1>2, ExecuteFacts, MovsHaveOperands DEF entry
<1>4. MovOperands /\ MovWidth \in {1, 2, 4}
  BY <1>1, <1>2, <1>3, MovRight, MovWidths DEF GoodWidth
<1>. QED  BY <1>1, <1>2, <1>4

(* The operand is written.                                                 *)
LEMMA MovWrites ==
  ASSUME IInv, Execute, exec = "mov",
         writes' = writes \cup {<<Places(dest)[k], src.val[k]>> : k \in 1 .. dest.width},
         phase' = "return",
         UNCHANGED <<decinfo, seq_pc, logged, loads, state, instr>>
  PROVE  IInv'
<1>1. /\ Shape /\ logged \in Nat /\ logged <= Most /\ Most \in Nat /\ writes = {}
  BY MovOperandsRight
<1>2. op \in Movs
  BY MovOperandsRight
<1>4. MovOperands /\ MovWidth \in {1, 2, 4}
  BY MovOperandsRight
<1>5. /\ writes' = writes \cup {<<Places(dest)[k], src.val[k]>> : k \in 1 .. dest.width}
      /\ phase' = "return"
      /\ UNCHANGED <<decinfo, seq_pc, logged, loads, state, instr>>
  OBVIOUS
<1>6. op' = op /\ rm' = rm /\ MovWidth' = MovWidth
  BY <1>5 DEF op, rm, MovWidth, ToByte
<1>7. MovTo' = MovTo /\ MovFrom' = MovFrom /\ MovLen' = MovLen /\ OperandAddresses' = OperandAddresses
  BY <1>5 DEF MovTo, MovFrom, MovLen, OperandAddresses, ModRM, Register, HasSIB, DispLen,
              EffectiveAddress, MovWidth, ToByte, op, rm
<1>8. MovCopies'
  <2>1. \A k \in 1 .. MovWidth : src.val[k] = MovFrom[k]
    <3>1. Len(MovFrom) = MovWidth /\ src.val = Extend(MovFrom) /\ MovWidth \in {1, 2, 4}
      BY <1>4 DEF MovOperands
    <3>2. ASSUME NEW k \in 1 .. MovWidth  PROVE Extend(MovFrom)[k] = MovFrom[k]
      BY <3>1, Extended, Zenon
    <3>. QED  BY <3>1, <3>2
  <2>2. {<<Places(dest)[k], src.val[k]>> : k \in 1 .. dest.width}
          = {<<MovTo[k], MovFrom[k]>> : k \in 1 .. MovWidth}
    BY <1>4, <2>1, Zenon DEF MovOperands
  <2>3. writes' = {<<MovTo[k], MovFrom[k]>> : k \in 1 .. MovWidth}
    BY <1>1, <1>5, <2>2
  <2>4. writes' = {<<MovTo'[k], MovFrom'[k]>> : k \in 1 .. MovWidth'}
    BY <1>6, <1>7, <2>3
  <2>5. seq_pc' = MovLen'
    BY <1>4, <1>5, <1>7 DEF MovOperands
  <2>. QED  BY <2>4, <2>5 DEF MovCopies
<1>9. MovTouches'
  BY <1>4, <1>5, <1>6, <1>7 DEF MovOperands, MovTouches, decinfo
<1>10. OthersRefused'
  BY <1>2, <1>5, <1>6 DEF OthersRefused, Deaths
<1>. QED  BY <1>1, <1>5, <1>8, <1>9, <1>10, Returned DEF Ended

(* Or the store fails.                                                     *)
LEMMA MovStep == ASSUME IInv, Execute, exec_mov  PROVE IInv'
<1>1. exec = "mov" /\ operand_write(dest, src.val)
  BY DEF exec_mov
<1>2. /\ instr.prefixes \in Nat /\ logged \in Nat /\ logged <= Most /\ Most \in Nat /\ writes = {}
      /\ op \in Movs /\ MovOperands
  BY <1>1, MovOperandsRight
<1>3. dest.type \in {"reg", "mem"}
  BY <1>2 DEF MovOperands
<1>4. CASE dest.type = "mem" /\ Die("store")
  <2>1. MovTo = MemPlaces(MovWidth)
    BY <1>2, <1>4 DEF MovOperands, Places
  <2>. QED  BY <1>2, <1>4, <2>1, DieStep
<1>5. CASE ~ (dest.type = "mem" /\ Die("store"))
  <2>1. /\ writes' = writes \cup {<<Places(dest)[k], src.val[k]>> : k \in 1 .. dest.width}
        /\ phase' = "return"
        /\ UNCHANGED <<decinfo, seq_pc, logged, loads, state, instr>>
    BY <1>1, <1>3, <1>5, Zenon DEF operand_write
  <2>. QED  BY <1>1, <2>1, MovWrites
<1>. QED  BY <1>4, <1>5

(* The other execute functions: none is reached by a mov.                  *)
LEMMA NoMov ==
  ASSUME IInv, Execute, exec # "mov"
  PROVE  op \notin Movs
<1>1. op \in Int /\ (exec = entry.exec \/ entry.exec = "group")
  BY ExecuteFacts
<1>2. entry.exec # "mov"
  BY <1>1
<1>. QED  BY <1>1, <1>2, TableExec DEF entry

LEMMA EndStep ==
  ASSUME IInv, Execute, exec # "mov", phase' = "return",
         UNCHANGED <<decinfo, loads, writes, instr>>,
         logged' \in Nat, logged' <= Most + 8,
         state' = IF op = \hd6 THEN "END" ELSE "ABORT"
  PROVE  IInv'
<1>1. Shape /\ writes' = {} /\ op' = op
  BY ExecuteFacts DEF op
<1>2. op' \notin Movs
  BY <1>1, NoMov
<1>3. Ended'
  BY <1>1, <1>2 DEF Ended, MovCopies, MovTouches, OthersRefused, Deaths
<1>. QED  BY <1>1, <1>3, Returned

LEMMA InvStep == ASSUME IInv, Execute, exec_inv, ~ Die("fetch")  PROVE IInv'
<1>1. /\ exec = "inv" /\ phase' = "return" /\ state' = "ABORT" /\ logged' = logged + 8
      /\ UNCHANGED <<decinfo, loads, writes, instr>>
  BY DEF exec_inv, InvBytes
<1>2. op # \hd6
  <2>1. CASE op = \hd6
    <3>1. opcode_table(op) = Entry(<<>>, "nemu_trap", 0)
      BY <2>1 DEF opcode_table
    <3>2. entry.exec = "nemu_trap"
      BY <3>1, EntryParts DEF entry
    <3>. QED  BY <1>1, <3>2, ExecuteFacts DEF Decoding
  <2>. QED  BY <2>1
<1>3. logged' \in Nat /\ logged' <= Most + 8
  BY <1>1, ExecuteFacts
<1>. QED  BY <1>1, <1>2, <1>3, EndStep

LEMMA TrapStep == ASSUME IInv, Execute, exec_nemu_trap  PROVE IInv'
<1>1. /\ exec = "nemu_trap" /\ phase' = "return" /\ state' = "END"
      /\ UNCHANGED <<decinfo, logged, loads, writes, instr>>
  BY DEF exec_nemu_trap
<1>2. op = \hd6
  <2>1. op \in Int /\ entry.exec = "nemu_trap"
    BY <1>1, ExecuteFacts
  <2>2. op \notin Movs
    BY <1>1, NoMov
  <2>. QED  BY <2>1, <2>2, TableOfOthers DEF Described, entry
<1>3. logged' \in Nat /\ logged' <= Most + 8
  BY <1>1, ExecuteFacts
<1>. QED  BY <1>1, <1>2, <1>3, EndStep

(* A group's entries are all EMPTY.                                        *)
LEMMA GroupStep == ASSUME IInv, Execute, exec_group  PROVE IInv'
<1>1. /\ exec = "group"
      /\ UNCHANGED <<phase, is_operand_size_16, todo, src, dest, seq_pc, logged, effects, instr>>
      /\ exec' = GroupTable[rm.reg].exec
  BY DEF exec_group, rm
<1>2. Shape /\ Decoding /\ phase = "decode" /\ todo = <<>> /\ op \in Int
  BY ExecuteFacts
<1>3. op \notin Movs /\ entry.exec = "group"
  BY <1>1, <1>2, NoMov, ExecuteFacts
<1>4. Decoded
  BY <1>2, <1>3, GroupsHaveOperands, ExecuteFacts DEF entry
<1>5. exec' = "inv"
  BY <1>1, <1>3, <1>4 DEF Decoded, GroupTable, EMPTY, Entry
<1>6. op' = op /\ entry' = entry /\ Most' = Most /\ rm' = rm
  BY <1>1 DEF op, entry, Most, rm
<1>7. Shape'
  BY <1>1, <1>2 DEF Shape
<1>8. Decoding'
  BY <1>1, <1>2, <1>3, <1>5, <1>6 DEF Decoding, effects, GoodWidth
<1>9. Decoded'
  <2>1. /\ op' \notin {\h88, \h89} /\ op' \notin {\h8a, \h8b} /\ op' \notin {\ha0, \ha1}
        /\ op' \notin {\ha2, \ha3} /\ op' \notin \hb0 .. \hbf /\ op' \notin {\hc6, \hc7}
        /\ op' \notin (\ha0 .. \ha3) \cup (\hb0 .. \hbf)
    BY <1>2, <1>3, <1>6, Exclusive
  <2>2. todo' = <<>> /\ entry'.decode # <<>> /\ rm'.reg \in 0 .. 7
    BY <1>1, <1>2, <1>3, <1>4, <1>6 DEF Decoded
  <2>. QED  BY <2>1, <2>2, Zenon DEF Decoded
<1>. QED  BY <1>1, <1>2, <1>7, <1>8, <1>9, NotEnded DEF IInv

(* The two entries that take another byte: nothing but fetches has         *)
(* happened.                                                               *)
LEMMA NoHelpers ==
  ASSUME IInv, Execute, exec \in {"2byte_esc", "operand_size"}
  PROVE  /\ op = (IF exec = "2byte_esc" THEN \h0f ELSE \h66)
         /\ Begun /\ seq_pc = instr.prefixes + 1 /\ logged = seq_pc
         /\ loads = {} /\ rm = NoRM /\ state = "RUNNING"
<1>1. op \in Int /\ op \notin Movs /\ entry.exec = exec
  BY NoMov, ExecuteFacts
<1>2. op = (IF exec = "2byte_esc" THEN \h0f ELSE \h66) /\ entry.decode = <<>>
  BY <1>1, TableOfOthers DEF Described, entry
<1>3. Begun /\ logged = seq_pc /\ state = "RUNNING"
  BY <1>2, ExecuteFacts DEF Decoded, Decoding
<1>4. op < 256
  BY <1>2
<1>5. seq_pc = instr.prefixes + 1 /\ loads = {} /\ rm = NoRM
  BY <1>3, <1>4 DEF Begun, Start
<1>. QED  BY <1>2, <1>3, <1>5

LEMMA EscapeStep == ASSUME IInv, Execute, exec_2byte_esc, ~ Die("fetch")  PROVE IInv'
<1>1. exec = "2byte_esc" /\ UNCHANGED <<is_operand_size_16, effects>>
  BY DEF exec_2byte_esc
<1>2. PICK o \in Opcodes \cap 256 .. 511 : Dispatch(o)
  BY DEF exec_2byte_esc
<1>3. o \in 0 .. 511 /\ ~ (o < 256)
  BY <1>2
<1>4. seq_pc = instr.prefixes + (IF o < 256 THEN 0 ELSE 1) /\ logged = seq_pc
  BY <1>1, <1>3, NoHelpers
<1>5. loads = {} /\ rm = NoRM /\ state = "RUNNING"
  BY <1>1, NoHelpers
<1>6. Shape /\ writes = {}
  BY ExecuteFacts
<1>. QED  BY <1>1, <1>2, <1>3, <1>4, <1>5, <1>6, DispatchStep

LEMMA PrefixStep == ASSUME IInv, Execute, exec_operand_size  PROVE IInv'
<1>1. /\ exec = "operand_size"
      /\ is_operand_size_16' = TRUE
      /\ instr' = [instr EXCEPT !.prefixes = @ + 1, !.opcode = None]
      /\ phase' = "opcode"
      /\ UNCHANGED <<src, dest, seq_pc, logged, effects>>
  BY DEF exec_operand_size
<1>2. /\ Begun /\ seq_pc = instr.prefixes + 1 /\ logged = seq_pc
      /\ loads = {} /\ rm = NoRM
  BY <1>1, NoHelpers
<1>3. Shape /\ writes = {}
  BY ExecuteFacts
<1>4. DOMAIN instr' = InstrFields /\ instr'.prefixes = instr.prefixes + 1 /\ rm' = rm
  BY <1>1, <1>3 DEF Shape, InstrFields, rm
<1>5. instr'.prefixes \in Nat /\ instr'.prefixes > 0
  BY <1>3, <1>4 DEF Shape
<1>6. Shape'
  <2>1. DOMAIN src' = OperandFields /\ DOMAIN dest' = OperandFields
    BY <1>1, <1>3 DEF Shape
  <2>. QED  BY <1>1, <1>4, <1>5, <2>1, Zenon DEF Shape
<1>7. Fresh'
  BY <1>1, <1>2, <1>3, <1>4 DEF Fresh, effects
<1>. QED  BY <1>1, <1>6, <1>7, NotEnded DEF IInv

LEMMA ExecuteStep == ASSUME IInv, Execute  PROVE IInv'
  BY MovStep, InvStep, TrapStep, GroupStep, EscapeStep, PrefixStep, FetchStep DEF Execute

LEMMA OnceStep == ASSUME IInv, exec_once  PROVE IInv'
<1>1. /\ is_operand_size_16' = ReturnPrefix /\ phase' = "opcode"
      /\ src' = Stale(src.width) /\ dest' = Stale(dest.width)
      /\ seq_pc' = 0 /\ logged' = 0 /\ loads' = {} /\ writes' = {}
      /\ instr' = NoInstr
  BY DEF exec_once
<1>2. DOMAIN src' = OperandFields /\ DOMAIN dest' = OperandFields
  BY <1>1, OperandShape DEF Stale
<1>3. DOMAIN instr' = InstrFields /\ instr'.prefixes = 0 /\ rm' = NoRM
  BY <1>1 DEF NoInstr, InstrFields, rm
<1>4. is_operand_size_16' = FALSE
  <2>1. is_operand_size_16 \in BOOLEAN /\ (is_operand_size_16 <=> instr.prefixes > 0)
    BY DEF IInv, Shape, Deaths, exec_once
  <2>2. CASE instr.prefixes > 0
    BY <1>1, <2>2, Zenon DEF ReturnPrefix
  <2>3. CASE ~ (instr.prefixes > 0)
    BY <1>1, <2>1, <2>3, Zenon DEF ReturnPrefix
  <2>. QED  BY <2>2, <2>3
<1>5. Shape'
  <2>1. instr'.prefixes \in Nat /\ ~ (instr'.prefixes > 0)
    BY <1>3
  <2>. QED  BY <1>2, <1>3, <1>4, <2>1, Zenon DEF Shape
<1>6. Fresh'
  BY <1>1, <1>3 DEF Fresh
<1>. QED  BY <1>1, <1>5, <1>6, NotEnded DEF IInv

LEMMA StutterStep == ASSUME IInv, UNCHANGED vars  PROVE IInv'
<1>1. /\ UNCHANGED <<phase, is_operand_size_16, todo, exec, src, dest, seq_pc, logged>>
      /\ UNCHANGED <<loads, writes, state, instr>>
  BY DEF vars, decinfo, effects
<1>2. op' = op /\ rm' = rm /\ entry' = entry /\ Most' = Most /\ Start' = Start /\ MovWidth' = MovWidth
  BY <1>1 DEF op, rm, entry, Most, Start, MovWidth, ToByte
<1>3. Shape' = Shape /\ Fresh' = Fresh
  BY <1>1, <1>2, Zenon DEF Shape, Fresh
<1>4. Decoding' = Decoding
  BY <1>1, <1>2 DEF Decoding, GoodWidth
<1>5. Begun' = Begun
  BY <1>1, <1>2, Zenon DEF Begun, Width
<1>6. Half' = Half
  BY <1>1, <1>2 DEF Half
<1>7. Decoded' = Decoded
  BY <1>1, <1>2 DEF Decoded, RMLoads
<1>8. MovTo' = MovTo /\ MovFrom' = MovFrom /\ MovLen' = MovLen /\ OperandAddresses' = OperandAddresses
  BY <1>1 DEF MovTo, MovFrom, MovLen, OperandAddresses, ModRM, Register, HasSIB, DispLen,
              EffectiveAddress, MovWidth, ToByte, op, rm
<1>9. MovCopies' = MovCopies
  BY <1>1, <1>2, <1>8 DEF MovCopies
<1>10. MovTouches' = MovTouches /\ OthersRefused' = OthersRefused
  BY <1>1, <1>2, <1>8 DEF MovTouches, OthersRefused
<1>. QED  BY <1>1, <1>2, <1>3, <1>4, <1>5, <1>6, <1>7, <1>9, <1>10 DEF IInv, Ended

LEMMA InductiveIInv == Spec => []IInv
<1>1. IInv /\ [Next]_vars => IInv'
  BY IsaExecStep, DecodeStep, ExecuteStep, OnceStep, StutterStep DEF Next
<1>. QED  BY InitIInv, <1>1, PTL DEF Spec

(* A mov, of any operands, any width and behind any number of prefixes,    *)
(* copies exactly the bytes that the i386 copies and has its length: what  *)
(* isa_exec, set_width, the ModR/M and SIB decoders and operand_write do   *)
(* together.                                                               *)
THEOREM MovCopiesCorrect == Spec => []MovCopies
<1>1. IInv => MovCopies
  BY DEF IInv, Ended
<1>. QED  BY InductiveIInv, <1>1, PTL

(* A mov reads memory where the i386 reads it and nowhere else, so a store *)
(* to a device register never reads it first (the load flags that the      *)
(* decode helpers hand down).                                              *)
THEOREM MovTouchesCorrect == Spec => []MovTouches
<1>1. IInv => MovTouches
  BY DEF IInv, Ended
<1>. QED  BY InductiveIInv, <1>1, PTL

(* Every opcode that is no mov, of one byte or two, writes nothing, and    *)
(* ends the guest through inv or nemu_trap unless the process ends first;  *)
(* and that it does only at an access the bytes fetched ask for, or at     *)
(* 0x83, whose helper is not written.                                      *)
THEOREM OthersCorrect == Spec => []OthersRefused
<1>1. IInv => OthersRefused
  BY DEF IInv, Ended
<1>. QED  BY InductiveIInv, <1>1, PTL

(* The bytes of an instruction of up to nine prefixes, inv's included, fit *)
(* in log_bytebuf (instr_fetch).                                           *)
THEOREM FitsCorrect == Spec => []OneInstrFits
<1>. QED  BY InductiveIInv, InvFits, PTL
=============================================================================
