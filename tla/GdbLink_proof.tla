---------------------------- MODULE GdbLink_proof ----------------------------
(***************************************************************************)
(* Theorems about GdbLink, for all values of its constants.                *)
(***************************************************************************)
EXTENDS GdbLink, SequenceTheorems, TLAPS

(* A QEMU does not outlive the NEMU that started it (difftest_init):       *)
(* NoOrphan is inductive as it stands, because the child gets past its     *)
(* second check only while NEMU is alive, and has asked for the signal by  *)
(* then.                                                                   *)
THEOREM OrphanCorrect == Spec => []NoOrphan
<1>1. Init => NoOrphan
  BY DEF Init, NoOrphan
<1>2. NoOrphan /\ [Next]_vars => NoOrphan'
  <2> SUFFICES ASSUME NoOrphan, [Next]_vars PROVE NoOrphan'
    OBVIOUS
  <2> USE DEF NoOrphan
  <2>1. ASSUME nemu' # "dead" PROVE NoOrphan'
    BY <2>1
  <2>2. CASE Die
    BY <2>2 DEF Die
  <2>3. CASE UNCHANGED <<nemu, child, sigterm>>
    BY <2>3
  <2>4. ASSUME NEW from, NEW to, ChildGoes(from, to), <<from, to>> # <<"armed", "exec">>,
               to \in {"exec", "boot", "listen"} => from \in {"exec", "boot", "listen"}
        PROVE  NoOrphan'
    BY <2>4 DEF ChildGoes
  <2>5. CASE Nemu
    <3>1. CASE Fork \/ Connect \/ Begin \/ Return \/ Send \/ SendLost \/ ReadAck
                 \/ ReadAckEof \/ Recv
      BY <2>1, <3>1 DEF Fork, Connect, Begin, Return, Send, SendLost, ReadAck,
                        ReadAckEof, Recv
    <3>2. CASE CopyFailed \/ SendFails \/ RecvFails
      BY <2>2, <3>2 DEF CopyFailed, SendFails, RecvFails
    <3>3. CASE RecvBad
      BY <2>3, <3>3 DEF RecvBad, procVars
    <3> QED
      BY <2>5, <3>1, <3>2, <3>3 DEF Nemu
  <2>6. CASE Qemu
    <3>1. CASE Prctl \/ Exec \/ Listen
      BY <2>4, <3>1 DEF Prctl, Exec, Listen
    <3>2. CASE CheckParent
      BY <3>2 DEF CheckParent, ChildGoes
    <3>3. CASE ServeBad \/ ServeCommand \/ Perform \/ ServeAck
      BY <2>3, <3>3 DEF ServeBad, ServeCommand, Perform, ServeAck, procVars
    <3> QED
      BY <2>6, <3>1, <3>2, <3>3 DEF Qemu
  <2>7. CASE NemuEnds
    BY <2>2, <2>7 DEF NemuEnds
  <2>8. CASE ChildKilled
    BY <2>8 DEF ChildKilled
  <2>9. CASE Call
    BY <2>1, <2>9 DEF Call
  <2>10. CASE UNCHANGED vars
    BY <2>3, <2>10 DEF vars, procVars
  <2> QED
    BY <2>5, <2>6, <2>7, <2>8, <2>9, <2>10 DEF Next
<1> QED
  BY <1>1, <1>2, PTL DEF Spec

-----------------------------------------------------------------------------
(* The inductive invariant.  It speaks of a NEMU that has not ended; what  *)
(* a dead one has left behind is changed by nobody.                        *)

InFlight == nemu \in {"send", "ack", "recv"}

(* The state's shape.                                                      *)
RefStates == [regs : RegFile, mem : SUBSET ({"mbr", "img"} \X Nat \X Nat)]

Types ==
  /\ nemu \in {"fork", "connect", "idle", "next", "send", "ack", "recv", "dead"}
  /\ todo \in Seq(Commands)
  /\ got \in Answers \cup {None}
  /\ ans \in Answers \cup {None}
  /\ img \in Nat
  /\ ok \in BOOLEAN /\ done \in BOOLEAN
  /\ ref \in RefStates

(* Before the connection nothing has been said or done, and after it QEMU  *)
(* listens or has ended.  A command is on its way only within a call.      *)
Control ==
  /\ nemu = "fork" => child = "none"
  /\ nemu \in {"fork", "connect"} =>
       /\ out = <<>> /\ in = <<>> /\ busy = None
       /\ todo = <<>> /\ ans = None /\ got = None /\ ok /\ ref.mem = {}
  /\ nemu \notin {"fork", "connect"} => child \in {"listen", "dead"}
  /\ nemu = "idle" => todo = <<>> /\ ok
  /\ InFlight => todo # <<>>

(* A packet, with a right or a wrong checksum.                             *)
Sent(body) == [is : {"$"}, body : {body}, sum : BOOLEAN]

(* Nothing of a command is on the connection ...                           *)
Quiet ==
  /\ in = <<>>
  /\ child = "listen" => busy = None /\ out \in {<<>>, <<Ack>>}

(* ... its packet is, or the refusal of it ...                             *)
Asked ==
  /\ ~ done /\ busy = None
  /\ \/ in = <<>> /\ \E p \in Sent(Cur) : out \in {<<p>>, <<Ack, p>>}
     \/ in = <<Nack>> /\ out = <<>>

(* ... QEMU is at work on it ...                                           *)
Working(before) == ~ done /\ busy = Cur /\ out = <<>> /\ in = before

(* ... or its answer is on the way, or is asked for again.                 *)
Answered(before) ==
  /\ done /\ busy = None /\ out = <<>>
  /\ \E p \in Sent(ans) : in = before \o <<p>>
AskedAgain == done /\ busy = None /\ out = <<Nack>> /\ in = <<>>

(* When QEMU has ended, what it sent last, or a part of it, remains.       *)
Left(before) ==
  \/ in \in {<<>>, before}
  \/ done /\ \E p \in Sent(ans) : in = before \o <<p>>

Link ==
  /\ nemu \in {"idle", "next", "send"} => Quiet
  /\ nemu = "send" /\ child = "listen" => ~ done
  /\ nemu = "ack" => CASE child = "listen" -> Asked \/ Working(<<Ack>>) \/ Answered(<<Ack>>)
                       [] OTHER -> in = <<Nack>> \/ Left(<<Ack>>)
  /\ nemu = "recv" => CASE child = "listen" -> Working(<<>>) \/ Answered(<<>>) \/ AskedAgain
                        [] OTHER -> Left(<<>>)
  /\ InFlight /\ done => ans # None

(* The copy of the image: not begun, under way with its first o bytes      *)
(* done, or over.                                                          *)
OfImage(c) == c.op = "M" /\ c.buf = "img"
ImageIn(mem) == {t \in mem : t[1] = "img"}
FirstBytes(k) == {<<"img", 1 + i, i>> : i \in 0 .. k - 1}
Copied(k) == ImageIn(ref.mem) = FirstBytes(k)
From(o) == [op |-> "M", buf |-> "img", at |-> 1 + o, off |-> o, len |-> img - o]

CopyAhead ==
  /\ Copied(0)
  /\ \E p \in 2 .. Len(todo) :
       todo[p] = From(0) /\ \A q \in 1 .. Len(todo) : q # p => ~ OfImage(todo[q])
CopyUnderWay ==
  /\ todo # <<>>
  /\ \A q \in 2 .. Len(todo) : ~ OfImage(todo[q])
  /\ \E o \in 0 .. img :
       /\ todo[1] = From(o)
       /\ IF InFlight /\ done
            THEN ok /\ ans.is = "OK" => Copied(o + Cur.len)
            ELSE ok => Copied(o)
CopyOver ==
  /\ \A q \in 1 .. Len(todo) : ~ OfImage(todo[q])
  /\ ok => Copied(img)

Image ==
  nemu \notin {"fork", "connect"} => CopyAhead \/ CopyUnderWay \/ CopyOver

(* The registers difftest_setregs writes back are those it has read.       *)
ByDut(c) == c.op = "G" /\ c.who = "dut"
Registers ==
  /\ \A q \in 2 .. Len(todo) : ByDut(todo[q]) => todo[q - 1] = ReadRegs
  /\ todo # <<>> /\ ByDut(todo[1]) =>
       /\ nemu = "next" => got # None /\ got.is = "regs" /\ got.regs.rest = ref.regs.rest
       /\ InFlight /\ ~ done => todo[1].regs.rest = ref.regs.rest
  /\ InFlight /\ done /\ todo[1] = ReadRegs => ans = [is |-> "regs", regs |-> ref.regs]

IInv == Types /\ (nemu # "dead" => Control /\ Link /\ Image /\ Registers)

-----------------------------------------------------------------------------
(* Sequences of at most two elements.                                      *)
LEMMA OneElement ==
  ASSUME NEW S, NEW s \in Seq(S), Len(s) = 1
  PROVE  s = <<s[1]>>
<1>1. s[1] \in S
  BY ElementOfSeq
<1>2. <<s[1]>> \in Seq(S) /\ Len(<<s[1]>>) = 1 /\ <<s[1]>>[1] = s[1]
  BY <1>1
<1>3. \A i \in 1 .. Len(s) : s[i] = <<s[1]>>[i]
  BY <1>2
<1> QED
  BY <1>2, <1>3, SeqEqual

LEMMA TwoElements ==
  ASSUME NEW S, NEW s \in Seq(S), Len(s) = 2
  PROVE  s = <<s[1], s[2]>>
<1> DEFINE t == <<s[1], s[2]>>
<1>1. s[1] \in S /\ s[2] \in S
  BY ElementOfSeq
<1>2. t \in Seq(S) /\ Len(t) = 2 /\ t[1] = s[1] /\ t[2] = s[2]
  BY <1>1
<1> HIDE DEF t
<1>3. \A i \in 1 .. Len(s) : s[i] = t[i]
  BY <1>2
<1>4. s = t
  BY <1>2, <1>3, SeqEqual
<1> QED
  BY <1>4 DEF t

LEMMA Single ==
  ASSUME NEW x
  PROVE  /\ <<x>> # <<>> /\ Len(<<x>>) = 1 /\ <<x>>[1] = x
         /\ Head(<<x>>) = x /\ Tail(<<x>>) = <<>>
         /\ Append(<<>>, x) = <<x>> /\ <<>> \o <<x>> = <<x>>
         /\ SubSeq(<<x>>, 2, 1) = <<>>
         /\ \A k \in 0 .. 1 : SubSeq(<<x>>, 1, k) \in {<<>>, <<x>>}
<1>1. <<x>> \in Seq({x}) /\ <<>> \in Seq({x}) /\ x \in {x}
  OBVIOUS
<1>2. <<x>> # <<>> /\ Len(<<x>>) = 1 /\ <<x>>[1] = x
  OBVIOUS
<1>3. Head(<<x>>) = x /\ Tail(<<x>>) = <<>>
  BY <1>1, <1>2, HeadTailProperties, EmptySeq
<1>4. Append(<<>>, x) = <<x>> /\ <<>> \o <<x>> = <<x>>
  BY <1>1, <1>2, AppendProperties, ConcatEmptySeq, SeqEqual
<1>5. SubSeq(<<x>>, 2, 1) = <<>> /\ SubSeq(<<x>>, 1, 0) = <<>>
  BY SubSeqEmpty
<1>6. SubSeq(<<x>>, 1, 1) = <<x>>
  BY <1>1, <1>2, SubSeqFull
<1> QED
  BY <1>2, <1>3, <1>4, <1>5, <1>6

LEMMA Pair ==
  ASSUME NEW x, NEW y
  PROVE  /\ <<x, y>> # <<>> /\ Len(<<x, y>>) = 2
         /\ <<x, y>>[1] = x /\ <<x, y>>[2] = y
         /\ Head(<<x, y>>) = x /\ Tail(<<x, y>>) = <<y>>
         /\ Append(<<x>>, y) = <<x, y>> /\ <<x>> \o <<y>> = <<x, y>>
         /\ \A k \in 0 .. 2 : SubSeq(<<x, y>>, 1, k) \in {<<>>, <<x>>, <<x, y>>}
<1> DEFINE s == <<x, y>>
<1>1. /\ s \in Seq({x, y}) /\ <<x>> \in Seq({x, y}) /\ <<y>> \in Seq({x, y})
      /\ x \in {x, y} /\ y \in {x, y}
  OBVIOUS
<1>2. s # <<>> /\ Len(s) = 2 /\ s[1] = x /\ s[2] = y /\ Head(s) = x
  OBVIOUS
<1>3. /\ Len(<<x>>) = 1 /\ <<x>>[1] = x /\ Len(<<y>>) = 1 /\ <<y>>[1] = y
  OBVIOUS
<1>4. Tail(s) = <<y>>
  <2> HIDE DEF s
  <2>1. /\ Tail(s) \in Seq({x, y}) /\ Len(Tail(s)) = 1
        /\ Tail(s)[1] = y
    BY <1>1, <1>2, HeadTailProperties
  <2> QED
    BY <2>1, OneElement
<1>5. Append(<<x>>, y) = <<x, y>>
  <2> DEFINE a == Append(<<x>>, y)
  <2>1. a \in Seq({x, y}) /\ Len(a) = 2 /\ a[1] = x /\ a[2] = y
    BY <1>1, <1>3, AppendProperties
  <2> HIDE DEF a
  <2>2. a = <<a[1], a[2]>>
    BY <2>1, TwoElements
  <2> QED
    BY <2>1, <2>2 DEF a
<1>6. <<x>> \o <<y>> = <<x, y>>
  <2> DEFINE a == <<x>> \o <<y>>
  <2>1. a \in Seq({x, y}) /\ Len(a) = 2 /\ a[1] = x /\ a[2] = y
    BY <1>1, <1>3, ConcatProperties
  <2> HIDE DEF a
  <2>2. a = <<a[1], a[2]>>
    BY <2>1, TwoElements
  <2> QED
    BY <2>1, <2>2 DEF a
<1>7. SubSeq(s, 1, 0) = <<>>
  BY SubSeqEmpty
<1>8. SubSeq(s, 1, 1) = <<x>>
  <2> HIDE DEF s
  <2>1. /\ SubSeq(s, 1, 1) \in Seq({x, y}) /\ Len(SubSeq(s, 1, 1)) = 1
        /\ SubSeq(s, 1, 1)[1] = x
    BY <1>1, <1>2, SubSeqProperties
  <2> QED
    BY <2>1, OneElement
<1>9. SubSeq(s, 1, 2) = s
  BY <1>1, <1>2, SubSeqFull
<1> QED
  BY <1>2, <1>4, <1>5, <1>6, <1>7, <1>8, <1>9

-----------------------------------------------------------------------------
(* The commands a call is made of.                                         *)
LEMMA ChunkCommand ==
  ASSUME NEW c \in Commands
  PROVE  /\ Chunk(c) \in Commands /\ Chunk(c).op = c.op
         /\ c.op # "M" => Chunk(c) = c /\ Rest(c) = <<>>
<1> USE LinkAssumption
<1>1. CASE c \in [op : {"M"}, buf : {"mbr", "img"}, at : Nat, off : Nat, len : Nat]
  BY <1>1 DEF Chunk, Rest, Commands
<1>2. CASE c.op # "M"
  BY <1>2 DEF Chunk, Rest
<1> QED
  BY <1>1, <1>2 DEF Commands, ReadRegs, Step, WriteRegs

(* What is left of a copy is a copy of its own.                            *)
LEMMA RestCommand ==
  ASSUME NEW c \in Commands, c.op = "M"
  PROVE  \/ c.len <= MTU /\ Rest(c) = <<>> /\ Chunk(c) = c
         \/ \E r \in Commands :
              /\ r = [op |-> "M", buf |-> c.buf, at |-> c.at + MTU, off |-> c.off + MTU,
                      len |-> c.len - MTU]
              /\ c.len > MTU /\ Rest(c) = <<r>> /\ Chunk(c) = [c EXCEPT !.len = MTU]
<1>1. c \in [op : {"M"}, buf : {"mbr", "img"}, at : Nat, off : Nat, len : Nat]
  BY DEF Commands, ReadRegs, Step, WriteRegs
<1>2. CASE c.len > MTU
  <2> DEFINE r == [op |-> "M", buf |-> c.buf, at |-> c.at + MTU, off |-> c.off + MTU,
                   len |-> c.len - MTU]
  <2>1. r \in [op : {"M"}, buf : {"mbr", "img"}, at : Nat, off : Nat, len : Nat]
    <3>1. c.at + MTU \in Nat /\ c.off + MTU \in Nat /\ c.len - MTU \in Nat
      BY <1>1, <1>2, LinkAssumption
    <3> QED
      BY <1>1, <3>1
  <2>2. [c EXCEPT !.at = c.at + MTU, !.off = c.off + MTU, !.len = c.len - MTU] = r
    <3> DEFINE c1 == [c EXCEPT !.at = c.at + MTU]
               c2 == [c1 EXCEPT !.off = c.off + MTU]
               c3 == [c2 EXCEPT !.len = c.len - MTU]
    <3>1. c1 = [op |-> "M", buf |-> c.buf, at |-> c.at + MTU, off |-> c.off, len |-> c.len]
      BY <1>1
    <3> HIDE DEF c1
    <3>2. c2 = [op |-> "M", buf |-> c.buf, at |-> c.at + MTU, off |-> c.off + MTU, len |-> c.len]
      BY <3>1
    <3> HIDE DEF c2
    <3>3. c3 = r
      BY <3>2
    <3> QED
      BY <3>3 DEF c1, c2, c3
  <2>3. r \in Commands /\ Rest(c) = <<r>> /\ Chunk(c) = [c EXCEPT !.len = MTU]
    BY <1>2, <2>1, <2>2 DEF Rest, Chunk, Commands
  <2> QED
    BY <1>2, <2>3
<1>3. CASE ~ (c.len > MTU)
  BY <1>1, <1>3, LinkAssumption DEF Rest, Chunk
<1> QED
  BY <1>2, <1>3

(* Filled changes no more than the registers of a "G" for difftest_setregs,*)
(* and does when the answer before was that of a "g".                      *)
LEMMA FilledCommand ==
  ASSUME NEW c \in Commands, got \in Answers \cup {None}
  PROVE  /\ Filled(c) \in Commands
         /\ ~ ByDut(c) => Filled(c) = c
         /\ ByDut(c) => ByDut(Filled(c))
         /\ ByDut(c) /\ got # None /\ got.is = "regs" => Filled(c).regs.rest = got.regs.rest
<1>1. CASE ByDut(c) /\ got # None /\ got.is = "regs"
  <2>1. got \in [is : {"regs"}, regs : RegFile]
    BY <1>1 DEF Answers
  <2>2. PICK regs \in RegFile : c = WriteRegs("dut", regs)
    BY <1>1 DEF Commands, ReadRegs, Step, WriteRegs, ByDut
  <2>3. Filled(c) = WriteRegs("dut", [regs EXCEPT !.rest = got.regs.rest])
    BY <1>1, <2>2 DEF Filled, WriteRegs, ByDut
  <2>4. [regs EXCEPT !.rest = got.regs.rest] \in RegFile
    BY <2>1, <2>2 DEF RegFile
  <2>5. [regs EXCEPT !.rest = got.regs.rest].rest = got.regs.rest
    BY <2>2 DEF RegFile
  <2>6. Filled(c) \in Commands
    BY <2>3, <2>4 DEF Commands
  <2>7. ByDut(Filled(c)) /\ Filled(c).regs.rest = got.regs.rest
    <3> DEFINE f == [regs EXCEPT !.rest = got.regs.rest]
    <3> HIDE DEF f
    <3>1. Filled(c) = [op |-> "G", who |-> "dut", regs |-> f] /\ f.rest = got.regs.rest
      BY <2>3, <2>5 DEF WriteRegs, f
    <3> QED
      BY <3>1 DEF ByDut
  <2> QED
    BY <1>1, <2>6, <2>7
<1>2. CASE ~ (ByDut(c) /\ got # None /\ got.is = "regs")
  BY <1>2 DEF Filled, ByDut
<1> QED
  BY <1>1, <1>2

(* A sequence of commands, and the same without its first one or with      *)
(* another one in its place.                                               *)
LEMMA TailOf ==
  ASSUME NEW s \in Seq(Commands), s # <<>>
  PROVE  /\ Head(s) \in Commands /\ Head(s) = s[1] /\ Len(s) \in Nat \ {0}
         /\ Tail(s) \in Seq(Commands) /\ Len(Tail(s)) = Len(s) - 1
         /\ \A i \in 1 .. Len(s) - 1 : Tail(s)[i] = s[i + 1]
         /\ <<>> \o Tail(s) = Tail(s)
<1>1. Len(s) \in Nat \ {0}
  BY EmptySeq
<1>2. /\ Tail(s) \in Seq(Commands) /\ Len(Tail(s)) = Len(s) - 1
      /\ \A i \in 1 .. Len(Tail(s)) : Tail(s)[i] = s[i + 1]
  BY HeadTailProperties
<1>3. Head(s) \in Commands /\ Head(s) = s[1]
  BY HeadTailProperties
<1>4. <<>> \o Tail(s) = Tail(s)
  BY <1>2, ConcatEmptySeq
<1> QED
  BY <1>1, <1>2, <1>3, <1>4

LEMMA OtherHead ==
  ASSUME NEW s \in Seq(Commands), s # <<>>, NEW c \in Commands
  PROVE  /\ <<c>> \o Tail(s) \in Seq(Commands)
         /\ <<c>> \o Tail(s) # <<>>
         /\ Len(<<c>> \o Tail(s)) = Len(s)
         /\ (<<c>> \o Tail(s))[1] = c
         /\ \A i \in 2 .. Len(s) : (<<c>> \o Tail(s))[i] = s[i]
<1> DEFINE t == <<c>> \o Tail(s)
<1>1. /\ Len(s) \in Nat \ {0}
      /\ Tail(s) \in Seq(Commands) /\ Len(Tail(s)) = Len(s) - 1
      /\ \A i \in 1 .. Len(s) - 1 : Tail(s)[i] = s[i + 1]
  BY TailOf
<1>2. <<c>> \in Seq(Commands) /\ Len(<<c>>) = 1 /\ <<c>>[1] = c
  OBVIOUS
<1>3. /\ t \in Seq(Commands) /\ Len(t) = Len(s)
      /\ \A i \in 1 .. Len(s) : t[i] = IF i <= 1 THEN c ELSE Tail(s)[i - 1]
  <2>1. /\ t \in Seq(Commands) /\ Len(t) = Len(<<c>>) + Len(Tail(s))
        /\ \A i \in 1 .. Len(<<c>>) + Len(Tail(s)) :
             t[i] = IF i <= Len(<<c>>) THEN <<c>>[i] ELSE Tail(s)[i - Len(<<c>>)]
    BY <1>1, <1>2, ConcatProperties
  <2>2. Len(<<c>>) + Len(Tail(s)) = Len(s)
    BY <1>1, <1>2
  <2>3. ASSUME NEW i \in 1 .. Len(s)
        PROVE  t[i] = IF i <= 1 THEN c ELSE Tail(s)[i - 1]
    BY <1>2, <2>1, <2>2
  <2> QED
    BY <2>1, <2>2, <2>3
<1> HIDE DEF t
<1>4. ASSUME NEW i \in 2 .. Len(s)
      PROVE  t[i] = s[i]
  <2>1. i - 1 \in 1 .. Len(s) - 1 /\ (i - 1) + 1 = i /\ ~ (i <= 1) /\ i \in 1 .. Len(s)
    BY <1>1
  <2> QED
    BY <1>1, <1>3, <2>1
<1>5. t # <<>> /\ t[1] = c
  BY <1>1, <1>3, EmptySeq
<1> QED
  BY <1>3, <1>4, <1>5 DEF t

(* The commands that init_difftest and difftest_init give.                 *)
LEMMA InitIsaCommands ==
  ASSUME NEW regs \in RegFile, NEW isa \in {InitIsa(regs), <<>>}
  PROVE  /\ isa \in Seq(Commands)
         /\ \A i \in 1 .. Len(isa) : ~ OfImage(isa[i]) /\ ~ ByDut(isa[i])
<1> DEFINE a == <<Copy("mbr", 0, 1), ReadRegs, WriteRegs("init", regs)>>
           b == [i \in 1 .. InitSteps |-> Step]
           C == {c \in Commands : ~ OfImage(c) /\ ~ ByDut(c)}
<1>1. /\ Copy("mbr", 0, 1) \in Commands /\ ReadRegs \in Commands
      /\ WriteRegs("init", regs) \in Commands /\ Step \in Commands
  BY DEF Commands, Copy
<1>2. /\ Copy("mbr", 0, 1) \in C /\ ReadRegs \in C
      /\ WriteRegs("init", regs) \in C /\ Step \in C
  BY <1>1 DEF OfImage, ByDut, Copy, ReadRegs, WriteRegs, Step
<1>3. a \in Seq(C)
  BY <1>2
<1>4. b \in Seq(C)
  BY <1>2, LinkAssumption
<1>5. a \o b \in Seq(C) /\ <<>> \in Seq(C)
  BY <1>3, <1>4, ConcatProperties
<1>6. isa \in Seq(C)
  BY <1>5 DEF InitIsa
<1> HIDE DEF C
<1>7. \A i \in 1 .. Len(isa) : isa[i] \in C
  BY <1>6, ElementOfSeq
<1>8. isa \in Seq(Commands)
  <2>1. C \subseteq Commands
    BY DEF C
  <2> QED
    BY <1>6, <2>1, SeqMonotonic
<1> QED
  BY <1>7, <1>8 DEF C

LEMMA InitCallsCommands ==
  ASSUME NEW isa \in Seq(Commands), NEW regs \in RegFile, img \in Nat,
         \A i \in 1 .. Len(isa) : ~ OfImage(isa[i]) /\ ~ ByDut(isa[i])
  PROVE  /\ InitCalls(isa, regs) \in Seq(Commands)
         /\ Len(InitCalls(isa, regs)) = Len(isa) + 3
         /\ \A i \in 1 .. Len(isa) : InitCalls(isa, regs)[i] = isa[i]
         /\ InitCalls(isa, regs)[Len(isa) + 1] = From(0)
         /\ InitCalls(isa, regs)[Len(isa) + 2] = ReadRegs
         /\ InitCalls(isa, regs)[Len(isa) + 3] = WriteRegs("dut", regs)
<1> DEFINE m == Copy("img", 1, img)
           a == isa \o <<m>>
           b == Setregs(regs)
<1>1. m \in Commands /\ ReadRegs \in Commands /\ WriteRegs("dut", regs) \in Commands
  BY DEF Commands, Copy
<1>2. m = From(0)
  BY DEF Copy, From
<1> HIDE DEF m
<1>3. <<m>> \in Seq(Commands) /\ Len(<<m>>) = 1 /\ <<m>>[1] = m
  BY <1>1
<1>4. /\ b \in Seq(Commands) /\ Len(b) = 2
      /\ b[1] = ReadRegs /\ b[2] = WriteRegs("dut", regs)
  BY <1>1 DEF Setregs
<1>5. Len(isa) \in Nat
  BY LenProperties
<1>6. /\ a \in Seq(Commands) /\ Len(a) = Len(isa) + 1
      /\ \A i \in 1 .. Len(isa) : a[i] = isa[i]
      /\ a[Len(isa) + 1] = m
  <2>1. /\ a \in Seq(Commands) /\ Len(a) = Len(isa) + 1
        /\ \A i \in 1 .. Len(isa) + 1 : a[i] = IF i <= Len(isa) THEN isa[i] ELSE <<m>>[i - Len(isa)]
    BY <1>3, ConcatProperties
  <2>2. (Len(isa) + 1) - Len(isa) = 1 /\ ~ (Len(isa) + 1 <= Len(isa))
    BY <1>5
  <2> QED
    BY <1>3, <1>5, <2>1, <2>2
<1> HIDE DEF a, b
<1>7. /\ a \o b \in Seq(Commands) /\ Len(a \o b) = Len(isa) + 3
      /\ \A i \in 1 .. Len(isa) + 3 :
           (a \o b)[i] = IF i <= Len(isa) + 1 THEN a[i] ELSE b[i - (Len(isa) + 1)]
  <2>1. /\ a \o b \in Seq(Commands) /\ Len(a \o b) = Len(a) + Len(b)
        /\ \A i \in 1 .. Len(a) + Len(b) :
             (a \o b)[i] = IF i <= Len(a) THEN a[i] ELSE b[i - Len(a)]
    BY <1>4, <1>6, ConcatProperties
  <2>2. Len(a) = Len(isa) + 1 /\ Len(a) + Len(b) = Len(isa) + 3
    BY <1>4, <1>5, <1>6
  <2> QED
    BY <2>1, <2>2
<1>8. InitCalls(isa, regs) = a \o b
  BY DEF InitCalls, a, b, m
<1>9. /\ (Len(isa) + 2) - (Len(isa) + 1) = 1 /\ (Len(isa) + 3) - (Len(isa) + 1) = 2
      /\ ~ (Len(isa) + 2 <= Len(isa) + 1) /\ ~ (Len(isa) + 3 <= Len(isa) + 1)
      /\ Len(isa) + 1 \in 1 .. Len(isa) + 3
      /\ Len(isa) + 2 \in 1 .. Len(isa) + 3 /\ Len(isa) + 3 \in 1 .. Len(isa) + 3
  BY <1>5
<1>10. \A i \in 1 .. Len(isa) : i <= Len(isa) + 1 /\ i \in 1 .. Len(isa) + 3
  BY <1>5
<1> QED
  BY <1>2, <1>4, <1>6, <1>7, <1>8, <1>9, <1>10

-----------------------------------------------------------------------------
(* Most steps leave the call, the reference machine and its answers alone. *)
Kept ==
  /\ UNCHANGED <<todo, ok, got, img, ans, ref, done>>
  /\ InFlight' <=> InFlight
  /\ (nemu' = "next") <=> (nemu = "next")
  /\ (nemu' = "idle") <=> (nemu = "idle")
  /\ nemu' \in {"fork", "connect"} <=> nemu \in {"fork", "connect"}
  /\ nemu' # nemu => nemu' \in {"connect", "send", "ack", "recv"}

LEMMA Steps ==
  ASSUME [Next]_vars
  PROVE  Die \/ Connect \/ Begin \/ Return \/ Call \/ Recv \/ Perform \/ Kept
<1> USE DEF Kept, InFlight
<1>1. CASE Fork
  BY <1>1 DEF Fork, callVars, refVars
<1>2. CASE Send \/ SendLost \/ ReadAckEof
  BY <1>2 DEF Send, SendLost, ReadAckEof, callVars, refVars
<1>3. CASE ReadAck
  BY <1>3 DEF ReadAck, callVars, refVars
<1>4. CASE RecvBad
  BY <1>4 DEF RecvBad, procVars, callVars, refVars
<1>5. CASE Prctl \/ CheckParent \/ Exec \/ Listen \/ ChildKilled
  BY <1>5 DEF Prctl, CheckParent, Exec, Listen, ChildGoes, ChildKilled, callVars, refVars
<1>6. CASE ServeBad \/ ServeCommand \/ ServeAck
  BY <1>6 DEF ServeBad, ServeCommand, ServeAck, procVars, callVars, refVars
<1>7. CASE UNCHANGED vars
  BY <1>7 DEF vars, procVars, callVars, refVars
<1>8. CASE CopyFailed \/ SendFails \/ RecvFails \/ NemuEnds
  BY <1>8 DEF CopyFailed, SendFails, RecvFails, NemuEnds
<1> QED
  BY <1>1, <1>2, <1>3, <1>4, <1>5, <1>6, <1>7, <1>8 DEF Next, Nemu, Qemu

(* What a command does to the reference machine, and its answer.           *)
LEMMA EffectMem ==
  ASSUME NEW c \in Commands, NEW r \in RefStates, NEW e \in Effect(c, r)
  PROVE  /\ c.op # "M" => e[1].mem = r.mem
         /\ c.op = "M" => \/ e[1].mem = r.mem /\ e[2].is = "E"
                          \/ e[1].mem = r.mem \cup Bytes(c)
<1> USE DEF RefStates
<1>1. CASE c = ReadRegs
  BY <1>1 DEF Effect, ReadRegs
<1>2. CASE c = Step
  BY <1>2 DEF Effect, Step
<1>3. CASE c \in {WriteRegs(who, regs) : who \in {"init", "dut"}, regs \in RegFile}
  BY <1>3 DEF Effect, WriteRegs
<1>4. CASE c \in [op : {"M"}, buf : {"mbr", "img"}, at : Nat, off : Nat, len : Nat]
  BY <1>4 DEF Effect
<1> QED
  BY <1>1, <1>2, <1>3, <1>4 DEF Commands

LEMMA EffectRegs ==
  ASSUME NEW c \in Commands, NEW r \in RefStates, NEW e \in Effect(c, r)
  PROVE  /\ c.op = "G" => e[1].regs = c.regs
         /\ c.op = "g" => e[1] = r /\ e[2] = [is |-> "regs", regs |-> r.regs]
<1>1. CASE c.op = "G"
  BY <1>1 DEF Effect, RefStates
<1>2. CASE c.op = "g"
  BY <1>2 DEF Effect
<1> QED
  BY <1>1, <1>2

LEMMA EffectTypes ==
  ASSUME NEW c \in Commands, NEW r \in RefStates, NEW e \in Effect(c, r)
  PROVE  e[1] \in RefStates /\ e[2] \in Answers
<1> USE DEF RefStates
<1>1. CASE c = ReadRegs
  <2>1. e = <<r, [is |-> "regs", regs |-> r.regs]>>
    BY <1>1 DEF Effect, ReadRegs
  <2> QED
    BY <1>1, <2>1 DEF Answers, ReadRegs
<1>2. CASE c = Step
  <2>1. PICK f \in RegFile : e = <<[r EXCEPT !.regs = f], [is |-> "T05"]>>
    BY <1>2 DEF Effect, Step
  <2> QED
    BY <1>2, <2>1 DEF Answers, Step
<1>3. ASSUME NEW who \in {"init", "dut"}, NEW regs \in RegFile, c = WriteRegs(who, regs)
      PROVE  e[1] \in RefStates /\ e[2] \in Answers
  <2>1. e = <<[r EXCEPT !.regs = regs], [is |-> "OK"]>>
    BY <1>3 DEF Effect, WriteRegs
  <2> QED
    BY <1>3, <2>1 DEF Answers, WriteRegs
<1>4. CASE c \in [op : {"M"}, buf : {"mbr", "img"}, at : Nat, off : Nat, len : Nat]
  <2>1. Bytes(c) \subseteq {"mbr", "img"} \X Nat \X Nat
    BY <1>4 DEF Bytes
  <2>2. \/ e = <<[r EXCEPT !.mem = r.mem \cup Bytes(c)], [is |-> "OK"]>>
        \/ e = <<r, [is |-> "E"]>>
    BY <1>4 DEF Effect
  <2> QED
    BY <1>4, <2>1, <2>2 DEF Answers
<1> QED
  BY <1>1, <1>2, <1>3, <1>4 DEF Commands

-----------------------------------------------------------------------------
(* gdb_recv finds one packet, which carries the answer to the command that *)
(* has been performed.                                                     *)
LEMMA RecvTakes ==
  ASSUME Control, Link, nemu = "recv", NEW i \in 1 .. Len(in)
  PROVE  /\ i = 1 /\ done /\ in[i].body = ans
         /\ SubSeq(in, i + 1, Len(in)) = <<>>
         /\ child = "listen" => out = <<>> /\ busy = None
<1>1. in # <<>>
  BY EmptySeq
<1>2. PICK p \in Sent(ans) : in = <<>> \o <<p>> /\ done
  BY <1>1 DEF Link, Control, Working, Answered, AskedAgain, Left
<1>3. in = <<p>> /\ Len(in) = 1 /\ in[1] = p /\ SubSeq(in, 2, 1) = <<>>
  BY <1>2, Single
<1>4. i = 1 /\ i + 1 = 2
  BY <1>3
<1>5. p.body = ans
  BY DEF Sent
<1>6. child = "listen" => out = <<>> /\ busy = None
  BY <1>1 DEF Link, Control, Working, Answered, AskedAgain, Left
<1> QED
  BY <1>2, <1>3, <1>4, <1>5, <1>6

(* QEMU performs the command under way, which it has not performed yet.    *)
LEMMA PerformServes ==
  ASSUME Types, Control, Link, nemu # "dead", child = "listen", busy # None
  PROVE  /\ busy = Cur /\ busy \in Commands /\ ~ done
         /\ InFlight /\ nemu \in {"ack", "recv"} /\ todo # <<>> /\ out = <<>>
         /\ in = IF nemu = "ack" THEN <<Ack>> ELSE <<>>
<1>1. nemu \in {"ack", "recv"}
  BY DEF Types, Control, Link, Quiet
<1>2. todo # <<>> /\ InFlight
  BY <1>1 DEF Control, InFlight
<1>3. (Working(<<Ack>>) /\ nemu = "ack") \/ (Working(<<>>) /\ nemu = "recv")
  <2>1. CASE nemu = "ack"
    <3>1. Asked \/ Working(<<Ack>>) \/ Answered(<<Ack>>)
      BY <2>1 DEF Link
    <3>2. Asked \/ Answered(<<Ack>>) => busy = None
      BY DEF Asked, Answered
    <3> QED
      BY <2>1, <3>1, <3>2
  <2>2. CASE nemu = "recv"
    <3>1. Working(<<>>) \/ Answered(<<>>) \/ AskedAgain
      BY <2>2 DEF Link
    <3> QED
      BY <2>2, <3>1 DEF Answered, AskedAgain
  <2> QED
    BY <1>1, <2>1, <2>2
<1>4. Cur \in Commands
  BY <1>2, TailOf, ChunkCommand DEF Types, Cur
<1> QED
  BY <1>1, <1>2, <1>3, <1>4 DEF Working

(* What gdb_recv leaves to be done.                                        *)
LEMMA RestLeaves ==
  ASSUME Types, todo # <<>>
  PROVE  Rest(Head(todo)) \o Tail(todo) \in Seq(Commands)
<1>1. Head(todo) \in Commands /\ <<>> \o Tail(todo) = Tail(todo) /\ Tail(todo) \in Seq(Commands)
  BY TailOf DEF Types
<1>2. CASE Rest(Head(todo)) = <<>>
  BY <1>1, <1>2
<1>3. ASSUME NEW r \in Commands, Rest(Head(todo)) = <<r>>
      PROVE  Rest(Head(todo)) \o Tail(todo) \in Seq(Commands)
  BY <1>3, OtherHead DEF Types
<1> QED
  BY <1>1, <1>2, <1>3, ChunkCommand, RestCommand

(* What init_difftest asks for: the image and, after reading them, the     *)
(* registers, behind what it asks for by itself.                           *)
LEMMA ConnectGives ==
  ASSUME Types, Connect
  PROVE  /\ todo' \in Seq(Commands)
         /\ \E n \in Nat, regs \in RegFile :
              /\ Len(todo') = n + 3
              /\ \A i \in 1 .. n : ~ OfImage(todo'[i]) /\ ~ ByDut(todo'[i])
              /\ todo'[n + 1] = From(0)
              /\ todo'[n + 2] = ReadRegs /\ todo'[n + 3] = WriteRegs("dut", regs)
<1>1. PICK regs1 \in RegFile, regs \in RegFile :
        todo' \in {InitCalls(InitIsa(regs1), regs), InitCalls(<<>>, regs)}
  BY DEF Connect
<1>2. PICK isa \in {InitIsa(regs1), <<>>} : todo' = InitCalls(isa, regs)
  BY <1>1
<1>3. /\ isa \in Seq(Commands)
      /\ \A i \in 1 .. Len(isa) : ~ OfImage(isa[i]) /\ ~ ByDut(isa[i])
  BY InitIsaCommands
<1>4. Len(isa) \in Nat /\ img \in Nat
  BY <1>3, LenProperties DEF Types
<1> QED
  BY <1>2, <1>3, <1>4, InitCallsCommands

(* What the other functions ask for.                                       *)
LEMMA CallGives ==
  ASSUME Call
  PROVE  /\ todo' \in Seq(Commands)
         /\ \/ Len(todo') = 1 /\ todo'[1] \in {Step, ReadRegs}
            \/ \E regs \in RegFile :
                 Len(todo') = 2 /\ todo'[1] = ReadRegs /\ todo'[2] = WriteRegs("dut", regs)
<1>1. PICK regs \in RegFile : todo' \in {<<Step>>, <<ReadRegs>>, Setregs(regs)}
  BY DEF Call
<1>2. Step \in Commands /\ ReadRegs \in Commands /\ WriteRegs("dut", regs) \in Commands
  BY DEF Commands
<1>3. /\ <<Step>> \in Seq(Commands) /\ Len(<<Step>>) = 1 /\ <<Step>>[1] = Step
      /\ <<ReadRegs>> \in Seq(Commands) /\ Len(<<ReadRegs>>) = 1 /\ <<ReadRegs>>[1] = ReadRegs
  BY <1>2
<1>4. /\ Setregs(regs) \in Seq(Commands) /\ Len(Setregs(regs)) = 2
      /\ Setregs(regs)[1] = ReadRegs /\ Setregs(regs)[2] = WriteRegs("dut", regs)
  BY <1>2 DEF Setregs
<1> QED
  BY <1>1, <1>3, <1>4

LEMMA TypesStep ==
  ASSUME Types, nemu # "dead" => Control /\ Link, [Next]_vars
  PROVE  Types'
<1> USE DEF Types
<1>1. CASE Die
  BY <1>1 DEF Die, callVars, refVars
<1>2. CASE Connect
  BY <1>2, ConnectGives DEF Connect, refVars
<1>3. CASE Begin
  <2>1. Filled(Head(todo)) \in Commands
    BY <1>3, TailOf, FilledCommand DEF Begin
  <2>2. todo' \in Seq(Commands)
    BY <1>3, <2>1, OtherHead DEF Begin
  <2> QED
    BY <1>3, <2>2 DEF Begin, refVars
<1>4. CASE Return
  BY <1>4 DEF Return, callVars, refVars
<1>5. CASE Call
  BY <1>5, CallGives DEF Call, refVars
<1>6. CASE Recv
  <2>1. todo # <<>> /\ nemu # "dead"
    BY <1>6 DEF Recv, Control, InFlight
  <2>2. got' = ans /\ ok' \in BOOLEAN
    BY <1>6, RecvTakes DEF Recv
  <2>3. Rest(Head(todo)) \o Tail(todo) \in Seq(Commands)
    BY <2>1, RestLeaves
  <2> QED
    BY <1>6, <2>2, <2>3 DEF Recv, refVars
<1>7. CASE Perform
  <2>1. busy \in Commands
    BY <1>7, PerformServes DEF Perform, Serving
  <2>2. PICK e \in Effect(busy, ref) : ref' = e[1] /\ ans' = e[2]
    BY <1>7 DEF Perform
  <2>3. ans' \in Answers /\ ref' \in RefStates
    BY <2>1, <2>2, EffectTypes
  <2> QED
    BY <1>7, <2>3 DEF Perform, procVars, callVars
<1>8. CASE Kept
  BY <1>8 DEF Kept
<1> QED
  BY <1>1, <1>2, <1>3, <1>4, <1>5, <1>6, <1>7, <1>8, Steps

-----------------------------------------------------------------------------
(* The steps of NEMU and of QEMU keep Control ...                          *)
LEMMA ControlStep ==
  ASSUME Types, nemu # "dead", Control, Link, [Next]_vars, nemu' # "dead"
  PROVE  Control'
<1> USE DEF Control, InFlight
<1>1. CASE Fork
  BY <1>1 DEF Fork, callVars, linkVars, refVars
<1>2. CASE Connect
  BY <1>2 DEF Connect
<1>3. CASE Begin
  <2>1. Filled(Head(todo)) \in Commands
    BY <1>3, TailOf, FilledCommand DEF Begin, Types
  <2>2. todo' # <<>>
    BY <1>3, <2>1, OtherHead DEF Begin, Types
  <2> QED
    BY <1>3, <2>2 DEF Begin, linkVars, refVars
<1>4. CASE Return \/ Send \/ SendLost \/ ReadAckEof
  BY <1>4 DEF Return, Send, SendLost, ReadAckEof, callVars, linkVars, refVars
<1>5. CASE ReadAck
  BY <1>5 DEF ReadAck, callVars, refVars
<1>6. CASE RecvBad
  BY <1>6 DEF RecvBad, procVars, callVars, refVars
<1>7. CASE Recv
  BY <1>7 DEF Recv, refVars
<1>8. CASE Prctl \/ CheckParent \/ Exec \/ Listen
  BY <1>8 DEF Prctl, CheckParent, Exec, Listen, ChildGoes, callVars, linkVars, refVars
<1>9. CASE ServeBad \/ ServeCommand \/ ServeAck
  BY <1>9, EmptySeq DEF ServeBad, ServeCommand, ServeAck, procVars, callVars, refVars
<1>10. CASE Perform
  BY <1>10 DEF Perform, procVars, callVars
<1>11. CASE ChildKilled
  <2>1. nemu \in {"fork", "connect"} => in' = <<>>
    <3>1. SUFFICES ASSUME in = <<>> PROVE in' = <<>>
      OBVIOUS
    <3>2. Len(in) = 0 /\ SubSeq(in, 1, 0) = <<>>
      BY <3>1, EmptySeq, SubSeqEmpty
    <3> QED
      BY <1>11, <3>2 DEF ChildKilled
  <2> QED
    BY <1>11, <2>1 DEF ChildKilled, callVars, refVars
<1>12. CASE Call
  BY <1>12 DEF Call, linkVars, refVars
<1>13. CASE UNCHANGED vars
  BY <1>13 DEF vars, procVars, callVars, linkVars, refVars
<1>14. CASE CopyFailed \/ SendFails \/ RecvFails \/ NemuEnds
  BY <1>14 DEF CopyFailed, SendFails, RecvFails, NemuEnds, Die
<1> QED
  BY <1>1, <1>2, <1>3, <1>4, <1>5, <1>6, <1>7, <1>8, <1>9, <1>10, <1>11, <1>12, <1>13,
     <1>14 DEF Next, Nemu, Qemu

(* ... and what may be on the connection.                                  *)
LEMMA AckFacts == Ack # Nack /\ ~ IsPacket(Ack) /\ ~ IsPacket(Nack)
  BY DEF Ack, Nack, IsPacket

LEMMA CarriedFacts ==
  ASSUME NEW body, NEW p \in Carried(body)
  PROVE  p \in Sent(body) /\ IsPacket(p) /\ p.body = body
<1>1. PICK s \in BOOLEAN : p = [is |-> "$", body |-> body, sum |-> s]
  BY DEF Carried
<1> QED
  BY <1>1 DEF Sent, IsPacket

(* QEMU finds a packet only after gdb_send has sent it.                    *)
LEMMA ServesAsked ==
  ASSUME Types, Control, Link, nemu # "dead", child = "listen",
         out # <<>>, IsPacket(Head(out))
  PROVE  /\ nemu = "ack" /\ Asked /\ in = <<>>
         /\ \E p \in Sent(Cur) : out \in {<<p>>, <<Ack, p>>}
<1> USE AckFacts
<1>1. \A x : out = <<x>> => Head(out) = x
  BY Single
<1>2. nemu = "ack"
  BY <1>1 DEF Types, Control, Link, Quiet, Working, Answered, AskedAgain
<1>3. Asked
  BY <1>2 DEF Link, Working, Answered
<1> QED
  BY <1>2, <1>3 DEF Asked

LEMMA LinkStep ==
  ASSUME Types, nemu # "dead", Control, Link, [Next]_vars, nemu' # "dead"
  PROVE  Link'
<1>1. CASE nemu' \in {"fork", "connect"}
  BY <1>1 DEF Link, InFlight
<1>2. CASE Connect
  BY <1>2 DEF Connect, Link, Control, Quiet, InFlight, refVars
<1>3. CASE Begin
  BY <1>3 DEF Begin, Link, Quiet, InFlight, linkVars, refVars
<1>4. CASE Return
  BY <1>4 DEF Return, Link, Quiet, InFlight, callVars, linkVars, refVars
<1>5. CASE Send
  <2>1. Quiet /\ busy = None /\ ~ done /\ in = <<>>
    BY <1>5 DEF Send, Link, Quiet
  <2>2. PICK p \in Sent(Cur) : out' = Append(out, p)
    BY <1>5, CarriedFacts DEF Send
  <2>3. out' \in {<<p>>, <<Ack, p>>}
    <3>1. CASE out = <<>>
      BY <2>2, <3>1, Single
    <3>2. CASE out = <<Ack>>
      BY <2>2, <3>2, Pair
    <3> QED
      BY <1>5, <2>1, <3>1, <3>2 DEF Quiet, Send
  <2>4. Cur' = Cur
    BY <1>5 DEF Send, callVars, Cur
  <2>5. Sent(Cur)' = Sent(Cur)
    BY <2>4 DEF Sent
  <2>6. Asked'
    BY <1>5, <2>1, <2>2, <2>3, <2>5 DEF Asked, Send, refVars
  <2> QED
    BY <1>5, <2>1, <2>6 DEF Send, Link, refVars
<1>6. CASE SendLost
  BY <1>6 DEF SendLost, Link, Quiet, Left, InFlight, refVars
<1>7. CASE ReadAck
  <2> USE AckFacts
  <2>1. /\ nemu = "ack" /\ in # <<>> /\ UNCHANGED <<child, out, busy, ans, done, todo>>
        /\ nemu' = IF Head(in) = Ack THEN "recv" ELSE "send"
        /\ ~ IsPacket(Head(in)) => in' = <<>> \o Tail(in)
    BY <1>7 DEF ReadAck, callVars, refVars
  <2>2. Cur' = Cur /\ Sent(ans)' = Sent(ans)
    BY <2>1 DEF Cur, Sent
  <2>3. CASE in = <<Nack>>
    <3>1. in' = <<>> /\ nemu' = "send"
      BY <2>1, <2>3, Single
    <3>2. child = "listen" => out = <<>> /\ busy = None /\ ~ done
      <4>1. in # <<>> /\ in # <<Ack>> /\ \A p : in # <<Ack>> \o <<p>>
        BY <2>1, <2>3, Single, Pair
      <4>2. child = "listen" => Asked
        BY <2>1, <4>1 DEF Link, Working, Answered
      <4> QED
        BY <4>1, <4>2 DEF Asked
    <3> QED
      BY <2>1, <3>1, <3>2 DEF Link, Quiet, InFlight
  <2>4. CASE in = <<Ack>>
    <3>1. in' = <<>> /\ nemu' = "recv"
      BY <2>1, <2>4, Single
    <3>2. CASE child = "listen"
      <4>1. in # <<>> /\ in # <<Nack>> /\ \A p : in # <<Ack>> \o <<p>>
        BY <2>1, <2>4, Single, Pair
      <4>2. Working(<<Ack>>)
        BY <2>1, <3>2, <4>1 DEF Link, Asked, Answered
      <4>3. Working(<<>>)'
        BY <2>1, <2>2, <3>1, <4>2 DEF Working
      <4> QED
        BY <2>1, <3>1, <3>2, <4>3 DEF Link, InFlight
    <3>3. CASE child # "listen"
      BY <2>1, <3>1, <3>3 DEF Link, Left, InFlight
    <3> QED
      BY <3>2, <3>3
  <2>5. ASSUME NEW p \in Sent(ans), in = <<Ack>> \o <<p>>
        PROVE  Link'
    <3>1. in = <<Ack, p>>
      BY <2>5, Pair
    <3>2. in' = <<>> \o <<p>> /\ nemu' = "recv"
      BY <2>1, <3>1, Pair
    <3>3. done /\ (child = "listen" => busy = None /\ out = <<>>)
      <4>1. in # <<>> /\ in # <<Ack>> /\ in # <<Nack>>
        BY <3>1, Single, Pair
      <4> QED
        BY <2>1, <4>1 DEF Link, Asked, Working, Answered, Left
    <3>4. child = "listen" => Answered(<<>>)'
      BY <2>1, <2>2, <3>2, <3>3 DEF Answered
    <3>5. Left(<<>>)'
      BY <2>1, <2>2, <3>2, <3>3 DEF Left
    <3> QED
      BY <2>1, <3>2, <3>4, <3>5 DEF Link, InFlight
  <2> QED
    BY <2>1, <2>3, <2>4, <2>5 DEF Link, Asked, Working, Answered, Left
<1>8. CASE ReadAckEof
  BY <1>8 DEF ReadAckEof, Link, Quiet, InFlight, callVars, linkVars, refVars
<1>9. CASE RecvBad
  <2>1. PICK i \in 1 .. Len(in) : Taken(i)
    BY <1>9 DEF RecvBad
  <2>2. in' = <<>> /\ done /\ (child = "listen" => out = <<>> /\ busy = None)
    BY <1>9, <2>1, RecvTakes DEF RecvBad, Taken
  <2>3. child = "listen" => out' = <<Nack>>
    BY <1>9, <2>2, Single DEF RecvBad, Write
  <2> QED
    BY <1>9, <2>2, <2>3 DEF RecvBad, Link, AskedAgain, Left, InFlight, procVars, refVars
<1>10. CASE Recv
  <2>1. PICK i \in 1 .. Len(in) : Taken(i)
    BY <1>10 DEF Recv
  <2>2. in' = <<>> /\ (child = "listen" => out = <<>> /\ busy = None)
    BY <1>10, <2>1, RecvTakes DEF Recv, Taken
  <2>3. child = "listen" => out' = <<Ack>>
    BY <1>10, <2>2, Single DEF Recv, Write
  <2> QED
    BY <1>10, <2>2, <2>3 DEF Recv, Link, Quiet, InFlight, refVars
<1>11. CASE Prctl \/ CheckParent \/ Exec \/ Listen
  BY <1>1, <1>11 DEF Prctl, CheckParent, Exec, Listen, ChildGoes, Control
<1>12. CASE ServeBad
  <2>1. PICK p \in Sent(Cur) : nemu = "ack" /\ Asked /\ in = <<>> /\ out \in {<<p>>, <<Ack, p>>}
    BY <1>12, ServesAsked DEF ServeBad, Serving
  <2>2. out' = <<>> /\ in' = <<Nack>>
    BY <1>12, <2>1, AckFacts, Single, Pair, SMTT(20) DEF ServeBad
  <2>3. Asked'
    BY <1>12, <2>1, <2>2 DEF Asked, ServeBad, refVars
  <2> QED
    BY <1>12, <2>1, <2>3 DEF Asked, ServeBad, Serving, Link, procVars, refVars
<1>13. CASE ServeCommand
  <2>1. PICK p \in Sent(Cur) : nemu = "ack" /\ Asked /\ in = <<>> /\ out \in {<<p>>, <<Ack, p>>}
    BY <1>13, ServesAsked DEF ServeCommand, Serving
  <2>2. out' = <<>> /\ in' = <<Ack>> /\ busy' = p.body
    BY <1>13, <2>1, AckFacts, Single, Pair DEF ServeCommand
  <2>3. p.body = Cur /\ Cur' = Cur
    BY <1>13 DEF Sent, ServeCommand, callVars, Cur
  <2>4. Working(<<Ack>>)'
    BY <1>13, <2>1, <2>2, <2>3 DEF Asked, Working, ServeCommand
  <2> QED
    BY <1>13, <2>1, <2>4 DEF Asked, ServeCommand, Serving, Link, procVars
<1>14. CASE Perform
  <2>1. /\ nemu \in {"ack", "recv"} /\ out = <<>> /\ busy \in Commands
        /\ in = IF nemu = "ack" THEN <<Ack>> ELSE <<>>
    BY <1>14, PerformServes DEF Perform, Serving
  <2>2. PICK p \in Carried(ans') : in' = Append(in, p)
    BY <1>14 DEF Perform
  <2>3. p \in Sent(ans)'
    BY <2>2, CarriedFacts DEF Sent
  <2>4. nemu = "ack" => in' = <<Ack>> \o <<p>>
    BY <2>1, <2>2, Pair
  <2>5. nemu = "recv" => in' = <<>> \o <<p>>
    BY <2>1, <2>2, Single
  <2>6. IF nemu = "ack" THEN Answered(<<Ack>>)' ELSE Answered(<<>>)'
    BY <1>14, <2>1, <2>3, <2>4, <2>5 DEF Perform, Answered
  <2>7. ans' # None
    <3>1. PICK e \in Effect(busy, ref) : ans' = e[2]
      BY <1>14 DEF Perform
    <3>2. ans' \in Answers
      BY <2>1, <3>1, EffectTypes DEF Types
    <3> QED
      BY <3>2, NoneAssumption
  <2> QED
    BY <1>14, <2>1, <2>6, <2>7 DEF Perform, Serving, Link, procVars
<1>15. CASE ServeAck
  <2> USE AckFacts
  <2>1. /\ nemu # "dead" /\ child = "listen" /\ out # <<>> /\ ~ IsPacket(Head(out))
        /\ UNCHANGED <<nemu, child, todo, busy, ans, done>> /\ out' = Tail(out)
        /\ Head(out) = Nack /\ ans # None => \E p \in Carried(ans) : in' = Append(in, p)
        /\ ~ (Head(out) = Nack /\ ans # None) => in' = in
    BY <1>15 DEF ServeAck, Serving, procVars, callVars, refVars
  <2>2. Cur' = Cur /\ Sent(ans)' = Sent(ans) /\ Sent(Cur)' = Sent(Cur)
    BY <2>1 DEF Cur, Sent
  <2>3. CASE nemu \in {"idle", "next", "send"}
    <3>1. out' = <<>> /\ in' = in
      BY <2>1, <2>3, Single DEF Link, Quiet
    <3> QED
      BY <2>1, <2>3, <3>1 DEF Link, Quiet, InFlight
  <2>4. CASE nemu = "ack"
    <3>1. Asked
      BY <2>1, <2>4 DEF Link, Working, Answered
    <3>2. PICK p \in Sent(Cur) : in = <<>> /\ out \in {<<p>>, <<Ack, p>>}
      BY <2>1, <3>1 DEF Asked
    <3>3. out = <<Ack, p>>
      BY <2>1, <3>2, Single DEF Sent, IsPacket
    <3>4. out' = <<p>> /\ in' = <<>>
      BY <2>1, <3>2, <3>3, Pair
    <3>5. Asked'
      BY <2>1, <2>2, <3>1, <3>4 DEF Asked
    <3> QED
      BY <2>1, <2>4, <3>1, <3>5 DEF Asked, Link
  <2>5. CASE nemu = "recv"
    <3>1. AskedAgain /\ ans # None
      BY <2>1, <2>5 DEF Link, Working, Answered, AskedAgain, InFlight
    <3>2. PICK p \in Carried(ans) : in' = <<>> \o <<p>>
      BY <2>1, <3>1, Single DEF AskedAgain
    <3>3. out' = <<>>
      BY <2>1, <3>1, Single DEF AskedAgain
    <3>4. Answered(<<>>)'
      BY <2>1, <2>2, <3>1, <3>2, <3>3, CarriedFacts DEF AskedAgain, Answered
    <3> QED
      BY <2>1, <2>5, <3>1, <3>4 DEF Link
  <2> QED
    BY <1>1, <2>1, <2>3, <2>4, <2>5 DEF Types
<1>16. CASE ChildKilled
  <2>1. PICK k \in 0 .. Len(in) : in' = SubSeq(in, 1, k)
    BY <1>16 DEF ChildKilled
  <2>2. /\ UNCHANGED <<nemu, todo, ans, done>> /\ child' = "dead"
        /\ Sent(ans)' = Sent(ans)
    BY <1>16 DEF ChildKilled, callVars, refVars, Sent
  <2>3. in = <<>> => in' = <<>>
    BY <2>1, EmptySeq, SubSeqEmpty
  <2>4. \A x : in = <<x>> => in' \in {<<>>, <<x>>}
    BY <2>1, Single
  <2>5. \A x, y : in = <<x>> \o <<y>> => in' \in {<<>>, <<x>>, <<x>> \o <<y>>}
    <3>1. TAKE x, y
    <3>2. HAVE in = <<x>> \o <<y>>
    <3>3. in = <<x, y>> /\ <<x>> \o <<y>> = <<x, y>>
      BY <3>2, Pair
    <3>4. k \in 0 .. 2
      BY <2>1, <3>3, Pair
    <3>5. SubSeq(<<x, y>>, 1, k) \in {<<>>, <<x>>, <<x, y>>}
      BY <3>4, Pair
    <3> QED
      BY <2>1, <3>3, <3>5
  <2>6. CASE nemu \in {"idle", "next", "send"}
    BY <2>2, <2>3, <2>6 DEF Link, Quiet, InFlight
  <2>7. CASE nemu = "ack"
    <3>1. \/ in \in {<<>>, <<Ack>>, <<Nack>>}
          \/ done /\ \E p \in Sent(ans) : in = <<Ack>> \o <<p>>
      BY <2>7 DEF Link, Asked, Working, Answered, Left
    <3>2. \/ in' \in {<<>>, <<Ack>>, <<Nack>>}
          \/ done /\ \E p \in Sent(ans) : in' = <<Ack>> \o <<p>>
      BY <2>3, <2>4, <2>5, <3>1
    <3>3. in' = <<Nack>> \/ Left(<<Ack>>)'
      BY <2>2, <3>2 DEF Left
    <3> QED
      BY <2>2, <2>7, <3>3 DEF Link, InFlight
  <2>8. CASE nemu = "recv"
    <3>1. \/ in = <<>>
          \/ done /\ \E p \in Sent(ans) : in = <<>> \o <<p>>
      BY <2>8 DEF Link, Working, Answered, AskedAgain, Left
    <3>2. \/ in' = <<>>
          \/ done /\ \E p \in Sent(ans) : in' = <<>> \o <<p>>
      BY <2>3, <2>4, <3>1, Single
    <3>3. Left(<<>>)'
      BY <2>2, <3>2 DEF Left
    <3> QED
      BY <2>2, <2>8, <3>3 DEF Link, InFlight
  <2> QED
    BY <1>1, <2>2, <2>6, <2>7, <2>8 DEF Types
<1>17. CASE Call
  BY <1>17 DEF Call, Link, Quiet, InFlight, linkVars, refVars
<1>18. CASE UNCHANGED vars
  <2>1. UNCHANGED <<nemu, child, todo, out, in, busy, ans, done>>
    BY <1>18 DEF vars, procVars, callVars, linkVars, refVars
  <2> QED
    BY <2>1 DEF Link, Quiet, Asked, Working, Answered, AskedAgain, Left, InFlight, Sent, Cur
<1>19. CASE CopyFailed \/ SendFails \/ RecvFails \/ NemuEnds
  BY <1>19 DEF CopyFailed, SendFails, RecvFails, NemuEnds, Die
<1>20. CASE Fork
  BY <1>1, <1>20 DEF Fork
<1> QED
  BY <1>2, <1>3, <1>4, <1>5, <1>6, <1>7, <1>8, <1>9, <1>10, <1>11, <1>12, <1>13, <1>14,
     <1>15, <1>16, <1>17, <1>18, <1>19, <1>20 DEF Next, Nemu, Qemu

-----------------------------------------------------------------------------
(* ... and the progress of the image's copy.                               *)

(* The next bytes of a copy add to those that are there.                   *)
LEMMA CopiedMore ==
  ASSUME NEW mem, NEW o \in Nat, NEW n \in Nat, NEW c,
         c.buf = "img", c.at = 1 + o, c.off = o, c.len = n,
         ImageIn(mem) = FirstBytes(o)
  PROVE  ImageIn(mem \cup Bytes(c)) = FirstBytes(o + n)
<1> DEFINE A(k) == {<<"img", 1 + i, i>> : i \in 0 .. k - 1}
           more == {<<"img", (1 + o) + i, o + i>> : i \in 0 .. n - 1}
<1>0. Bytes(c) = more /\ FirstBytes(o) = A(o) /\ FirstBytes(o + n) = A(o + n)
  BY DEF Bytes, FirstBytes
<1>1. \A t \in more : t[1] = "img"
  OBVIOUS
<1>2. ImageIn(mem \cup more) = A(o) \cup more
  <2>1. ImageIn(mem \cup more) = ImageIn(mem) \cup more
    BY <1>1 DEF ImageIn
  <2> QED
    BY <1>0, <2>1
<1>3. ASSUME NEW t \in A(o) \cup more  PROVE t \in A(o + n)
  <2>1. CASE t \in A(o)
    <3>1. PICK i \in 0 .. o - 1 : t = <<"img", 1 + i, i>>
      BY <2>1
    <3>2. i \in 0 .. (o + n) - 1
      OBVIOUS
    <3> QED
      BY <3>1, <3>2
  <2>2. CASE t \in more
    <3>1. PICK i \in 0 .. n - 1 : t = <<"img", (1 + o) + i, o + i>>
      BY <2>2
    <3>2. o + i \in 0 .. (o + n) - 1 /\ (1 + o) + i = 1 + (o + i)
      OBVIOUS
    <3> QED
      BY <3>1, <3>2
  <2> QED
    BY <1>3, <2>1, <2>2
<1>4. ASSUME NEW t \in A(o + n)  PROVE t \in A(o) \cup more
  <2>1. PICK j \in 0 .. (o + n) - 1 : t = <<"img", 1 + j, j>>
    OBVIOUS
  <2>2. CASE j < o
    <3>1. j \in 0 .. o - 1
      BY <2>2
    <3> QED
      BY <2>1, <3>1
  <2>3. CASE ~ (j < o)
    <3>1. j - o \in 0 .. n - 1 /\ (1 + o) + (j - o) = 1 + j /\ o + (j - o) = j
      BY <2>3
    <3>2. <<"img", (1 + o) + (j - o), o + (j - o)>> \in more
      BY <3>1
    <3> QED
      BY <2>1, <3>1, <3>2
  <2> QED
    BY <2>2, <2>3
<1>5. A(o) \cup more = A(o + n)
  BY <1>3, <1>4
<1> HIDE DEF A, more
<1> QED
  BY <1>0, <1>2, <1>5

(* Performing anything else leaves the image's bytes alone.                *)
LEMMA OthersLeaveImage ==
  ASSUME Types, NEW c \in Commands, ~ OfImage(c), NEW e \in Effect(c, ref)
  PROVE  ImageIn(e[1].mem) = ImageIn(ref.mem)
<1>1. CASE e[1].mem = ref.mem
  BY <1>1
<1>2. CASE c.op = "M" /\ e[1].mem = ref.mem \cup Bytes(c)
  <2>1. c.buf # "img"
    BY <1>2 DEF OfImage
  <2>2. \A t \in Bytes(c) : t[1] = c.buf
    BY DEF Bytes
  <2> QED
    BY <1>2, <2>1, <2>2 DEF ImageIn
<1> QED
  <2>1. /\ c.op # "M" => e[1].mem = ref.mem
        /\ c.op = "M" => \/ e[1].mem = ref.mem /\ e[2].is = "E"
                         \/ e[1].mem = ref.mem \cup Bytes(c)
    BY EffectMem DEF Types
  <2> QED
    BY <1>1, <1>2, <2>1

LEMMA ChunkOfImage ==
  ASSUME NEW c \in Commands
  PROVE  OfImage(Chunk(c)) <=> OfImage(c)
<1>1. CASE c.op = "M"
  <2>1. c \in [op : {"M"}, buf : {"mbr", "img"}, at : Nat, off : Nat, len : Nat]
    BY <1>1 DEF Commands, ReadRegs, Step, WriteRegs
  <2> QED
    BY <2>1 DEF Chunk, OfImage
<1>2. CASE c.op # "M"
  BY <1>2, ChunkCommand
<1> QED
  BY <1>1, <1>2

LEMMA PerformImage ==
  ASSUME Types, Control, Link, Image, nemu # "dead", Perform
  PROVE  Image'
<1>1. /\ busy = Cur /\ busy \in Commands /\ ~ done /\ InFlight /\ todo # <<>>
      /\ nemu \notin {"fork", "connect"}
  BY PerformServes DEF Perform, Serving
<1>2. PICK e \in Effect(Cur, ref) : ref' = e[1] /\ ans' = e[2]
  BY <1>1 DEF Perform
<1>3. UNCHANGED <<nemu, todo, ok, img>> /\ done' /\ InFlight' /\ Cur' = Cur
  BY <1>1 DEF Perform, procVars, callVars, InFlight, Cur
<1>4. Head(todo) = todo[1] /\ Head(todo) \in Commands /\ Len(todo) \in Nat \ {0}
  BY <1>1, TailOf DEF Types
<1>5. ~ OfImage(todo[1]) => \A k : Copied(k) => Copied(k)'
  BY <1>1, <1>2, <1>4, OthersLeaveImage, ChunkOfImage DEF Cur, Copied
<1>6. CASE CopyAhead
  <2>1. ~ OfImage(todo[1])
    BY <1>4, <1>6 DEF CopyAhead
  <2> QED
    BY <1>3, <1>5, <1>6, <2>1 DEF Image, CopyAhead, From
<1>7. CASE CopyOver
  <2>1. ~ OfImage(todo[1])
    BY <1>4, <1>7 DEF CopyOver
  <2> QED
    BY <1>3, <1>5, <1>7, <2>1 DEF Image, CopyOver
<1>8. CASE CopyUnderWay
  <2>1. PICK o \in 0 .. img : todo[1] = From(o) /\ (ok => Copied(o))
    BY <1>1, <1>8 DEF CopyUnderWay
  <2>2. o \in Nat /\ img - o \in Nat
    BY DEF Types
  <2>3. /\ Cur.op = "M" /\ Cur.buf = "img" /\ Cur.at = 1 + o /\ Cur.off = o
        /\ Cur.len \in Nat
    BY <1>4, <2>1, <2>2, LinkAssumption DEF From, Cur, Chunk
  <2>5. ASSUME ok, ans'.is = "OK"  PROVE Copied(o + Cur.len)'
    <3>1. ref'.mem = ref.mem \cup Bytes(Cur)
      <4>1. \/ e[1].mem = ref.mem /\ e[2].is = "E"
            \/ e[1].mem = ref.mem \cup Bytes(Cur)
        BY <1>1, <2>3, EffectMem DEF Types
      <4> QED
        BY <1>2, <2>5, <4>1
    <3>2. ImageIn(ref.mem) = FirstBytes(o)
      BY <2>1, <2>5 DEF Copied
    <3>3. ImageIn(ref.mem \cup Bytes(Cur)) = FirstBytes(o + Cur.len)
      BY <2>2, <2>3, <3>2, CopiedMore
    <3> QED
      BY <1>3, <3>1, <3>3 DEF Copied
  <2>6. CopyUnderWay'
    BY <1>3, <1>8, <2>1, <2>5 DEF CopyUnderWay, From
  <2> QED
    BY <2>6 DEF Image
<1> QED
  BY <1>1, <1>6, <1>7, <1>8 DEF Image

(* gdb_recv returns the answer to a packet, and the copy goes on behind it,*)
(* or is over.                                                             *)
LEMMA RecvImage ==
  ASSUME Types, Control, Link, Image, Recv
  PROVE  Image'
<1>1. /\ nemu = "recv" /\ InFlight /\ todo # <<>> /\ nemu' = "next"
      /\ UNCHANGED <<img, ref>> /\ ~ InFlight'
  BY DEF Recv, Control, InFlight, refVars
<1>2. done /\ got' = ans
  BY <1>1, RecvTakes DEF Recv
<1>3. /\ Head(todo) = todo[1] /\ todo[1] \in Commands /\ Len(todo) \in Nat \ {0}
      /\ Tail(todo) \in Seq(Commands) /\ Len(Tail(todo)) = Len(todo) - 1
      /\ \A i \in 1 .. Len(todo) - 1 : Tail(todo)[i] = todo[i + 1]
      /\ <<>> \o Tail(todo) = Tail(todo)
  BY <1>1, TailOf DEF Types
<1>4. \/ Rest(todo[1]) = <<>> /\ todo' = Tail(todo)
      \/ \E r \in Commands :
           /\ todo[1].op = "M" /\ todo[1].len > MTU /\ Chunk(todo[1]) = [todo[1] EXCEPT !.len = MTU]
           /\ r = [op |-> "M", buf |-> todo[1].buf, at |-> todo[1].at + MTU,
                 off |-> todo[1].off + MTU, len |-> todo[1].len - MTU]
           /\ todo' \in Seq(Commands) /\ Len(todo') = Len(todo) /\ todo'[1] = r
           /\ \A i \in 2 .. Len(todo) : todo'[i] = todo[i]
  <2>1. todo' = Rest(todo[1]) \o Tail(todo)
    BY <1>3 DEF Recv
  <2>2. CASE Rest(todo[1]) = <<>>
    BY <1>3, <2>1, <2>2
  <2>3. CASE Rest(todo[1]) # <<>>
    <3>1. todo[1].op = "M"
      BY <1>3, <2>3, ChunkCommand
    <3>2. PICK r \in Commands :
            /\ r = [op |-> "M", buf |-> todo[1].buf, at |-> todo[1].at + MTU,
                  off |-> todo[1].off + MTU, len |-> todo[1].len - MTU]
            /\ todo[1].len > MTU /\ Rest(todo[1]) = <<r>> /\ Chunk(todo[1]) = [todo[1] EXCEPT !.len = MTU]
      BY <1>3, <2>3, <3>1, RestCommand
    <3>3. /\ todo' \in Seq(Commands) /\ Len(todo') = Len(todo) /\ todo'[1] = r
          /\ \A i \in 2 .. Len(todo) : todo'[i] = todo[i]
      BY <1>1, <2>1, <3>2, OtherHead DEF Types
    <3> QED
      BY <3>1, <3>2, <3>3
  <2> QED
    BY <2>2, <2>3
<1>5. \A k : Copied(k)' <=> Copied(k)
  BY <1>1 DEF Copied
<1>6. ok' => ok
  BY DEF Recv
<1>7. CASE Rest(todo[1]) = <<>> /\ todo' = Tail(todo)
  <2>1. \A i \in 1 .. Len(todo') : todo'[i] = todo[i + 1] /\ i + 1 \in 2 .. Len(todo)
    BY <1>3, <1>7
  <2>2. CASE CopyAhead
    <3>1. PICK p \in 2 .. Len(todo) :
            todo[p] = From(0) /\ \A q \in 1 .. Len(todo) : q # p => ~ OfImage(todo[q])
      BY <2>2 DEF CopyAhead
    <3>2. /\ p - 1 \in 1 .. Len(todo') /\ todo'[p - 1] = From(0)'
          /\ \A q \in 1 .. Len(todo') : q # p - 1 => ~ OfImage(todo'[q])
      <4>1. p - 1 \in 1 .. Len(todo') /\ (p - 1) + 1 = p
        BY <1>3, <1>7
      <4>2. \A q \in 1 .. Len(todo') : q # p - 1 => q + 1 # p /\ q + 1 \in 1 .. Len(todo)
        BY <1>3, <1>7
      <4> QED
        BY <1>1, <2>1, <3>1, <4>1, <4>2 DEF From
    <3>3. CASE p = 2
      <4>1. CopyUnderWay'
        <5>1. todo' # <<>> /\ 0 \in 0 .. img
          BY <1>3, <1>7, <3>2, EmptySeq DEF Types
        <5>2. \A q \in 2 .. Len(todo') : q \in 1 .. Len(todo') /\ q # p - 1
          BY <1>3, <1>7, <3>3
        <5>3. Copied(0)'
          BY <1>5, <2>2 DEF CopyAhead
        <5> QED
          BY <1>1, <3>2, <3>3, <5>1, <5>2, <5>3 DEF CopyUnderWay, From
      <4> QED
        BY <4>1 DEF Image
    <3>4. CASE p # 2
      <4>1. p - 1 \in 2 .. Len(todo')
        BY <1>3, <1>7, <3>4
      <4>2. CopyAhead'
        BY <1>5, <2>2, <3>2, <4>1 DEF CopyAhead
      <4> QED
        BY <4>2 DEF Image
    <3> QED
      BY <3>3, <3>4
  <2>3. CASE CopyUnderWay
    <3>1. PICK o \in 0 .. img :
            todo[1] = From(o) /\ (ok /\ ans.is = "OK" => Copied(o + Cur.len))
      BY <1>1, <1>2, <2>3 DEF CopyUnderWay
    <3>2. /\ todo[1].op = "M" /\ todo[1].len = img - o /\ o + (img - o) = img
      BY <3>1 DEF From, Types
    <3>3. Cur = todo[1]
      <4>1. ~ (todo[1].len > MTU)
        BY <1>7, <3>2, Single DEF Rest
      <4> QED
        BY <1>3, <4>1 DEF Cur, Chunk
    <3>4. ok' => Copied(img)
      BY <1>2, <3>1, <3>2, <3>3 DEF Recv
    <3>5. CopyOver'
      BY <1>1, <1>5, <2>1, <2>3, <3>4 DEF CopyUnderWay, CopyOver
    <3> QED
      BY <3>5 DEF Image
  <2>4. CASE CopyOver
    <3>1. \A i \in 1 .. Len(todo') : i + 1 \in 1 .. Len(todo)
      BY <1>3, <1>7
    <3>2. CopyOver'
      BY <1>1, <1>5, <1>6, <2>1, <2>4, <3>1 DEF CopyOver
    <3> QED
      BY <3>2 DEF Image
  <2> QED
    BY <1>1, <2>2, <2>3, <2>4 DEF Image
<1>8. ASSUME NEW r \in Commands,
             todo[1].op = "M", todo[1].len > MTU, Chunk(todo[1]) = [todo[1] EXCEPT !.len = MTU],
             r = [op |-> "M", buf |-> todo[1].buf, at |-> todo[1].at + MTU,
                off |-> todo[1].off + MTU, len |-> todo[1].len - MTU],
             todo' \in Seq(Commands), Len(todo') = Len(todo), todo'[1] = r,
             \A i \in 2 .. Len(todo) : todo'[i] = todo[i]
      PROVE  Image'
  <2>0. todo[1] \in [op : {"M"}, buf : {"mbr", "img"}, at : Nat, off : Nat, len : Nat]
    BY <1>3, <1>8 DEF Commands, ReadRegs, Step, WriteRegs
  <2>1. ~ OfImage(todo[1]) => ~ OfImage(todo'[1])
    BY <1>8, <2>0 DEF OfImage
  <2>2. ~ OfImage(todo[1]) => \A q \in 1 .. Len(todo') : ~ OfImage(todo[q]) => ~ OfImage(todo'[q])
    BY <1>3, <1>8, <2>1
  <2>3. CASE CopyAhead
    <3>1. PICK p \in 2 .. Len(todo) :
            todo[p] = From(0) /\ \A q \in 1 .. Len(todo) : q # p => ~ OfImage(todo[q])
      BY <2>3 DEF CopyAhead
    <3>2. todo'[p] = From(0)'
      BY <1>1, <1>8, <3>1 DEF From
    <3>3. ~ OfImage(todo[1])
      BY <1>3, <3>1
    <3>4. CopyAhead'
      BY <1>5, <1>8, <2>2, <2>3, <3>1, <3>2, <3>3 DEF CopyAhead
    <3> QED
      BY <3>4 DEF Image
  <2>4. CASE CopyUnderWay
    <3>1. PICK o \in 0 .. img :
            todo[1] = From(o) /\ (ok /\ ans.is = "OK" => Copied(o + Cur.len))
      BY <1>1, <1>2, <2>4 DEF CopyUnderWay
    <3>2. todo[1].len = img - o /\ todo[1].at = 1 + o /\ todo[1].off = o
      BY <3>1 DEF From
    <3>3. Cur.len = MTU /\ Cur.op = "M"
      BY <1>3, <1>8, <2>0 DEF Cur
    <3>4. o + MTU \in 0 .. img /\ 1 + (o + MTU) = (1 + o) + MTU /\ img - (o + MTU) = (img - o) - MTU
      BY <1>8, <3>2, LinkAssumption DEF Types
    <3>5. r = From(o + MTU)
      <4>1. r = [op |-> "M", buf |-> "img", at |-> (1 + o) + MTU, off |-> o + MTU,
                 len |-> (img - o) - MTU]
        BY <1>8, <3>1, <3>2 DEF From
      <4> QED
        BY <3>4, <4>1 DEF From
    <3>6. ok' => Copied(o + MTU)
      BY <1>2, <3>1, <3>3 DEF Recv
    <3>7. CopyUnderWay'
      <4>1. todo' # <<>>
        BY <1>3, <1>8, EmptySeq
      <4> QED
        BY <1>1, <1>5, <1>8, <2>4, <3>4, <3>5, <3>6, <4>1 DEF CopyUnderWay, From
    <3> QED
      BY <3>7 DEF Image
  <2>5. CASE CopyOver
    <3>1. ~ OfImage(todo[1])
      BY <1>3, <2>5 DEF CopyOver
    <3>2. CopyOver'
      BY <1>1, <1>5, <1>6, <1>8, <2>2, <2>5, <3>1 DEF CopyOver
    <3> QED
      BY <3>2 DEF Image
  <2> QED
    BY <1>1, <2>3, <2>4, <2>5 DEF Image
<1> QED
  BY <1>4, <1>7, <1>8

LEMMA ImageStep ==
  ASSUME Types, nemu # "dead", Control, Link, Image, [Next]_vars, nemu' # "dead"
  PROVE  Image'
<1>1. CASE Die
  BY <1>1 DEF Die
<1>2. CASE Connect
  <2>1. /\ nemu' = "next" /\ ~ InFlight' /\ UNCHANGED <<img, ref>> /\ ref.mem = {} /\ img \in Nat
    BY <1>2 DEF Connect, Control, InFlight, refVars, Types
  <2>2. Copied(0)'
    BY <2>1 DEF Copied, ImageIn, FirstBytes
  <2>3. PICK n \in Nat, regs \in RegFile :
          /\ Len(todo') = n + 3
          /\ \A i \in 1 .. n : ~ OfImage(todo'[i]) /\ ~ ByDut(todo'[i])
          /\ todo'[n + 1] = From(0)
          /\ todo'[n + 2] = ReadRegs /\ todo'[n + 3] = WriteRegs("dut", regs)
    BY <1>2, ConnectGives
  <2>4. \A q \in 1 .. Len(todo') : q # n + 1 => ~ OfImage(todo'[q])
    <3>1. ~ OfImage(todo'[n + 2]) /\ ~ OfImage(todo'[n + 3])
      BY <2>3 DEF OfImage, ReadRegs, WriteRegs
    <3>2. \A q \in 1 .. n + 3 : q \in 1 .. n \/ q = n + 1 \/ q = n + 2 \/ q = n + 3
      OBVIOUS
    <3> QED
      BY <2>3, <3>1, <3>2
  <2>5. todo'[n + 1] = From(0)'
    BY <2>1, <2>3 DEF From
  <2>6. CASE n = 0
    <3>1. todo' # <<>> /\ 0 \in 0 .. img /\ todo'[1] = From(0)'
      BY <2>1, <2>3, <2>5, <2>6, EmptySeq
    <3>2. \A q \in 2 .. Len(todo') : q # n + 1 /\ q \in 1 .. Len(todo')
      BY <2>3, <2>6
    <3>3. CopyUnderWay'
      BY <2>1, <2>2, <2>4, <3>1, <3>2 DEF CopyUnderWay
    <3> QED
      BY <3>3 DEF Image
  <2>7. CASE n # 0
    <3>1. n + 1 \in 2 .. Len(todo')
      BY <2>3, <2>7
    <3>2. CopyAhead'
      BY <2>2, <2>4, <2>5, <3>1 DEF CopyAhead
    <3> QED
      BY <3>2 DEF Image
  <2> QED
    BY <2>6, <2>7
<1>3. CASE Begin
  <2>1. /\ nemu = "next" /\ nemu' = "send" /\ todo # <<>> /\ ~ InFlight /\ ~ done' /\ InFlight'
        /\ UNCHANGED <<ok, img, ref>>
    BY <1>3 DEF Begin, InFlight, refVars
  <2>2. Head(todo) = todo[1] /\ todo[1] \in Commands /\ Len(todo) \in Nat \ {0}
    BY <2>1, TailOf DEF Types
  <2>3. /\ Filled(todo[1]) \in Commands
        /\ ~ ByDut(todo[1]) => Filled(todo[1]) = todo[1]
        /\ ByDut(todo[1]) => ByDut(Filled(todo[1]))
    BY <2>2, FilledCommand DEF Types
  <2>4. /\ Len(todo') = Len(todo) /\ todo' # <<>> /\ todo'[1] = Filled(todo[1])
        /\ \A i \in 2 .. Len(todo) : todo'[i] = todo[i]
    BY <1>3, <2>1, <2>2, <2>3, OtherHead DEF Begin, Types
  <2>5. /\ OfImage(todo[1]) => todo'[1] = todo[1]
        /\ ~ OfImage(todo[1]) => ~ OfImage(todo'[1])
    BY <2>3, <2>4 DEF OfImage, ByDut
  <2>6. \A q \in 1 .. Len(todo') : ~ OfImage(todo[q]) => ~ OfImage(todo'[q])
    BY <2>2, <2>4, <2>5
  <2>7. \A k : (Copied(k)' <=> Copied(k)) /\ From(k)' = From(k)
    BY <2>1 DEF Copied, From
  <2>8. CopyAhead => CopyAhead'
    BY <2>4, <2>6, <2>7 DEF CopyAhead
  <2>9. CopyUnderWay => CopyUnderWay'
    <3>1. \A o : OfImage(From(o))
      BY DEF OfImage, From
    <3>2. SUFFICES ASSUME CopyUnderWay PROVE CopyUnderWay'
      OBVIOUS
    <3>3. PICK o \in 0 .. img : todo[1] = From(o) /\ (ok => Copied(o))
      BY <2>1, <3>2 DEF CopyUnderWay
    <3>4. todo'[1] = From(o)' /\ (ok' => Copied(o)')
      BY <2>1, <2>5, <2>7, <3>1, <3>3
    <3> QED
      BY <2>1, <2>4, <3>2, <3>4 DEF CopyUnderWay
  <2>10. CopyOver => CopyOver'
    BY <2>1, <2>4, <2>6, <2>7 DEF CopyOver
  <2> QED
    BY <2>1, <2>8, <2>9, <2>10 DEF Image
<1>4. CASE Return
  <2>1. /\ nemu = "next" /\ todo = <<>> /\ UNCHANGED <<todo, ok, img, ref>>
    BY <1>4 DEF Return, callVars, refVars
  <2>2. CopyOver
    <3>1. Len(todo) = 0
      BY <2>1, EmptySeq
    <3> QED
      BY <2>1, <3>1 DEF Image, CopyAhead, CopyUnderWay
  <2>3. CopyOver'
    BY <2>1, <2>2 DEF CopyOver, Copied
  <2> QED
    BY <2>3 DEF Image
<1>5. CASE Call
  <2>1. nemu = "idle" /\ todo = <<>> /\ UNCHANGED <<ok, img, ref>>
    BY <1>5 DEF Call, Control, refVars
  <2>2. CopyOver
    <3>1. Len(todo) = 0
      BY <2>1, EmptySeq
    <3> QED
      BY <2>1, <3>1 DEF Image, CopyAhead, CopyUnderWay
  <2>3. \A q \in 1 .. Len(todo') : ~ OfImage(todo'[q])
    <3>1. \A regs : ~ OfImage(Step) /\ ~ OfImage(ReadRegs) /\ ~ OfImage(WriteRegs("dut", regs))
      BY DEF OfImage, Step, ReadRegs, WriteRegs
    <3>2. \A q : (q \in 1 .. 1 => q = 1) /\ (q \in 1 .. 2 => q = 1 \/ q = 2)
      OBVIOUS
    <3> QED
      BY <1>5, <3>1, <3>2, CallGives
  <2>4. CopyOver'
    BY <2>1, <2>2, <2>3 DEF CopyOver, Copied
  <2> QED
    BY <2>4 DEF Image
<1>6. CASE Recv
  BY <1>6, RecvImage
<1>7. CASE Perform
  BY <1>7, PerformImage
<1>8. CASE Kept
  <2>1. /\ UNCHANGED <<todo, ok, img, ref, done, ans>> /\ (InFlight' <=> InFlight)
        /\ nemu' \in {"fork", "connect"} <=> nemu \in {"fork", "connect"}
    BY <1>8 DEF Kept
  <2>2. \A k : (Copied(k)' <=> Copied(k)) /\ From(k)' = From(k) /\ Cur' = Cur
    BY <2>1 DEF Copied, From, Cur
  <2>3. CopyAhead => CopyAhead'
    BY <2>1, <2>2 DEF CopyAhead
  <2>4. CopyUnderWay => CopyUnderWay'
    BY <2>1, <2>2 DEF CopyUnderWay
  <2>5. CopyOver => CopyOver'
    BY <2>1, <2>2 DEF CopyOver
  <2> QED
    BY <2>1, <2>3, <2>4, <2>5 DEF Image
<1> QED
  BY <1>1, <1>2, <1>3, <1>4, <1>5, <1>6, <1>7, <1>8, Steps


-----------------------------------------------------------------------------
(* ... and what is known of the registers.                                 *)
LEMMA RegistersStep ==
  ASSUME Types, nemu # "dead", Control, Link, Registers, [Next]_vars, nemu' # "dead"
  PROVE  Registers'
<1>1. CASE Die
  BY <1>1 DEF Die
<1>2. CASE Connect
  <2>1. nemu' = "next" /\ ~ InFlight'
    BY <1>2 DEF Connect, InFlight
  <2>2. PICK n \in Nat, regs \in RegFile :
          /\ Len(todo') = n + 3
          /\ \A i \in 1 .. n : ~ OfImage(todo'[i]) /\ ~ ByDut(todo'[i])
          /\ todo'[n + 1] = From(0)
          /\ todo'[n + 2] = ReadRegs /\ todo'[n + 3] = WriteRegs("dut", regs)
    BY <1>2, ConnectGives
  <2>3. ~ ByDut(From(0)) /\ ~ ByDut(ReadRegs)
    BY DEF ByDut, From, ReadRegs
  <2>4. \A q \in 1 .. Len(todo') : ByDut(todo'[q]) => q = n + 3
    <3>1. \A q \in 1 .. n + 3 : q \in 1 .. n \/ q = n + 1 \/ q = n + 2 \/ q = n + 3
      OBVIOUS
    <3> QED
      BY <2>2, <2>3, <3>1
  <2>5. (n + 3) - 1 = n + 2 /\ 1 # n + 3 /\ 1 \in 1 .. Len(todo')
    BY <2>2
  <2>6. \A q \in 2 .. Len(todo') : q \in 1 .. Len(todo')
    OBVIOUS
  <2> QED
    BY <2>1, <2>2, <2>4, <2>5, <2>6 DEF Registers
<1>3. CASE Begin
  <2>1. /\ nemu = "next" /\ nemu' = "send" /\ todo # <<>> /\ ~ done' /\ UNCHANGED ref
    BY <1>3 DEF Begin, InFlight, refVars
  <2>2. Head(todo) = todo[1] /\ todo[1] \in Commands /\ Len(todo) \in Nat \ {0}
    BY <2>1, TailOf DEF Types
  <2>3. /\ Filled(todo[1]) \in Commands
        /\ ~ ByDut(todo[1]) => Filled(todo[1]) = todo[1]
        /\ ByDut(todo[1]) => ByDut(Filled(todo[1]))
        /\ ByDut(todo[1]) /\ got # None /\ got.is = "regs" => Filled(todo[1]).regs.rest = got.regs.rest
    BY <2>2, FilledCommand DEF Types
  <2>4. /\ Len(todo') = Len(todo) /\ todo' # <<>> /\ todo'[1] = Filled(todo[1])
        /\ \A i \in 2 .. Len(todo) : todo'[i] = todo[i]
    BY <1>3, <2>1, <2>2, <2>3, OtherHead DEF Begin, Types
  <2>5. ASSUME NEW q \in 2 .. Len(todo'), ByDut(todo'[q])
        PROVE  todo'[q - 1] = ReadRegs
    <3>1. todo[q - 1] = ReadRegs
      BY <2>4, <2>5 DEF Registers
    <3>2. CASE q = 2
      <4>1. ~ ByDut(todo[1])
        BY <3>1, <3>2 DEF ByDut, ReadRegs
      <4> QED
        BY <2>3, <2>4, <3>1, <3>2, <4>1
    <3>3. CASE q # 2
      <4>1. q - 1 \in 2 .. Len(todo)
        BY <2>4, <3>3
      <4> QED
        BY <2>4, <3>1, <4>1
    <3> QED
      BY <3>2, <3>3
  <2>6. ByDut(todo'[1]) => todo'[1].regs.rest = ref'.regs.rest
    BY <2>1, <2>3, <2>4 DEF Registers
  <2> QED
    BY <2>1, <2>5, <2>6 DEF Registers
<1>4. CASE Return
  <2>1. todo' = <<>> /\ nemu' = "idle" /\ Len(todo') = 0
    BY <1>4, EmptySeq DEF Return, callVars
  <2> QED
    BY <2>1 DEF Registers, InFlight
<1>5. CASE Call
  <2>1. nemu' = "next" /\ ~ InFlight'
    BY <1>5 DEF Call, InFlight
  <2>2. ~ ByDut(Step) /\ ~ ByDut(ReadRegs)
    BY DEF ByDut, Step, ReadRegs
  <2>3. \A q : q \in 2 .. 1 => FALSE
    OBVIOUS
  <2>4. \A q : q \in 2 .. 2 => q = 2 /\ q - 1 = 1
    OBVIOUS
  <2>5. ~ ByDut(todo'[1])
    BY <1>5, <2>2, CallGives
  <2>6. \A q \in 2 .. Len(todo') : todo'[q - 1] = ReadRegs
    BY <1>5, <2>3, <2>4, CallGives
  <2> QED
    BY <2>1, <2>5, <2>6 DEF Registers
<1>6. CASE Recv
  <2>1. /\ nemu = "recv" /\ InFlight /\ todo # <<>> /\ nemu' = "next" /\ ~ InFlight'
        /\ UNCHANGED ref
    BY <1>6 DEF Recv, Control, InFlight, refVars
  <2>2. done /\ got' = ans
    BY <1>6, <2>1, RecvTakes DEF Recv
  <2>3. /\ Head(todo) = todo[1] /\ todo[1] \in Commands /\ Len(todo) \in Nat \ {0}
        /\ Len(Tail(todo)) = Len(todo) - 1
        /\ \A i \in 1 .. Len(todo) - 1 : Tail(todo)[i] = todo[i + 1]
        /\ <<>> \o Tail(todo) = Tail(todo)
    BY <2>1, TailOf DEF Types
  <2>4. todo' = Rest(todo[1]) \o Tail(todo)
    BY <1>6, <2>3 DEF Recv
  <2>5. CASE Rest(todo[1]) = <<>>
    <3>1. /\ Len(todo') = Len(todo) - 1
          /\ \A i \in 1 .. Len(todo) - 1 : todo'[i] = todo[i + 1]
      BY <2>3, <2>4, <2>5
    <3>2. ASSUME NEW q \in 2 .. Len(todo'), ByDut(todo'[q])
          PROVE  todo'[q - 1] = ReadRegs
      <4>1. /\ q + 1 \in 2 .. Len(todo) /\ (q + 1) - 1 = q /\ (q - 1) + 1 = q
            /\ q \in 1 .. Len(todo) - 1 /\ q - 1 \in 1 .. Len(todo) - 1
        BY <2>3, <3>1
      <4> QED
        BY <3>1, <3>2, <4>1 DEF Registers
    <3>3. ASSUME todo' # <<>>, ByDut(todo'[1])
          PROVE  got' # None /\ got'.is = "regs" /\ got'.regs.rest = ref'.regs.rest
      <4>1. 1 \in 1 .. Len(todo) - 1
        <5>1. Len(todo') \in Nat \ {0}
          <6>1. todo' \in Seq(Commands)
            BY <2>3, <2>4, <2>5, <2>1, RestLeaves
          <6> QED
            BY <3>3, <6>1, EmptySeq
        <5> QED
          BY <2>3, <3>1, <5>1
      <4>2. 2 \in 2 .. Len(todo) /\ 2 - 1 = 1 /\ todo'[1] = todo[2]
        BY <2>3, <3>1, <4>1
      <4>3. todo[1] = ReadRegs
        BY <3>3, <4>2 DEF Registers
      <4>4. ans = [is |-> "regs", regs |-> ref.regs] /\ ans # None
        BY <2>1, <2>2, <4>3 DEF Registers, Link
      <4> QED
        BY <2>1, <2>2, <4>4
    <3> QED
      BY <2>1, <3>2, <3>3 DEF Registers
  <2>6. CASE Rest(todo[1]) # <<>>
    <3>1. todo[1].op = "M"
      BY <2>3, <2>6, ChunkCommand
    <3>2. PICK r \in Commands :
            /\ r = [op |-> "M", buf |-> todo[1].buf, at |-> todo[1].at + MTU,
                  off |-> todo[1].off + MTU, len |-> todo[1].len - MTU]
            /\ Rest(todo[1]) = <<r>>
      BY <2>3, <2>6, <3>1, RestCommand
    <3>3. todo[1] \in [op : {"M"}, buf : {"mbr", "img"}, at : Nat, off : Nat, len : Nat]
      BY <2>3, <3>1 DEF Commands, ReadRegs, Step, WriteRegs
    <3>4. /\ Len(todo') = Len(todo) /\ todo'[1] = r
          /\ \A i \in 2 .. Len(todo) : todo'[i] = todo[i]
      BY <2>1, <2>4, <3>2, OtherHead DEF Types
    <3>5. ~ ByDut(todo'[1])
      BY <3>2, <3>3, <3>4 DEF ByDut
    <3>6. ASSUME NEW q \in 2 .. Len(todo'), ByDut(todo'[q])
          PROVE  todo'[q - 1] = ReadRegs
      <4>1. todo[q - 1] = ReadRegs
        BY <3>4, <3>6 DEF Registers
      <4>2. q # 2
        <5>1. ReadRegs.op # "M"
          BY DEF ReadRegs
        <5> QED
          BY <3>1, <4>1, <5>1
      <4>3. q - 1 \in 2 .. Len(todo)
        BY <3>4, <4>2
      <4> QED
        BY <3>4, <4>1, <4>3
    <3> QED
      BY <2>1, <3>5, <3>6 DEF Registers
  <2> QED
    BY <2>5, <2>6
<1>7. CASE Perform
  <2>1. /\ busy = Cur /\ busy \in Commands /\ ~ done /\ InFlight /\ todo # <<>>
        /\ nemu # "next"
    BY <1>7, PerformServes DEF Perform, Serving
  <2>2. PICK e \in Effect(Cur, ref) : ref' = e[1] /\ ans' = e[2]
    BY <1>7, <2>1 DEF Perform
  <2>3. UNCHANGED <<nemu, todo>> /\ done' /\ InFlight'
    BY <1>7, <2>1 DEF Perform, procVars, callVars, InFlight
  <2>4. todo[1] = ReadRegs => ans' = [is |-> "regs", regs |-> ref'.regs]
    <3>1. SUFFICES ASSUME todo[1] = ReadRegs PROVE ans' = [is |-> "regs", regs |-> ref'.regs]
      OBVIOUS
    <3>2. Cur.op = "g"
      BY <2>1, <3>1, TailOf DEF Types, Cur, Chunk, ReadRegs
    <3> QED
      <4>1. e[1] = ref /\ e[2] = [is |-> "regs", regs |-> ref.regs]
        BY <2>1, <3>2, EffectRegs DEF Types
      <4> QED
        BY <2>2, <4>1
  <2> QED
    BY <2>1, <2>3, <2>4 DEF Registers
<1>8. CASE Kept
  <2>1. /\ UNCHANGED <<todo, got, ref, done, ans>> /\ (InFlight' <=> InFlight)
        /\ ((nemu' = "next") <=> (nemu = "next"))
    BY <1>8 DEF Kept
  <2> QED
    BY <2>1 DEF Registers
<1> QED
  BY <1>1, <1>2, <1>3, <1>4, <1>5, <1>6, <1>7, <1>8, Steps

-----------------------------------------------------------------------------
LEMMA DeadForEver ==
  ASSUME [Next]_vars, nemu = "dead"
  PROVE  nemu' = "dead"
<1>1. CASE Nemu
  BY <1>1 DEF Nemu, Fork, Connect, CopyFailed, Begin, Return, Send, SendLost, SendFails,
              ReadAck, ReadAckEof, RecvBad, Recv, RecvFails
<1>2. CASE Qemu
  BY <1>2 DEF Qemu, Prctl, CheckParent, Exec, Listen, ChildGoes, ServeBad, ServeCommand,
              Perform, ServeAck, procVars
<1>3. CASE NemuEnds \/ ChildKilled \/ Call \/ UNCHANGED vars
  BY <1>3 DEF NemuEnds, ChildKilled, Call, vars, procVars
<1> QED
  BY <1>1, <1>2, <1>3 DEF Next

(* A command is over for QEMU only by being performed.                     *)
LEMMA BusyEnds ==
  ASSUME Next, busy # None, busy' = None
  PROVE  Perform
<1>1. CASE Nemu
  BY <1>1 DEF Nemu, Fork, Connect, CopyFailed, Begin, Return, Send, SendLost, SendFails, Die,
              ReadAck, ReadAckEof, RecvBad, Recv, RecvFails, refVars
<1>2. CASE Qemu
  BY <1>2 DEF Qemu, Prctl, CheckParent, Exec, Listen, ChildGoes, ServeBad, ServeCommand,
              ServeAck, refVars
<1>3. CASE NemuEnds \/ ChildKilled \/ Call
  BY <1>3 DEF NemuEnds, Die, ChildKilled, Call, refVars
<1> QED
  BY <1>1, <1>2, <1>3 DEF Next

LEMMA InvInit == Init => IInv
<1> SUFFICES ASSUME Init PROVE IInv
  OBVIOUS
<1>1. Types
  <2>1. <<>> \in Seq(Commands)
    BY EmptySeq
  <2>2. ref \in RefStates
    BY DEF Init, Fresh, RefStates
  <2> QED
    BY <2>1, <2>2, LinkAssumption DEF Init, Types
<1>2. Control /\ Link /\ Image
  BY DEF Init, Control, Link, Image, InFlight, Fresh
<1>3. Registers
  BY EmptySeq DEF Init, Registers, InFlight
<1> QED
  BY <1>1, <1>2, <1>3 DEF IInv

LEMMA InvStep == IInv /\ [Next]_vars => IInv'
<1> SUFFICES ASSUME IInv, [Next]_vars PROVE IInv'
  OBVIOUS
<1>1. Types'
  BY TypesStep DEF IInv
<1>2. ASSUME nemu' # "dead"
      PROVE  Control' /\ Link' /\ Image' /\ Registers'
  <2>1. nemu # "dead"
    BY <1>2, DeadForEver
  <2> QED
    BY <1>2, <2>1, ControlStep, LinkStep, ImageStep, RegistersStep DEF IInv
<1> QED
  BY <1>1, <1>2 DEF IInv

LEMMA InvHolds == Spec => []IInv
  BY InvInit, InvStep, PTL DEF Spec

(* When init_difftest has returned, QEMU has the image and nothing else at *)
(* its place (difftest_memcpy, gdb_memcpy_to_qemu), for every size of an   *)
(* image and of a packet and every loss, repetition and delay: ImageCopied.*)
(* The copy is over only when every packet of it was answered "OK".        *)
THEOREM ImageCorrect == Spec => []ImageCopied
<1>1. IInv => ImageCopied
  <2> SUFFICES ASSUME IInv, nemu = "idle" PROVE ImageCopied
    BY DEF ImageCopied
  <2>1. todo = <<>> /\ ok /\ Image /\ Len(todo) = 0
    BY EmptySeq DEF IInv, Control
  <2>2. CopyOver
    BY <2>1 DEF Image, CopyAhead, CopyUnderWay
  <2> QED
    BY <2>1, <2>2 DEF CopyOver, Copied, ImageIn, FirstBytes, ImageCopied
<1> QED
  BY <1>1, InvHolds, PTL

(* difftest_setregs leaves the registers beyond DIFFTEST_REG_SIZE as they  *)
(* are: RestKept.  What it writes back was read by the command before, and *)
(* nothing comes between the two.                                          *)
THEOREM RestCorrect == Spec => RestKept
<1> DEFINE WriteKeeps == busy # None /\ busy' = None /\ busy.op = "G" /\ busy.who = "dut"
                      => ref'.regs.rest = ref.regs.rest
<1>1. IInv /\ [Next]_vars => [WriteKeeps]_vars
  <2> SUFFICES ASSUME IInv, Next, busy # None, busy' = None, busy.op = "G", busy.who = "dut"
               PROVE  ref'.regs.rest = ref.regs.rest
    BY DEF WriteKeeps
  <2>1. Perform
    BY BusyEnds
  <2>2. /\ busy = Cur /\ busy \in Commands /\ ~ done /\ InFlight /\ todo # <<>>
        /\ Registers /\ Types
    BY <2>1, PerformServes DEF Perform, Serving, IInv
  <2>3. Cur = todo[1] /\ ByDut(todo[1])
    BY <2>2, TailOf, ChunkCommand DEF Types, Cur, ByDut
  <2>4. PICK e \in Effect(Cur, ref) : ref' = e[1]
    BY <2>1, <2>2 DEF Perform
  <2>5. ref'.regs = Cur.regs
    BY <2>2, <2>4, EffectRegs DEF Types
  <2> QED
    BY <2>2, <2>3, <2>5 DEF Registers
<1> QED
  BY <1>1, InvHolds, PTL DEF Spec, RestKept

-----------------------------------------------------------------------------
(* The connection implements RefRpc: RpcSpec.  gdb_send begins a command,  *)
(* QEMU performs it, gdb_recv returns its answer, the end of NEMU abandons *)
(* it, and every other step, each refusal and repetition of a packet among *)
(* them, changes nothing RefRpc speaks of.                                 *)
THEOREM RpcCorrect == Spec => RpcSpec
<1> DEFINE cur == IF nemu \in {"send", "ack", "recv"} THEN Cur ELSE None
<1>1. Init => Rpc!Init
  BY DEF Init, Rpc!Init, Fresh, Rpc!Fresh, RegFile, Rpc!RegFile
<1>2. IInv /\ [Next]_vars => [Rpc!Next]_(Rpc!vars)
  <2> SUFFICES ASSUME IInv, [Next]_vars PROVE Rpc!Next \/ UNCHANGED Rpc!vars
    OBVIOUS
  <2>1. Types /\ (nemu # "dead" => Control /\ Link /\ Registers)
    BY DEF IInv
  <2>2. nemu # "dead" /\ InFlight => Cur \in Commands /\ Cur # None
    <3>1. todo # <<>> /\ nemu # "dead" /\ InFlight => Cur \in Commands
      BY <2>1, TailOf, ChunkCommand DEF Types, Cur
    <3> QED
      BY <2>1, <3>1, NoneAssumption DEF Control
  <2>3. CASE Begin
    <3>1. InFlight' /\ nemu = "next" /\ nemu' = "send" /\ ~ done'
          /\ UNCHANGED <<ref, ans, got>>
      BY <2>3 DEF Begin, InFlight, refVars
    <3>2. Types' /\ Control'
      BY <2>1, <2>3, <3>1, TypesStep, ControlStep
    <3>3. Cur' \in Commands
      <4>1. (todo # <<>>)' /\ (todo \in Seq(Commands))'
        BY <3>1, <3>2 DEF Control, Types
      <4> QED
        BY <4>1, TailOf, ChunkCommand DEF Cur
    <3>4. cur = None /\ cur' \in Commands
      BY <3>1, <3>3
    <3>5. Rpc!Ask
      BY <3>1, <3>4 DEF Rpc!Ask
    <3> QED
      BY <3>5 DEF Rpc!Next
  <2>4. CASE Perform
    <3>1. /\ nemu # "dead" /\ busy = Cur /\ ~ done /\ InFlight
          /\ UNCHANGED <<nemu, todo, got>> /\ done' = TRUE
      BY <2>1, <2>4, PerformServes DEF Perform, Serving, procVars, callVars
    <3>2. cur = Cur /\ cur' = cur /\ Cur # None
      BY <2>2, <3>1 DEF InFlight, Cur
    <3>3. \E e \in Effect(cur, ref) : ref' = e[1] /\ ans' = e[2]
      BY <2>4, <3>1, <3>2 DEF Perform
    <3>4. Rpc!Effect(cur, ref) = Effect(cur, ref)
      BY DEF Effect, Rpc!Effect, Bytes, Rpc!Bytes, RegFile, Rpc!RegFile
    <3> HIDE DEF cur
    <3>5. cur # None /\ ~ done /\ done' = TRUE /\ UNCHANGED <<cur, got>>
      BY <3>1, <3>2
    <3>6. Rpc!Perform
      BY <3>3, <3>4, <3>5 DEF Rpc!Perform, cur
    <3> QED
      BY <3>6 DEF Rpc!Next
  <2>5. CASE Recv
    <3>1. nemu = "recv" /\ nemu' = "next" /\ InFlight /\ UNCHANGED <<done, ref, ans>>
      BY <2>5 DEF Recv, InFlight, refVars
    <3>2. done /\ got' = ans
      BY <2>1, <2>5, <3>1, RecvTakes DEF Recv
    <3>3. cur # None /\ cur' = None
      BY <2>2, <3>1
    <3>4. Rpc!Answer
      BY <3>1, <3>2, <3>3 DEF Rpc!Answer
    <3> QED
      BY <3>4 DEF Rpc!Next
  <2>6. CASE Die
    <3>1. cur' = None /\ UNCHANGED <<done, ref, ans, got>>
      BY <2>6 DEF Die, callVars, refVars
    <3>2. Rpc!Abandon
      BY <3>1 DEF Rpc!Abandon
    <3> QED
      BY <3>2 DEF Rpc!Next
  <2>7. CASE Connect \/ Return \/ Call
    <3>1. UNCHANGED <<done, ref, ans, got>> /\ ~ InFlight /\ ~ InFlight'
      BY <2>7 DEF Connect, Return, Call, InFlight, callVars, refVars
    <3>2. UNCHANGED cur
      BY <3>1 DEF InFlight
    <3> QED
      BY <3>1, <3>2 DEF Rpc!vars
  <2>8. CASE Kept
    <3>1. UNCHANGED <<done, ref, ans, got, todo>> /\ (InFlight' <=> InFlight)
      BY <2>8 DEF Kept
    <3>2. UNCHANGED cur
      BY <3>1 DEF InFlight, Cur
    <3> QED
      BY <3>1, <3>2 DEF Rpc!vars
  <2> QED
    BY <2>3, <2>4, <2>5, <2>6, <2>7, <2>8, Steps
<1> QED
  BY <1>1, <1>2, InvHolds, PTL DEF Spec, RpcSpec, Rpc!Spec
=============================================================================
