------------------------------- MODULE GdbLink -------------------------------
(***************************************************************************)
(* The QEMU side of differential testing (nemu/tools/qemu-diff): NEMU      *)
(* starts a QEMU, connects to its GDB server, and has it copy memory, read *)
(* and write registers and execute instructions.                           *)
(*                                                                         *)
(* There are two processes.  The control of NEMU's is `nemu':              *)
(*   fork, connect      difftest_init                                      *)
(*   idle               between two calls of the ref_difftest_* functions  *)
(*   next               a call goes on to its next command, or returns     *)
(*   send, ack, recv    gdb_send before its packet and before its fgetc,   *)
(*                      gdb_recv                                           *)
(*   dead               the process has ended                              *)
(* and that of the other is `child':                                       *)
(*   none, forked, armed, exec   from fork to execlp                       *)
(*   boot, listen                QEMU before and after it opens its port   *)
(*   dead                                                                  *)
(* The two directions of the connection are sequences of acknowledgements  *)
(* ("+", "-") and packets.  A packet may arrive with a wrong checksum.     *)
(* QEMU's server is external; it is modelled by the GDB remote protocol,   *)
(* as far as the functions of protocol.c rely on it.                       *)
(***************************************************************************)
EXTENDS RefMachine, SequencesExt

CONSTANTS MTU,        \* bytes of one memory packet
          ImgLens,    \* sizes of the guest's image
          InitSteps,  \* instructions init_isa executes
          MaxCalls,   \* bound: calls after the initialisation
          MaxGarble   \* bound: packets that arrive with a wrong checksum

ASSUME LinkAssumption ==
  /\ MTU \in Nat \ {0}
  /\ ImgLens \subseteq Nat
  /\ InitSteps \in Nat
  /\ MaxCalls \in Nat /\ MaxGarble \in Nat

VARIABLES nemu, child,
          sigterm,  \* the parent-death signal is on its way to the child
          todo,     \* commands of the present call, the first one under way
          ok,       \* conjunction of the answers to the copies so far
          got,      \* the answer gdb_recv returned last
          img,      \* size of the image
          out, in,  \* the connection, from NEMU and to NEMU
          broken,   \* NEMU has written to a connection that QEMU had closed
          busy,     \* the command QEMU has acknowledged and not answered
          ans,      \* QEMU's last answer
          ref,      \* the reference machine
          done,     \* the command under way has been performed (history)
          calls, garbles

procVars == <<nemu, child, sigterm>>
callVars == <<todo, ok, got, img, calls>>
linkVars == <<out, in, broken, garbles>>
refVars == <<busy, ans, ref>>
vars == <<procVars, callVars, linkVars, refVars, done>>

-----------------------------------------------------------------------------
(* What a call of the library asks of QEMU.                                *)

(* Bug of Setregs: the registers are not read first.                       *)
SetregsBlind(regs) == <<WriteRegs("dut", regs)>>

(* difftest_setregs reads all registers, to write back those it leaves.    *)
Setregs(regs) == <<ReadRegs, WriteRegs("dut", regs)>>

(* init_isa, which is empty for mips32.                                    *)
InitIsa(regs) == <<Copy("mbr", 0, 1), ReadRegs, WriteRegs("init", regs)>>
                   \o [i \in 1 .. InitSteps |-> Step]

(* The end of difftest_init, and of init_difftest.                         *)
InitCalls(isa, regs) == isa \o <<Copy("img", 1, img)>> \o Setregs(regs)

(* Bug of Chunk: every packet is a full one.                               *)
ChunkFull(c) == IF c.op = "M" THEN [c EXCEPT !.len = MTU] ELSE c

(* The packet for what is left of a command: a copy is cut at MTU bytes.   *)
Chunk(c) == IF c.op = "M" /\ c.len > MTU THEN [c EXCEPT !.len = MTU] ELSE c

(* What is left of it once that packet is answered.                        *)
Rest(c) ==
  IF c.op = "M" /\ c.len > MTU
    THEN <<[c EXCEPT !.at = @ + MTU, !.off = @ + MTU, !.len = @ - MTU]>>
    ELSE <<>>

Cur == Chunk(Head(todo))

(* The caller of a "G" sets some registers; all others are those of the    *)
(* answer to the "g" before.  (init_isa sets some of the rest, too.)       *)
Filled(c) ==
  IF c.op = "G" /\ c.who = "dut" /\ got # None /\ got.is = "regs"
    THEN [c EXCEPT !.regs.rest = got.regs.rest] ELSE c

-----------------------------------------------------------------------------
(* What the connection carries: acknowledgements, packets, and what is     *)
(* left of a packet without its first character.                           *)
Ack == [is |-> "+"]
Nack == [is |-> "-"]
Remains == [is |-> "tail"]
IsPacket(x) == x.is = "$"

(* The forms in which a packet may arrive.                                 *)
Carried(body) ==
  {[is |-> "$", body |-> body, sum |-> s] :
     s \in IF garbles < MaxGarble THEN BOOLEAN ELSE {TRUE}}
Count(p) == garbles' = IF p.sum THEN garbles ELSE garbles + 1

-----------------------------------------------------------------------------
Init ==
  /\ nemu = "fork" /\ child = "none" /\ sigterm = FALSE
  /\ todo = <<>> /\ ok = TRUE /\ got = None /\ img \in ImgLens /\ calls = 0
  /\ out = <<>> /\ in = <<>> /\ broken = FALSE /\ garbles = 0
  /\ busy = None /\ ans = None /\ ref \in Fresh
  /\ done = FALSE

-----------------------------------------------------------------------------
(* The two processes: difftest_init.                                       *)

Fork ==
  /\ nemu = "fork"
  /\ nemu' = "connect"
  /\ child' = "forked"
  /\ UNCHANGED <<sigterm, callVars, linkVars, refVars, done>>

(* NEMU ends.  The kernel signals a child that has asked for it.           *)
Die ==
  /\ nemu' = "dead"
  /\ sigterm' = (child \in {"armed", "exec", "boot", "listen"})
  /\ UNCHANGED <<child, callVars, linkVars, refVars, done>>

(* It may end at any time, by itself or by a signal.                       *)
NemuEnds == nemu # "dead" /\ Die

ChildGoes(from, to) ==
  /\ child = from
  /\ child' = to
  /\ UNCHANGED <<nemu, sigterm, callVars, linkVars, refVars, done>>

(* prctl, and the assertion that it succeeded.                             *)
Prctl == ChildGoes("forked", "armed") \/ ChildGoes("forked", "dead")

(* Bug of CheckParent: the parent is not looked for.                       *)
CheckParentNot == ChildGoes("armed", "exec")

(* The parent may have died before prctl: getppid tells.                   *)
CheckParent == ChildGoes("armed", IF nemu = "dead" THEN "dead" ELSE "exec")

Exec == ChildGoes("exec", "boot") \/ ChildGoes("exec", "dead")

Listen == ChildGoes("boot", "listen")

(* The signal arrives, or QEMU ends for a reason of its own.  What it has  *)
(* sent last may be lost.                                                  *)
ChildKilled ==
  /\ \/ sigterm /\ child \in {"armed", "exec"}
     \/ child \in {"boot", "listen"}
  /\ child' = "dead"
  /\ \E k \in 0 .. Len(in) : in' = SubSeq(in, 1, k)
  /\ UNCHANGED <<nemu, sigterm, callVars, out, broken, garbles, refVars, done>>

(* gdb_connect_qemu tries until QEMU listens; gdb_begin sends "+".         *)
Connect ==
  /\ nemu = "connect" /\ child = "listen"
  /\ nemu' = "next"
  /\ out' = <<Ack>>
  /\ \E regs1, regs2 \in RegFile :
        todo' \in {InitCalls(InitIsa(regs1), regs2), InitCalls(<<>>, regs2)}
  /\ UNCHANGED <<child, sigterm, ok, got, img, calls, in, broken, garbles, refVars, done>>

-----------------------------------------------------------------------------
(* The functions of diff-test.c and gdb-host.c.                            *)

(* difftest_exec(1), difftest_getregs or difftest_setregs is called.       *)
Call ==
  /\ nemu = "idle"
  /\ calls < MaxCalls
  /\ calls' = calls + 1
  /\ nemu' = "next"
  /\ \E regs \in RegFile : todo' \in {<<Step>>, <<ReadRegs>>, Setregs(regs)}
  /\ UNCHANGED <<child, sigterm, ok, got, img, linkVars, refVars, done>>

(* A copy goes on whatever was answered to its packets; after its end,     *)
(* assert(ok == 1).                                                        *)
Copying == todo # <<>> /\ Head(todo).op = "M" /\ Head(todo).off > 0
CopyFailed == nemu = "next" /\ ~ ok /\ ~ Copying /\ Die

Begin ==
  /\ nemu = "next" /\ todo # <<>>
  /\ ok \/ Copying
  /\ nemu' = "send"
  /\ todo' = <<Filled(Head(todo))>> \o Tail(todo)
  /\ done' = FALSE
  /\ UNCHANGED <<child, sigterm, ok, got, img, calls, linkVars, refVars>>

Return ==
  /\ nemu = "next" /\ todo = <<>> /\ ok
  /\ nemu' = "idle"
  /\ UNCHANGED <<child, sigterm, callVars, linkVars, refVars, done>>

-----------------------------------------------------------------------------
(* protocol.c.                                                             *)


(* send_packet.                                                            *)
Send ==
  /\ nemu = "send" /\ child = "listen"
  /\ nemu' = "ack"
  /\ \E p \in Carried(Cur) : out' = Append(out, p) /\ Count(p)
  /\ UNCHANGED <<child, sigterm, callVars, in, broken, refVars, done>>

(* When QEMU has ended, the first write may still seem to succeed.         *)
SendLost ==
  /\ nemu = "send" /\ child = "dead"
  /\ ~ broken
  /\ broken' = TRUE
  /\ nemu' = "ack"
  /\ UNCHANGED <<child, sigterm, callVars, out, in, garbles, refVars, done>>

(* A later one is an error, or ends NEMU by SIGPIPE.                       *)
SendFails == nemu = "send" /\ child = "dead" /\ Die

(* fgetc takes one character: an acknowledgement, or the `$' of a packet,  *)
(* whose tail stays.  Anything but "+" has the packet sent again.          *)
ReadAck ==
  /\ nemu = "ack" /\ in # <<>>
  /\ in' = (IF IsPacket(Head(in)) THEN <<Remains>> ELSE <<>>) \o Tail(in)
  /\ nemu' = IF Head(in) = Ack THEN "recv" ELSE "send"
  /\ UNCHANGED <<child, sigterm, callVars, out, broken, garbles, refVars, done>>

(* So does the end of the input.                                           *)
ReadAckEof ==
  /\ nemu = "ack" /\ in = <<>> /\ child = "dead"
  /\ nemu' = "send"
  /\ UNCHANGED <<child, sigterm, callVars, linkVars, refVars, done>>

(* recv_packet passes over everything in front of the first `$'.           *)
FirstPacket(i) == IsPacket(in[i]) /\ \A j \in 1 .. i - 1 : ~ IsPacket(in[j])
Taken(i) == in' = SubSeq(in, i + 1, Len(in))

Write(x) ==
  /\ out' = IF child = "listen" THEN Append(out, x) ELSE out
  /\ broken' = (broken \/ child = "dead")

(* Bugs of RecvBad: no "-" is sent, and the command is given again.        *)
RecvBadSilent ==
  /\ nemu = "recv"
  /\ \E i \in 1 .. Len(in) : FirstPacket(i) /\ ~ in[i].sum /\ Taken(i)
  /\ UNCHANGED <<procVars, callVars, out, broken, garbles, refVars, done>>
RecvBadAgain ==
  /\ nemu = "recv"
  /\ \E i \in 1 .. Len(in) : FirstPacket(i) /\ ~ in[i].sum /\ Taken(i)
  /\ nemu' = "send"
  /\ UNCHANGED <<child, sigterm, callVars, out, broken, garbles, refVars, done>>

(* gdb_recv has the answer sent again.                                     *)
RecvBad ==
  /\ nemu = "recv"
  /\ \E i \in 1 .. Len(in) : FirstPacket(i) /\ ~ in[i].sum /\ Taken(i)
  /\ Write(Nack)
  /\ UNCHANGED <<procVars, callVars, garbles, refVars, done>>

(* gdb_recv returns the answer.                                            *)
Recv ==
  /\ nemu = "recv"
  /\ \E i \in 1 .. Len(in) :
        FirstPacket(i) /\ in[i].sum /\ Taken(i) /\ got' = in[i].body
  /\ Write(Ack)
  /\ ok' = (ok /\ (Cur.op = "M" => got'.is = "OK"))
  /\ todo' = Rest(Head(todo)) \o Tail(todo)
  /\ nemu' = "next"
  /\ UNCHANGED <<child, sigterm, img, calls, garbles, refVars, done>>

(* The end of the input, or a write after it.                              *)
RecvFails ==
  /\ nemu = "recv" /\ child = "dead"
  /\ (\A i \in 1 .. Len(in) : ~ IsPacket(in[i])) \/ broken
  /\ Die

-----------------------------------------------------------------------------
(* QEMU's GDB server (external).                                           *)

Serving == child = "listen" /\ nemu # "dead"

(* It refuses a packet with a wrong checksum.                              *)
ServeBad ==
  /\ Serving /\ out # <<>> /\ IsPacket(Head(out)) /\ ~ Head(out).sum
  /\ out' = Tail(out)
  /\ in' = Append(in, Nack)
  /\ UNCHANGED <<procVars, callVars, broken, garbles, refVars, done>>

(* It acknowledges a command ...                                           *)
ServeCommand ==
  /\ Serving /\ out # <<>> /\ IsPacket(Head(out)) /\ Head(out).sum
  /\ busy = None
  /\ out' = Tail(out)
  /\ in' = Append(in, Ack)
  /\ busy' = Head(out).body
  /\ UNCHANGED <<procVars, callVars, broken, garbles, ans, ref, done>>

(* ... performs it, and answers; an instruction may take its time.         *)
Perform ==
  /\ Serving /\ busy # None
  /\ \E e \in Effect(busy, ref) : ref' = e[1] /\ ans' = e[2]
  /\ \E p \in Carried(ans') : in' = Append(in, p) /\ Count(p)
  /\ busy' = None
  /\ done' = TRUE
  /\ UNCHANGED <<procVars, callVars, out, broken>>

(* It answers again when asked to, and needs no acknowledgement.           *)
ServeAck ==
  /\ Serving /\ out # <<>> /\ ~ IsPacket(Head(out))
  /\ out' = Tail(out)
  /\ IF Head(out) = Nack /\ ans # None
       THEN \E p \in Carried(ans) : in' = Append(in, p) /\ Count(p)
       ELSE UNCHANGED <<in, garbles>>
  /\ UNCHANGED <<procVars, callVars, broken, refVars, done>>

-----------------------------------------------------------------------------
Nemu ==
  \/ Fork \/ Connect \/ CopyFailed \/ Begin \/ Return \/ Send \/ SendLost \/ SendFails
  \/ ReadAck \/ ReadAckEof \/ RecvBad \/ Recv \/ RecvFails

Qemu ==
  \/ Prctl \/ CheckParent \/ Exec \/ Listen
  \/ ServeBad \/ ServeCommand \/ Perform \/ ServeAck

Next == Nemu \/ Qemu \/ NemuEnds \/ ChildKilled \/ Call

Spec == Init /\ [][Next]_vars

(* Both processes are scheduled, and a signal is delivered.                *)
FairSpec ==
  Spec /\ WF_vars(Nemu) /\ WF_vars(Qemu) /\ WF_vars(sigterm /\ ChildKilled)

-----------------------------------------------------------------------------
Commands ==
  {ReadRegs, Step} \cup {WriteRegs(who, regs) : who \in {"init", "dut"}, regs \in RegFile}
    \cup [op : {"M"}, buf : {"mbr", "img"}, at : Nat, off : Nat, len : Nat]

(* None is neither of the two.                                             *)
ASSUME NoneAssumption == None \notin Commands \cup Answers

Rpc == INSTANCE RefRpc WITH cur <- IF nemu \in {"send", "ack", "recv"} THEN Cur ELSE None

(* Every command is performed once between its first packet and its        *)
(* answer, whatever packets are sent again, and the answer gdb_recv        *)
(* returns is that of this performance and of no earlier one.              *)
RpcSpec == Rpc!Spec

(* When init_difftest has returned, QEMU has the image, all of it and      *)
(* nothing else, at its place, whatever its size is to the packets'.       *)
ImageCopied ==
  nemu = "idle" =>
    {t \in ref.mem : t[1] = "img"} = {<<"img", 1 + i, i>> : i \in 0 .. img - 1}

(* difftest_setregs leaves the registers beyond DIFFTEST_REG_SIZE alone,   *)
(* although it has to write them all.                                      *)
RestKept ==
  [][busy # None /\ busy' = None /\ busy.op = "G" /\ busy.who = "dut"
       => ref'.regs.rest = ref.regs.rest]_vars

(* A QEMU does not outlive the NEMU that started it: whenever NEMU has     *)
(* ended and its child has got past the two checks of difftest_init, the   *)
(* parent-death signal is on its way.                                      *)
NoOrphan == nemu = "dead" /\ child \in {"exec", "boot", "listen"} => sigterm

(* Every call returns or ends NEMU, also when QEMU ends in the middle of   *)
(* it: the two never wait for each other.  Only gdb_connect_qemu waits for *)
(* ever, for a QEMU that could not be started.                             *)
CallsReturn ==
  nemu \notin {"idle", "dead"} ~>
    (nemu \in {"idle", "dead"} \/ (nemu = "connect" /\ child = "dead"))
=============================================================================
