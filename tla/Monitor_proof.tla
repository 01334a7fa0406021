---------------------------- MODULE Monitor_proof ----------------------------
(***************************************************************************)
(* Proofs about Monitor, for every pool size, every guest and every        *)
(* sequence of commands: types, the pool's partition, the count of         *)
(* instructions of `si', the trace buffer, that the reported end of the    *)
(* guest is final, and what a watchpoint that differs does to the loop.    *)
(***************************************************************************)
EXTENDS Monitor, SequenceTheorems, TLAPS

-----------------------------------------------------------------------------
(* Sequences.                                                              *)

(* Moving the first element of t to the end of s leaves their              *)
(* concatenation as it was.                                                *)
LEMMA AppendTailConcat ==
  ASSUME NEW S, NEW s \in Seq(S), NEW t \in Seq(S), t # <<>>
  PROVE  /\ Append(s, Head(t)) \in Seq(S) /\ Tail(t) \in Seq(S)
         /\ Len(Append(s, Head(t))) + Len(Tail(t)) = Len(s) + Len(t)
         /\ Append(s, Head(t)) \o Tail(t) = s \o t
<1>. DEFINE h == Head(t)
<1>1. h \in S /\ h = t[1] /\ Tail(t) \in Seq(S) /\ Len(Tail(t)) = Len(t) - 1 /\ Len(t) >= 1
  BY HeadTailProperties
<1>2. Append(s, h) \in Seq(S) /\ Len(Append(s, h)) = Len(s) + 1 /\ Append(s, h) = s \o <<h>>
  BY <1>1, AppendProperties, AppendIsConcat
<1>3. <<h>> \o Tail(t) = t
  <2>1. SubSeq(t, 1, Len(t)) = <<t[1]>> \o SubSeq(t, 1 + 1, Len(t))
    BY <1>1, SubSeqRecursiveFirst
  <2>. QED  BY <1>1, <2>1, SubSeqFull, TailIsSubSeq
<1>4. (s \o <<h>>) \o Tail(t) = s \o (<<h>> \o Tail(t))
  <2>1. <<h>> \in Seq(S)
    BY <1>1
  <2>. QED  BY <1>1, <2>1, ConcatAssociative
<1>. QED  BY <1>1, <1>2, <1>3, <1>4

(* What RemoveAt returns, element by element.                              *)
LEMMA RemoveAtProperties ==
  ASSUME NEW S, NEW s \in Seq(S), NEW i \in 1 .. Len(s)
  PROVE  /\ RemoveAt(s, i) \in Seq(S)
         /\ Len(RemoveAt(s, i)) = Len(s) - 1
         /\ \A j \in 1 .. Len(s) - 1 :
               RemoveAt(s, i)[j] = IF j < i THEN s[j] ELSE s[j + 1]
<1>. DEFINE a == SubSeq(s, 1, i - 1)
            b == SubSeq(s, i + 1, Len(s))
<1>1. /\ a \in Seq(S)
      /\ Len(a) = i - 1
      /\ \A j \in 1 .. i - 1 : a[j] = s[j]
  BY SubSeqProperties
<1>2. /\ b \in Seq(S)
      /\ Len(b) = Len(s) - i
      /\ \A j \in 1 .. Len(s) - i : b[j] = s[i + j]
  BY SubSeqProperties
<1>. HIDE DEF a, b
<1>3. RemoveAt(s, i) = a \o b
  BY DEF RemoveAt, a, b
<1>4. /\ a \o b \in Seq(S)
      /\ Len(a \o b) = Len(a) + Len(b)
      /\ \A j \in 1 .. Len(a) + Len(b) :
            (a \o b)[j] = IF j <= Len(a) THEN a[j] ELSE b[j - Len(a)]
  BY <1>1, <1>2, ConcatProperties
<1>5. Len(a) + Len(b) = Len(s) - 1
  BY <1>1, <1>2
<1>6. ASSUME NEW j \in 1 .. Len(s) - 1
      PROVE  (a \o b)[j] = IF j < i THEN s[j] ELSE s[j + 1]
  <2>1. CASE j < i
    BY <1>1, <1>4, <1>5, <2>1
  <2>2. CASE ~ (j < i)
    <3>1. (a \o b)[j] = b[j - (i - 1)]
      BY <1>1, <1>4, <1>5, <2>2
    <3>2. j - (i - 1) \in 1 .. Len(s) - i
      BY <2>2
    <3>3. b[j - (i - 1)] = s[i + (j - (i - 1))]
      BY <1>2, <3>2
    <3>4. i + (j - (i - 1)) = j + 1
      OBVIOUS
    <3>. QED  BY <2>2, <3>1, <3>3, <3>4
  <2>. QED  BY <2>1, <2>2
<1>. QED  BY <1>3, <1>4, <1>5, <1>6

(* Moving an element from s to the end of t keeps their concatenation free *)
(* of repetitions.                                                         *)
LEMMA RemoveAppendInjective ==
  ASSUME NEW S, NEW s \in Seq(S), NEW t \in Seq(S), IsInjective(s \o t),
         NEW i \in 1 .. Len(s)
  PROVE  /\ RemoveAt(s, i) \in Seq(S) /\ Append(t, s[i]) \in Seq(S)
         /\ Len(RemoveAt(s, i)) + Len(Append(t, s[i])) = Len(s) + Len(t)
         /\ IsInjective(RemoveAt(s, i) \o Append(t, s[i]))
<1>. DEFINE r == RemoveAt(s, i)
            u == Append(t, s[i])
            c == s \o t
            d == r \o u
            N == Len(s) + Len(t)
<1>1. /\ r \in Seq(S) /\ Len(r) = Len(s) - 1
      /\ \A j \in 1 .. Len(s) - 1 : r[j] = IF j < i THEN s[j] ELSE s[j + 1]
  BY RemoveAtProperties
<1>2. /\ u \in Seq(S) /\ Len(u) = Len(t) + 1
      /\ (\A j \in 1 .. Len(t) : u[j] = t[j]) /\ u[Len(t) + 1] = s[i]
  BY AppendProperties
<1>3. /\ DOMAIN c = 1 .. N
      /\ \A k \in 1 .. N : c[k] = IF k <= Len(s) THEN s[k] ELSE t[k - Len(s)]
  BY ConcatProperties
<1>. HIDE DEF r, u, c
<1>4. /\ DOMAIN d = 1 .. N
      /\ \A k \in 1 .. N : d[k] = IF k <= Len(s) - 1 THEN r[k] ELSE u[k - (Len(s) - 1)]
  <2>1. /\ d \in Seq(S) /\ Len(d) = Len(r) + Len(u)
        /\ \A k \in 1 .. Len(r) + Len(u) : d[k] = IF k <= Len(r) THEN r[k] ELSE u[k - Len(r)]
    BY <1>1, <1>2, ConcatProperties
  <2>. HIDE DEF d
  <2>2. Len(r) + Len(u) = N /\ DOMAIN d = 1 .. Len(d)
    BY <1>1, <1>2, <2>1
  <2>. QED  BY <1>1, <2>1, <2>2
<1>. HIDE DEF d
<1>5. Len(s) \in Nat /\ Len(t) \in Nat
  OBVIOUS
<1>. HIDE DEF N
<1>6. ASSUME NEW k \in 1 .. N
      PROVE  d[k] = c[IF k < i THEN k ELSE IF k < N THEN k + 1 ELSE i]
  <2>1. CASE k <= Len(s) - 1
    <3>1. k \in 1 .. Len(s) - 1 /\ k < N /\ k + 1 \in 1 .. N /\ k + 1 <= Len(s) /\ k <= Len(s)
      BY <1>5, <2>1 DEF N
    <3>. QED  BY <1>1, <1>3, <1>4, <3>1
  <2>2. CASE k > Len(s) - 1 /\ k < N
    <3>1. /\ k - (Len(s) - 1) \in 1 .. Len(t) /\ ~ (k < i) /\ ~ (k <= Len(s) - 1)
          /\ k + 1 \in 1 .. N /\ ~ (k + 1 <= Len(s)) /\ (k + 1) - Len(s) = k - (Len(s) - 1)
      BY <1>5, <2>2 DEF N
    <3>. QED  BY <1>2, <1>3, <1>4, <2>2, <3>1
  <2>3. CASE k = N
    <3>1. /\ k - (Len(s) - 1) = Len(t) + 1 /\ ~ (k < i) /\ ~ (k <= Len(s) - 1) /\ ~ (k < N)
          /\ i \in 1 .. N /\ i <= Len(s)
      BY <1>5, <2>3 DEF N
    <3>. QED  BY <1>2, <1>3, <1>4, <3>1
  <2>. QED  BY <1>5, <2>1, <2>2, <2>3 DEF N
<1>7. IsInjective(d)
  <2>1. \A a, b \in 1 .. N : c[a] = c[b] => a = b
    BY <1>3 DEF IsInjective, c
  <2>2. ASSUME NEW a \in 1 .. N, NEW b \in 1 .. N, d[a] = d[b]  PROVE a = b
    <3>1. N \in Nat /\ i \in 1 .. N
      BY <1>5 DEF N
    <3>2. (IF a < i THEN a ELSE IF a < N THEN a + 1 ELSE i)
             = (IF b < i THEN b ELSE IF b < N THEN b + 1 ELSE i)
      BY <1>6, <2>1, <2>2, <3>1
    <3>. QED  BY <3>1, <3>2
  <2>. QED  BY <1>4, <2>2 DEF IsInjective
<1>. QED  BY <1>1, <1>2, <1>5, <1>7 DEF r, u, d

-----------------------------------------------------------------------------
(* The pool.                                                               *)

PoolInv == TypePool /\ Partition /\ UsedHaveText

LEMMA InitPoolInv == InitPool => PoolInv
<1>. SUFFICES ASSUME InitPool  PROVE PoolInv
  OBVIOUS
<1>1. NR_WP \in Nat /\ NR_WP >= 1 /\ 0 \in Vals
  BY PoolAssumption, OutcomeAssumption
<1>2. /\ used = <<>> /\ used \in Seq(Wp) /\ Len(used) = 0
  BY EmptySeq DEF InitPool
<1>3. /\ free \in Seq(Wp) /\ Len(free) = NR_WP
      /\ \A i \in 1 .. NR_WP : free[i] = i - 1
  <2>1. \A i \in 1 .. NR_WP : i - 1 \in Wp
    BY <1>1 DEF Wp
  <2>. QED  BY <1>1, <2>1, IsASeq DEF InitPool
<1>4. TypePool
  <2>1. exp \in [Wp -> Texts] /\ value \in [Wp -> Vals] /\ flag \in BOOLEAN
    BY <1>1 DEF InitPool, Texts
  <2>. QED  BY <1>2, <1>3, <2>1 DEF TypePool
<1>5. Partition
  <2>1. IsInjective(free)
    <3>1. DOMAIN free = 1 .. NR_WP
      BY <1>3
    <3>. QED  BY <1>1, <1>3, <3>1 DEF IsInjective
  <2>2. used \o free = free
    BY <1>2, <1>3, ConcatEmptySeq
  <2>. QED  BY <1>1, <1>2, <1>3, <2>1, <2>2 DEF Partition
<1>. QED  BY <1>2, <1>4, <1>5 DEF PoolInv, UsedHaveText

LEMMA NewPool ==
  ASSUME PoolInv, NEW e \in Exps, NEW v \in Vals, New(e, v)
  PROVE  PoolInv'
<1>. DEFINE p == Head(free)
<1>1. used \in Seq(Wp) /\ free \in Seq(Wp) /\ free # <<>> /\ p \in Wp
  BY HeadTailProperties DEF PoolInv, TypePool, New
<1>2. Stored(e) \in Texts /\ Stored(e) # NoExp
  BY PoolAssumption DEF Stored, Texts
<1>3. /\ used' \in Seq(Wp) /\ free' \in Seq(Wp)
      /\ Len(used') + Len(free') = NR_WP
      /\ IsInjective(used' \o free')
  <2>1. /\ Append(used, Head(free)) \in Seq(Wp) /\ Tail(free) \in Seq(Wp)
        /\ Len(Append(used, Head(free))) + Len(Tail(free)) = Len(used) + Len(free)
        /\ Append(used, Head(free)) \o Tail(free) = used \o free
    BY <1>1, AppendTailConcat
  <2>2. used' = Append(used, Head(free)) /\ free' = Tail(free)
    BY DEF New
  <2>3. Len(used) + Len(free) = NR_WP /\ IsInjective(used \o free)
    BY DEF PoolInv, Partition
  <2>. QED  BY <2>1, <2>2, <2>3
<1>4. /\ exp' = [exp EXCEPT ![p] = Stored(e)]
      /\ value' = [value EXCEPT ![p] = v]
      /\ used' = Append(used, p)
      /\ flag' = flag
  BY DEF New
<1>. HIDE DEF p
<1>5. TypePool'
  BY <1>1, <1>2, <1>3, <1>4 DEF PoolInv, TypePool
<1>6. UsedHaveText'
  <2>1. /\ Len(used') = Len(used) + 1
        /\ \A i \in 1 .. Len(used) : used'[i] = used[i]
        /\ used'[Len(used) + 1] = p
    BY <1>1, <1>4, AppendProperties
  <2>2. exp'[p] = Stored(e) /\ \A q \in Wp : exp'[q] = exp[q] \/ q = p
    BY <1>1, <1>4 DEF PoolInv, TypePool
  <2>3. \A i \in 1 .. Len(used) : used[i] \in Wp /\ exp[used[i]] # NoExp
    BY <1>1 DEF PoolInv, UsedHaveText
  <2>4. ASSUME NEW i \in 1 .. Len(used')  PROVE exp'[used'[i]] # NoExp
    <3>1. CASE i \in 1 .. Len(used)
      BY <1>2, <2>1, <2>2, <2>3, <3>1
    <3>2. CASE i = Len(used) + 1
      BY <1>2, <2>1, <2>2, <3>2
    <3>. QED  BY <1>1, <2>1, <3>1, <3>2
  <2>. QED  BY <2>4 DEF UsedHaveText
<1>. QED  BY <1>3, <1>5, <1>6 DEF PoolInv, Partition

LEMMA DeletePool ==
  ASSUME PoolInv, NEW num, Delete(num)
  PROVE  PoolInv'
<1>1. used \in Seq(Wp) /\ free \in Seq(Wp)
  BY DEF PoolInv, TypePool
<1>2. PICK i \in 1 .. Len(used) : /\ used[i] = num
                                  /\ used' = RemoveAt(used, i)
                                  /\ free' = Append(free, num)
                                  /\ UNCHANGED <<exp, value, flag>>
  BY DEF Delete
<1>3. /\ used' \in Seq(Wp) /\ free' \in Seq(Wp)
      /\ Len(used') + Len(free') = NR_WP
      /\ IsInjective(used' \o free')
  BY <1>1, <1>2, RemoveAppendInjective DEF PoolInv, Partition
<1>4. TypePool'
  BY <1>2, <1>3 DEF PoolInv, TypePool
<1>5. UsedHaveText'
  <2>1. /\ Len(used') = Len(used) - 1
        /\ \A j \in 1 .. Len(used) - 1 : used'[j] = IF j < i THEN used[j] ELSE used[j + 1]
    BY <1>1, <1>2, RemoveAtProperties
  <2>2. ASSUME NEW j \in 1 .. Len(used')  PROVE exp'[used'[j]] # NoExp
    <3>1. PICK k \in 1 .. Len(used) : used'[j] = used[k]
      <4>1. j \in 1 .. Len(used) /\ j + 1 \in 1 .. Len(used) /\ j \in 1 .. Len(used) - 1
        BY <1>1, <2>1
      <4>. QED  BY <2>1, <4>1
    <3>. QED  BY <1>2, <3>1 DEF PoolInv, UsedHaveText
  <2>. QED  BY <2>2 DEF UsedHaveText
<1>. QED  BY <1>3, <1>4, <1>5 DEF PoolInv, Partition

LEMMA CheckPool ==
  ASSUME PoolInv, NEW r, NEW c, Check(r, c)
  PROVE  PoolInv'
  BY DEF PoolInv, TypePool, Partition, UsedHaveText, Check

(* An evaluation gives a value.                                            *)
LEMMA ShownVal ==
  ASSUME NEW reading \in Readings, NEW c \in BOOLEAN
  PROVE  Shown(reading, c).val \in Vals
<1>1. reading.on \in Outcomes /\ reading.off \in Outcomes
  BY OutcomeAssumption
<1>. QED  BY <1>1 DEF Shown, Outcomes

-----------------------------------------------------------------------------
(* The inductive invariant of the debugger.                                *)

(* One instruction is executed and not yet taken off `calls'.              *)
Owed == IF phase \in {"post", "ret"} THEN 1 ELSE 0

(* What `si N' has still to do, plus what it has done, is N; less only     *)
(* once the guest's end has been reported.                                 *)
SiInv ==
  /\ phase \in {"exec", "post", "ret"} => calls >= 1
  /\ phase = "prompt" => calls = 0
  /\ n = "forever" => ran = 0 /\ asked = 0
  /\ n = "once" /\ phase \in {"prompt", "call", "exec", "post", "ret"} =>
        /\ ran + calls <= asked + Owed
        /\ verdict = "none" => ran + calls = asked + Owed

(* The trace of earlier instructions is gone when one is fetched.          *)
TraceInv ==
  g_nr <= LOG_MAX => bytebuf <= IF phase \in {"post", "dead"} THEN MaxLen ELSE 0

(* A reported end: the machine is outside cpu_exec's loop for good.  After *)
(* an instruction the machine is not stopped yet.                          *)
VerdictInv ==
  /\ verdict # "none" => /\ state \in Ended
                         /\ phase \in {"prompt", "call", "exited", "dead"}
  /\ state \in Ended => verdict # "none" \/ phase \in {"post", "ret", "dead"}
  /\ phase = "post" => state # "STOP"

DeathInv == cause # "none" => phase = "dead"

IInv ==
  /\ TypeOK
  /\ PoolInv
  /\ RunningInCpuExec
  /\ SiInv
  /\ TraceInv
  /\ VerdictInv
  /\ DeathInv

LEMMA InitInv == Init => IInv
<1>. SUFFICES ASSUME Init  PROVE IInv
  OBVIOUS
<1>. USE DEF Init
<1>1. PoolInv
  BY InitPoolInv
<1>2. TypeOK
  BY <1>1, MonitorAssumption DEF TypeOK, PoolInv, Ended
<1>3. RunningInCpuExec /\ VerdictInv /\ DeathInv
  BY DEF RunningInCpuExec, VerdictInv, DeathInv, Ended
<1>4. SiInv
  BY DEF SiInv, Owed
<1>5. TraceInv
  BY MonitorAssumption DEF TraceInv
<1>. QED  BY <1>1, <1>2, <1>3, <1>4, <1>5 DEF IInv

(* An end of the process keeps the invariant.                              *)
LEMMA DieInv ==
  ASSUME IInv, NEW where, Die(where), phase \notin {"dead", "exited"},
         where \in {"args", "assert", "stack", "new_wp", "delete_wp", "check"}
  PROVE  IInv'
<1>. USE DEF Die, poolVars, runVars, logVars, guestVars, IInv
<1>1. PoolInv'
  BY DEF PoolInv, TypePool, Partition, UsedHaveText
<1>2. TypeOK'
  BY <1>1 DEF TypeOK, PoolInv
<1>3. RunningInCpuExec' /\ VerdictInv'
  BY DEF RunningInCpuExec, VerdictInv, TypeOK
<1>4. SiInv'
  BY DEF SiInv, Owed
<1>5. TraceInv'
  BY MonitorAssumption DEF TraceInv, TypeOK
<1>6. DeathInv'
  BY DEF DeathInv
<1>. QED  BY <1>1, <1>2, <1>3, <1>4, <1>5, <1>6

(* The commands.                                                           *)
LEMMA CommandInv == ASSUME IInv, Command PROVE IInv'
<1>. USE DEF IInv
<1>0. phase = "prompt" /\ calls = 0
  BY DEF Command, SiInv
<1>1. ASSUME NEW k \in {"once", "forever"}, NEW i \in 0 .. MaxSi,
             Run(k, i), asked' = (IF k = "once" THEN i ELSE 0),
             k = "forever" => i = 1
      PROVE  IInv'
  <2>. USE <1>0, <1>1 DEF Run, poolVars, runVars, logVars, guestVars
  <2>1. PoolInv'
    BY DEF PoolInv, TypePool, Partition, UsedHaveText
  <2>2. TypeOK'
    BY <2>1, MonitorAssumption DEF TypeOK, PoolInv
  <2>3. RunningInCpuExec' /\ VerdictInv'
    BY DEF RunningInCpuExec, VerdictInv, TypeOK
  <2>4. SiInv'
    BY DEF SiInv, Owed, TypeOK
  <2>5. TraceInv' /\ DeathInv'
    BY DEF TraceInv, DeathInv, TypeOK
  <2>. QED  BY <2>1, <2>2, <2>3, <2>4, <2>5
<1>2. CASE cmd_c
  <2>1. Run("forever", 1) /\ asked' = 0 /\ 1 \in 0 .. MaxSi
    BY <1>2, MonitorAssumption DEF cmd_c
  <2>. QED  BY <1>1, <2>1
<1>3. ASSUME NEW i \in -1 .. MaxSi, cmd_si(i)  PROVE IInv'
  <2>1. PICK times \in 0 .. MaxSi : Run("once", times) /\ asked' = times
    BY <1>3, MonitorAssumption DEF cmd_si
  <2>. QED  BY <1>1, <2>1
<1>4. CASE Leave
  <2>. USE <1>0, <1>4 DEF Leave, poolVars, runVars, logVars, guestVars
  <2>1. PoolInv'
    BY DEF PoolInv, TypePool, Partition, UsedHaveText
  <2>2. TypeOK'
    BY <2>1 DEF TypeOK, PoolInv
  <2>3. RunningInCpuExec' /\ VerdictInv'
    BY DEF RunningInCpuExec, VerdictInv, TypeOK
  <2>4. SiInv' /\ TraceInv' /\ DeathInv'
    BY DEF SiInv, Owed, TraceInv, DeathInv, TypeOK
  <2>. QED  BY <2>1, <2>2, <2>3, <2>4
<1>5. ASSUME PoolInv', UNCHANGED <<ctlVars, runVars, logVars, guestVars>>
      PROVE  IInv'
  <2>. USE <1>0, <1>5 DEF ctlVars, runVars, logVars, guestVars
  <2>1. TypeOK'
    BY DEF TypeOK, PoolInv
  <2>2. RunningInCpuExec' /\ VerdictInv'
    BY DEF RunningInCpuExec, VerdictInv
  <2>3. SiInv' /\ TraceInv' /\ DeathInv'
    BY DEF SiInv, Owed, TraceInv, DeathInv
  <2>. QED  BY <2>1, <2>2, <2>3
<1>6. CASE UNCHANGED vars
  <2>1. PoolInv'
    BY <1>6 DEF vars, poolVars, PoolInv, TypePool, Partition, UsedHaveText
  <2>. QED  BY <1>5, <1>6, <2>1 DEF vars
<1>7. ASSUME NEW e \in Exps, cmd_w(e)  PROVE IInv'
  <2>1. Die("new_wp") \/ Die("assert") \/ Die("stack") => IInv'
    BY <1>0, DieInv
  <2>2. ASSUME NEW readable \in BOOLEAN, New(e, Shown(env[e], readable).val),
               UNCHANGED <<ctlVars, runVars, logVars, guestVars>>
        PROVE  IInv'
    <3>1. Shown(env[e], readable).val \in Vals
      BY ShownVal DEF TypeOK
    <3>2. PoolInv'
      BY <2>2, <3>1, NewPool
    <3>. QED  BY <1>5, <2>2, <3>2
  <2>. QED  BY <1>7, <2>1, <2>2 DEF cmd_w
<1>8. ASSUME NEW e \in Exps, cmd_p(e)  PROVE IInv'
  <2>1. CASE Die("assert")
    BY <1>0, <2>1, DieInv
  <2>. QED  BY <1>6, <1>8, <2>1 DEF cmd_p
<1>9. ASSUME NEW num \in -1 .. NR_WP, cmd_d(num)  PROVE IInv'
  <2>1. CASE used = <<>> /\ Die("delete_wp")
    BY <1>0, <2>1, DieInv
  <2>2. CASE Delete(num) /\ UNCHANGED <<ctlVars, runVars, logVars, guestVars>>
    <3>1. PoolInv'
      BY <2>2, DeletePool
    <3>. QED  BY <1>5, <2>2, <3>1
  <2>. QED  BY <1>6, <1>9, <2>1, <2>2 DEF cmd_d
<1>10. CASE MissingArgument
  BY <1>0, <1>10, DieInv DEF MissingArgument
<1>. QED  BY <1>2, <1>3, <1>4, <1>7, <1>8, <1>9, <1>10 DEF Command

(* The steps of cpu_exec that leave the pool, the guest and the trace as   *)
(* they are.                                                               *)
LEMMA QuietInv ==
  ASSUME IInv, CommandDone \/ Refuse \/ Enter \/ Return
  PROVE  IInv'
<1>. USE DEF IInv
<1>1. UNCHANGED <<poolVars, batch, n, asked, ran, cause, halt_ret, logVars, env>>
      /\ clean' \in {clean, TRUE}
  BY DEF CommandDone, Refuse, Enter, Return, runVars, guestVars
<1>2. PoolInv'
  BY <1>1 DEF poolVars, PoolInv, TypePool, Partition, UsedHaveText
<1>3. calls \in 0 .. MaxSi /\ MaxSi \in Nat
  BY MonitorAssumption DEF TypeOK
<1>4. TypeOK' /\ RunningInCpuExec' /\ VerdictInv'
  <2>1. CASE CommandDone
    BY <1>1, <1>2, <2>1
       DEF CommandDone, TypeOK, PoolInv, RunningInCpuExec, VerdictInv, runVars, logVars, guestVars
  <2>2. CASE Refuse
    BY <1>1, <1>2, <1>3, <2>2
       DEF Refuse, TypeOK, PoolInv, RunningInCpuExec, VerdictInv, runVars, logVars, guestVars
  <2>3. CASE Enter
    BY <1>1, <1>2, <2>3
       DEF Enter, TypeOK, PoolInv, RunningInCpuExec, VerdictInv, Ended, logVars, guestVars
  <2>4. CASE Return
    <3>1. calls' \in 0 .. MaxSi
      BY <1>3, <2>4 DEF Return, SiInv
    <3>2. TypeOK'
      BY <1>1, <1>2, <2>4, <3>1 DEF Return, TypeOK, PoolInv, Ended, logVars, guestVars
    <3>3. RunningInCpuExec' /\ VerdictInv'
      BY <2>4 DEF Return, RunningInCpuExec, VerdictInv, Ended, TypeOK
    <3>. QED  BY <3>2, <3>3
  <2>. QED  BY <2>1, <2>2, <2>3, <2>4
<1>5. SiInv'
  <2>. USE <1>1, <1>3
  <2>0. ran \in 0 .. MaxSi /\ asked \in 0 .. MaxSi
    BY DEF TypeOK
  <2>1. CASE CommandDone
    BY <2>1 DEF CommandDone, SiInv, Owed, runVars
  <2>2. CASE Refuse
    BY <2>0, <2>2 DEF Refuse, SiInv, Owed, runVars, VerdictInv
  <2>3. CASE Enter
    BY <2>0, <2>3 DEF Enter, SiInv, Owed
  <2>4. CASE Return
    <3>1. verdict' = "none" => verdict = "none"
      BY <2>4 DEF Return, VerdictInv
    <3>. QED  BY <2>0, <2>4, <3>1 DEF Return, SiInv, Owed
  <2>. QED  BY <2>1, <2>2, <2>3, <2>4
<1>6. TraceInv'
  BY <1>1 DEF CommandDone, Refuse, Enter, Return, TraceInv, logVars, TypeOK
<1>7. DeathInv'
  BY <1>1 DEF CommandDone, Refuse, Enter, Return, DeathInv, poolVars
<1>. QED  BY <1>2, <1>4, <1>5, <1>6, <1>7

(* An instruction.                                                         *)
LEMMA ExecInv == ASSUME IInv, Exec PROVE IInv'
<1>. USE DEF IInv
<1>1. PoolInv'
  BY DEF Exec, poolVars, PoolInv, TypePool, Partition, UsedHaveText
<1>2. /\ ran \in 0 .. MaxSi /\ asked \in 0 .. MaxSi /\ calls \in 0 .. MaxSi
      /\ bytebuf \in 0 .. BUF + 1 /\ g_nr \in 0 .. LOG_MAX + 1
      /\ MaxLen \in Nat /\ BUF \in Nat /\ MaxSi \in Nat /\ LOG_MAX \in Nat
  BY MonitorAssumption DEF TypeOK
<1>3. SiInv' /\ ran' \in 0 .. MaxSi
  <2>1. CASE n = "forever"
    BY <1>2, <2>1 DEF Exec, SiInv, Owed
  <2>2. CASE n = "once"
    BY <1>2, <2>2 DEF Exec, SiInv, Owed
  <2>. QED  BY <2>1, <2>2 DEF TypeOK
<1>4. bytebuf' \in 0 .. BUF + 1 /\ TraceInv'
  <2>1. PICK len \in 1 .. MaxLen : bytebuf' = AtMost(BUF + 1, bytebuf + len)
    BY DEF Exec
  <2>2. g_nr' = g_nr /\ phase = "exec" /\ phase' = "post"
    BY DEF Exec
  <2>. QED  BY <1>2, <2>1, <2>2 DEF AtMost, TraceInv
<1>5. TypeOK'
  BY <1>1, <1>3, <1>4 DEF Exec, TypeOK, PoolInv, Ended
<1>6. RunningInCpuExec' /\ VerdictInv' /\ DeathInv'
  BY DEF Exec, RunningInCpuExec, VerdictInv, DeathInv, Ended, poolVars
<1>. QED  BY <1>1, <1>3, <1>4, <1>5, <1>6

(* What follows it.                                                        *)
LEMMA PostInv == ASSUME IInv, Post PROVE IInv'
<1>. USE DEF IInv
<1>1. PICK r \in ReadingsNow(env) : Check(r, clean')
  BY DEF Post
<1>2. PoolInv' /\ UNCHANGED <<used, free>> /\ flag' \in BOOLEAN
  BY <1>1, CheckPool DEF Check
<1>3. /\ bytebuf \in 0 .. BUF + 1 /\ g_nr \in 0 .. LOG_MAX + 1
      /\ MaxLen \in Nat /\ BUF \in Nat /\ LOG_MAX \in Nat
  BY MonitorAssumption DEF TypeOK
<1>4. /\ g_nr' \in 0 .. LOG_MAX + 1 /\ bytebuf' \in 0 .. BUF + 1
      /\ TraceInv'
  BY <1>3 DEF Post, TraceLeft, AtMost, TraceInv
<1>5. state' \in {"STOP", state} /\ phase' \in {"exec", "ret"}
  BY DEF Post
<1>6. phase' = "exec" => state' = "RUNNING" /\ n = "forever"
  BY DEF Post, LoopGoesOn
<1>7. TypeOK'
  BY <1>2, <1>4, <1>5 DEF Post, TypeOK, PoolInv, Ended
<1>8. RunningInCpuExec' /\ VerdictInv'
  BY <1>5, <1>6 DEF Post, RunningInCpuExec, VerdictInv, Ended
<1>9. SiInv'
  BY <1>5, <1>6 DEF Post, SiInv, Owed
<1>10. DeathInv'
  BY <1>2 DEF Post, DeathInv
<1>. QED  BY <1>2, <1>4, <1>7, <1>8, <1>9, <1>10

LEMMA NextInv == IInv /\ [Next]_vars => IInv'
<1>. SUFFICES ASSUME IInv, [Next]_vars  PROVE IInv'
  OBVIOUS
<1>1. CASE UNCHANGED vars
  BY <1>1 DEF vars, poolVars, ctlVars, runVars, logVars, guestVars, IInv, TypeOK, PoolInv, TypePool,
              Partition, UsedHaveText, RunningInCpuExec, SiInv, Owed, TraceInv,
              VerdictInv, DeathInv
<1>2. CASE ExecFault \/ PostFault
  BY <1>2, DieInv DEF ExecFault, PostFault
<1>3. CASE PostNoWatch
  BY <1>3, DieInv DEF PostNoWatch
<1>. QED  BY <1>1, <1>2, <1>3, CommandInv, QuietInv, ExecInv, PostInv DEF Next, Internal

LEMMA Invariance == Spec => []IInv
  BY InitInv, NextInv, PTL DEF Spec

-----------------------------------------------------------------------------
(* Theorems.                                                               *)

(* Every variable of the debugger keeps its type; in particular the count  *)
(* of `si' never leaves 0 .. N.                                            *)
THEOREM TypeCorrect == Spec => []TypeOK
<1>1. IInv => TypeOK
  BY DEF IInv
<1>. QED  BY Invariance, <1>1, PTL

(* The machine is marked running only inside cpu_exec.                     *)
THEOREM RunningCorrect == Spec => []RunningInCpuExec
<1>1. IInv => RunningInCpuExec
  BY DEF IInv
<1>. QED  BY Invariance, <1>1, PTL

(* `si N' executes exactly N instructions before it prompts again, or the  *)
(* guest's end has been reported.                                          *)
THEOREM SiCorrect == Spec => []SiCount
<1>1. IInv => SiCount
  <2>. SUFFICES ASSUME IInv, phase = "prompt", verdict = "none"  PROVE ran = asked
    BY DEF SiCount
  <2>1. calls = 0 /\ Owed = 0 /\ n \in {"once", "forever"}
    BY DEF IInv, SiInv, TypeOK, Owed
  <2>2. CASE n = "once"
    <3>1. ran + calls = asked + Owed
      BY <2>2 DEF IInv, SiInv
    <3>. QED  BY <2>1, <3>1 DEF IInv, TypeOK
  <2>3. CASE n = "forever"
    BY <2>3 DEF IInv, SiInv
  <2>. QED  BY <2>1, <2>2, <2>3
<1>. QED  BY Invariance, <1>1, PTL

(* The trace buffer holds one instruction at most while instructions are   *)
(* traced, so it does not overflow before the limit.                       *)
THEOREM TraceCorrect == Spec => []TraceFits
<1>1. IInv => TraceFits
  BY MonitorAssumption DEF IInv, TypeOK, TraceInv, TraceFits
<1>. QED  BY Invariance, <1>1, PTL

(* The commands keep the pool partitioned, and every watchpoint in use has *)
(* a text to evaluate.                                                     *)
THEOREM PoolCorrect == Spec => [](Partition /\ UsedHaveText)
<1>1. IInv => Partition /\ UsedHaveText
  BY DEF IInv, PoolInv
<1>. QED  BY Invariance, <1>1, PTL

(* Once cpu_exec has reported the end of the guest, no command runs the    *)
(* guest again or changes the report.                                      *)
THEOREM VerdictCorrect == Spec => VerdictIsFinal
<1>1. IInv /\ [Next]_vars => [verdict # "none" =>
                                UNCHANGED <<verdict, state, halt_ret, g_nr, env>>]_vars
  <2>. SUFFICES ASSUME IInv, Next, verdict # "none"
                PROVE  UNCHANGED <<verdict, state, halt_ret, g_nr, env>>
    OBVIOUS
  <2>1. state \in Ended /\ phase \in {"prompt", "call", "exited", "dead"}
    BY DEF IInv, VerdictInv
  <2>2. CASE Command
    BY <2>2 DEF Command, cmd_c, cmd_si, Run, Leave, cmd_w, cmd_p, cmd_d, MissingArgument,
                Die, vars, runVars, logVars, guestVars
  <2>3. CASE Internal
    BY <2>1, <2>3 DEF Internal, CommandDone, Refuse, Enter, Exec, ExecFault, Post,
                      PostNoWatch, PostFault, Return, runVars, logVars, guestVars
  <2>. QED  BY <2>2, <2>3 DEF Next
<1>. QED  BY Invariance, <1>1, PTL DEF Spec, VerdictIsFinal

(* What Post has found in the outcome of a compared watchpoint whose text  *)
(* has not been cut: its reading with registers handed out, or with none.  *)
LEMMA SeenIs ==
  ASSUME IInv, NEW r \in ReadingsNow(env), NEW c \in BOOLEAN, NEW i \in Compared, ~ Cut(i)
  PROVE  /\ Seen(r, c, i).val # value[used[i]] <=> Differs(i, Readable(r, c, i))
         /\ c /\ EarlierRead(i) => Readable(r, c, i)
         /\ c /\ (\A j \in 1 .. i - 1 : ~ Cut(j)) /\ Readable(r, c, i) => EarlierRead(i)
<1>1. \A j \in Compared : ~ Cut(j) => r[j] = env[exp[used[j]]]
  BY DEF ReadingsNow, Cut
<1>2. \A j \in 1 .. i - 1 : j \in Compared
  BY DEF Compared, IInv, PoolInv, TypePool
<1>. QED  BY <1>1, <1>2 DEF Seen, Shown, Differs, Readable, EarlierRead

(* The machine is stopped if and only if one of the compared watchpoints   *)
(* differs as check() reads it.                                            *)
LEMMA PostFinds ==
  ASSUME IInv, Post
  PROVE  /\ state' = "STOP" =>
              \E i \in Compared :
                 Cut(i) \/ Differs(i, TRUE) \/ (Differs(i, FALSE) /\ ~ (clean' /\ EarlierRead(i)))
         /\ state' # "STOP" => \A i \in Compared : ~ Plain(i, clean')
<1>1. PICK r \in ReadingsNow(env) : Check(r, clean')
  BY DEF Post
<1>2. clean' \in BOOLEAN
  BY DEF Post
<1>3. flag' = \E i \in Compared : Seen(r, clean', i).val # value[used[i]]
  BY <1>1 DEF Check
<1>4. state # "STOP" /\ state' = IF flag' THEN "STOP" ELSE state
  BY DEF Post, IInv, VerdictInv
<1>5. \A i \in Compared : Readable(r, clean', i) \in BOOLEAN
  BY DEF Readable
<1>6. ASSUME NEW i \in Compared, Seen(r, clean', i).val # value[used[i]], ~ Cut(i)
      PROVE  Differs(i, TRUE) \/ (Differs(i, FALSE) /\ ~ (clean' /\ EarlierRead(i)))
  BY <1>2, <1>5, <1>6, SeenIs
<1>7. ASSUME NEW i \in Compared, Plain(i, clean')
      PROVE  Seen(r, clean', i).val # value[used[i]]
  BY <1>2, <1>5, <1>7, SeenIs DEF Plain, Differs
<1>. QED  BY <1>3, <1>4, <1>6, <1>7

(* `c' pauses a running guest only because a compared watchpoint differs,  *)
(* its registers read as 0 where check() reads them so.                    *)
THEOREM ContinueCorrect == Spec => []ContinueStopsForReason
<1>1. Init => ContinueStopsForReason
  BY DEF Init, ContinueStopsForReason
<1>2. IInv /\ ContinueStopsForReason /\ [Next]_vars => ContinueStopsForReason'
  <2>. SUFFICES ASSUME IInv, ContinueStopsForReason, [Next]_vars  PROVE ContinueStopsForReason'
    OBVIOUS
  <2>1. CASE Post
    <3>1. UNCHANGED <<used, exp, value, env>>
      BY <2>1 DEF Post, Check
    <3>2. /\ Compared' = Compared
          /\ \A i : (Cut(i)' <=> Cut(i)) /\ (EarlierRead(i)' <=> EarlierRead(i))
          /\ \A i : (Differs(i, TRUE)' <=> Differs(i, TRUE)) /\ (Differs(i, FALSE)' <=> Differs(i, FALSE))
      BY <3>1 DEF Compared, Cut, Differs, EarlierRead
    <3>. QED  BY <2>1, <3>2, PostFinds DEF ContinueStopsForReason
  <2>2. CASE UNCHANGED vars
    BY <2>2 DEF vars, poolVars, ctlVars, runVars, guestVars, ContinueStopsForReason, Differs,
                Compared, Cut, EarlierRead
  <2>3. ASSUME phase' # "ret"  PROVE ContinueStopsForReason'
    BY <2>3 DEF ContinueStopsForReason
  <2>4. CASE Command
    <3>1. phase = "prompt"
      BY <2>4 DEF Command
    <3>2. phase' # "ret" \/ UNCHANGED phase
      BY <2>4 DEF Command, cmd_c, cmd_si, Run, Leave, cmd_w, cmd_p, cmd_d, MissingArgument,
                  Die, ctlVars, vars
    <3>. QED  BY <2>3, <3>1, <3>2
  <2>5. CASE CommandDone \/ Refuse \/ Enter \/ Return
    BY <2>3, <2>5 DEF CommandDone, Refuse, Enter, Return
  <2>6. CASE Exec \/ ExecFault \/ PostNoWatch \/ PostFault
    BY <2>3, <2>6 DEF Exec, ExecFault, PostNoWatch, PostFault, Die
  <2>. QED  BY <2>1, <2>2, <2>4, <2>5, <2>6 DEF Next, Internal
<1>. QED  BY Invariance, <1>1, <1>2, PTL DEF Spec

(* An instruction after which a compared watchpoint differs, in a way that *)
(* check() cannot overlook, is the last one of this call of cpu_exec.      *)
THEOREM WatchCorrect == Spec => WatchStopsLoop
<1>1. IInv /\ [Next]_vars => [phase = "post" /\ phase' = "exec" => \A i \in Compared : ~ Plain(i, clean')]_vars
  <2>. SUFFICES ASSUME IInv, Next, phase = "post", phase' = "exec"
       PROVE  \A i \in Compared : ~ Plain(i, clean')
    OBVIOUS
  <2>1. Post
    BY DEF Next, Internal, Command, CommandDone, Refuse, Enter, Exec, ExecFault, PostNoWatch,
           PostFault, Return, Die
  <2>2. state' # "STOP"
    BY <2>1 DEF Post, LoopGoesOn
  <2>. QED  BY <2>1, <2>2, PostFinds
<1>. QED  BY Invariance, <1>1, PTL DEF Spec, WatchStopsLoop
=============================================================================
