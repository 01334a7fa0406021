------------------------------- MODULE Monitor -------------------------------
(***************************************************************************)
(* The debugger: the command loop of nemu/src/monitor/debug/ui.c, the      *)
(* execution loop of nemu/src/monitor/cpu-exec.c, the state of the machine *)
(* (nemu_state) and the watchpoint pool, in the default build of           *)
(* include/common.h (DEBUG defined, HAS_IOE and DIFF_TEST not).            *)
(*                                                                         *)
(* The program is one thread, so its control is the variable `phase':      *)
(*   prompt   ui_mainloop waits in readline                                *)
(*   call     a command is about to call cpu_exec, `calls' more times      *)
(*   exec     cpu_exec is about to execute an instruction                  *)
(*   post     the instruction is done; trace, watchpoints, loop condition  *)
(*   ret      cpu_exec is past its loop                                    *)
(*   exited   main has returned                                            *)
(*   dead     a panic, an Assert or an invalid pointer ended the process   *)
(* The guest is arbitrary: an instruction may change what every expression *)
(* gives, and may trap, be invalid, or touch memory that is not there.     *)
(***************************************************************************)
EXTENDS WatchPool

CONSTANTS MaxSi,    \* largest argument of `si' (bound)
          LOG_MAX,  \* instructions that are traced
          MaxLen,   \* bytes instr_fetch reads for one instruction
          BUF       \* fetched bytes that log_bytebuf has room for

ASSUME MonitorAssumption ==
  /\ MaxSi \in Nat \ {0}
  /\ LOG_MAX \in Nat
  /\ MaxLen \in Nat \ {0}
  /\ BUF \in Nat

VARIABLES phase,
          batch,      \* is_batch_mode
          state,      \* nemu_state.state
          halt_ret,   \* nemu_state.halt_ret, 0 or not
          verdict,    \* what cpu_exec reported of the guest's end
          n,          \* cpu_exec's argument: 1 ("once") or 2^64 - 1 ("forever")
          calls,      \* calls of cpu_exec the command has still to make
          asked,      \* instructions the last `si' asked for; 0 after `c'
          ran,        \* instructions executed for it so far
          env,        \* what each text gives in the guest's present state
          clean,      \* the bytes behind success in the check() just made were 0
          g_nr,       \* g_nr_guest_instr, exact up to LOG_MAX + 1
          bytebuf,    \* bytes held in log_bytebuf, exact up to BUF + 1
          cause       \* where the process died

ctlVars == <<phase, batch, n, calls, asked, ran, cause>>
runVars == <<state, halt_ret, verdict>>
logVars == <<g_nr, bytebuf>>
guestVars == <<env, clean>>
vars == <<poolVars, ctlVars, runVars, logVars, guestVars>>

(* Bug of Ended: the switch of cpu_exec forgets NEMU_ABORT.                *)
EndedNoAbort == {"END"}

(* The states of a guest that cpu_exec refuses to run.                     *)
Ended == {"END", "ABORT"}
AtMost(bound, m) == IF m <= bound THEN m ELSE bound

Init ==
  /\ InitPool
  /\ batch \in BOOLEAN
  /\ phase = IF batch THEN "call" ELSE "prompt"
  /\ n = "forever"
  /\ calls = IF batch THEN 1 ELSE 0
  /\ asked = 0 /\ ran = 0
  /\ state = "STOP" /\ halt_ret = 0 /\ verdict = "none"
  /\ env \in [Exps -> Readings] /\ clean = TRUE
  /\ g_nr = 0 /\ bytebuf = 0
  /\ cause = "none"

(* The process dies in `where'; nothing is executed afterwards.            *)
Die(where) ==
  /\ phase' = "dead"
  /\ cause' = where
  /\ UNCHANGED <<poolVars, batch, n, calls, asked, ran, runVars, logVars, guestVars>>

-----------------------------------------------------------------------------
(* The commands of ui.c.                                                   *)

(* A command that calls cpu_exec(k) i times.                               *)
Run(k, i) ==
  /\ phase' = "call"
  /\ n' = k
  /\ calls' = i
  /\ ran' = 0
  /\ UNCHANGED <<poolVars, batch, cause, runVars, logVars, guestVars>>

cmd_c == Run("forever", 1) /\ asked' = 0

(* Bug of cmd_si: `j < i' in its loop.                                     *)
cmd_si_short(i) ==
  LET times == IF i = 0 THEN 1 ELSE IF i < 0 THEN 0 ELSE i
  IN  Run("once", IF times = 0 THEN 0 ELSE times - 1) /\ asked' = times

(* `si 0', and an argument that is not a number, count as 1; a negative    *)
(* one runs nothing.                                                       *)
cmd_si(i) ==
  LET times == IF i = 0 THEN 1 ELSE IF i < 0 THEN 0 ELSE i
  IN  Run("once", times) /\ asked' = times

(* `q', the end of the input, and `x' with a count that is not positive:   *)
(* the handler returns -1 or readline NULL, and ui_mainloop returns.       *)
Leave ==
  /\ phase' = "exited"
  /\ UNCHANGED <<poolVars, batch, n, calls, asked, ran, cause, runVars, logVars, guestVars>>

(* new_wp keeps its success on the stack: the four bytes that a failure    *)
(* writes may reach the canary or a saved register ("stack").              *)
cmd_w(e) ==
  \/ free = <<>> /\ Die("new_wp")
  \/ /\ free # <<>>
     /\ \E readable \in BOOLEAN :
          LET outcome == Shown(env[e], readable)
          IN  \/ outcome.dead /\ Die("assert")
              \/ ~ outcome.dead /\ ~ outcome.ok /\ Die("stack")
              \/ /\ ~ outcome.dead
                 /\ New(e, outcome.val)
                 /\ UNCHANGED <<ctlVars, runVars, logVars, guestVars>>

cmd_d(num) ==
  \/ used = <<>> /\ Die("delete_wp")
  \/ /\ Delete(num)
     /\ UNCHANGED <<ctlVars, runVars, logVars, guestVars>>
  \/ used # <<>> /\ DeleteUnknown(num) /\ UNCHANGED vars

(* `p EXPR' and `x N ADDR' read guest memory and change nothing; the       *)
(* success of cmd_p is a block of malloc, which has room for an int.       *)
cmd_p(e) ==
  \E readable \in BOOLEAN :
    \/ Shown(env[e], readable).dead /\ Die("assert")
    \/ ~ Shown(env[e], readable).dead /\ UNCHANGED vars

(* `w', `p' and `x' hand a missing argument on as a NULL pointer (`w' only *)
(* after new_wp has found a free node).                                    *)
MissingArgument == Die("args")

Command ==
  /\ phase = "prompt"
  /\ \/ cmd_c
     \/ \E i \in -1 .. MaxSi : cmd_si(i)
     \/ Leave
     \/ \E e \in Exps : cmd_w(e) \/ cmd_p(e)
     \/ \E num \in -1 .. NR_WP : cmd_d(num)
     \/ MissingArgument

-----------------------------------------------------------------------------
(* cpu_exec.                                                               *)

(* All calls made: back to the command loop, or out of main in batch mode. *)
CommandDone ==
  /\ phase = "call" /\ calls = 0
  /\ phase' = IF batch THEN "exited" ELSE "prompt"
  /\ UNCHANGED <<poolVars, batch, n, calls, asked, ran, cause, runVars, logVars, guestVars>>

(* Bug of Refuse: the loop of `si' makes one call too many.                *)
RefuseOnce ==
  /\ phase = "call"
  /\ state \in Ended
  /\ calls' = calls - 1
  /\ UNCHANGED <<poolVars, phase, batch, n, asked, ran, cause, runVars, logVars, guestVars>>

(* The first switch: a guest that has ended is not run again.              *)
Refuse ==
  /\ phase = "call" /\ calls > 0
  /\ state \in Ended
  /\ calls' = calls - 1
  /\ UNCHANGED <<poolVars, phase, batch, n, asked, ran, cause, runVars, logVars, guestVars>>

Enter ==
  /\ phase = "call" /\ calls > 0
  /\ state \notin Ended
  /\ state' = "RUNNING"
  /\ phase' = "exec"
  /\ UNCHANGED <<poolVars, batch, n, calls, asked, ran, cause, halt_ret, verdict,
                 logVars, guestVars>>

(* exec_once: fetching appends to log_bytebuf, executing may change every  *)
(* expression; nemu_trap and inv report the end through                    *)
(* interpret_rtl_exit.                                                     *)
Exec ==
  /\ phase = "exec"
  /\ phase' = "post"
  /\ env' \in [Exps -> Readings] /\ clean' = TRUE
  /\ \E len \in 1 .. MaxLen : bytebuf' = AtMost(BUF + 1, bytebuf + len)
  /\ \/ UNCHANGED <<state, halt_ret>>
     \/ state' = "END" /\ halt_ret' \in {0, 1}
     \/ state' = "ABORT" /\ halt_ret' = 1
  /\ ran' = IF n = "forever" THEN 0 ELSE ran + 1
  /\ UNCHANGED <<poolVars, batch, n, calls, asked, cause, verdict, g_nr>>

(* A fetch, load or store outside the guest's memory.                      *)
ExecFault == phase = "exec" /\ Die("assert")

(* Bug of TraceLeft: only `si' empties the buffer.                         *)
TraceLeftSi == IF g_nr < LOG_MAX /\ n = "once" THEN 0 ELSE bytebuf

(* asm_print prints the trace of the first LOG_MAX instructions, and       *)
(* empties log_bytebuf.                                                    *)
TraceLeft == IF g_nr < LOG_MAX THEN 0 ELSE bytebuf

(* Bug of LoopGoesOn: the break is missing.                                *)
LoopNoBreak(st) == n = "forever"

(* Does the loop of cpu_exec go on in machine state st?  One of n = 1 has  *)
(* used it up; one of n = 2^64 - 1 never does.                             *)
LoopGoesOn(st) == st = "RUNNING" /\ n = "forever"

(* What follows exec_once in the loop: the trace; check() may stop the     *)
(* machine, whatever state the instruction left it in; the loop's break.   *)
Post ==
  /\ phase = "post"
  /\ used # <<>>
  /\ clean' \in BOOLEAN
  /\ \E r \in ReadingsNow(env) :
        /\ \A i \in Compared : ~ Seen(r, clean', i).dead
        /\ Check(r, clean')
  /\ bytebuf' = TraceLeft
  /\ g_nr' = AtMost(LOG_MAX + 1, g_nr + 1)
  /\ state' = IF flag' THEN "STOP" ELSE state
  /\ phase' = IF LoopGoesOn(state') THEN "exec" ELSE "ret"
  /\ UNCHANGED <<batch, n, calls, asked, ran, cause, halt_ret, verdict, env>>

(* check() with no watchpoint set dereferences the null head.              *)
PostNoWatch == phase = "post" /\ used = <<>> /\ Die("check")

(* check() evaluates an expression that cannot be read any more, or one    *)
(* that fails and damages the stack.                                       *)
PostFault ==
  /\ phase = "post"
  /\ \E r \in ReadingsNow(env), c \in BOOLEAN, i \in Compared :
        \/ Seen(r, c, i).dead /\ Die("assert")
        \/ ~ Seen(r, c, i).ok /\ Die("stack")

(* Bug of Return: the machine stays marked running.                        *)
ReturnRunning ==
  /\ phase = "ret"
  /\ verdict' = IF state = "ABORT" THEN "ABORT"
                ELSE IF state # "END" THEN verdict
                ELSE IF halt_ret = 0 THEN "GOOD" ELSE "BAD"
  /\ calls' = calls - 1
  /\ phase' = "call"
  /\ clean' = TRUE
  /\ UNCHANGED <<poolVars, batch, n, asked, ran, cause, state, halt_ret, logVars, env>>

(* The second switch, and the end of this call of cpu_exec.                *)
Return ==
  /\ phase = "ret"
  /\ state' = IF state = "RUNNING" THEN "STOP" ELSE state
  /\ verdict' = IF state = "ABORT" THEN "ABORT"
                ELSE IF state # "END" THEN verdict
                ELSE IF halt_ret = 0 THEN "GOOD" ELSE "BAD"
  /\ calls' = calls - 1
  /\ phase' = "call"
  /\ clean' = TRUE
  /\ UNCHANGED <<poolVars, batch, n, asked, ran, cause, halt_ret, logVars, env>>

(* The program's own steps, as opposed to the user's.                      *)
Internal ==
  CommandDone \/ Refuse \/ Enter \/ Exec \/ ExecFault \/ Post \/ PostNoWatch
    \/ PostFault \/ Return

Next == Command \/ Internal

Spec == Init /\ [][Next]_vars

(* The thread is scheduled as long as it does not wait for the user.       *)
FairSpec == Spec /\ WF_vars(Internal)

-----------------------------------------------------------------------------
(* Type invariant of the debugger's variables.                             *)
TypeOK ==
  /\ TypePool
  /\ phase \in {"prompt", "call", "exec", "post", "ret", "exited", "dead"}
  /\ batch \in BOOLEAN
  /\ state \in {"STOP", "RUNNING"} \cup Ended
  /\ halt_ret \in {0, 1}
  /\ verdict \in {"none", "GOOD", "BAD", "ABORT"}
  /\ n \in {"once", "forever"}
  /\ calls \in 0 .. MaxSi
  /\ asked \in 0 .. MaxSi
  /\ ran \in 0 .. MaxSi
  /\ env \in [Exps -> Readings]
  /\ clean \in BOOLEAN
  /\ g_nr \in 0 .. LOG_MAX + 1
  /\ bytebuf \in 0 .. BUF + 1
  /\ cause \in {"none", "args", "assert", "stack", "new_wp", "delete_wp", "check"}

(* The machine is marked running only inside cpu_exec, and in its loop     *)
(* only an instruction that has just ended the guest unmarks it: the       *)
(* devices, which drop keys while it is not running, rely on the mark.     *)
RunningInCpuExec ==
  /\ state = "RUNNING" => phase \in {"exec", "post", "ret", "dead"}
  /\ phase = "exec" => state = "RUNNING"

(* A guest whose end has been reported (HIT GOOD TRAP, HIT BAD TRAP,       *)
(* ABORT) is never run again and its report is never revised, whatever     *)
(* the user asks for next (the first switch of cpu_exec).                  *)
VerdictIsFinal ==
  [][verdict # "none" => UNCHANGED <<verdict, state, halt_ret, g_nr, env>>]_vars

(* `si N' ("Step through the program to run N orders and then pause",      *)
(* ui.c:63) executes exactly N instructions before the next prompt, unless *)
(* the guest's end has been reported.                                      *)
SiCount ==
  phase = "prompt" /\ verdict = "none" => ran = asked

(* Of a compared watchpoint whose text strncpy has not cut: its value      *)
(* differs from its baseline, with registers handed out or as 0.           *)
Cut(i) == exp[used[i]] = Unterminated
Differs(i, readable) == ~ Cut(i) /\ Shown(env[exp[used[i]]], readable).val # value[used[i]]

(* Every text before it is read to the end, if the first can be.           *)
EarlierRead(i) == \A j \in 1 .. i - 1 : ~ Cut(j) /\ env[exp[used[j]]].on.ok

(* A difference check() cannot overlook, c telling whether the bytes       *)
(* behind its success are 0.                                               *)
Plain(i, c) == Differs(i, TRUE) /\ (Differs(i, FALSE) \/ (c /\ EarlierRead(i)))

(* Once a watchpoint other than the last differs from its baseline, this   *)
(* call of cpu_exec executes no further instruction: if none before it     *)
(* fails and the bytes behind check()'s success are 0, or if it differs    *)
(* even with its registers read as 0.                                      *)
WatchStopsLoop ==
  [][phase = "post" /\ phase' = "exec" => \A i \in Compared : ~ Plain(i, clean')]_vars

(* `c' pauses a guest that has not ended only for a reason: a watchpoint   *)
(* other than the last one set differs from its baseline at that moment,   *)
(* or has a text that strncpy cut, whose value is anything, or differs     *)
(* with its registers read as 0, which they are only after a text that     *)
(* fails or has been cut, or with something else behind success.           *)
ContinueStopsForReason ==
  phase = "ret" /\ n = "forever" /\ state = "STOP" =>
    \E i \in Compared :
      Cut(i) \/ Differs(i, TRUE) \/ (Differs(i, FALSE) /\ ~ (clean /\ EarlierRead(i)))

(* While instructions are traced, log_bytebuf only has to have room for    *)
(* one of them, because asm_print has emptied it after each before.        *)
TraceFits == MaxLen <= BUF /\ g_nr <= LOG_MAX => bytebuf <= BUF

(* Every `si', and every `c' whose guest ends or changes a compared        *)
(* watchpoint in a way check() cannot overlook, comes back to the prompt   *)
(* or ends the process.                                                    *)
Stopped == phase \in {"prompt", "exited", "dead"}
CommandsReturn ==
  /\ (phase # "prompt" /\ n = "once") ~> Stopped
  /\ (state \in Ended \/ (phase = "post" /\ \E i \in Compared : Plain(i, FALSE))) ~> Stopped

-----------------------------------------------------------------------------
(* What the program says of itself and the code does not keep.             *)

(* "Program execution has ended. To restart the program, exit NEMU and run *)
(* again." (cpu-exec.c:35): once the guest has ended it stays so.          *)
EndIsFinal == [][(state \in Ended) => state' = state]_vars

(* "When the value of EXPR changes, pause the program" (ui.c:67): when a   *)
(* watchpoint's value differs after an instruction, no other is executed   *)
(* first.                                                                  *)
WatchPauses ==
  [][phase = "post" /\ phase' = "exec" => \A i \in 1 .. Len(used) : ~ Differs(i, TRUE)]_vars
=============================================================================
