------------------------------- MODULE DiffTest -------------------------------
(***************************************************************************)
(* Differential testing on NEMU's side, in a build that defines DIFF_TEST  *)
(* and HAS_IOE: nemu/src/monitor/diff-test/diff-test.c, its start in       *)
(* monitor.c, the callers of its functions and the loop of cpu_exec that   *)
(* calls difftest_step.  DUT is NEMU's guest, REF the reference.           *)
(*                                                                         *)
(* A machine is its pc, what else its registers hold (val), and what its   *)
(* memory holds (mem: -1 before the image is loaded, then the number of    *)
(* stores performed since).  A program is a sequence of kinds of           *)
(* instruction; the DUT may get the registers wrong (a bug of NEMU), and   *)
(* what an access to a device yields differs from machine to machine.      *)
(*                                                                         *)
(* At this commit isa_difftest_checkregs is a stub that returns false.     *)
(* `ported' tells a build in which it compares the registers, as           *)
(* diff-test.c expects, from this one; both are checked.  Nothing at this  *)
(* commit reaches difftest_skip_dut (exec_int is in no opcode table, so    *)
(* `int' is an invalid instruction): skip_dut_nr_instr stays 0, and the    *)
(* branch of difftest_step for skip_dut_nr_instr > 0 is left out.          *)
(***************************************************************************)
EXTENDS Integers

CONSTANTS Vals,    \* values of the registers other than the pc
          MaxPc    \* length of the program (bound)

ASSUME DiffTestAssumption ==
  /\ Vals # {}
  /\ MaxPc \in Nat

VARIABLES phase,    \* load, isa, difftest: init_monitor; prompt, exec, step, post, dead
          prog,     \* kind of the instruction at each pc
          ported,   \* isa_difftest_checkregs is written
          state,    \* nemu_state.state
          dut, ref, \* the two machines
          is_skip_ref,
          unchecked, \* an ordinary instruction has passed without a comparison
          mismatch,  \* isa_difftest_checkregs has returned false
          cause      \* where the process died

ghosts == <<unchecked, mismatch>>
vars == <<phase, prog, ported, state, dut, ref, is_skip_ref, ghosts, cause>>

Kinds == {"alu", "store", "mmio", "trap", "inv"}

Init ==
  /\ phase = "load"
  /\ prog \in [0 .. MaxPc - 1 -> Kinds]
  /\ ported \in BOOLEAN
  /\ state = "STOP"
  /\ dut \in [pc : {0}, val : Vals, mem : {-1}]
  /\ ref \in [pc : {0}, val : Vals, mem : {-1}]
  /\ is_skip_ref = FALSE
  /\ unchecked = FALSE /\ mismatch = FALSE
  /\ cause = "none"

(* A panic or an assertion.                                                *)
Die(where) ==
  /\ phase' = "dead"
  /\ cause' = where
  /\ UNCHANGED <<prog, ported, state, dut, ref, is_skip_ref, ghosts>>

-----------------------------------------------------------------------------
(* init_monitor: load_img, init_isa (its reg_test leaves samples in the    *)
(* registers, restart sets the pc), init_difftest.                         *)
load_img ==
  /\ phase = "load"
  /\ \/ Die("img")
     \/ /\ dut' = [dut EXCEPT !.mem = 0]
        /\ phase' = "isa"
        /\ UNCHANGED <<prog, ported, state, ref, is_skip_ref, ghosts, cause>>

init_isa ==
  /\ phase = "isa"
  /\ \E v \in Vals : dut' = [dut EXCEPT !.pc = 0, !.val = v]
  /\ phase' = "difftest"
  /\ UNCHANGED <<prog, ported, state, ref, is_skip_ref, ghosts, cause>>

(* Bug of init_difftest: the registers are not copied.                     *)
init_difftest_memory ==
  /\ phase = "difftest"
  /\ \/ Die("ref_so")
     \/ /\ ref' = [ref EXCEPT !.mem = dut.mem]
        /\ phase' = "prompt"
        /\ UNCHANGED <<prog, ported, state, dut, is_skip_ref, ghosts, cause>>

(* Without the library or one of its functions an assertion fails;         *)
(* otherwise the image and the registers are copied to the reference.      *)
init_difftest ==
  /\ phase = "difftest"
  /\ \/ Die("ref_so")
     \/ /\ ref' = dut
        /\ phase' = "prompt"
        /\ UNCHANGED <<prog, ported, state, dut, is_skip_ref, ghosts, cause>>

-----------------------------------------------------------------------------
(* The user.  `p', `x' and `w' may read a device, and find_mapid_by_addr   *)
(* calls difftest_skip_ref whoever reads; `si' and `c' call cpu_exec.      *)
Inspect ==
  /\ phase = "prompt"
  /\ is_skip_ref' = TRUE
  /\ UNCHANGED <<phase, prog, ported, state, dut, ref, ghosts, cause>>

Run ==
  /\ phase = "prompt"
  /\ state \notin {"END", "ABORT"}
  /\ dut.pc < MaxPc
  /\ state' = "RUNNING"
  /\ phase' = "exec"
  /\ UNCHANGED <<prog, ported, dut, ref, is_skip_ref, ghosts, cause>>

(* The reference executes the instruction at its pc.                       *)
RefOne(r) ==
  IF r.pc = MaxPc THEN {r}
  ELSE {[pc |-> r.pc + 1, val |-> v, mem |-> r.mem + (IF prog[r.pc] = "store" THEN 1 ELSE 0)] :
          v \in IF prog[r.pc] = "mmio" THEN Vals ELSE {r.val}}

(* exec_once.  An access to a device calls difftest_skip_ref through       *)
(* find_mapid_by_addr, nemu_trap calls it itself; the trap and an invalid  *)
(* instruction report the guest's end.                                     *)
Exec ==
  /\ phase = "exec"
  /\ LET kind == prog[dut.pc]
     IN  /\ \E v \in Vals :
              /\ kind \in {"trap", "inv"} => v = dut.val
              /\ dut' = [pc |-> dut.pc + 1, val |-> v,
                         mem |-> dut.mem + (IF kind = "store" THEN 1 ELSE 0)]
         /\ is_skip_ref' = (is_skip_ref \/ kind \in {"mmio", "trap"})
         /\ state' = CASE kind = "trap" -> "END"
                       [] kind = "inv" -> "ABORT"
                       [] OTHER -> state
  /\ phase' = "step"
  /\ UNCHANGED <<prog, ported, ref, ghosts, cause>>

-----------------------------------------------------------------------------
(* difftest_step, in its two modes.                                        *)

(* checkregs, when the reference's registers are those of r.               *)
CheckRegs(r) ==
  LET ok == ported /\ r.pc = dut.pc /\ r.val = dut.val
  IN  /\ state' = IF ok THEN state ELSE "ABORT"
      /\ mismatch' = (mismatch \/ ~ ok)

(* Was the instruction just executed one that may be skipped?              *)
Skippable == prog[dut.pc - 1] \in {"mmio", "trap"}

(* The flag is set: the registers are copied to the reference, unchecked.  *)
StepSkip ==
  /\ is_skip_ref
  /\ ref' = [ref EXCEPT !.pc = dut.pc, !.val = dut.val]
  /\ is_skip_ref' = FALSE
  /\ unchecked' = (unchecked \/ ~ Skippable)
  /\ phase' = "post"
  /\ UNCHANGED <<prog, ported, state, dut, mismatch, cause>>

StepCompare ==
  /\ ~ is_skip_ref
  /\ ref' \in RefOne(ref)
  /\ CheckRegs(ref')
  /\ phase' = "post"
  /\ UNCHANGED <<prog, ported, dut, is_skip_ref, unchecked, cause>>

difftest_step == phase = "step" /\ (StepSkip \/ StepCompare)

(* The rest of the loop.  check() may read a device too, and may stop the  *)
(* guest whatever its state; the loop ends with its count, or when the     *)
(* guest is not running.                                                   *)
Post ==
  /\ phase = "post"
  /\ is_skip_ref' \in {is_skip_ref, TRUE}
  /\ \E st \in {state, "STOP"} :
       \/ st = "RUNNING" /\ state' = st /\ dut.pc < MaxPc /\ phase' = "exec"
       \/ state' = (IF st = "RUNNING" THEN "STOP" ELSE st) /\ phase' = "prompt"
  /\ UNCHANGED <<prog, ported, dut, ref, ghosts, cause>>

Next ==
  \/ load_img \/ init_isa \/ init_difftest
  \/ Inspect \/ Run
  \/ Exec \/ difftest_step \/ Post

Spec == Init /\ [][Next]_vars

-----------------------------------------------------------------------------
Between == phase \in {"prompt", "exec", "post"}

(* Between instructions the reference is exactly where the guest is,       *)
(* memory included, unless the two have been found to differ, or an        *)
(* ordinary instruction was let pass (difftest_step, in both modes).       *)
InStep == Between /\ ~ mismatch /\ ~ unchecked => ref = dut
=============================================================================
