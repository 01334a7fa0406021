----------------------------- MODULE DiffTest_proof -----------------------------
(***************************************************************************)
(* Proofs about DiffTest, for programs of any length: in both modes of     *)
(* difftest_step the two machines end up at the same instruction, with the *)
(* same memory, and with the same registers once these were compared.      *)
(***************************************************************************)
EXTENDS DiffTest, FiniteSetTheorems, TLAPS

-----------------------------------------------------------------------------
(* The stores among the first n instructions of the program.               *)
StoresBefore(n) == {k \in 0 .. n - 1 : prog[k] = "store"}
Stores(n) == Cardinality(StoresBefore(n))

LEMMA NoStores == Stores(0) = 0
<1>1. StoresBefore(0) = {}
  BY DEF StoresBefore
<1>. QED  BY <1>1, FS_EmptySet DEF Stores

LEMMA StoresNext ==
  ASSUME NEW n \in Nat
  PROVE  Stores(n + 1) = Stores(n) + (IF prog[n] = "store" THEN 1 ELSE 0) /\ Stores(n) \in Nat
<1>1. IsFiniteSet(StoresBefore(n)) /\ n \notin StoresBefore(n)
  <2>1. IsFiniteSet(0 .. n - 1)
    BY FS_Interval
  <2>2. StoresBefore(n) \subseteq 0 .. n - 1
    BY DEF StoresBefore
  <2>3. n \notin 0 .. n - 1
    OBVIOUS
  <2>. QED  BY <2>1, <2>2, <2>3, FS_Subset
<1>2. Stores(n) \in Nat
  BY <1>1, FS_CardinalityType DEF Stores
<1>3. CASE prog[n] = "store"
  <2>1. StoresBefore(n + 1) = StoresBefore(n) \cup {n}
    BY <1>3 DEF StoresBefore
  <2>. QED  BY <1>1, <1>2, <1>3, <2>1, FS_AddElement DEF Stores
<1>4. CASE prog[n] # "store"
  <2>1. StoresBefore(n + 1) = StoresBefore(n)
    BY <1>4 DEF StoresBefore
  <2>. QED  BY <1>2, <1>4, <2>1 DEF Stores
<1>. QED  BY <1>3, <1>4

-----------------------------------------------------------------------------
(* The reference.                                                          *)
Machines == [pc : 0 .. MaxPc, val : Vals, mem : Int]

LEMMA OneInstruction ==
  ASSUME NEW r \in Machines, NEW s \in RefOne(r)
  PROVE  /\ s \in Machines
         /\ r.pc = MaxPc => s = r
         /\ r.pc # MaxPc => s.pc = r.pc + 1
         /\ r.mem = Stores(r.pc) => s.mem = Stores(s.pc)
<1>1. r.pc \in 0 .. MaxPc /\ r.mem \in Int /\ r.val \in Vals /\ MaxPc \in Nat
  BY DiffTestAssumption DEF Machines
<1>2. CASE r.pc = MaxPc
  BY <1>2 DEF RefOne
<1>3. CASE r.pc # MaxPc
  <2>1. PICK v \in Vals :
          s = [pc |-> r.pc + 1, val |-> v, mem |-> r.mem + (IF prog[r.pc] = "store" THEN 1 ELSE 0)]
    BY <1>1, <1>3 DEF RefOne
  <2>2. s.pc = r.pc + 1 /\ s.mem = r.mem + (IF prog[r.pc] = "store" THEN 1 ELSE 0)
    BY <2>1
  <2>3. r.pc + 1 \in 0 .. MaxPc /\ r.mem + (IF prog[r.pc] = "store" THEN 1 ELSE 0) \in Int
    BY <1>1, <1>3
  <2>4. s \in Machines
    BY <2>1, <2>3 DEF Machines
  <2>5. r.mem = Stores(r.pc) => s.mem = Stores(s.pc)
    BY <1>1, <2>2, StoresNext
  <2>. QED  BY <1>3, <2>2, <2>4, <2>5
<1>. QED  BY <1>2, <1>3

-----------------------------------------------------------------------------
(* The inductive invariant: where the reference is before and after the    *)
(* DUT's instruction, that each memory has the stores before the machine's *)
(* pc, and that what was compared is equal.                                *)
Started == phase \notin {"load", "isa", "difftest"}

Typed ==
  /\ dut \in Machines /\ ref \in Machines
  /\ phase \in {"load", "isa", "difftest", "prompt", "exec", "step", "post", "dead"}
  /\ phase \in {"load", "isa", "difftest"} => dut.pc = 0
  /\ phase = "exec" => dut.pc # MaxPc

Ahead ==
  /\ Between => ref.pc = dut.pc
  /\ phase = "step" => dut.pc # 0 /\ ref.pc = dut.pc - 1

Stored ==
  /\ phase \notin {"load", "dead"} => dut.mem = Stores(dut.pc)
  /\ Started /\ phase # "dead" /\ ~ unchecked => ref.mem = Stores(ref.pc)

Compared ==
  Between /\ ~ mismatch => ref.val = dut.val

IInv == Typed /\ Ahead /\ Stored /\ Compared

LEMMA SameStores ==
  ASSUME UNCHANGED prog, NEW n
  PROVE  Stores(n)' = Stores(n)
BY DEF Stores, StoresBefore

LEMMA InitIInv == Init => IInv
<1>. SUFFICES ASSUME Init  PROVE IInv
  OBVIOUS
<1>1. dut \in Machines /\ ref \in Machines /\ dut.pc = 0
  BY DiffTestAssumption DEF Init, Machines
<1>. QED  BY <1>1 DEF Init, IInv, Typed, Ahead, Stored, Compared, Between, Started

(* The steps that leave the machines where they are.                       *)
LEMMA DieIInv ==
  ASSUME IInv, NEW where, Die(where)
  PROVE  IInv'
BY DEF Die, IInv, Typed, Ahead, Stored, Compared, Between, Started, ghosts

LEMMA MachineFields ==
  ASSUME IInv
  PROVE  /\ MaxPc \in Nat
         /\ dut.pc \in 0 .. MaxPc /\ dut.val \in Vals /\ dut.mem \in Int
         /\ ref.pc \in 0 .. MaxPc /\ ref.val \in Vals /\ ref.mem \in Int
         /\ DOMAIN dut = {"pc", "val", "mem"} /\ DOMAIN ref = {"pc", "val", "mem"}
BY DiffTestAssumption DEF IInv, Typed, Machines

LEMMA StartIInv ==
  ASSUME IInv, load_img \/ init_isa \/ init_difftest
  PROVE  IInv'
<1>0. dut \in Machines /\ ref \in Machines
  BY DEF IInv, Typed
<1>1. CASE load_img
  <2>1. CASE Die("img")
    BY <2>1, DieIInv
  <2>2. CASE ~ Die("img")
    <3>1. /\ phase = "load" /\ phase' = "isa" /\ dut' = [dut EXCEPT !.mem = 0]
          /\ UNCHANGED <<prog, ref, cause>>
      BY <1>1, <2>2 DEF load_img
    <3>2. dut.pc = 0
      BY <3>1 DEF IInv, Typed
    <3>3. dut' \in Machines /\ dut'.pc = 0 /\ dut'.mem = 0
      BY <1>0, <3>1, <3>2 DEF Machines
    <3>4. Stores(0)' = 0
      BY <3>1, NoStores, SameStores
    <3>. QED  BY <1>0, <3>1, <3>3, <3>4 DEF IInv, Typed, Ahead, Stored, Compared, Between, Started
  <2>. QED  BY <2>1, <2>2
<1>2. CASE init_isa
  <2>1. PICK v \in Vals : dut' = [dut EXCEPT !.pc = 0, !.val = v]
    BY <1>2 DEF init_isa
  <2>2. /\ phase = "isa" /\ phase' = "difftest"
        /\ UNCHANGED <<prog, ref, cause>>
    BY <1>2 DEF init_isa
  <2>3. dut.pc = 0 /\ dut.mem = Stores(dut.pc)
    BY <2>2 DEF IInv, Typed, Stored
  <2>4. dut' \in Machines /\ dut'.pc = 0 /\ dut'.mem = dut.mem
    <3>1. 0 \in 0 .. MaxPc /\ dut.mem \in Int
      BY MachineFields
    <3>. DEFINE e == [dut EXCEPT !.pc = 0]
    <3>2. e \in Machines /\ e.pc = 0 /\ e.mem = dut.mem
      BY <1>0, <3>1 DEF Machines
    <3>3. dut' = [e EXCEPT !.val = v]
      BY <2>1
    <3>. HIDE DEF e
    <3>. QED  BY <3>2, <3>3 DEF Machines
  <2>5. Stores(0)' = Stores(0)
    BY <2>2, SameStores
  <2>. QED  BY <1>0, <2>2, <2>3, <2>4, <2>5 DEF IInv, Typed, Ahead, Stored, Compared, Between, Started
<1>3. CASE init_difftest
  <2>1. CASE Die("ref_so")
    BY <2>1, DieIInv
  <2>2. CASE ~ Die("ref_so")
    <3>1. /\ phase = "difftest" /\ phase' = "prompt" /\ ref' = dut
          /\ UNCHANGED <<prog, dut, cause>>
      BY <1>3, <2>2 DEF init_difftest
    <3>2. dut.mem = Stores(dut.pc)
      BY <3>1 DEF IInv, Typed, Stored
    <3>3. Stores(dut.pc)' = Stores(dut.pc)
      BY <3>1, SameStores
    <3>. QED  BY <1>0, <3>1, <3>2, <3>3 DEF IInv, Typed, Ahead, Stored, Compared, Between, Started
  <2>. QED  BY <2>1, <2>2
<1>. QED  BY <1>1, <1>2, <1>3

(* The prompt, and the end of an iteration.                                *)
LEMMA PromptIInv ==
  ASSUME IInv, Inspect \/ Run \/ Post
  PROVE  IInv'
<1>1. /\ Between /\ Between' /\ Started /\ Started' /\ phase # "dead" /\ phase' # "dead"
      /\ phase' \in {"prompt", "exec"} /\ (phase' = "exec" => dut.pc < MaxPc)
      /\ UNCHANGED <<prog, dut, ref, unchecked, mismatch, cause>>
  BY DEF Inspect, Run, Post, Between, Started, ghosts
<1>2. MaxPc \in Nat /\ dut.pc \in 0 .. MaxPc
  BY MachineFields
<1>3. Stores(dut.pc)' = Stores(dut.pc) /\ Stores(ref.pc)' = Stores(ref.pc)
  BY <1>1 DEF Stores, StoresBefore
<1>. QED  BY <1>1, <1>2, <1>3 DEF IInv, Typed, Ahead, Stored, Compared, Between, Started

(* An instruction of the DUT.                                              *)
LEMMA ExecIInv == ASSUME IInv, Exec  PROVE IInv'
<1>. DEFINE kind == prog[dut.pc]
<1>1. PICK v \in Vals :
        dut' = [pc |-> dut.pc + 1, val |-> v, mem |-> dut.mem + (IF kind = "store" THEN 1 ELSE 0)]
  BY DEF Exec
<1>2. phase = "exec" /\ phase' = "step" /\ UNCHANGED <<prog, ref, unchecked, mismatch, cause>>
  BY DEF Exec, ghosts
<1>. HIDE DEF kind
<1>3. /\ MaxPc \in Nat /\ dut.pc \in 0 .. MaxPc - 1 /\ dut.mem \in Int
      /\ dut \in Machines /\ ref \in Machines
  BY <1>2, MachineFields DEF IInv, Typed
<1>4. dut' \in Machines /\ dut'.pc = dut.pc + 1
  <2>1. dut.pc + 1 \in 0 .. MaxPc /\ dut.mem + (IF kind = "store" THEN 1 ELSE 0) \in Int
    BY <1>3
  <2>. QED  BY <1>1, <2>1 DEF Machines
<1>5. (dut.mem = Stores(dut.pc))'
  <2>1. dut.mem = Stores(dut.pc)
    BY <1>2 DEF IInv, Stored
  <2>2. dut'.mem = Stores(dut.pc + 1)
    BY <1>1, <1>3, <2>1, StoresNext DEF kind
  <2>. QED  BY <1>2, <1>4, <2>2 DEF Stores, StoresBefore
<1>6. ref.pc = dut.pc /\ (~ unchecked => ref.mem = Stores(ref.pc))
  BY <1>2 DEF IInv, Ahead, Stored, Started, Between
<1>7. Stores(ref.pc)' = Stores(ref.pc)
  BY <1>2 DEF Stores, StoresBefore
<1>8. Typed' /\ Ahead'
  BY <1>2, <1>3, <1>4, <1>6 DEF Typed, Ahead, Between
<1>. QED  BY <1>2, <1>5, <1>6, <1>7, <1>8 DEF IInv, Stored, Compared, Between

(* difftest_step, mode by mode.                                            *)
LEMMA SkipIInv == ASSUME IInv, phase = "step", StepSkip  PROVE IInv'
<1>1. /\ phase' = "post"
      /\ ref' = [ref EXCEPT !.pc = dut.pc, !.val = dut.val]
      /\ unchecked' = (unchecked \/ ~ Skippable)
      /\ UNCHANGED <<prog, dut, cause>>
  BY DEF StepSkip
<1>2. /\ dut \in Machines /\ ref \in Machines /\ MaxPc \in Nat /\ dut.pc \in 0 .. MaxPc
      /\ dut.val \in Vals
  BY MachineFields DEF IInv, Typed
<1>3. ref' \in Machines /\ ref'.pc = dut.pc /\ ref'.val = dut.val /\ ref'.mem = ref.mem
  BY <1>1, <1>2 DEF Machines
<1>4. ref.pc = dut.pc - 1 /\ dut.pc # 0
  BY <1>1, <1>2 DEF IInv, Ahead
<1>5. ~ unchecked' => ref'.mem = Stores(dut.pc)
  <2>1. SUFFICES ASSUME ~ unchecked'  PROVE ref.mem = Stores(dut.pc)
    BY <1>3
  <2>2. ref.mem = Stores(dut.pc - 1)
    BY <1>1, <1>4, <2>1 DEF IInv, Stored, Started
  <2>3. prog[dut.pc - 1] # "store"
    BY <1>1, <2>1 DEF Skippable
  <2>4. dut.pc - 1 \in Nat /\ dut.pc - 1 + 1 = dut.pc
    BY <1>2, <1>4
  <2>5. Stores(dut.pc - 1 + 1) = Stores(dut.pc - 1)
    BY <2>3, <2>4, StoresNext
  <2>. QED  BY <2>2, <2>4, <2>5
<1>6. Stored'
  <2>1. Stores(dut.pc)' = Stores(dut.pc) /\ Stores(ref.pc)' = Stores(dut.pc)
    BY <1>1, <1>3 DEF Stores, StoresBefore
  <2>. QED  BY <1>1, <1>5, <2>1 DEF IInv, Stored, Started
<1>. QED  BY <1>1, <1>2, <1>3, <1>4, <1>6 DEF IInv, Typed, Ahead, Compared, Between

LEMMA CompareIInv == ASSUME IInv, phase = "step", StepCompare  PROVE IInv'
<1>1. /\ phase' = "post" /\ ref' \in RefOne(ref)
      /\ CheckRegs(ref') /\ UNCHANGED <<prog, dut, unchecked, cause>>
  BY DEF StepCompare
<1>2. /\ dut \in Machines /\ ref \in Machines /\ MaxPc \in Nat /\ dut.pc \in 0 .. MaxPc
  BY MachineFields DEF IInv, Typed
<1>3. /\ ref.pc = dut.pc - 1 /\ dut.pc # 0
  BY <1>1, <1>2 DEF IInv, Ahead
<1>4. /\ ref' \in Machines /\ ref'.pc = dut.pc
      /\ ref.mem = Stores(ref.pc) => ref'.mem = Stores(ref'.pc)
  <2>1. /\ ref' \in Machines
        /\ ref.pc # MaxPc => ref'.pc = ref.pc + 1
        /\ ref.mem = Stores(ref.pc) => ref'.mem = Stores(ref'.pc)
    BY <1>1, <1>2, OneInstruction
  <2>. QED  BY <1>2, <1>3, <2>1
<1>5. Stored'
  <2>1. Stores(dut.pc)' = Stores(dut.pc) /\ Stores(ref.pc)' = Stores(ref'.pc)
    BY <1>1 DEF Stores, StoresBefore
  <2>. QED  BY <1>1, <1>4, <2>1 DEF IInv, Stored, Started
<1>6. ~ mismatch' => ref'.val = dut.val
  BY <1>1 DEF CheckRegs
<1>. QED  BY <1>1, <1>2, <1>3, <1>4, <1>5, <1>6 DEF IInv, Typed, Ahead, Compared, Between

LEMMA StepIInv == ASSUME IInv, [Next]_vars  PROVE IInv'
<1>1. CASE load_img \/ init_isa \/ init_difftest
  BY <1>1, StartIInv
<1>2. CASE Inspect \/ Run \/ Post
  BY <1>2, PromptIInv
<1>3. CASE Exec
  BY <1>3, ExecIInv
<1>4. CASE difftest_step
  BY <1>4, SkipIInv, CompareIInv DEF difftest_step
<1>5. CASE UNCHANGED vars
  BY <1>5 DEF vars, ghosts, IInv, Typed, Ahead, Stored, Compared, Between, Started, Stores,
              StoresBefore
<1>. QED  BY <1>1, <1>2, <1>3, <1>4, <1>5 DEF Next

THEOREM Inductive == Spec => []IInv
<1>1. Init => IInv
  BY InitIInv
<1>2. IInv /\ [Next]_vars => IInv'
  BY StepIInv
<1>. QED  BY <1>1, <1>2, PTL DEF Spec

-----------------------------------------------------------------------------
(* Between instructions the reference stands where the guest does, unless  *)
(* they were found to differ, or one was let pass unchecked.               *)
THEOREM InStepCorrect == Spec => []InStep
<1>1. ASSUME IInv  PROVE InStep
  <2>1. SUFFICES ASSUME Between, ~ mismatch, ~ unchecked  PROVE ref = dut
    BY DEF InStep
  <2>2. ref \in Machines /\ dut \in Machines
    BY <1>1 DEF IInv, Typed
  <2>3. ref.pc = dut.pc /\ ref.val = dut.val
    BY <1>1, <2>1, MachineFields DEF IInv, Ahead, Compared
  <2>4. ref.mem = dut.mem
    BY <1>1, <2>1, <2>3 DEF IInv, Stored, Started, Between
  <2>. QED  BY <2>2, <2>3, <2>4 DEF Machines
<1>. QED  BY <1>1, Inductive, PTL

===============================================================================
