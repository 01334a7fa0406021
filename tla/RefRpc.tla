-------------------------------- MODULE RefRpc --------------------------------
(***************************************************************************)
(* What nemu/tools/qemu-diff promises differential testing: a command to   *)
(* the reference machine is performed once, after it is given and before   *)
(* it is answered, and its answer is the one of that performance.  GdbLink *)
(* implements it over a connection with acknowledgements and retries.      *)
(***************************************************************************)
EXTENDS RefMachine

CONSTANT Commands   \* what may be asked of the reference

VARIABLES cur,   \* the command being carried out, or None
          done,  \* it has been performed
          ref,   \* the reference machine
          ans,   \* the answer of the last performance
          got    \* the answer the caller has received

vars == <<cur, done, ref, ans, got>>

Init ==
  /\ cur = None
  /\ done = FALSE
  /\ ref \in Fresh
  /\ ans = None
  /\ got = None

(* gdb_send begins.                                                        *)
Ask ==
  /\ cur = None
  /\ cur' \in Commands
  /\ done' = FALSE
  /\ UNCHANGED <<ref, ans, got>>

Perform ==
  /\ cur # None /\ ~ done
  /\ \E e \in Effect(cur, ref) : ref' = e[1] /\ ans' = e[2]
  /\ done' = TRUE
  /\ UNCHANGED <<cur, got>>

(* gdb_recv returns.                                                       *)
Answer ==
  /\ cur # None /\ done
  /\ got' = ans
  /\ cur' = None
  /\ UNCHANGED <<done, ref, ans>>

(* NEMU ends.                                                              *)
Abandon == cur' = None /\ UNCHANGED <<done, ref, ans, got>>

Next == Ask \/ Perform \/ Answer \/ Abandon

Spec == Init /\ [][Next]_vars
=============================================================================
