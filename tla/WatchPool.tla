------------------------------ MODULE WatchPool ------------------------------
(***************************************************************************)
(* What the debugger's watchpoint pool promises, with the two linked lists *)
(* of nemu/src/monitor/debug/watchpoint.c seen as sequences of node        *)
(* numbers: `used' is the list that starts at head, `free' the list that   *)
(* starts at free_.  WatchList is the pointer program that implements this *)
(* module; Monitor extends it with the command loop and cpu_exec.          *)
(***************************************************************************)
EXTENDS Outcome, SequencesExt

CONSTANTS NR_WP,  \* number of nodes of wp_pool
          Exps,   \* texts a user may give to `w'
          LongExps, \* those of LEN_WP_NAME characters or more
          NoExp,  \* the empty text init_wp_pool stores
          Unterminated  \* what strncpy leaves of a text in LongExps: no final NUL

ASSUME PoolAssumption ==
  /\ NR_WP \in Nat \ {0}
  /\ LongExps \subseteq Exps
  /\ NoExp \notin Exps
  /\ Unterminated \notin Exps \cup {NoExp}

VARIABLES used,   \* nodes in use, in the order check() visits them
          free,   \* free nodes, in the order new_wp takes them
          exp,    \* text stored in each node
          value,  \* value stored in each node
          flag    \* what the last call of check() returned

poolVars == <<used, free, exp, value, flag>>

Wp == 0 .. NR_WP - 1

Texts == (Exps \ LongExps) \cup {NoExp, Unterminated}

(* strncpy(p->exp, args, LEN_WP_NAME).                                     *)
Stored(e) == IF e \in LongExps THEN Unterminated ELSE e

InitPool ==
  /\ used = <<>>
  /\ free = [i \in 1 .. NR_WP |-> i - 1]
  /\ exp = [p \in Wp |-> NoExp]
  /\ value = [p \in Wp |-> 0]
  /\ flag = FALSE

(* new_wp: the first free node goes to the end of the list in use, and the *)
(* value v that expr() has just returned becomes its baseline, even where  *)
(* the evaluation has failed.                                              *)
New(e, v) ==
  /\ free # <<>>
  /\ used' = Append(used, Head(free))
  /\ free' = Tail(free)
  /\ exp' = [exp EXCEPT ![Head(free)] = Stored(e)]
  /\ value' = [value EXCEPT ![Head(free)] = v]
  /\ UNCHANGED flag

(* delete_wp for a number that is in use: the node leaves its list and     *)
(* free_wp puts it at the end of the free one, its text and value kept.    *)
Delete(num) ==
  \E i \in 1 .. Len(used) :
     /\ used[i] = num
     /\ used' = RemoveAt(used, i)
     /\ free' = Append(free, num)
     /\ UNCHANGED <<exp, value, flag>>

(* delete_wp for a number that is not in use: a message only.              *)
DeleteUnknown(num) ==
  /\ num \notin ToSet(used)
  /\ UNCHANGED poolVars

(* What check() compares: it stops at the node whose next is NULL, so the  *)
(* last watchpoint of the list is never evaluated.                         *)
Compared == 1 .. Len(used) - 1

(* What the compared texts may give when cur tells it of every text a user *)
(* may have typed; one with no end is read on into the bytes behind it.    *)
ReadingsNow(cur) ==
  {r \in [Compared -> Readings] :
     \A i \in Compared : exp[used[i]] # Unterminated => r[i] = cur[exp[used[i]]]}

(* Bug of Check: each comparison overwrites the result of those before.    *)
CheckLastOnly(r, clean) ==
  /\ flag' = \E i \in Compared : i = Len(used) - 1 /\ Seen(r, clean, i).val # value[used[i]]
  /\ UNCHANGED <<used, free, exp, value>>

(* Bug of Check: `flag' is static and not reset.                           *)
CheckSticky(r, clean) ==
  /\ flag' = (flag \/ \E i \in Compared : Seen(r, clean, i).val # value[used[i]])
  /\ UNCHANGED <<used, free, exp, value>>

(* check(): does one of the compared watchpoints differ from its baseline? *)
Check(r, clean) ==
  /\ flag' = \E i \in Compared : Seen(r, clean, i).val # value[used[i]]
  /\ UNCHANGED <<used, free, exp, value>>

NextPool ==
  \/ \E e \in Exps, v \in Vals : New(e, v)
  \/ \E num \in Wp : Delete(num)
  \/ \E cur \in [Exps -> Readings], clean \in BOOLEAN :
        used # <<>> /\ \E r \in ReadingsNow(cur) : Check(r, clean)

SpecPool == InitPool /\ [][NextPool]_poolVars

-----------------------------------------------------------------------------
(* Type invariant of the pool's variables.                                 *)
TypePool ==
  /\ used \in Seq(Wp)
  /\ free \in Seq(Wp)
  /\ exp \in [Wp -> Texts]
  /\ value \in [Wp -> Vals]
  /\ flag \in BOOLEAN

(* Every node is in exactly one of the two lists, exactly once: no node is *)
(* leaked by a deletion and none is handed out twice (new_wp, delete_wp    *)
(* and free_wp of watchpoint.c).                                           *)
Partition ==
  /\ Len(used) + Len(free) = NR_WP
  /\ IsInjective(used \o free)

(* A node in use carries a text some `w' command stored, never the empty   *)
(* one of init_wp_pool, which check() could not evaluate.                  *)
UsedHaveText == \A i \in 1 .. Len(used) : exp[used[i]] # NoExp
=============================================================================
