------------------------------ MODULE WatchList ------------------------------
(***************************************************************************)
(* The watchpoint pool as watchpoint.c implements it: an array of NR_WP    *)
(* nodes linked through `next' into the list of nodes in use (head) and    *)
(* the list of free ones (free_).  Each action is one call of a function   *)
(* of the file; the debugger is single-threaded, so a call is one step.    *)
(* A panic(), the dereference of a NULL pointer, an Assert under expr()    *)
(* and a damaged stack end the process.                                    *)
(***************************************************************************)
EXTENDS Outcome, SequencesExt

CONSTANTS NR_WP, Exps, LongExps, NoExp, Unterminated,  \* as in WatchPool
          NULL    \* the null pointer

ASSUME ListAssumption ==
  /\ NR_WP \in Nat \ {0}
  /\ LongExps \subseteq Exps
  /\ NoExp \notin Exps
  /\ Unterminated \notin Exps \cup {NoExp}
  /\ NULL \notin 0 .. NR_WP - 1

VARIABLES head, free_, next, exp, value,
          flag,   \* what the last call of check() returned
          proc    \* the NEMU process: "run", or the function it died in

vars == <<head, free_, next, exp, value, flag, proc>>

Wp == 0 .. NR_WP - 1

Num == -1 .. NR_WP   \* numbers a user may give to `d': the pool's and one on each side

-----------------------------------------------------------------------------
(* Following next from a node.                                             *)

(* s is the list that starts at pointer h when the links are nx.           *)
IsChain(nx, s, h) ==
  /\ h = IF s = <<>> THEN NULL ELSE s[1]
  /\ \A i \in 1 .. Len(s) : nx[s[i]] = IF i = Len(s) THEN NULL ELSE s[i + 1]

(* The nodes are split into the list s from h and the list t from f: every *)
(* node is on one of them, once.                                           *)
IsSplit(nx, h, f, s, t) ==
  /\ IsChain(nx, s, h)
  /\ IsChain(nx, t, f)
  /\ Len(s) + Len(t) = NR_WP
  /\ IsInjective(s \o t)

(* The list that starts at h, walked up to the node whose link is NULL.    *)
ListOf(nx, h) == CHOOSE s \in SeqOf(Wp, NR_WP) : IsChain(nx, s, h)

(* strncpy(p->exp, args, LEN_WP_NAME): no final NUL after a long text.     *)
Stored(e) == IF e \in LongExps THEN Unterminated ELSE e

-----------------------------------------------------------------------------
(* Bug of InitLinks: the last node keeps the address behind the array.     *)
InitLinksOpen == [p \in Wp |-> p + 1]

(* The links after init_wp_pool.                                           *)
InitLinks == [p \in Wp |-> IF p = NR_WP - 1 THEN NULL ELSE p + 1]

Init ==
  /\ head = NULL
  /\ free_ = 0
  /\ next = InitLinks
  /\ exp = [p \in Wp |-> NoExp]
  /\ value = [p \in Wp |-> 0]
  /\ flag = FALSE
  /\ proc = "run"

Die(how) ==
  /\ proc' = how
  /\ UNCHANGED <<head, free_, next, exp, value, flag>>

(* Bug of LinkLast: p keeps its old link.                                  *)
LinkLastKeep(nx, h, p) ==
  IF h = NULL THEN nx ELSE [nx EXCEPT ![Last(ListOf(nx, h))] = p]

(* next after `p->next = NULL' and, when the list at h is not empty,       *)
(* linking p behind its last node.                                         *)
LinkLast(nx, h, p) ==
  IF h = NULL THEN [nx EXCEPT ![p] = NULL]
              ELSE [nx EXCEPT ![p] = NULL, ![Last(ListOf(nx, h))] = p]

(* Bug of new_wp: the node is put in front of the list.                    *)
new_wp_front(e, v) ==
  /\ free_ # NULL
  /\ free_' = next[free_]
  /\ head' = free_
  /\ next' = [next EXCEPT ![free_] = head]
  /\ exp' = [exp EXCEPT ![free_] = Stored(e)]
  /\ value' = [value EXCEPT ![free_] = v]
  /\ UNCHANGED <<flag, proc>>

new_wp(e, v) ==
  /\ free_ # NULL
  /\ free_' = next[free_]
  /\ head' = IF head = NULL THEN free_ ELSE head
  /\ next' = LinkLast(next, head, free_)
  /\ exp' = [exp EXCEPT ![free_] = Stored(e)]
  /\ value' = [value EXCEPT ![free_] = v]
  /\ UNCHANGED <<flag, proc>>

new_wp_full == free_ = NULL /\ Die("new_wp")

(* Bug of free_wp: an empty free list stays empty.                         *)
free_wp_lost(nx, p) ==
  /\ next' = LinkLast(nx, free_, p)
  /\ UNCHANGED free_

(* free_wp, called with next as delete_wp left it (nx).                    *)
free_wp(nx, p) ==
  /\ next' = LinkLast(nx, free_, p)
  /\ free_' = IF free_ = NULL THEN p ELSE free_

delete_wp_head(num) ==
  /\ head = num
  /\ head' = next[head]
  /\ free_wp(next, num)
  /\ UNCHANGED <<exp, value, flag, proc>>

delete_wp_inner(num) ==
  /\ head # NULL /\ head # num
  /\ \E p \in ToSet(ListOf(next, head)) :
        /\ next[p] = num
        /\ free_wp([next EXCEPT ![p] = next[num]], num)
  /\ UNCHANGED <<head, exp, value, flag, proc>>

delete_wp_unknown(num) ==
  /\ head # NULL
  /\ num \notin ToSet(ListOf(next, head))
  /\ UNCHANGED vars

delete_wp(num) ==
  \/ num \in Wp /\ delete_wp_head(num)
  \/ num \in Wp /\ delete_wp_inner(num)
  \/ delete_wp_unknown(num)

(* `if (p->NO == num)' with p == head == NULL.                             *)
delete_wp_empty(num) == head = NULL /\ Die("delete_wp")

(* Positions of list s that the loop of check() visits.                    *)
Visited(s) == {i \in DOMAIN s : next[s[i]] # NULL}

(* What the visited texts may give when the texts of users have the        *)
(* readings cur; a text without a final NUL is read on behind exp.         *)
ReadingsOf(s, cur) ==
  {r \in [Visited(s) -> Readings] :
     \A i \in Visited(s) : exp[s[i]] # Unterminated => r[i] = cur[exp[s[i]]]}

(* check(): visits the nodes whose next is not NULL, with one success.     *)
check(cur, clean) ==
  /\ head # NULL
  /\ \E r \in ReadingsOf(ListOf(next, head), cur) :
        /\ \A i \in DOMAIN r : ~ Seen(r, clean, i).dead
        /\ flag' = \E i \in DOMAIN r : Seen(r, clean, i).val # value[ListOf(next, head)[i]]
  /\ UNCHANGED <<head, free_, next, exp, value, proc>>

(* An evaluation that ends the process in an Assert, or fails, and writes  *)
(* the four bytes of an int where new_wp and check() keep a bool of one.   *)
Fatal(outcome) == outcome.dead \/ ~ outcome.ok

new_wp_fatal(outcome) == free_ # NULL /\ Fatal(outcome) /\ Die("expr")

check_fatal(cur, clean) ==
  /\ head # NULL
  /\ \E r \in ReadingsOf(ListOf(next, head), cur) :
        \E i \in DOMAIN r : Fatal(Seen(r, clean, i))
  /\ Die("expr")

(* `while (p->next != NULL)' with p == head == NULL.                       *)
check_empty == head = NULL /\ Die("check")

Next ==
  /\ proc = "run"
  /\ \/ \E e \in Exps, reading \in Readings, clean \in BOOLEAN :
           \/ ~ Shown(reading, clean).dead /\ new_wp(e, Shown(reading, clean).val)
           \/ new_wp_fatal(Shown(reading, clean))
     \/ new_wp_full
     \/ \E num \in Num : delete_wp(num) \/ delete_wp_empty(num)
     \/ \E cur \in [Exps -> Readings], clean \in BOOLEAN :
           check(cur, clean) \/ check_fatal(cur, clean)
     \/ check_empty

Spec == Init /\ [][Next]_vars

-----------------------------------------------------------------------------
(* The pool this list implements.                                          *)
Pool == INSTANCE WatchPool WITH used <- ListOf(next, head), free <- ListOf(next, free_)

(* Type invariant of the node array and of the two list heads.             *)
TypeOK ==
  /\ head \in Wp \cup {NULL}
  /\ free_ \in Wp \cup {NULL}
  /\ next \in [Wp -> Wp \cup {NULL}]
  /\ exp \in [Wp -> (Exps \ LongExps) \cup {NoExp, Unterminated}]
  /\ value \in [Wp -> Vals]
  /\ flag \in BOOLEAN
  /\ proc \in {"run", "new_wp", "delete_wp", "check", "expr"}

(* The two lists are finite, disjoint and cover the array: the relinking   *)
(* of new_wp, delete_wp and free_wp never makes a cycle, never loses a     *)
(* node and never leaves one on both lists.                                *)
ListsPartition ==
  \E s, t \in SeqOf(Wp, NR_WP) : IsSplit(next, head, free_, s, t)

(* Whatever was created and deleted before, NEMU panics in new_wp only     *)
(* when all NR_WP nodes are in use, and dereferences NULL in delete_wp and *)
(* check only when all are free.                                           *)
DeathsAtLimits ==
  /\ proc = "new_wp" => Len(ListOf(next, head)) = NR_WP
  /\ proc \in {"delete_wp", "check"} => Len(ListOf(next, free_)) = NR_WP

(* The pointer program implements the pool of sequences.                   *)
PoolSpec == Pool!SpecPool

=============================================================================
