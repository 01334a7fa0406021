----------------------------- MODULE Debugger_proof ----------------------------
(***************************************************************************)
(* Proofs about the debugger: first its expression evaluator, Expr, then   *)
(* its pool of watchpoints, WatchList.                                     *)
(*                                                                         *)
(* For every set of operands, every width of a word and every length of a  *)
(* text, expr() gives an expression the value its grammar gives it, refuses*)
(* what only its parentheses keep from being one, and agrees with C on what*)
(* gen-expr generates.  For every pool size and every set of texts and     *)
(* values, the two linked lists always partition the node array, the       *)
(* process dies only where the code lets it, and the pointer program       *)
(* implements the pool of sequences of WatchPool.                          *)
(***************************************************************************)
EXTENDS WatchList, Expr, SequenceTheorems, FiniteSetTheorems, WellFoundedInduction, TLAPS

-----------------------------------------------------------------------------
(* Induction over the natural numbers, and functions defined by recursion. *)

NatLess == {ss \in Nat \X Nat : ss[1] < ss[2]}

LEMMA NatLessWellFounded == IsWellFoundedOn(NatLess, Nat)
<1>1. NatLess = OpToRel(<, Nat)
  BY DEF NatLess, OpToRel
<1>2. IsWellFoundedOn(OpToRel(<, Nat), Nat)
  BY NatLessThanWellFounded
<1>. QED  BY <1>1, <1>2, Zenon

LEMMA IntervalInduction ==
  ASSUME NEW n \in Nat, NEW S,
         n >= 1 => 1 \in S,
         \A i \in 1 .. n - 1 : i \in S => i + 1 \in S
  PROVE  1 .. n \subseteq S
<1>. DEFINE Bad == {i \in 1 .. n : i \notin S}
<1>. SUFFICES ASSUME Bad # {}  PROVE FALSE
  OBVIOUS
<1>1. Bad \in SUBSET Nat
  OBVIOUS
<1>2. PICK m \in Bad : \A k \in Bad : ~ (<<k, m>> \in NatLess)
  <2>. HIDE DEF Bad
  <2>. QED  BY <1>1, NatLessWellFounded, WFMin, Zenon
<1>3. m \in 1 .. n /\ m # 1 /\ m \notin S
  OBVIOUS
<1>4. m - 1 \in 1 .. n - 1 /\ (m - 1) + 1 = m /\ <<m - 1, m>> \in NatLess
  BY <1>3 DEF NatLess
<1>5. m - 1 \in S
  BY <1>2, <1>4
<1>. QED  BY <1>3, <1>4, <1>5


(* A set that holds a number whenever it holds all smaller ones.           *)
LEMMA StrongInduction ==
  ASSUME NEW S, \A n \in Nat : (\A m \in Nat : m < n => m \in S) => n \in S
  PROVE  Nat \subseteq S
<1>. DEFINE Bad == {i \in Nat : i \notin S}
<1>. SUFFICES ASSUME Bad # {}  PROVE FALSE
  OBVIOUS
<1>1. Bad \in SUBSET Nat
  OBVIOUS
<1>2. PICK n \in Bad : \A k \in Bad : ~ (<<k, n>> \in NatLess)
  <2>. HIDE DEF Bad
  <2>. QED  BY <1>1, NatLessWellFounded, WFMin, Zenon
<1>3. ASSUME NEW m \in Nat, m < n  PROVE m \in S
  <2>1. <<m, n>> \in NatLess
    BY <1>3 DEF NatLess
  <2>. QED  BY <1>2, <2>1
<1>. QED  BY <1>2, <1>3

(* Step, as the body of a recursive function from D to V, calls it only on *)
(* arguments of a smaller size.                                            *)
CallsSmaller(D, V, size, bound, Step) ==
  /\ V # {} /\ size \in [D -> Nat] /\ bound \in Nat
  /\ \A x \in D : size[x] < bound
  /\ Step \in [[D -> V] -> [D -> V]]
  /\ \A f \in [D -> V], g \in [D -> V], x \in D :
       (\A y \in D : size[y] < size[x] => f[y] = g[y]) => Step[f][x] = Step[g][x]

(* Then the function exists.                                               *)
LEMMA RecursiveFunction ==
  ASSUME NEW D, NEW V, NEW size, NEW bound, NEW Step, CallsSmaller(D, V, size, bound, Step)
  PROVE  \E f \in [D -> V] : f = Step[f]
<1>. USE DEF CallsSmaller
<1>. PICK v \in V : TRUE
  OBVIOUS
<1>. DEFINE Upto(n) == {f \in [D -> V] : \A x \in D : size[x] < n => f[x] = Step[f][x]}
            S == {n \in Nat : Upto(n) # {}}
<1>1. ASSUME NEW n \in Nat, \A m \in Nat : m < n => m \in S  PROVE n \in S
  <2>1. CASE n = 0
    <3>1. [x \in D |-> v] \in Upto(0)
      OBVIOUS
    <3>. QED  BY <2>1, <3>1
  <2>2. CASE n # 0
    <3>1. n - 1 \in Nat /\ n - 1 < n
      BY <2>2
    <3>2. PICK f \in [D -> V] : \A x \in D : size[x] < n - 1 => f[x] = Step[f][x]
      BY <1>1, <3>1
    <3>. DEFINE g == Step[f]
    <3>3. g \in [D -> V]
      OBVIOUS
    <3>4. ASSUME NEW x \in D, size[x] < n  PROVE g[x] = Step[g][x]
      <4>1. \A y \in D : size[y] < size[x] => f[y] = g[y]
        BY <3>1, <3>2, <3>4
      <4>. HIDE DEF g
      <4>2. Step[f][x] = Step[g][x]
        BY <3>3, <4>1
      <4>. QED  BY <4>2 DEF g
    <3>5. g \in Upto(n)
      <4>. HIDE DEF g
      <4>. QED  BY <3>3, <3>4
    <3>. QED  BY <3>5
  <2>. QED  BY <2>1, <2>2
<1>2. bound \in S
  <2>. HIDE DEF S
  <2>. QED  BY <1>1, StrongInduction
<1>3. PICK f \in [D -> V] : \A x \in D : size[x] < bound => f[x] = Step[f][x]
  BY <1>2
<1>4. \A x \in D : f[x] = Step[f][x]
  BY <1>3
<1>5. Step[f] \in [D -> V]
  OBVIOUS
<1>. QED  BY <1>4, <1>5

-----------------------------------------------------------------------------
(* Arithmetic of words.                                                    *)

LEMMA DivMod ==
  ASSUME NEW n \in Int, NEW m \in Int, m > 0
  PROVE  n \div m \in Int /\ n % m \in 0 .. m - 1 /\ n = m * (n \div m) + (n % m)
<1>1. n \div m \in Int
  OBVIOUS
<1>2. n % m \in 0 .. m - 1
  OBVIOUS
<1>3. n = m * (n \div m) + (n % m)
  OBVIOUS
<1>. QED  BY <1>1, <1>2, <1>3

(* The remainder is what is left between two multiples.                    *)
LEMMA RemainderUnique ==
  ASSUME NEW m \in Nat \ {0}, NEW k \in Int, NEW r \in 0 .. m - 1
  PROVE  (m * k + r) % m = r
<1>. DEFINE n == m * k + r
            d == n \div m
            e == n % m
<1>1. n \in Int /\ d \in Int /\ e \in 0 .. m - 1 /\ n = m * d + e
  OBVIOUS
<1>. HIDE DEF d, e
<1>2. m * (k - d) = e - r
  <2>1. m * (k - d) = m * k - m * d
    BY <1>1
  <2>. QED  BY <1>1, <2>1
<1>3. ~ (k - d >= 1)
  <2>. SUFFICES ASSUME k - d >= 1  PROVE FALSE
    OBVIOUS
  <2>1. m * (k - d) >= m * 1
    BY <1>1
  <2>. QED  BY <1>1, <1>2, <2>1
<1>4. ~ (d - k >= 1)
  <2>. SUFFICES ASSUME d - k >= 1  PROVE FALSE
    OBVIOUS
  <2>1. m * (d - k) >= m * 1
    BY <1>1
  <2>2. m * (d - k) = - (m * (k - d))
    BY <1>1
  <2>3. m * (d - k) = r - e
    BY <1>1, <1>2, <2>2
  <2>. QED  BY <1>1, <2>1, <2>3
<1>5. k = d
  BY <1>1, <1>3, <1>4
<1>6. m * (k - d) = 0
  BY <1>1, <1>5
<1>. QED  BY <1>1, <1>2, <1>6 DEF e

LEMMA WrapType == \A n \in Int : Wrap(n) \in Word
BY ExprAssumption DEF ExprAssumption, Wrap, Word

LEMMA WrapWord == \A n \in Word : Wrap(n) = n
BY ExprAssumption DEF ExprAssumption, Wrap, Word

(* A word is its number less a multiple of the number of words.            *)
LEMMA WrapOf ==
  ASSUME NEW n \in Int
  PROVE  \E k \in Int : n = (2 * Half) * k + Wrap(n)
<1>1. 2 * Half \in Nat \ {0}
  BY ExprAssumption DEF ExprAssumption
<1>. DEFINE m == 2 * Half
<1>2. n \div m \in Int /\ n = m * (n \div m) + (n % m)
  <2>. HIDE DEF m
  <2>1. m \in Int /\ m > 0
    BY <1>1 DEF m
  <2>. QED  BY <2>1, DivMod
<1>3. Wrap(n) = n % m
  BY DEF Wrap
<1>. HIDE DEF m
<1>4. n = m * (n \div m) + Wrap(n)
  BY <1>2, <1>3, Zenon
<1>. QED  BY <1>2, <1>4 DEF m

LEMMA WrapIs ==
  ASSUME NEW n \in Int, NEW k \in Int, NEW r \in Int, n = (2 * Half) * k + r
  PROVE  Wrap(n) = Wrap(r)
<1>1. 2 * Half \in Nat \ {0}
  BY ExprAssumption DEF ExprAssumption
<1>2. PICK l \in Int : r = (2 * Half) * l + Wrap(r)
  BY WrapOf
<1>3. Wrap(r) \in 0 .. 2 * Half - 1
  BY WrapType DEF Word
<1>4. n = (2 * Half) * (k + l) + Wrap(r)
  <2>1. (2 * Half) * (k + l) = (2 * Half) * k + (2 * Half) * l
    BY <1>1
  <2>. QED  BY <1>1, <1>2, <1>3, <2>1
<1>. QED  BY <1>1, <1>3, <1>4, RemainderUnique DEF Wrap

LEMMA WrapSum ==
  ASSUME NEW a \in Int, NEW b \in Int
  PROVE  /\ Wrap(Wrap(a) + Wrap(b)) = Wrap(a + b)
         /\ Wrap(Wrap(a) - Wrap(b)) = Wrap(a - b)
<1>1. 2 * Half \in Nat \ {0}
  BY ExprAssumption DEF ExprAssumption
<1>2. Wrap(a) \in Int /\ Wrap(b) \in Int
  BY WrapType, <1>1 DEF Word
<1>3. PICK k \in Int : a = (2 * Half) * k + Wrap(a)
  BY WrapOf
<1>4. PICK l \in Int : b = (2 * Half) * l + Wrap(b)
  BY WrapOf
<1>5. a + b = (2 * Half) * (k + l) + (Wrap(a) + Wrap(b))
  <2>1. (2 * Half) * (k + l) = (2 * Half) * k + (2 * Half) * l
    BY <1>1
  <2>. QED  BY <1>1, <1>2, <1>3, <1>4, <2>1
<1>6. a - b = (2 * Half) * (k - l) + (Wrap(a) - Wrap(b))
  <2>. DEFINE P == (2 * Half) * k
              Q == (2 * Half) * l
              R == (2 * Half) * (k - l)
  <2>1. R = P - Q /\ P \in Int /\ Q \in Int
    BY <1>1
  <2>2. a = P + Wrap(a) /\ b = Q + Wrap(b)
    BY <1>3, <1>4
  <2>. HIDE DEF P, Q, R
  <2>3. a - b = R + (Wrap(a) - Wrap(b))
    BY <1>2, <2>1, <2>2
  <2>. QED  BY <2>3 DEF R
<1>7. Wrap(a + b) = Wrap(Wrap(a) + Wrap(b))
  <2>. a + b \in Int /\ k + l \in Int /\ Wrap(a) + Wrap(b) \in Int
    BY <1>2
  <2>. QED  BY <1>5, WrapIs
<1>8. Wrap(a - b) = Wrap(Wrap(a) - Wrap(b))
  <2>. a - b \in Int /\ k - l \in Int /\ Wrap(a) - Wrap(b) \in Int
    BY <1>2
  <2>. QED  BY <1>6, WrapIs
<1>. QED  BY <1>7, <1>8

LEMMA WrapProduct ==
  ASSUME NEW a \in Int, NEW b \in Int
  PROVE  Wrap(Wrap(a) * Wrap(b)) = Wrap(a * b)
<1>. DEFINE m == 2 * Half
            x == Wrap(a)
            y == Wrap(b)
<1>1. m \in Nat \ {0}
  BY ExprAssumption DEF ExprAssumption
<1>2. x \in Int /\ y \in Int
  BY WrapType, <1>1 DEF Word
<1>3. PICK k \in Int : a = m * k + x
  BY WrapOf
<1>4. PICK l \in Int : b = m * l + y
  BY WrapOf
<1>. HIDE DEF x, y
<1>5. a * b = m * (k * b + x * l) + x * y
  <2>1. a * b = (m * k) * b + x * b
    BY <1>1, <1>2, <1>3
  <2>2. x * b = x * (m * l) + x * y
    BY <1>1, <1>2, <1>4
  <2>3. (m * k) * b = m * (k * b) /\ x * (m * l) = m * (x * l)
    BY <1>1, <1>2
  <2>4. m * (k * b + x * l) = m * (k * b) + m * (x * l)
    <3>. k * b \in Int /\ x * l \in Int
      BY <1>2
    <3>. QED  BY <1>1
  <2>. QED  BY <2>1, <2>2, <2>3, <2>4, <1>1, <1>2
<1>6. k * b + x * l \in Int /\ x * y \in Int /\ a * b \in Int
  BY <1>2
<1>7. Wrap(a * b) = Wrap(x * y)
  BY <1>5, <1>6, WrapIs
<1>. QED  BY <1>7 DEF x, y

LEMMA QuotientType ==
  ASSUME NEW a \in Nat, NEW b \in Nat \ {0}
  PROVE  a \div b \in 0 .. a
<1>. DEFINE d == a \div b
<1>1. d \in Int /\ a = b * d + (a % b) /\ a % b \in 0 .. b - 1
  BY DivMod
<1>2. d >= 0
  <2>. SUFFICES ASSUME d <= - 1  PROVE FALSE
    BY <1>1
  <2>1. b * d <= b * (- 1)
    BY <1>1
  <2>. QED  BY <1>1, <2>1
<1>3. b * d >= 1 * d
  BY <1>1, <1>2
<1>. QED  BY <1>1, <1>2, <1>3

(* Two functions are the same where they are when they are the same on all *)
(* arguments of a smaller size.                                            *)
LEMMA RecursiveUnique ==
  ASSUME NEW D, NEW size \in [D -> Nat], NEW f, NEW g,
         \A x \in D : (\A y \in D : size[y] < size[x] => f[y] = g[y]) => f[x] = g[x]
  PROVE  \A x \in D : f[x] = g[x]
<1>. DEFINE S == {n \in Nat : \A x \in D : size[x] = n => f[x] = g[x]}
<1>1. ASSUME NEW n \in Nat, \A m \in Nat : m < n => m \in S  PROVE n \in S
  <2>1. ASSUME NEW x \in D, size[x] = n  PROVE f[x] = g[x]
    <3>1. \A y \in D : size[y] < size[x] => f[y] = g[y]
      BY <1>1, <2>1
    <3>. QED  BY <3>1
  <2>. QED  BY <2>1
<1>2. Nat \subseteq S
  <2>. HIDE DEF S
  <2>. QED  BY <1>1, StrongInduction
<1>. QED  BY <1>2

-----------------------------------------------------------------------------
(* The recursive functions of Expr satisfy their definitions.              *)

LEMMA DerefsDef ==
  ASSUME NEW w, Len(w) \in Nat
  PROVE  /\ Derefs(w) \in [1 .. Len(w) -> BOOLEAN]
         /\ \A i \in 1 .. Len(w) : Derefs(w)[i] <=> IsDeref(w, Derefs(w), i)
<1>. DEFINE D == 1 .. Len(w)
            Step == [star \in [D -> BOOLEAN] |-> [i \in D |-> IsDeref(w, star, i)]]
            size == [i \in D |-> i]
<1>1. Step \in [[D -> BOOLEAN] -> [D -> BOOLEAN]]
  BY DEF IsDeref
<1>2. size \in [D -> Nat] /\ Len(w) + 1 \in Nat /\ \A i \in D : size[i] < Len(w) + 1
  OBVIOUS
<1>3. ASSUME NEW f \in [D -> BOOLEAN], NEW g \in [D -> BOOLEAN], NEW i \in D,
             \A y \in D : size[y] < size[i] => f[y] = g[y]
      PROVE  Step[f][i] = Step[g][i]
  <2>1. i # 1 => i - 1 \in D /\ size[i - 1] < size[i]
    OBVIOUS
  <2>2. i # 1 => f[i - 1] = g[i - 1]
    BY <1>3, <2>1
  <2>. QED  BY <2>2 DEF IsDeref
<1>. HIDE DEF Step, size, D
<1>4. CallsSmaller(D, BOOLEAN, size, Len(w) + 1, Step)
  BY <1>1, <1>2, <1>3 DEF CallsSmaller
<1>5. \E f \in [D -> BOOLEAN] : f = Step[f]
  BY <1>4, RecursiveFunction
<1>6. PICK f : f \in [D -> BOOLEAN] /\ f = [i \in D |-> IsDeref(w, f, i)]
  BY <1>5 DEF Step
<1>7. Derefs(w) = [i \in 1 .. Len(w) |-> IsDeref(w, Derefs(w), i)]
  BY <1>6 DEF Derefs, D
<1>. QED  BY <1>7 DEF IsDeref

(* What the scan of check_parentheses keeps, for token types T.            *)
ScanState(T) == [stack : Seq(T), flag : BOOLEAN, ok : BOOLEAN]

LEMMA ScanDef ==
  ASSUME NEW t, NEW p \in Nat \ {0}, NEW q \in Nat, NEW T,
         \A i \in p .. q : t[i].type \in T
  PROVE  /\ Scan(t, p, q) \in [p - 1 .. q -> ScanState(T)]
         /\ \A i \in p - 1 .. q : Scan(t, p, q)[i] = ScanStep(t, p, Scan(t, p, q), i)
<1>. DEFINE D == p - 1 .. q
            V == ScanState(T)
            Step == [f \in [D -> V] |-> [i \in D |-> ScanStep(t, p, f, i)]]
            size == [i \in D |-> i]
            first == [stack |-> <<>>, flag |-> TRUE, ok |-> TRUE]
<1>1. first \in V
  BY DEF ScanState
<1>2. ASSUME NEW f \in [D -> V], NEW i \in D  PROVE ScanStep(t, p, f, i) \in V
  <2>1. CASE i = p - 1
    BY <1>1, <2>1 DEF ScanStep
  <2>2. CASE i # p - 1
    <3>. DEFINE s == f[i - 1]
                ty == t[i].type
    <3>1. s \in V /\ ty \in T
      BY <2>2
    <3>. HIDE DEF s, V
    <3>2. ScanStep(t, p, f, i) \in
            {s, [s EXCEPT !.stack = <<ty>> \o @], [s EXCEPT !.flag = FALSE],
             [s EXCEPT !.flag = FALSE, !.ok = FALSE]}
             \cup (IF s.stack # <<>> THEN {[s EXCEPT !.stack = Tail(@)]} ELSE {})
      BY <2>2 DEF ScanStep, s
    <3>3. s.stack \in Seq(T) /\ s.flag \in BOOLEAN /\ s.ok \in BOOLEAN
      BY <3>1 DEF V, ScanState
    <3>4. <<ty>> \o s.stack \in Seq(T) /\ (s.stack # <<>> => Tail(s.stack) \in Seq(T))
      BY <3>1, <3>3
    <3>. QED  BY <3>1, <3>2, <3>3, <3>4 DEF V, ScanState
  <2>. QED  BY <2>1, <2>2
<1>3. Step \in [[D -> V] -> [D -> V]]
  <2>. HIDE DEF V, D
  <2>. QED  BY <1>2
<1>4. size \in [D -> Nat] /\ q + 1 \in Nat /\ \A i \in D : size[i] < q + 1
  OBVIOUS
<1>5. ASSUME NEW f \in [D -> V], NEW g \in [D -> V], NEW i \in D,
             \A y \in D : size[y] < size[i] => f[y] = g[y]
      PROVE  Step[f][i] = Step[g][i]
  <2>1. i # p - 1 => i - 1 \in D /\ size[i - 1] < size[i]
    OBVIOUS
  <2>2. i # p - 1 => f[i - 1] = g[i - 1]
    BY <1>5, <2>1
  <2>3. ScanStep(t, p, f, i) = ScanStep(t, p, g, i)
    BY <2>2 DEF ScanStep
  <2>4. Step[f][i] = ScanStep(t, p, f, i) /\ Step[g][i] = ScanStep(t, p, g, i)
    <3>. HIDE DEF V, D
    <3>. QED  OBVIOUS
  <2>. QED  BY <2>3, <2>4
<1>. HIDE DEF Step, size, D, V, first
<1>6. CallsSmaller(D, V, size, q + 1, Step)
  BY <1>1, <1>3, <1>4, <1>5 DEF CallsSmaller
<1>7. \E f \in [D -> V] : f = Step[f]
  BY <1>6, RecursiveFunction
<1>8. PICK f : f \in [D -> V] /\ f = [i \in D |-> ScanStep(t, p, f, i)]
  BY <1>7 DEF Step
<1>9. Scan(t, p, q) = [i \in p - 1 .. q |-> ScanStep(t, p, Scan(t, p, q), i)]
  BY <1>8 DEF Scan, D
<1>. DEFINE g == Scan(t, p, q)
<1>10. \A i \in D : f[i] = ScanStep(t, p, f, i) /\ g[i] = ScanStep(t, p, g, i)
  BY <1>8, <1>9 DEF D
<1>11. \A i \in D : f[i] = g[i]
  <2>. HIDE DEF g
  <2>1. ASSUME NEW i \in D, \A y \in D : size[y] < size[i] => f[y] = g[y]
        PROVE  f[i] = g[i]
    <3>1. i # p - 1 => i - 1 \in D /\ size[i - 1] < size[i]
      BY DEF D, size
    <3>2. i # p - 1 => f[i - 1] = g[i - 1]
      BY <2>1, <3>1
    <3>3. ScanStep(t, p, f, i) = ScanStep(t, p, g, i)
      BY <3>2 DEF ScanStep
    <3>. QED  BY <1>10, <3>3
  <2>. QED  BY <1>4, <2>1, RecursiveUnique
<1>12. g \in [D -> V]
  BY <1>8, <1>9, <1>11 DEF D
<1>. QED  BY <1>10, <1>12 DEF D, V

-----------------------------------------------------------------------------
(* Operators and the one that find_dominated_op finds.                     *)

LEMMA LeastOf ==
  ASSUME NEW S \in SUBSET Nat, S # {}
  PROVE  \E x \in S : \A y \in S : x <= y
<1>1. PICK x \in S : \A y \in S : ~ (<<y, x>> \in NatLess)
  BY NatLessWellFounded, WFMin, Zenon
<1>2. ASSUME NEW y \in S  PROVE x <= y
  <2>1. x \in Nat /\ y \in Nat
    OBVIOUS
  <2>2. y < x => <<y, x>> \in NatLess
    BY <2>1 DEF NatLess
  <2>. QED  BY <1>1, <2>1, <2>2
<1>. QED  BY <1>2

LEMMA GreatestOf ==
  ASSUME NEW b \in Nat, NEW S \in SUBSET (0 .. b), S # {}
  PROVE  Max(S) \in S /\ \A y \in S : y <= Max(S)
<1>. DEFINE R == {b - x : x \in S}
<1>0. \A x \in S : x \in Int /\ b - x \in Nat
  OBVIOUS
<1>1. R \in SUBSET Nat /\ R # {}
  BY <1>0
<1>2. PICK z \in R : \A y \in R : z <= y
  <2>. HIDE DEF R
  <2>. QED  BY <1>1, LeastOf
<1>3. PICK x \in S : z = b - x
  OBVIOUS
<1>4. ASSUME NEW y \in S  PROVE x >= y
  <2>1. z <= b - y
    BY <1>2
  <2>. QED  BY <1>3, <2>1
<1>5. \E m \in S : \A y \in S : m >= y
  BY <1>4
<1>6. Max(S) \in S /\ \A y \in S : Max(S) >= y
  BY <1>5 DEF Max
<1>. QED  BY <1>6

LEMMA LevelsAre ==
  /\ Levels[1] = {"||"} /\ Levels[2] = {"&&"} /\ Levels[3] = {"==", "!="}
  /\ Levels[4] = {"+", "-"} /\ Levels[5] = {"*", "/"}
BY DEF Levels

LEMMA OpsAre == Ops = {"||", "&&", "==", "!=", "+", "-", "*", "/"}
<1>1. ASSUME NEW x \in Ops  PROVE x \in {"||", "&&", "==", "!=", "+", "-", "*", "/"}
  <2>1. PICK i \in 1 .. 5 : x \in Levels[i]
    BY DEF Ops
  <2>2. i = 1 \/ i = 2 \/ i = 3 \/ i = 4 \/ i = 5
    OBVIOUS
  <2>. QED  BY <2>1, <2>2, LevelsAre
<1>2. \A i \in 1 .. 5 : Levels[i] \subseteq Ops
  BY DEF Ops
<1>3. Levels[1] \subseteq Ops /\ Levels[2] \subseteq Ops /\ Levels[3] \subseteq Ops
      /\ Levels[4] \subseteq Ops /\ Levels[5] \subseteq Ops
  BY <1>2
<1>. QED  BY <1>1, <1>3, LevelsAre

(* The priority of an operator is the number of its level.                 *)
LEMMA PriorityOfLevel ==
  ASSUME NEW l \in 1 .. 5, NEW op \in Levels[l]
  PROVE  Priority(op) = l - 1 /\ op \in Ops /\ op # "deref"
<1>1. l = 1 \/ l = 2 \/ l = 3 \/ l = 4 \/ l = 5
  OBVIOUS
<1>2. op \in Ops
  BY DEF Ops
<1>3. op # "deref"
  BY <1>2, OpsAre
<1>4. ASSUME NEW k \in 0 .. 4, op \in Levels[k + 1]  PROVE k + 1 = l
  <2>1. k = 0 \/ k = 1 \/ k = 2 \/ k = 3 \/ k = 4
    OBVIOUS
  <2>2. (k = 0 => op \in Levels[1]) /\ (k = 1 => op \in Levels[2]) /\ (k = 2 => op \in Levels[3])
        /\ (k = 3 => op \in Levels[4]) /\ (k = 4 => op \in Levels[5])
    BY <1>4
  <2>. QED  BY <1>1, <2>1, <2>2, LevelsAre
<1>5. l - 1 \in 0 .. 4 /\ op \in Levels[(l - 1) + 1]
  OBVIOUS
<1>6. Priority(op) = CHOOSE i \in 0 .. 4 : op \in Levels[i + 1]
  BY <1>3 DEF Priority
<1>7. (CHOOSE i \in 0 .. 4 : op \in Levels[i + 1]) = l - 1
  BY <1>4, <1>5
<1>. QED  BY <1>2, <1>3, <1>6, <1>7

LEMMA PriorityType == \A op \in Operators : Priority(op) \in 0 .. 5
<1>1. ASSUME NEW op \in Ops  PROVE Priority(op) \in 0 .. 5
  <2>1. PICK l \in 1 .. 5 : op \in Levels[l]
    BY DEF Ops
  <2>. QED  BY <2>1, PriorityOfLevel
<1>. QED  BY <1>1 DEF Operators, Priority

Outer(t, p, q) == {i \in p .. q : t[i].type \in Operators /\ OpenAt(t, p, i) = 0}

(* find_dominated_op: the last of the outer operators that bind weakest.   *)
LEMMA DominatedOp ==
  ASSUME NEW t, NEW p \in Nat, NEW q \in Nat, p <= q
  PROVE  /\ find_dominated_op(t, p, q) \in p .. q
         /\ Outer(t, p, q) = {} => find_dominated_op(t, p, q) = p
         /\ Outer(t, p, q) # {} =>
              /\ find_dominated_op(t, p, q) \in Outer(t, p, q)
              /\ \A j \in Outer(t, p, q) :
                   LET op == find_dominated_op(t, p, q)
                   IN  /\ Priority(t[op].type) <= Priority(t[j].type)
                       /\ j > op => Priority(t[op].type) < Priority(t[j].type)
<1>. DEFINE outer == Outer(t, p, q)
            pri(i) == Priority(t[i].type)
            lowest == {i \in outer : \A j \in outer : pri(i) <= pri(j)}
            op == find_dominated_op(t, p, q)
<1>1. op = IF outer = {} THEN p ELSE Max(lowest)
  BY Zenon DEF find_dominated_op, Outer
<1>2. \A i \in outer : i \in p .. q /\ pri(i) \in 0 .. 5
  BY PriorityType DEF Outer
<1>. HIDE DEF outer, pri, op
<1>3. CASE outer = {}
  BY <1>1, <1>3 DEF outer, op
<1>4. CASE outer # {}
  <2>. DEFINE R == {pri(i) : i \in outer}
  <2>1. R \in SUBSET Nat /\ R # {}
    BY <1>2, <1>4
  <2>2. PICK x \in R : \A y \in R : x <= y
    <3>. HIDE DEF R
    <3>. QED  BY <2>1, LeastOf
  <2>3. PICK i \in outer : x = pri(i)
    OBVIOUS
  <2>4. i \in lowest
    BY <2>2, <2>3
  <2>5. lowest \in SUBSET (0 .. q) /\ lowest # {}
    BY <1>2, <2>4
  <2>6. op \in lowest /\ \A y \in lowest : y <= op
    <3>. HIDE DEF lowest
    <3>. QED  BY <1>1, <1>4, <2>5, GreatestOf
  <2>7. ASSUME NEW j \in outer  PROVE pri(op) <= pri(j) /\ (j > op => pri(op) < pri(j))
    <3>1. pri(op) <= pri(j)
      BY <2>6
    <3>2. ASSUME j > op, pri(op) = pri(j)  PROVE FALSE
      <4>1. j \in lowest
        BY <2>6, <3>2
      <4>. QED  BY <1>2, <2>6, <3>2, <4>1
    <3>. QED  BY <1>2, <2>6, <3>1, <3>2
  <2>8. op \in p .. q /\ op \in outer
    BY <1>2, <2>6
  <2>. QED  BY <1>4, <2>7, <2>8 DEF outer, op, pri
<1>. QED  BY <1>3, <1>4

-----------------------------------------------------------------------------
(* Results of evaluations.                                                 *)

Results == [val : Word, ok : BOOLEAN, dead : BOOLEAN]

LEMMA ResType == \A val \in Word, ok \in BOOLEAN, dead \in BOOLEAN : Res(val, ok, dead) \in Results
BY DEF Res, Results

LEMMA ZeroOneWord == 0 \in Word /\ 1 \in Word
BY ExprAssumption DEF ExprAssumption, Word

LEMMA GprResult ==
  ASSUME NEW name, NEW ok \in BOOLEAN
  PROVE  get_gpr(name, ok) \in Results /\ (get_gpr(name, ok).ok => ok /\ name \in Registers)
<1>1. name \in Registers => HandedOut[name] \in Word
  BY ZeroOneWord, ExprAssumption DEF ExprAssumption, HandedOut
<1>. QED  BY <1>1, ZeroOneWord DEF get_gpr, Res, Results

(* What the grammar takes a register for is what get_gpr gives as long as  *)
(* nothing has failed.                                                     *)
LEMMA NamedGpr == \A name : Named(name) = get_gpr(name, TRUE)
BY DEF Named, get_gpr, HandedOut

LEMMA ReadResult ==
  ASSUME NEW r \in Results
  PROVE  Vaddr_read(r) \in Results /\ Vaddr_read(r).ok = r.ok
<1>1. r.val \in DOMAIN Mem => Mem[r.val] \in Word
  BY ExprAssumption DEF ExprAssumption
<1>. QED  BY <1>1, ZeroOneWord DEF Vaddr_read, Results

(* Both operands of an operator.                                           *)
Both(a, b) == [a EXCEPT !.ok = @ /\ b.ok, !.dead = @ \/ b.dead]

LEMMA BothResult ==
  ASSUME NEW a \in Results, NEW b \in Results
  PROVE  /\ Both(a, b) \in Results
         /\ Both(a, b).ok <=> a.ok /\ b.ok
BY DEF Both, Results

LEMMA ApplyResult ==
  ASSUME NEW op, NEW a \in Results, NEW b \in Results
  PROVE  /\ Apply(op, a, b) \in Results
         /\ Apply(op, a, b).ok => a.ok /\ b.ok /\ op \in Ops
<1>. DEFINE both == Both(a, b)
            To(n) == [both EXCEPT !.val = n]
<1>1. both \in Results /\ (both.ok <=> a.ok /\ b.ok)
  BY BothResult
<1>2. a.val \in Word /\ b.val \in Word /\ a.val \in Nat /\ b.val \in Nat
  BY DEF Results, Word
<1>3. /\ Wrap(a.val + b.val) \in Word /\ Wrap(a.val - b.val) \in Word /\ Wrap(a.val * b.val) \in Word
      /\ \A x \in BOOLEAN : Truth(x) \in Word
      /\ b.val # 0 => a.val \div b.val \in Word
  <2>1. a.val + b.val \in Int /\ a.val - b.val \in Int /\ a.val * b.val \in Int
    BY <1>2
  <2>2. b.val # 0 => a.val \div b.val \in 0 .. a.val
    BY <1>2, QuotientType
  <2>3. 0 .. a.val \subseteq Word
    BY <1>2, ExprAssumption DEF Word, ExprAssumption
  <2>. QED  BY <2>1, <2>2, <2>3, WrapType, ZeroOneWord DEF Truth
<1>4. Apply(op, a, b) =
        CASE op = "+" -> To(Wrap(a.val + b.val))
          [] op = "-" -> To(Wrap(a.val - b.val))
          [] op = "*" -> To(Wrap(a.val * b.val))
          [] op = "/" /\ b.val # 0 -> To(a.val \div b.val)
          [] op = "==" -> To(Truth(a.val = b.val))
          [] op = "!=" -> To(Truth(a.val # b.val))
          [] op = "&&" -> To(Truth(a.val # 0 /\ b.val # 0))
          [] op = "||" -> To(Truth(a.val # 0 \/ b.val # 0))
          [] OTHER -> Strange(both)
  BY Zenon DEF Apply, Both
<1>5. \A n \in Word : To(n) \in Results /\ To(n).ok = both.ok
  <2>. HIDE DEF both
  <2>. QED  BY <1>1 DEF Results
<1>6. Strange(both) \in Results /\ ~ Strange(both).ok
  <2>. HIDE DEF both
  <2>. QED  BY <1>1, ZeroOneWord DEF Results, Strange
<1>. HIDE DEF both, To
<1>7. \/ op \in Ops /\ \E n \in Word : Apply(op, a, b) = To(n)
      \/ Apply(op, a, b) = Strange(both)
  <2>1. /\ Truth(a.val = b.val) \in Word /\ Truth(a.val # b.val) \in Word
        /\ Truth(a.val # 0 /\ b.val # 0) \in Word /\ Truth(a.val # 0 \/ b.val # 0) \in Word
    BY <1>3
  <2>. QED  BY <1>3, <1>4, <2>1, OpsAre
<1>. QED  BY <1>1, <1>5, <1>6, <1>7

-----------------------------------------------------------------------------
(* eval satisfies its definition.                                          *)

IsTokens(t) ==
  Len(t) \in Nat /\ \A i \in 1 .. Len(t) : t[i].type = "num" => t[i].val \in Word

LEMMA CheckType ==
  ASSUME NEW t, NEW p \in Nat \ {0}, NEW q \in Nat, p <= q
  PROVE  /\ check_parentheses(t, p, q).ok \in BOOLEAN
         /\ check_parentheses(t, p, q).yes \in BOOLEAN
<1>. DEFINE T == {t[i].type : i \in p .. q}
            end == Scan(t, p, q)[q]
<1>1. \A i \in p .. q : t[i].type \in T
  OBVIOUS
<1>2. Scan(t, p, q) \in [p - 1 .. q -> ScanState(T)]
  <2>. HIDE DEF T
  <2>. QED  BY <1>1, ScanDef
<1>3. end \in ScanState(T)
  <2>. HIDE DEF T
  <2>. QED  BY <1>2
<1>4. end.ok \in BOOLEAN
  BY <1>3 DEF ScanState
<1>. QED  BY <1>4 DEF check_parentheses

(* The calls that a call makes, with f for the results.                    *)
LEMMA EvalCalls ==
  ASSUME NEW t, IsTokens(t), NEW p \in 1 .. Len(t) + 1, NEW q \in 0 .. Len(t), NEW ok \in BOOLEAN,
         p < q, NEW f \in [Calls(t) -> Results]
  PROVE  LET c == check_parentheses(t, p, q)
             op == find_dominated_op(t, p, q)
             left == Call(p, op - 1, ok /\ c.ok)
         IN  /\ Call(p + 1, q - 1, ok) \in Calls(t)
             /\ op \in p .. q /\ c.ok \in BOOLEAN /\ c.yes \in BOOLEAN
             /\ left \in Calls(t) /\ f[left] \in Results
             /\ Call(op + 1, q, ok /\ c.ok) \in Calls(t)
             /\ Call(op + 1, q, f[left].ok) \in Calls(t)
<1>. DEFINE c == check_parentheses(t, p, q)
            op == find_dominated_op(t, p, q)
            left == Call(p, op - 1, ok /\ c.ok)
<1>1. Len(t) \in Nat /\ p \in Nat \ {0} /\ p \in Nat /\ q \in Nat /\ p <= q
  BY DEF IsTokens
<1>2. c.ok \in BOOLEAN /\ c.yes \in BOOLEAN
  BY <1>1, CheckType
<1>3. op \in p .. q
  BY <1>1, DominatedOp
<1>. HIDE DEF c, op
<1>4. (ok /\ c.ok) \in BOOLEAN
  OBVIOUS
<1>5. Call(p + 1, q - 1, ok) \in Calls(t) /\ left \in Calls(t) /\ Call(op + 1, q, ok /\ c.ok) \in Calls(t)
  BY <1>1, <1>3, <1>4 DEF Call, Calls
<1>6. f[left] \in Results
  BY <1>5
<1>7. f[left].ok \in BOOLEAN
  BY <1>6 DEF Results
<1>8. Call(op + 1, q, f[left].ok) \in Calls(t)
  BY <1>1, <1>3, <1>7 DEF Call, Calls
<1>. QED  BY <1>2, <1>3, <1>5, <1>6, <1>8 DEF c, op

(* The body of eval, by cases.                                             *)
LEMMA EvalNone ==
  ASSUME NEW t, NEW p \in Int, NEW q \in Int, p > q, NEW ok \in BOOLEAN, NEW f
  PROVE  eval(t, f, p, q, ok) = Res(0, ok, FALSE)
BY Zenon DEF eval

LEMMA EvalOne ==
  ASSUME NEW t, NEW p \in Int, NEW ok \in BOOLEAN, NEW f
  PROVE  eval(t, f, p, p, ok) =
           IF t[p].type = "num" THEN Res(t[p].val, ok, FALSE)
           ELSE IF t[p].type = "gpr" THEN get_gpr(t[p].val, ok)
           ELSE Res(0, ok, FALSE)
<1>1. ~ (p > p)
  OBVIOUS
<1>. QED  BY <1>1, Zenon DEF eval

LEMMA EvalLong ==
  ASSUME NEW t, NEW p \in Int, NEW q \in Int, p < q, NEW ok \in BOOLEAN, NEW f,
         NEW c, c = check_parentheses(t, p, q),
         NEW op, op = find_dominated_op(t, p, q),
         NEW a, a = f[Call(p, op - 1, ok /\ c.ok)]
  PROVE  eval(t, f, p, q, ok) =
           IF c.yes THEN f[Call(p + 1, q - 1, ok)]
           ELSE IF t[op].type = "deref" THEN Vaddr_read(f[Call(op + 1, q, ok /\ c.ok)])
           ELSE Apply(t[op].type, a, f[Call(op + 1, q, a.ok)])
<1>1. p # q /\ ~ (p > q)
  OBVIOUS
<1>. QED  BY <1>1, Zenon DEF eval

LEMMA EvalType ==
  ASSUME NEW t, IsTokens(t), NEW f \in [Calls(t) -> Results],
         NEW p \in 1 .. Len(t) + 1, NEW q \in 0 .. Len(t), NEW ok \in BOOLEAN
  PROVE  eval(t, f, p, q, ok) \in Results
<1>2. Len(t) \in Nat
  BY DEF IsTokens
<1>6. p \in Int /\ q \in Int
  BY <1>2
<1>. DEFINE c == check_parentheses(t, p, q)
            op == find_dominated_op(t, p, q)
            a == f[Call(p, op - 1, ok /\ c.ok)]
<1>3. CASE p > q
  <2>1. eval(t, f, p, q, ok) = Res(0, ok, FALSE)
    BY <1>3, <1>6, EvalNone
  <2>. QED  BY <2>1, ZeroOneWord, ResType
<1>4. CASE p = q
  <2>1. p \in 1 .. Len(t) /\ ~ (p > q)
    BY <1>2, <1>4
  <2>2. eval(t, f, p, q, ok) = IF t[p].type = "num" THEN Res(t[p].val, ok, FALSE)
                           ELSE IF t[p].type = "gpr" THEN get_gpr(t[p].val, ok)
                           ELSE Res(0, ok, FALSE)
    BY <1>4, <1>6, EvalOne
  <2>3. t[p].type = "num" => t[p].val \in Word
    BY <2>1 DEF IsTokens
  <2>. QED  BY <2>2, <2>3, ZeroOneWord, ResType, GprResult
<1>5. CASE p < q
  <2>1. ~ (p > q) /\ p # q
    BY <1>2, <1>5
  <2>2. /\ Call(p + 1, q - 1, ok) \in Calls(t) /\ a \in Results
        /\ Call(op + 1, q, ok /\ c.ok) \in Calls(t) /\ Call(op + 1, q, a.ok) \in Calls(t)
        /\ c.yes \in BOOLEAN
    BY <1>5, EvalCalls
  <2>. HIDE DEF c, op, a
  <2>3. eval(t, f, p, q, ok) =
           IF c.yes THEN f[Call(p + 1, q - 1, ok)]
           ELSE IF t[op].type = "deref" THEN Vaddr_read(f[Call(op + 1, q, ok /\ c.ok)])
           ELSE Apply(t[op].type, a, f[Call(op + 1, q, a.ok)])
    BY <1>2, <1>5, EvalLong DEF c, op, a
  <2>4. /\ f[Call(p + 1, q - 1, ok)] \in Results
        /\ f[Call(op + 1, q, ok /\ c.ok)] \in Results /\ f[Call(op + 1, q, a.ok)] \in Results
    BY <2>2
  <2>5. /\ Vaddr_read(f[Call(op + 1, q, ok /\ c.ok)]) \in Results
        /\ Apply(t[op].type, a, f[Call(op + 1, q, a.ok)]) \in Results
    BY <2>2, <2>4, ReadResult, ApplyResult
  <2>. QED  BY <2>3, <2>4, <2>5
<1>. QED  BY <1>2, <1>3, <1>4, <1>5

(* Tokens of a call.                                                       *)
Size(call) == IF call.p > call.q THEN 0 ELSE call.q - call.p + 1

LEMMA EvalLocal ==
  ASSUME NEW t, IsTokens(t), NEW f \in [Calls(t) -> Results], NEW g,
         NEW p \in 1 .. Len(t) + 1, NEW q \in 0 .. Len(t), NEW ok \in BOOLEAN,
         \A y \in Calls(t) : Size(y) < Size(Call(p, q, ok)) => f[y] = g[y]
  PROVE  eval(t, f, p, q, ok) = eval(t, g, p, q, ok)
<1>2. Len(t) \in Nat
  BY DEF IsTokens
<1>6. p \in Int /\ q \in Int
  BY <1>2
<1>. DEFINE c == check_parentheses(t, p, q)
            op == find_dominated_op(t, p, q)
            a == f[Call(p, op - 1, ok /\ c.ok)]
            b == g[Call(p, op - 1, ok /\ c.ok)]
<1>3. CASE p > q
  <2>1. eval(t, f, p, q, ok) = Res(0, ok, FALSE)
    BY <1>3, <1>6, EvalNone
  <2>2. eval(t, g, p, q, ok) = Res(0, ok, FALSE)
    BY <1>3, <1>6, EvalNone
  <2>. QED  BY <2>1, <2>2
<1>4. CASE p = q
  <2>1. eval(t, f, p, q, ok) = IF t[p].type = "num" THEN Res(t[p].val, ok, FALSE)
                           ELSE IF t[p].type = "gpr" THEN get_gpr(t[p].val, ok)
                           ELSE Res(0, ok, FALSE)
    BY <1>4, <1>6, EvalOne
  <2>2. eval(t, g, p, q, ok) = IF t[p].type = "num" THEN Res(t[p].val, ok, FALSE)
                           ELSE IF t[p].type = "gpr" THEN get_gpr(t[p].val, ok)
                           ELSE Res(0, ok, FALSE)
    BY <1>4, <1>6, EvalOne
  <2>. QED  BY <2>1, <2>2
<1>5. CASE p < q
  <2>1. ~ (p > q) /\ p # q
    BY <1>2, <1>5
  <2>2. /\ Call(p + 1, q - 1, ok) \in Calls(t) /\ a \in Results
        /\ Call(p, op - 1, ok /\ c.ok) \in Calls(t)
        /\ Call(op + 1, q, ok /\ c.ok) \in Calls(t) /\ Call(op + 1, q, a.ok) \in Calls(t)
        /\ op \in p .. q /\ c.yes \in BOOLEAN
    BY <1>5, EvalCalls
  <2>. HIDE DEF c, op
  <2>3. /\ Size(Call(p + 1, q - 1, ok)) < Size(Call(p, q, ok))
        /\ Size(Call(p, op - 1, ok /\ c.ok)) < Size(Call(p, q, ok))
        /\ Size(Call(op + 1, q, ok /\ c.ok)) < Size(Call(p, q, ok))
        /\ Size(Call(op + 1, q, a.ok)) < Size(Call(p, q, ok))
    BY <1>2, <1>5, <2>2 DEF Size, Call
  <2>4. a = b
    BY <2>2, <2>3
  <2>5. /\ f[Call(p + 1, q - 1, ok)] = g[Call(p + 1, q - 1, ok)]
        /\ f[Call(op + 1, q, ok /\ c.ok)] = g[Call(op + 1, q, ok /\ c.ok)]
        /\ f[Call(op + 1, q, a.ok)] = g[Call(op + 1, q, b.ok)]
    BY <2>2, <2>3, <2>4
  <2>. HIDE DEF a, b
  <2>6. eval(t, f, p, q, ok) =
           IF c.yes THEN f[Call(p + 1, q - 1, ok)]
           ELSE IF t[op].type = "deref" THEN Vaddr_read(f[Call(op + 1, q, ok /\ c.ok)])
           ELSE Apply(t[op].type, a, f[Call(op + 1, q, a.ok)])
    BY <1>2, <1>5, EvalLong DEF c, op, a
  <2>7. eval(t, g, p, q, ok) =
           IF c.yes THEN g[Call(p + 1, q - 1, ok)]
           ELSE IF t[op].type = "deref" THEN Vaddr_read(g[Call(op + 1, q, ok /\ c.ok)])
           ELSE Apply(t[op].type, b, g[Call(op + 1, q, b.ok)])
    BY <1>2, <1>5, EvalLong DEF c, op, b
  <2>. QED  BY <2>4, <2>5, <2>6, <2>7
<1>. QED  BY <1>2, <1>3, <1>4, <1>5

LEMMA CallParts ==
  ASSUME NEW t, NEW call \in Calls(t)
  PROVE  /\ call.p \in 1 .. Len(t) + 1 /\ call.q \in 0 .. Len(t) /\ call.ok \in BOOLEAN
         /\ Call(call.p, call.q, call.ok) = call
BY DEF Calls, Call

LEMMA EvaluatedDef ==
  ASSUME NEW t, IsTokens(t)
  PROVE  /\ Evaluated(t) \in [Calls(t) -> Results]
         /\ \A call \in Calls(t) : Evaluated(t)[call] = eval(t, Evaluated(t), call.p, call.q, call.ok)
<1>. DEFINE D == Calls(t)
            V == Results
            Step == [f \in [D -> V] |-> [call \in D |-> eval(t, f, call.p, call.q, call.ok)]]
            size == [call \in D |-> Size(call)]
<1>1. V # {}
  BY ResType, ZeroOneWord
<1>2. Step \in [[D -> V] -> [D -> V]]
  <2>1. ASSUME NEW f \in [D -> V], NEW call \in D  PROVE eval(t, f, call.p, call.q, call.ok) \in V
    BY CallParts, EvalType
  <2>. HIDE DEF V, D
  <2>. QED  BY <2>1
<1>3. size \in [D -> Nat] /\ Len(t) + 1 \in Nat /\ \A call \in D : size[call] < Len(t) + 1
  <2>1. \A call \in D : Size(call) \in Nat /\ Size(call) < Len(t) + 1
    BY DEF Size, Calls, IsTokens
  <2>. HIDE DEF D
  <2>. QED  BY <2>1 DEF IsTokens
<1>. HIDE DEF D, V
<1>4. ASSUME NEW f \in [D -> V], NEW g \in [D -> V], NEW call \in D,
             \A y \in D : size[y] < size[call] => f[y] = g[y]
      PROVE  Step[f][call] = Step[g][call]
  <2>1. eval(t, f, call.p, call.q, call.ok) = eval(t, g, call.p, call.q, call.ok)
    <3>1. \A y \in D : Size(y) < Size(Call(call.p, call.q, call.ok)) => f[y] = g[y]
      BY <1>4, CallParts DEF D
    <3>. QED  BY <3>1, CallParts, EvalLocal DEF D, V
  <2>. QED  BY <2>1
<1>. HIDE DEF Step, size
<1>5. CallsSmaller(D, V, size, Len(t) + 1, Step)
  BY <1>1, <1>2, <1>3, <1>4 DEF CallsSmaller
<1>6. \E f \in [D -> V] : f = Step[f]
  BY <1>5, RecursiveFunction
<1>7. PICK f : f \in [D -> V] /\ f = [call \in D |-> eval(t, f, call.p, call.q, call.ok)]
  BY <1>6 DEF Step
<1>. DEFINE g == Evaluated(t)
<1>8. g = [call \in D |-> eval(t, g, call.p, call.q, call.ok)]
  BY <1>7 DEF Evaluated, D
<1>. HIDE DEF g
<1>9. \A call \in D : f[call] = eval(t, f, call.p, call.q, call.ok) /\ g[call] = eval(t, g, call.p, call.q, call.ok)
  BY <1>7, <1>8, Zenon
<1>10. \A call \in D : f[call] = g[call]
  <2>1. ASSUME NEW call \in D, \A y \in D : size[y] < size[call] => f[y] = g[y]
        PROVE  f[call] = g[call]
    <3>1. \A y \in D : Size(y) < Size(Call(call.p, call.q, call.ok)) => f[y] = g[y]
      BY <2>1, CallParts DEF size, D
    <3>2. eval(t, f, call.p, call.q, call.ok) = eval(t, g, call.p, call.q, call.ok)
      BY <1>7, <3>1, CallParts, EvalLocal DEF D, V
    <3>. QED  BY <1>9, <3>2
  <2>. QED  BY <1>3, <2>1, RecursiveUnique
<1>11. g = f
  BY <1>7, <1>8, <1>10
<1>. QED  BY <1>7, <1>9, <1>11 DEF D, V, g

(* The results of eval.                                                    *)
Ev(t, p, q, ok) == Evaluated(t)[Call(p, q, ok)]

LEMMA EvType ==
  ASSUME NEW t, IsTokens(t), NEW p \in 1 .. Len(t) + 1, NEW q \in 0 .. Len(t), NEW ok \in BOOLEAN
  PROVE  /\ Ev(t, p, q, ok) \in Results /\ Call(p, q, ok) \in Calls(t)
         /\ Ev(t, p, q, ok) = eval(t, Evaluated(t), p, q, ok)
<1>. DEFINE call == Call(p, q, ok)
<1>1. call \in Calls(t) /\ call.p = p /\ call.q = q /\ call.ok = ok
  BY DEF Call, Calls
<1>. HIDE DEF call
<1>2. /\ Evaluated(t)[call] = eval(t, Evaluated(t), call.p, call.q, call.ok)
      /\ Evaluated(t)[call] \in Results
  BY <1>1, EvaluatedDef
<1>. QED  BY <1>1, <1>2 DEF Ev, call

LEMMA EvNone ==
  ASSUME NEW t, IsTokens(t), NEW p \in 1 .. Len(t) + 1, NEW q \in 0 .. Len(t), NEW ok \in BOOLEAN,
         p > q
  PROVE  Ev(t, p, q, ok) = Res(0, ok, FALSE)
<1>1. p \in Int /\ q \in Int
  BY DEF IsTokens
<1>2. Ev(t, p, q, ok) = eval(t, Evaluated(t), p, q, ok)
  BY EvType
<1>. QED  BY <1>1, <1>2, EvalNone

LEMMA EvOne ==
  ASSUME NEW t, IsTokens(t), NEW p \in 1 .. Len(t), NEW ok \in BOOLEAN
  PROVE  Ev(t, p, p, ok) = IF t[p].type = "num" THEN Res(t[p].val, ok, FALSE)
                           ELSE IF t[p].type = "gpr" THEN get_gpr(t[p].val, ok)
                           ELSE Res(0, ok, FALSE)
<1>1. p \in Int /\ p \in 1 .. Len(t) + 1 /\ p \in 0 .. Len(t)
  BY DEF IsTokens
<1>2. Ev(t, p, p, ok) = eval(t, Evaluated(t), p, p, ok)
  BY <1>1, EvType
<1>. QED  BY <1>1, <1>2, EvalOne

LEMMA EvLong ==
  ASSUME NEW t, IsTokens(t), NEW p \in 1 .. Len(t), NEW q \in 1 .. Len(t), NEW ok \in BOOLEAN, p < q,
         NEW c, c = check_parentheses(t, p, q),
         NEW op, op = find_dominated_op(t, p, q),
         NEW a, a = Ev(t, p, op - 1, ok /\ c.ok)
  PROVE  /\ Ev(t, p, q, ok) =
              IF c.yes THEN Ev(t, p + 1, q - 1, ok)
              ELSE IF t[op].type = "deref" THEN Vaddr_read(Ev(t, op + 1, q, ok /\ c.ok))
              ELSE Apply(t[op].type, a, Ev(t, op + 1, q, a.ok))
         /\ c.yes \in BOOLEAN /\ c.ok \in BOOLEAN /\ op \in p .. q
         /\ a \in Results /\ a.ok \in BOOLEAN
<1>1. Len(t) \in Nat
  BY DEF IsTokens
<1>2. p \in 1 .. Len(t) + 1 /\ q \in 0 .. Len(t) /\ p \in Int /\ q \in Int
  BY <1>1
<1>. DEFINE f == Evaluated(t)
<1>3. f \in [Calls(t) -> Results]
  BY EvaluatedDef
<1>4. a = f[Call(p, op - 1, ok /\ c.ok)]
  BY DEF Ev
<1>5. Ev(t, p, q, ok) = eval(t, f, p, q, ok)
  BY <1>2, EvType
<1>. HIDE DEF f
<1>6. /\ op \in p .. q /\ c.ok \in BOOLEAN /\ c.yes \in BOOLEAN /\ a \in Results
  BY <1>2, <1>3, <1>4, EvalCalls
<1>7. eval(t, f, p, q, ok) =
           IF c.yes THEN f[Call(p + 1, q - 1, ok)]
           ELSE IF t[op].type = "deref" THEN Vaddr_read(f[Call(op + 1, q, ok /\ c.ok)])
           ELSE Apply(t[op].type, a, f[Call(op + 1, q, a.ok)])
  BY <1>2, <1>4, EvalLong
<1>8. a.ok \in BOOLEAN
  BY <1>6 DEF Results
<1>. QED  BY <1>5, <1>6, <1>7, <1>8 DEF Ev, f

-----------------------------------------------------------------------------
(* The grammar satisfies its definition.                                   *)

Values == [r : Results, c : Int, cok : BOOLEAN]

IsText(s) == s \in Seq(Atoms \cup Ops \cup Parentheses)

LEMMA LeafType == \A r \in Results, c \in Int : Leaf(r, c) \in Values
BY DEF Leaf, Values, InInt

LEMMA JoinedType ==
  ASSUME NEW op, NEW a \in Values, NEW b \in Values
  PROVE  Joined(op, a, b) \in Values
<1>1. a.r \in Results /\ b.r \in Results /\ a.c \in Int /\ b.c \in Int
  BY DEF Values
<1>2. Apply(op, a.r, b.r) \in Results
  BY <1>1, ApplyResult
<1>. DEFINE c == CASE op = "+" -> a.c + b.c
                   [] op = "-" -> a.c - b.c
                   [] op = "*" -> a.c * b.c
                   [] op = "/" /\ a.c >= 0 /\ b.c > 0 -> a.c \div b.c
                   [] OTHER -> Half
<1>3. c \in Int
  BY <1>1, ExprAssumption DEF ExprAssumption
<1>. HIDE DEF c
<1>4. (a.cok /\ b.cok /\ InInt(c)) \in BOOLEAN
  BY DEF Values, InInt
<1>5. Joined(op, a, b) = [r |-> Apply(op, a.r, b.r), c |-> c, cok |-> a.cok /\ b.cok /\ InInt(c)]
  BY DEF Joined, c
<1>. QED  BY <1>2, <1>3, <1>4, <1>5 DEF Values


LEMMA InSplits ==
  ASSUME NEW s, NEW f, NEW i \in Int, NEW j \in Int, NEW level, NEW m
  PROVE  m \in Splits(s, f, i, j, level) <=>
           \E k \in i .. j : /\ s[k] \in Levels[level]
                             /\ \E a \in f[Phrase(i, k - 1, level)], b \in f[Phrase(k + 1, j, level + 1)] :
                                  m = Joined(s[k], a, b)
BY DEF Splits

LEMMA SplitsLocal ==
  ASSUME NEW s, NEW f, NEW g, NEW i \in Int, NEW j \in Int, NEW level,
         \A k \in i .. j : /\ f[Phrase(i, k - 1, level)] = g[Phrase(i, k - 1, level)]
                           /\ f[Phrase(k + 1, j, level + 1)] = g[Phrase(k + 1, j, level + 1)]
  PROVE  Splits(s, f, i, j, level) = Splits(s, g, i, j, level)
<1>1. ASSUME NEW m  PROVE m \in Splits(s, f, i, j, level) <=> m \in Splits(s, g, i, j, level)
  <2>1. ASSUME m \in Splits(s, f, i, j, level)  PROVE m \in Splits(s, g, i, j, level)
    <3>1. PICK k \in i .. j : /\ s[k] \in Levels[level]
                              /\ \E a \in f[Phrase(i, k - 1, level)], b \in f[Phrase(k + 1, j, level + 1)] :
                                   m = Joined(s[k], a, b)
      BY <2>1 DEF Splits
    <3>2. \E a \in g[Phrase(i, k - 1, level)], b \in g[Phrase(k + 1, j, level + 1)] : m = Joined(s[k], a, b)
      BY <3>1
    <3>. QED  BY <3>1, <3>2, InSplits
  <2>2. ASSUME m \in Splits(s, g, i, j, level)  PROVE m \in Splits(s, f, i, j, level)
    <3>1. PICK k \in i .. j : /\ s[k] \in Levels[level]
                              /\ \E a \in g[Phrase(i, k - 1, level)], b \in g[Phrase(k + 1, j, level + 1)] :
                                   m = Joined(s[k], a, b)
      BY <2>2 DEF Splits
    <3>2. \E a \in f[Phrase(i, k - 1, level)], b \in f[Phrase(k + 1, j, level + 1)] : m = Joined(s[k], a, b)
      BY <3>1
    <3>. QED  BY <3>1, <3>2, InSplits
  <2>. QED  BY <2>1, <2>2
<1>. QED  BY <1>1

LEMMA MeansNone ==
  ASSUME NEW s, NEW f, NEW i \in Int, NEW j \in Int, NEW level, i > j
  PROVE  Means(s, f, i, j, level) = {}
BY DEF Means

LEMMA MeansBinary ==
  ASSUME NEW s, NEW f, NEW i \in Int, NEW j \in Int, NEW level \in 1 .. 5, i <= j
  PROVE  Means(s, f, i, j, level) = f[Phrase(i, j, level + 1)] \cup Splits(s, f, i, j, level)
BY DEF Means

LEMMA MeansUnary ==
  ASSUME NEW s, NEW f, NEW i \in Int, NEW j \in Int, i <= j
  PROVE  Means(s, f, i, j, 6) = Unary(s, f, i, j)
BY DEF Means

(* What a phrase holds, smaller phrases first.                             *)
PhraseSize(x) == 7 * (IF x.i > x.j THEN 0 ELSE x.j - x.i + 1) + (6 - x.level)

LEMMA PhraseParts ==
  ASSUME NEW s, NEW x \in Phrases(s)
  PROVE  /\ x.i \in 1 .. Len(s) + 1 /\ x.j \in 0 .. Len(s) /\ x.level \in 1 .. 6
         /\ Phrase(x.i, x.j, x.level) = x
BY DEF Phrases, Phrase

(* The phrases that the meaning of a phrase is made of.                    *)
LEMMA MeansParts ==
  ASSUME NEW s, Len(s) \in Nat, NEW i \in 1 .. Len(s) + 1, NEW j \in 0 .. Len(s), NEW level \in 1 .. 6,
         i <= j
  PROVE  LET n == PhraseSize(Phrase(i, j, level))
         IN  /\ level <= 5 =>
                  /\ Phrase(i, j, level + 1) \in Phrases(s) /\ PhraseSize(Phrase(i, j, level + 1)) < n
                  /\ \A k \in i .. j :
                       /\ Phrase(i, k - 1, level) \in Phrases(s)
                       /\ PhraseSize(Phrase(i, k - 1, level)) < n
                       /\ Phrase(k + 1, j, level + 1) \in Phrases(s)
                       /\ PhraseSize(Phrase(k + 1, j, level + 1)) < n
             /\ Phrase(i + 1, j, 6) \in Phrases(s) /\ PhraseSize(Phrase(i + 1, j, 6)) < n
             /\ Phrase(i + 1, j - 1, 1) \in Phrases(s) /\ PhraseSize(Phrase(i + 1, j - 1, 1)) < n
BY DEF Phrases, Phrase, PhraseSize

(* The two sides of a place in a phrase are phrases, and smaller ones.     *)
LEMMA MeansSides ==
  ASSUME NEW s, Len(s) \in Nat, NEW i \in 1 .. Len(s) + 1, NEW j \in 0 .. Len(s), NEW level \in 1 .. 5,
         NEW k \in i .. j
  PROVE  LET n == PhraseSize(Phrase(i, j, level))
         IN  /\ Phrase(i, k - 1, level) \in Phrases(s)
             /\ PhraseSize(Phrase(i, k - 1, level)) < n
             /\ Phrase(k + 1, j, level + 1) \in Phrases(s)
             /\ PhraseSize(Phrase(k + 1, j, level + 1)) < n
<1>1. level \in 1 .. 6 /\ i <= j /\ level <= 5
  OBVIOUS
<1>. QED  BY <1>1, MeansParts

LEMMA MeansType ==
  ASSUME NEW s, Len(s) \in Nat, NEW f \in [Phrases(s) -> SUBSET Values],
         NEW i \in 1 .. Len(s) + 1, NEW j \in 0 .. Len(s), NEW level \in 1 .. 6
  PROVE  Means(s, f, i, j, level) \in SUBSET Values
<1>1. i \in Int /\ j \in Int
  OBVIOUS
<1>2. CASE i > j
  BY <1>1, <1>2, MeansNone
<1>3. CASE i <= j /\ level \in 1 .. 5
  <2>1. f[Phrase(i, j, level + 1)] \in SUBSET Values
    BY <1>3, MeansParts
  <2>2. ASSUME NEW m \in Splits(s, f, i, j, level)  PROVE m \in Values
    <3>0. PICK k \in i .. j :
            \E a \in f[Phrase(i, k - 1, level)], b \in f[Phrase(k + 1, j, level + 1)] : m = Joined(s[k], a, b)
      BY <1>1, <2>2, InSplits
    <3>1. PICK a \in f[Phrase(i, k - 1, level)], b \in f[Phrase(k + 1, j, level + 1)] : m = Joined(s[k], a, b)
      BY <3>0
    <3>2. f[Phrase(i, k - 1, level)] \in SUBSET Values /\ f[Phrase(k + 1, j, level + 1)] \in SUBSET Values
      BY <1>3, MeansSides
    <3>. QED  BY <3>1, <3>2, JoinedType
  <2>. QED  BY <1>1, <1>3, <2>1, <2>2, MeansBinary
<1>4. CASE i <= j /\ level = 6
  <2>1. f[Phrase(i + 1, j, 6)] \in SUBSET Values /\ f[Phrase(i + 1, j - 1, 1)] \in SUBSET Values
    BY <1>4, MeansParts
  <2>2. ASSUME NEW x \in f[Phrase(i + 1, j, 6)]
        PROVE  AtAddress(x) \in Values
    <3>1. x \in Values /\ Vaddr_read(x.r) \in Results
      BY <2>1, ReadResult DEF Values
    <3>. QED  BY <3>1 DEF Values, AtAddress
  <2>3. /\ s[i] \in DOMAIN Decimal =>
             Leaf(Res(Wrap(Decimal[s[i]]), TRUE, FALSE), Decimal[s[i]]) \in Values
        /\ s[i] \in DOMAIN Hex => Leaf(Res(Wrap(Hex[s[i]]), TRUE, FALSE), Hex[s[i]]) \in Values
        /\ Leaf(Named(s[i]), 0) \in Values
    <3>1. /\ s[i] \in DOMAIN Decimal => Decimal[s[i]] \in Int
          /\ s[i] \in DOMAIN Hex => Hex[s[i]] \in Int
      BY ExprAssumption DEF ExprAssumption
    <3>2. \A n \in Int : Res(Wrap(n), TRUE, FALSE) \in Results
      BY WrapType, ResType
    <3>3. \A n \in Int : Leaf(Res(Wrap(n), TRUE, FALSE), n) \in Values
      BY <3>2, LeafType
    <3>4. Named(s[i]) \in Results
      BY GprResult, NamedGpr
    <3>5. Leaf(Named(s[i]), 0) \in Values
      <4>. DEFINE r == Named(s[i])
      <4>1. r \in Results
        BY <3>4
      <4>. HIDE DEF r
      <4>2. Leaf(r, 0) \in Values
        BY <4>1, LeafType
      <4>. QED  BY <4>2, Zenon DEF r
    <3>. QED  BY <3>1, <3>3, <3>5
  <2>4. Unary(s, f, i, j) \in SUBSET Values
    BY <2>1, <2>2, <2>3 DEF Unary
  <2>. QED  BY <1>1, <1>4, <2>4, MeansUnary
<1>. QED  BY <1>1, <1>2, <1>3, <1>4

LEMMA MeansLocal ==
  ASSUME NEW s, Len(s) \in Nat, NEW f, NEW g,
         NEW i \in 1 .. Len(s) + 1, NEW j \in 0 .. Len(s), NEW level \in 1 .. 6,
         \A y \in Phrases(s) : PhraseSize(y) < PhraseSize(Phrase(i, j, level)) => f[y] = g[y]
  PROVE  Means(s, f, i, j, level) = Means(s, g, i, j, level)
<1>1. i \in Int /\ j \in Int
  OBVIOUS
<1>2. CASE i > j
  <2>1. Means(s, f, i, j, level) = {}
    BY <1>1, <1>2, MeansNone
  <2>2. Means(s, g, i, j, level) = {}
    BY <1>1, <1>2, MeansNone
  <2>. QED  BY <2>1, <2>2
<1>3. CASE i <= j /\ level \in 1 .. 5
  <2>1. f[Phrase(i, j, level + 1)] = g[Phrase(i, j, level + 1)]
    BY <1>3, MeansParts
  <2>2. ASSUME NEW k \in i .. j
        PROVE  /\ f[Phrase(i, k - 1, level)] = g[Phrase(i, k - 1, level)]
               /\ f[Phrase(k + 1, j, level + 1)] = g[Phrase(k + 1, j, level + 1)]
    BY <1>3, MeansSides
  <2>3. Splits(s, f, i, j, level) = Splits(s, g, i, j, level)
    BY <1>1, <2>2, SplitsLocal
  <2>5. Means(s, f, i, j, level) = f[Phrase(i, j, level + 1)] \cup Splits(s, f, i, j, level)
    BY <1>1, <1>3 DEF Means
  <2>6. Means(s, g, i, j, level) = g[Phrase(i, j, level + 1)] \cup Splits(s, g, i, j, level)
    BY <1>1, <1>3 DEF Means
  <2>. QED  BY <2>1, <2>3, <2>5, <2>6
<1>4. CASE i <= j /\ level = 6
  <2>1. f[Phrase(i + 1, j, 6)] = g[Phrase(i + 1, j, 6)] /\ f[Phrase(i + 1, j - 1, 1)] = g[Phrase(i + 1, j - 1, 1)]
    BY <1>4, MeansParts
  <2>2. Unary(s, f, i, j) = Unary(s, g, i, j)
    BY <2>1 DEF Unary
  <2>3. Means(s, f, i, j, 6) = Unary(s, f, i, j)
    BY <1>1, <1>4, MeansUnary
  <2>4. Means(s, g, i, j, 6) = Unary(s, g, i, j)
    BY <1>1, <1>4, MeansUnary
  <2>. QED  BY <1>4, <2>2, <2>3, <2>4
<1>. QED  BY <1>1, <1>2, <1>3, <1>4

LEMMA SentenceDef ==
  ASSUME NEW s, Len(s) \in Nat
  PROVE  /\ Sentence(s) \in [Phrases(s) -> SUBSET Values]
         /\ \A x \in Phrases(s) : Sentence(s)[x] = Means(s, Sentence(s), x.i, x.j, x.level)
<1>. DEFINE D == Phrases(s)
            V == SUBSET Values
            Step == [f \in [D -> V] |-> [x \in D |-> Means(s, f, x.i, x.j, x.level)]]
            size == [x \in D |-> PhraseSize(x)]
            bound == 7 * Len(s) + 6
<1>1. V # {}
  OBVIOUS
<1>2. Step \in [[D -> V] -> [D -> V]]
  <2>1. ASSUME NEW f \in [D -> V], NEW x \in D  PROVE Means(s, f, x.i, x.j, x.level) \in V
    BY PhraseParts, MeansType
  <2>. HIDE DEF V, D
  <2>. QED  BY <2>1
<1>3. size \in [D -> Nat] /\ bound \in Nat /\ \A x \in D : size[x] < bound
  <2>1. \A x \in D : PhraseSize(x) \in Nat /\ PhraseSize(x) < bound
    BY SMTT(60) DEF PhraseSize, Phrases
  <2>. HIDE DEF D
  <2>. QED  BY <2>1
<1>. HIDE DEF D, V, bound
<1>4. ASSUME NEW f \in [D -> V], NEW g \in [D -> V], NEW x \in D,
             \A y \in D : size[y] < size[x] => f[y] = g[y]
      PROVE  Step[f][x] = Step[g][x]
  <2>1. Means(s, f, x.i, x.j, x.level) = Means(s, g, x.i, x.j, x.level)
    <3>1. x.i \in 1 .. Len(s) + 1 /\ x.j \in 0 .. Len(s) /\ x.level \in 1 .. 6
          /\ Phrase(x.i, x.j, x.level) = x
      BY PhraseParts DEF D
    <3>2. \A y \in D : PhraseSize(y) < PhraseSize(Phrase(x.i, x.j, x.level)) => f[y] = g[y]
      BY <1>4, <3>1
    <3>. QED  BY <3>1, <3>2, MeansLocal DEF D
  <2>. QED  BY <2>1
<1>. HIDE DEF Step, size
<1>5. CallsSmaller(D, V, size, bound, Step)
  BY <1>1, <1>2, <1>3, <1>4 DEF CallsSmaller
<1>6. \E f \in [D -> V] : f = Step[f]
  BY <1>5, RecursiveFunction
<1>7. PICK f : f \in [D -> V] /\ f = [x \in D |-> Means(s, f, x.i, x.j, x.level)]
  BY <1>6 DEF Step
<1>. DEFINE g == Sentence(s)
<1>8. g = [x \in D |-> Means(s, g, x.i, x.j, x.level)]
  BY <1>7 DEF Sentence, D
<1>. HIDE DEF g
<1>9. \A x \in D : f[x] = Means(s, f, x.i, x.j, x.level) /\ g[x] = Means(s, g, x.i, x.j, x.level)
  BY <1>7, <1>8, Zenon
<1>10. \A x \in D : f[x] = g[x]
  <2>1. ASSUME NEW x \in D, \A y \in D : size[y] < size[x] => f[y] = g[y]
        PROVE  f[x] = g[x]
    <3>1. x.i \in 1 .. Len(s) + 1 /\ x.j \in 0 .. Len(s) /\ x.level \in 1 .. 6
          /\ Phrase(x.i, x.j, x.level) = x
      BY PhraseParts DEF D
    <3>2. \A y \in D : PhraseSize(y) < PhraseSize(Phrase(x.i, x.j, x.level)) => f[y] = g[y]
      BY <2>1, <3>1 DEF size
    <3>3. Means(s, f, x.i, x.j, x.level) = Means(s, g, x.i, x.j, x.level)
      BY <3>1, <3>2, MeansLocal DEF D
    <3>. QED  BY <1>9, <3>3
  <2>2. size \in [D -> Nat]
    BY <1>3
  <2>. QED  BY <2>1, <2>2, RecursiveUnique
<1>11. g = f
  BY <1>7, <1>8, <1>10
<1>. QED  BY <1>7, <1>9, <1>11 DEF D, V, g

(* The values of units i .. j at a level.                                  *)
Sen(s, i, j, level) == Sentence(s)[Phrase(i, j, level)]

LEMMA SenDef ==
  ASSUME NEW s, Len(s) \in Nat,
         NEW i \in 1 .. Len(s) + 1, NEW j \in 0 .. Len(s), NEW level \in 1 .. 6
  PROVE  /\ Sen(s, i, j, level) \in SUBSET Values
         /\ Sen(s, i, j, level) = Means(s, Sentence(s), i, j, level)
<1>. DEFINE x == Phrase(i, j, level)
<1>1. x \in Phrases(s) /\ x.i = i /\ x.j = j /\ x.level = level
  BY DEF Phrase, Phrases
<1>. HIDE DEF x
<1>2. /\ Sentence(s)[x] = Means(s, Sentence(s), x.i, x.j, x.level)
      /\ Sentence(s)[x] \in SUBSET Values
  BY <1>1, SentenceDef
<1>. QED  BY <1>1, <1>2 DEF Sen, x

LEMMA SenNone ==
  ASSUME NEW s, Len(s) \in Nat,
         NEW i \in 1 .. Len(s) + 1, NEW j \in 0 .. Len(s), NEW level \in 1 .. 6, i > j
  PROVE  Sen(s, i, j, level) = {}
<1>1. i \in Int /\ j \in Int
  OBVIOUS
<1>2. Means(s, Sentence(s), i, j, level) = {}
  BY <1>1, MeansNone
<1>. QED  BY <1>2, SenDef

(* A phrase of a level of binary operators binds tighter, or ends in an    *)
(* operator of the level and its right operand.                            *)
Joinings(s, i, j, level) == Splits(s, Sentence(s), i, j, level)

LEMMA SenBinary ==
  ASSUME NEW s, Len(s) \in Nat,
         NEW i \in 1 .. Len(s), NEW j \in 1 .. Len(s), NEW level \in 1 .. 5, i <= j
  PROVE  Sen(s, i, j, level) = Sen(s, i, j, level + 1) \cup Joinings(s, i, j, level)
<1>1. /\ i \in 1 .. Len(s) + 1 /\ j \in 0 .. Len(s) /\ level \in 1 .. 6 /\ i \in Int /\ j \in Int
  OBVIOUS
<1>2. Sen(s, i, j, level) = Means(s, Sentence(s), i, j, level)
  BY <1>1, SenDef
<1>3. Means(s, Sentence(s), i, j, level) =
        Sen(s, i, j, level + 1) \cup Joinings(s, i, j, level)
  BY <1>1, MeansBinary DEF Sen, Joinings
<1>. QED  BY <1>2, <1>3

LEMMA InJoinings ==
  ASSUME NEW s, NEW i, NEW j, NEW level, NEW m
  PROVE  m \in Joinings(s, i, j, level) <=>
           \E k \in i .. j :
             /\ s[k] \in Levels[level]
             /\ \E a \in Sen(s, i, k - 1, level), b \in Sen(s, k + 1, j, level + 1) :
                  m = Joined(s[k], a, b)
BY DEF Joinings, Splits, Sen

LEMMA SenUnary ==
  ASSUME NEW s, Len(s) \in Nat, NEW i \in 1 .. Len(s), NEW j \in 1 .. Len(s), i <= j
  PROVE  Sen(s, i, j, 6) = Unary(s, Sentence(s), i, j)
<1>1. i \in 1 .. Len(s) + 1 /\ j \in 0 .. Len(s) /\ 6 \in 1 .. 6 /\ i \in Int /\ j \in Int
  OBVIOUS
<1>2. Sen(s, i, j, 6) = Means(s, Sentence(s), i, j, 6)
  BY <1>1, SenDef
<1>3. Means(s, Sentence(s), i, j, 6) = Unary(s, Sentence(s), i, j)
  BY <1>1, MeansUnary
<1>. QED  BY <1>2, <1>3

-----------------------------------------------------------------------------
(* Induction over phrases.                                                 *)

Parse(i, j, level, m) == [i |-> i, j |-> j, level |-> level, m |-> m]
Parses(s) == [i : 1 .. Len(s), j : 1 .. Len(s), level : 1 .. 6, m : Values]

(* What holds of the phrases inside holds of a phrase.                     *)
Tighter(s, S) ==
  \A i \in 1 .. Len(s), j \in 1 .. Len(s), level \in 1 .. 5 : \A m \in Sen(s, i, j, level + 1) :
    i <= j /\ Parse(i, j, level + 1, m) \in S => Parse(i, j, level, m) \in S
Joins(s, S) ==
  \A i \in 1 .. Len(s), j \in 1 .. Len(s), level \in 1 .. 5, k \in 1 .. Len(s) :
    \A a \in Sen(s, i, k - 1, level), b \in Sen(s, k + 1, j, level + 1) :
      /\ i < k /\ k < j /\ s[k] \in Levels[level]
      /\ Parse(i, k - 1, level, a) \in S /\ Parse(k + 1, j, level + 1, b) \in S
      => Parse(i, j, level, Joined(s[k], a, b)) \in S
Reads(s, S) ==
  \A i \in 1 .. Len(s), j \in 1 .. Len(s) : \A x \in Sen(s, i + 1, j, 6) :
    i < j /\ s[i] = "*" /\ Parse(i + 1, j, 6, x) \in S => Parse(i, j, 6, AtAddress(x)) \in S
Encloses(s, S) ==
  \A i \in 1 .. Len(s), j \in 1 .. Len(s) : \A x \in Sen(s, i + 1, j - 1, 1) :
    i + 1 < j /\ s[i] = "(" /\ s[j] = ")" /\ Parse(i + 1, j - 1, 1, x) \in S => Parse(i, j, 6, x) \in S
Stands(s, S) ==
  \A i \in 1 .. Len(s) : \A m \in Sen(s, i, i, 6) : s[i] \in Atoms => Parse(i, i, 6, m) \in S

LEMMA PhraseInduction ==
  ASSUME NEW s, Len(s) \in Nat, NEW S,
         Tighter(s, S), Joins(s, S), Reads(s, S), Encloses(s, S), Stands(s, S)
  PROVE  \A i \in 1 .. Len(s) + 1, j \in 0 .. Len(s), level \in 1 .. 6 : \A m \in Sen(s, i, j, level) :
           /\ i \in 1 .. Len(s) /\ j \in 1 .. Len(s) /\ i <= j
           /\ Parse(i, j, level, m) \in S
<1>. DEFINE Good(i, j, level) ==
              \A m \in Sen(s, i, j, level) :
                i \in 1 .. Len(s) /\ j \in 1 .. Len(s) /\ i <= j /\ Parse(i, j, level, m) \in S
            R == {n \in Nat : \A i \in 1 .. Len(s) + 1, j \in 0 .. Len(s), level \in 1 .. 6 :
                                PhraseSize(Phrase(i, j, level)) = n => Good(i, j, level)}
<1>1. ASSUME NEW n \in Nat, \A k \in Nat : k < n => k \in R  PROVE n \in R
  <2>. SUFFICES ASSUME NEW i \in 1 .. Len(s) + 1, NEW j \in 0 .. Len(s), NEW level \in 1 .. 6,
                       PhraseSize(Phrase(i, j, level)) = n, NEW m \in Sen(s, i, j, level)
                PROVE  i \in 1 .. Len(s) /\ j \in 1 .. Len(s) /\ i <= j /\ Parse(i, j, level, m) \in S
    OBVIOUS
  <2>1. i <= j /\ i \in 1 .. Len(s) /\ j \in 1 .. Len(s)
    BY SenNone
  <2>2. ASSUME NEW ii \in 1 .. Len(s) + 1, NEW jj \in 0 .. Len(s), NEW ll \in 1 .. 6,
               PhraseSize(Phrase(ii, jj, ll)) < n
        PROVE  Good(ii, jj, ll)
    <3>. HIDE DEF Good
    <3>1. PhraseSize(Phrase(ii, jj, ll)) \in Nat
      BY DEF PhraseSize, Phrase
    <3>. QED  BY <1>1, <2>2, <3>1
  <2>3. CASE level \in 1 .. 5
    <3>1. CASE m \in Sen(s, i, j, level + 1)
      <4>1. PhraseSize(Phrase(i, j, level + 1)) < n
        BY <2>1, <2>3, MeansParts
      <4>2. Parse(i, j, level + 1, m) \in S
        BY <2>2, <2>3, <3>1, <4>1
      <4>. QED  BY <2>1, <2>3, <3>1, <4>2 DEF Tighter
    <3>2. ASSUME NEW k \in i .. j, s[k] \in Levels[level],
                 NEW a \in Sen(s, i, k - 1, level), NEW b \in Sen(s, k + 1, j, level + 1),
                 m = Joined(s[k], a, b)
          PROVE  Parse(i, j, level, m) \in S
      <4>1. /\ PhraseSize(Phrase(i, k - 1, level)) < n
            /\ PhraseSize(Phrase(k + 1, j, level + 1)) < n
        BY <2>3, MeansSides
      <4>2. /\ k - 1 \in 0 .. Len(s) /\ k + 1 \in 1 .. Len(s) + 1 /\ k \in 1 .. Len(s)
            /\ level + 1 \in 1 .. 6
        BY <2>1, <2>3
      <4>3. /\ Parse(i, k - 1, level, a) \in S /\ k - 1 \in 1 .. Len(s) /\ i <= k - 1
        BY <2>2, <4>1, <4>2
      <4>4. Parse(k + 1, j, level + 1, b) \in S /\ k + 1 <= j
        BY <2>2, <4>1, <4>2
      <4>5. i < k /\ k < j
        BY <2>1, <4>2, <4>3, <4>4
      <4>. QED  BY <2>1, <2>3, <3>2, <4>2, <4>3, <4>4, <4>5 DEF Joins
    <3>3. \/ m \in Sen(s, i, j, level + 1)
          \/ \E k \in i .. j :
               /\ s[k] \in Levels[level]
               /\ \E a \in Sen(s, i, k - 1, level), b \in Sen(s, k + 1, j, level + 1) :
                    m = Joined(s[k], a, b)
      <4>1. m \in Sen(s, i, j, level + 1) \cup Joinings(s, i, j, level)
        BY <2>1, <2>3, SenBinary
      <4>. QED  BY <4>1 DEF Joinings, Splits, Sen
    <3>. QED  BY <3>1, <3>2, <3>3
  <2>4. CASE level = 6
    <3>1. m \in Unary(s, Sentence(s), i, j)
      BY <2>1, <2>4, SenUnary
    <3>2. CASE s[i] = "*"
      <4>1. PICK x \in Sen(s, i + 1, j, 6) : m = AtAddress(x)
        BY <3>1, <3>2 DEF Unary, Sen
      <4>2. PhraseSize(Phrase(i + 1, j, 6)) < n
        BY <2>1, <2>4, MeansParts
      <4>3. i + 1 \in 1 .. Len(s) + 1
        BY <2>1
      <4>4. Parse(i + 1, j, 6, x) \in S /\ i + 1 <= j
        BY <2>2, <4>2, <4>3
      <4>5. i < j
        BY <2>1, <4>4
      <4>. QED  BY <2>1, <2>4, <3>2, <4>1, <4>4, <4>5 DEF Reads
    <3>3. CASE s[i] = "(" /\ s[j] = ")"
      <4>1. m \in Sen(s, i + 1, j - 1, 1)
        BY <3>1, <3>3 DEF Unary, Sen
      <4>2. PhraseSize(Phrase(i + 1, j - 1, 1)) < n
        BY <2>1, <2>4, MeansParts
      <4>3. i + 1 \in 1 .. Len(s) + 1 /\ j - 1 \in 0 .. Len(s)
        BY <2>1
      <4>4. Parse(i + 1, j - 1, 1, m) \in S /\ i + 1 <= j - 1
        BY <2>2, <4>1, <4>2, <4>3
      <4>5. i + 1 < j
        BY <2>1, <4>4
      <4>. QED  BY <2>1, <2>4, <3>3, <4>1, <4>4, <4>5 DEF Encloses
    <3>4. CASE s[i] # "*" /\ ~ (s[i] = "(" /\ s[j] = ")")
      <4>0. \/ ~ (i < j) /\ s[i] \in Atoms
            \/ m \in {}
        BY <3>1, <3>4, Zenon DEF Unary, Atoms
      <4>1. i = j /\ s[i] \in Atoms
        BY <2>1, <4>0
      <4>. QED  BY <2>1, <2>4, <4>1 DEF Stands
    <3>. QED  BY <3>2, <3>3, <3>4
  <2>. QED  BY <2>1, <2>3, <2>4
<1>2. Nat \subseteq R
  <2>. HIDE DEF R
  <2>. QED  BY <1>1, StrongInduction
<1>3. ASSUME NEW i \in 1 .. Len(s) + 1, NEW j \in 0 .. Len(s), NEW level \in 1 .. 6
      PROVE  Good(i, j, level)
  <2>. HIDE DEF Good
  <2>1. PhraseSize(Phrase(i, j, level)) \in Nat
    BY DEF PhraseSize, Phrase
  <2>. QED  BY <1>2, <2>1
<1>. QED  BY <1>3

-----------------------------------------------------------------------------
(* Parentheses.                                                            *)

LEMMA CountTo ==
  ASSUME NEW A, NEW k \in Nat
  PROVE  /\ Cardinality({x \in 1 .. k : x \in A}) \in Nat
         /\ Cardinality({x \in 1 .. k + 1 : x \in A}) =
              Cardinality({x \in 1 .. k : x \in A}) + (IF k + 1 \in A THEN 1 ELSE 0)
<1>. DEFINE B == {x \in 1 .. k : x \in A}
            C == {x \in 1 .. k + 1 : x \in A}
<1>1. IsFiniteSet(1 .. k)
  BY FS_Interval
<1>2. IsFiniteSet(B)
  BY <1>1, FS_Subset
<1>3. Cardinality(B) \in Nat
  <2>. HIDE DEF B
  <2>. QED  BY <1>2, FS_CardinalityType
<1>4. CASE k + 1 \in A
  <2>1. C = B \cup {k + 1} /\ k + 1 \notin B
    BY <1>4
  <2>. HIDE DEF B, C
  <2>2. Cardinality(C) = Cardinality(B) + 1
    BY <1>2, <2>1, FS_AddElement
  <2>. QED  BY <1>3, <1>4, <2>2 DEF B, C
<1>5. CASE k + 1 \notin A
  <2>1. C = B
    BY <1>5
  <2>. QED  BY <1>3, <1>5, <2>1
<1>. QED  BY <1>4, <1>5

LEMMA CountBetween ==
  ASSUME NEW A, NEW p \in Nat \ {0}, NEW i \in Nat \ {0}, p <= i
  PROVE  Cardinality({x \in p .. i - 1 : x \in A}) =
           Cardinality({x \in 1 .. i - 1 : x \in A}) - Cardinality({x \in 1 .. p - 1 : x \in A})
<1>. DEFINE B == {x \in 1 .. p - 1 : x \in A}
            C == {x \in p .. i - 1 : x \in A}
            D == {x \in 1 .. i - 1 : x \in A}
<1>1. IsFiniteSet(1 .. p - 1) /\ IsFiniteSet(p .. i - 1)
  BY FS_Interval
<1>2. IsFiniteSet(B) /\ IsFiniteSet(C)
  BY <1>1, FS_Subset
<1>3. D = B \cup C /\ B \cap C = {}
  OBVIOUS
<1>. HIDE DEF B, C, D
<1>4. Cardinality(D) = Cardinality(B) + Cardinality(C) - Cardinality(B \cap C)
  BY <1>2, <1>3, FS_Union
<1>5. Cardinality(B \cap C) = 0
  BY <1>3, FS_EmptySet
<1>6. Cardinality(B) \in Nat /\ Cardinality(C) \in Nat
  BY <1>2, FS_CardinalityType
<1>. QED  BY <1>4, <1>5, <1>6 DEF B, C, D

(* The number of parentheses open before a unit.                           *)
Places(s, u) == {x \in 1 .. Len(s) : s[x] = u}
Depth(s) == [k \in 1 .. Len(s) + 1 |->
               Cardinality({x \in 1 .. k - 1 : x \in Places(s, "(")})
                 - Cardinality({x \in 1 .. k - 1 : x \in Places(s, ")")})]

LEMMA DepthStep ==
  ASSUME NEW s, Len(s) \in Nat
  PROVE  /\ Depth(s) \in [1 .. Len(s) + 1 -> Int]
         /\ \A k \in 1 .. Len(s) :
              Depth(s)[k + 1] = Depth(s)[k] + (IF s[k] = "(" THEN 1 ELSE IF s[k] = ")" THEN -1 ELSE 0)
<1>. DEFINE count(A, k) == Cardinality({x \in 1 .. k - 1 : x \in A})
<1>1. \A A : \A k \in Nat \ {0} :
        count(A, k) \in Nat /\ count(A, k + 1) = count(A, k) + (IF k \in A THEN 1 ELSE 0)
  <2>. SUFFICES ASSUME NEW A, NEW k \in Nat \ {0}
                PROVE  count(A, k) \in Nat /\ count(A, k + 1) = count(A, k) + (IF k \in A THEN 1 ELSE 0)
    OBVIOUS
  <2>1. k - 1 \in Nat /\ (k - 1) + 1 = k /\ (k + 1) - 1 = k
    OBVIOUS
  <2>2. /\ Cardinality({x \in 1 .. k - 1 : x \in A}) \in Nat
        /\ Cardinality({x \in 1 .. (k - 1) + 1 : x \in A}) =
             Cardinality({x \in 1 .. k - 1 : x \in A}) + (IF (k - 1) + 1 \in A THEN 1 ELSE 0)
    <3>. DEFINE n == k - 1
    <3>1. n \in Nat
      BY <2>1
    <3>. HIDE DEF n
    <3>2. /\ Cardinality({x \in 1 .. n : x \in A}) \in Nat
          /\ Cardinality({x \in 1 .. n + 1 : x \in A}) =
               Cardinality({x \in 1 .. n : x \in A}) + (IF n + 1 \in A THEN 1 ELSE 0)
      BY <3>1, CountTo
    <3>. QED  BY <3>2, Zenon DEF n
  <2>. QED  BY <2>1, <2>2
<1>. HIDE DEF count
<1>2. Depth(s) = [k \in 1 .. Len(s) + 1 |-> count(Places(s, "("), k) - count(Places(s, ")"), k)]
  BY DEF Depth, count
<1>3. Depth(s) \in [1 .. Len(s) + 1 -> Int]
  BY <1>1, <1>2
<1>4. ASSUME NEW k \in 1 .. Len(s)
      PROVE  Depth(s)[k + 1] = Depth(s)[k] + (IF s[k] = "(" THEN 1 ELSE IF s[k] = ")" THEN -1 ELSE 0)
  <2>. DEFINE a == count(Places(s, "("), k)
              b == count(Places(s, ")"), k)
  <2>1. a \in Nat /\ b \in Nat
    BY <1>1
  <2>2. /\ count(Places(s, "("), k + 1) = a + (IF k \in Places(s, "(") THEN 1 ELSE 0)
        /\ count(Places(s, ")"), k + 1) = b + (IF k \in Places(s, ")") THEN 1 ELSE 0)
    BY <1>1
  <2>3. (k \in Places(s, "(") <=> s[k] = "(") /\ (k \in Places(s, ")") <=> s[k] = ")")
    BY DEF Places
  <2>4. /\ Depth(s)[k] = a - b
        /\ Depth(s)[k + 1] = count(Places(s, "("), k + 1) - count(Places(s, ")"), k + 1)
    BY <1>2
  <2>. HIDE DEF a, b
  <2>. QED  BY <2>1, <2>2, <2>3, <2>4
<1>. QED  BY <1>3, <1>4

-----------------------------------------------------------------------------
(* The tokens of a text.                                                   *)

(* A `*' is a dereference where it stands as a prefix.                     *)
AreTokens(t, s) ==
  Len(t) = Len(s) /\ \A i \in 1 .. Len(s) : t[i] = TokenOf(s[i], PrefixAt(s, i))

LEMMA TokenTypes ==
  ASSUME NEW s, IsText(s), NEW t, AreTokens(t, s), NEW i \in 1 .. Len(s)
  PROVE  /\ s[i] \in Atoms \cup Ops \cup Parentheses
         /\ s[i] \in Atoms => t[i].type \in {"num", "gpr"} /\ s[i] \notin Ops \cup Parentheses
         /\ s[i] \in Ops => t[i].type = (IF PrefixAt(s, i) THEN "deref" ELSE s[i])
         /\ s[i] \in Parentheses => t[i].type = s[i] /\ s[i] \notin Ops
         /\ s[i] \in DOMAIN Decimal => t[i] = Number(Decimal[s[i]])
         /\ s[i] \in DOMAIN Hex => t[i] = Number(Hex[s[i]])
         /\ s[i] \in Gprs => t[i] = Token("gpr", s[i])
<1>1. s[i] \in Atoms \cup Ops \cup Parentheses
  BY DEF IsText
<1>2. t[i] = TokenOf(s[i], PrefixAt(s, i))
  BY DEF AreTokens
<1>3. Parentheses = {"(", "[", "{", ")", "]", "}"}
  BY DEF Parentheses, Opening, Matching
<1>4. Ops \cap Parentheses = {}
  BY <1>3, OpsAre
<1>5. PrefixAt(s, i) => s[i] = "*" /\ s[i] \in Ops
  BY OpsAre DEF PrefixAt
<1>6. /\ DOMAIN Decimal \cap (DOMAIN Hex \cup Gprs) = {} /\ DOMAIN Hex \cap Gprs = {}
      /\ Atoms \cap (Ops \cup Parentheses \cup {Swallowed}) = {}
  BY ExprAssumption DEF ExprAssumption
<1>7. Swallowed \notin Ops \cup Parentheses
  BY <1>3, OpsAre DEF Swallowed
<1>8. TokenOf(s[i], PrefixAt(s, i)) =
        IF s[i] \in DOMAIN Decimal THEN Number(Decimal[s[i]])
        ELSE IF s[i] \in DOMAIN Hex THEN Number(Hex[s[i]])
        ELSE IF s[i] \in Gprs THEN Token("gpr", s[i])
        ELSE IF PrefixAt(s, i) THEN Token("deref", 0)
        ELSE Token(s[i], 0)
  BY <1>1, <1>5, <1>6, <1>7 DEF TokenOf, Atoms
<1>9. Atoms = DOMAIN Decimal \cup DOMAIN Hex \cup Gprs
  BY DEF Atoms
<1>10. \A n : Number(n).type = "num"
  BY DEF Number, Token
<1>11. \A ty, val : Token(ty, val).type = ty
  BY DEF Token
<1>. QED  BY <1>1, <1>2, <1>4, <1>5, <1>6, <1>8, <1>9, <1>10, <1>11

LEMMA ParenthesesAre ==
  /\ Opening = {"(", "[", "{"} /\ DOMAIN Matching = {")", "]", "}"}
  /\ Matching[")"] = "(" /\ Matching["]"] = "[" /\ Matching["}"] = "{"
  /\ Parentheses = {"(", "[", "{", ")", "]", "}"}
BY DEF Parentheses, Opening, Matching

LEMMA TokenFacts ==
  ASSUME NEW s, IsText(s), NEW t, AreTokens(t, s), NEW i \in 1 .. Len(s)
  PROVE  /\ t[i].type \in Operators <=> s[i] \in Ops
         /\ t[i].type = "deref" <=> PrefixAt(s, i)
         /\ \A b \in Parentheses : t[i].type = b <=> s[i] = b
         /\ t[i].type = "num" => t[i].val \in Word
<1>1. /\ s[i] \in Atoms \cup Ops \cup Parentheses
      /\ s[i] \in Atoms => t[i].type \in {"num", "gpr"} /\ s[i] \notin Ops \cup Parentheses
      /\ s[i] \in Ops => t[i].type = (IF PrefixAt(s, i) THEN "deref" ELSE s[i])
      /\ s[i] \in Parentheses => t[i].type = s[i] /\ s[i] \notin Ops
  BY TokenTypes
<1>2. /\ s[i] \in DOMAIN Decimal => t[i] = Number(Decimal[s[i]])
      /\ s[i] \in DOMAIN Hex => t[i] = Number(Hex[s[i]])
      /\ s[i] \in Gprs => t[i] = Token("gpr", s[i])
  BY TokenTypes
<1>3. PrefixAt(s, i) => s[i] \in Ops
  BY OpsAre DEF PrefixAt
<1>4. t[i].type = "num" => t[i].val \in Word
  <2>. SUFFICES ASSUME t[i].type = "num"  PROVE t[i].val \in Word
    OBVIOUS
  <2>1. s[i] \in Atoms
    BY <1>1, OpsAre, ParenthesesAre
  <2>2. s[i] \in DOMAIN Decimal \cup DOMAIN Hex
    BY <1>2, <2>1 DEF Atoms, Token
  <2>3. \E n \in Int : t[i] = Number(n)
    BY <1>2, <2>2, ExprAssumption DEF ExprAssumption
  <2>4. PICK n \in Int : t[i] = Number(n)
    BY <2>3
  <2>5. t[i].val = Wrap(n)
    BY <2>4 DEF Number, Token
  <2>. QED  BY <2>5, WrapType
<1>5. t[i].type \in Operators <=> s[i] \in Ops
  BY <1>1, OpsAre, ParenthesesAre DEF Operators
<1>6. t[i].type = "deref" <=> PrefixAt(s, i)
  BY <1>1, <1>3, OpsAre, ParenthesesAre
<1>7. \A b \in Parentheses : t[i].type = b <=> s[i] = b
  BY <1>1, OpsAre, ParenthesesAre
<1>. QED  BY <1>4, <1>5, <1>6, <1>7

LEMMA TextLength == \A s : IsText(s) => Len(s) \in Nat /\ DOMAIN s = 1 .. Len(s)
BY DEF IsText

LEMMA TokensAre ==
  ASSUME NEW s, IsText(s), NEW t, AreTokens(t, s)
  PROVE  IsTokens(t) /\ Len(t) = Len(s)
BY TextLength, TokenFacts DEF IsTokens, AreTokens

LEMMA OpenAtIs ==
  ASSUME NEW s, IsText(s), NEW t, AreTokens(t, s),
         NEW p \in 1 .. Len(s) + 1, NEW i \in 1 .. Len(s) + 1, p <= i
  PROVE  OpenAt(t, p, i) = Depth(s)[i] - Depth(s)[p]
<1>1. Len(s) \in Nat
  BY TextLength
<1>2. p \in Nat \ {0} /\ i \in Nat \ {0}
  BY <1>1
<1>3. \A x \in p .. i - 1 : x \in 1 .. Len(s)
  BY <1>1
<1>4. \A x \in p .. i - 1 : (t[x].type = "(" <=> s[x] = "(") /\ (t[x].type = ")" <=> s[x] = ")")
  BY <1>3, TokenFacts, ParenthesesAre
<1>5. /\ {x \in p .. i - 1 : t[x].type = "("} = {x \in p .. i - 1 : x \in Places(s, "(")}
      /\ {x \in p .. i - 1 : t[x].type = ")"} = {x \in p .. i - 1 : x \in Places(s, ")")}
  BY <1>3, <1>4 DEF Places
<1>. DEFINE count(A, k) == Cardinality({x \in 1 .. k - 1 : x \in A})
<1>6. \A A : \A k \in Nat \ {0} : count(A, k) \in Nat
  <2>. SUFFICES ASSUME NEW A, NEW k \in Nat \ {0}  PROVE count(A, k) \in Nat
    OBVIOUS
  <2>1. k - 1 \in Nat
    OBVIOUS
  <2>. QED  BY <2>1, CountTo
<1>7. \A A : Cardinality({x \in p .. i - 1 : x \in A}) = count(A, i) - count(A, p)
  BY <1>2, CountBetween
<1>8. OpenAt(t, p, i) = (count(Places(s, "("), i) - count(Places(s, "("), p))
                          - (count(Places(s, ")"), i) - count(Places(s, ")"), p))
  <2>. HIDE DEF count
  <2>. QED  BY <1>5, <1>7 DEF OpenAt
<1>9. /\ Depth(s)[i] = count(Places(s, "("), i) - count(Places(s, ")"), i)
      /\ Depth(s)[p] = count(Places(s, "("), p) - count(Places(s, ")"), p)
  BY DEF Depth
<1>. HIDE DEF count
<1>10. /\ count(Places(s, "("), i) \in Nat /\ count(Places(s, ")"), i) \in Nat
       /\ count(Places(s, "("), p) \in Nat /\ count(Places(s, ")"), p) \in Nat
  BY <1>2, <1>6
<1>. QED  BY <1>8, <1>9, <1>10

(* Induction from a number on.                                             *)
LEMMA StepInduction ==
  ASSUME NEW a \in Nat, NEW S, a \in S, \A k \in Nat : a <= k /\ k \in S => k + 1 \in S
  PROVE  \A k \in Nat : a <= k => k \in S
<1>. DEFINE R == {k \in Nat : a <= k => k \in S}
<1>1. ASSUME NEW n \in Nat, \A m \in Nat : m < n => m \in R  PROVE n \in R
  <2>1. ASSUME a < n  PROVE n \in S
    <3>1. n - 1 \in Nat /\ n - 1 < n /\ a <= n - 1 /\ (n - 1) + 1 = n
      BY <2>1
    <3>2. n - 1 \in S
      BY <1>1, <3>1
    <3>. QED  BY <3>1, <3>2
  <2>. QED  BY <2>1
<1>2. Nat \subseteq R
  <2>. HIDE DEF R
  <2>. QED  BY <1>1, StrongInduction
<1>. QED  BY <1>2

(* Units with no parentheses but ( and ), none of which closes what was    *)
(* opened before p.                                                        *)
Balanced(s, p, q) ==
  /\ \A k \in p .. q : s[k] \notin {"[", "]", "{", "}"}
  /\ \A k \in p .. q + 1 : Depth(s)[k] >= Depth(s)[p]

(* What check_parentheses has found after unit k of them.                  *)
Scanned(s, p, k, scan) ==
  /\ scan.ok = TRUE
  /\ scan.flag =>
       /\ scan.stack \in Seq({"("}) /\ Len(scan.stack) = Depth(s)[k + 1] - Depth(s)[p]
       /\ \A m \in p + 1 .. k + 1 : Depth(s)[m] = Depth(s)[p] => Depth(s)[k + 1] = Depth(s)[p]
  /\ (\A m \in p + 1 .. k : Depth(s)[m] > Depth(s)[p]) => scan.flag

LEMMA ScanBalanced ==
  ASSUME NEW s, IsText(s), NEW t, AreTokens(t, s),
         NEW p \in 1 .. Len(s), NEW q \in 1 .. Len(s), p <= q, Balanced(s, p, q)
  PROVE  \A k \in p - 1 .. q : Scanned(s, p, k, Scan(t, p, q)[k])
<1>. DEFINE scan == Scan(t, p, q)
            S == {k \in Nat : k <= q => Scanned(s, p, k, scan[k])}
            T == {t[i].type : i \in p .. q}
            d == Depth(s)
<1>1. Len(s) \in Nat /\ p - 1 \in Nat /\ p \in Nat \ {0} /\ q \in Nat
  BY TextLength
<1>2. \A i \in p .. q : t[i].type \in T
  OBVIOUS
<1>3. \A i \in p - 1 .. q : scan[i] \in ScanState(T) /\ scan[i] = ScanStep(t, p, scan, i)
  <2>. HIDE DEF T
  <2>1. /\ Scan(t, p, q) \in [p - 1 .. q -> ScanState(T)]
        /\ \A i \in p - 1 .. q : Scan(t, p, q)[i] = ScanStep(t, p, Scan(t, p, q), i)
    BY <1>1, <1>2, ScanDef
  <2>. HIDE DEF scan
  <2>2. /\ scan \in [p - 1 .. q -> ScanState(T)]
        /\ \A i \in p - 1 .. q : scan[i] = ScanStep(t, p, scan, i)
    BY <2>1 DEF scan
  <2>. QED  BY <2>2
<1>4. /\ d \in [1 .. Len(s) + 1 -> Int]
      /\ \A k \in 1 .. Len(s) : d[k + 1] = d[k] + (IF s[k] = "(" THEN 1 ELSE IF s[k] = ")" THEN -1 ELSE 0)
  BY <1>1, DepthStep
<1>. HIDE DEF scan, T, d
<1>5. p - 1 \in S
  <2>. DEFINE k == p - 1
              x == scan[k]
  <2>1. k \in p - 1 .. q /\ k + 1 = p /\ p + 1 .. k + 1 = {} /\ k \in Nat
    BY <1>1
  <2>2. x = ScanStep(t, p, scan, k)
    BY <1>3, <2>1
  <2>3. x = [stack |-> <<>>, flag |-> TRUE, ok |-> TRUE]
    BY <2>2 DEF ScanStep
  <2>4. d[p] \in Int
    BY <1>1, <1>4
  <2>. HIDE DEF k, x
  <2>5. x.ok = TRUE /\ x.flag /\ x.stack \in Seq({"("}) /\ Len(x.stack) = 0
    BY <2>3
  <2>6. Scanned(s, p, k, x)
    BY <2>1, <2>4, <2>5 DEF Scanned, d
  <2>. QED  BY <2>1, <2>6 DEF k, x
<1>6. ASSUME NEW k0 \in Nat, p - 1 <= k0, k0 \in S  PROVE k0 + 1 \in S
  <2>. SUFFICES ASSUME k0 + 1 <= q  PROVE Scanned(s, p, k0 + 1, scan[k0 + 1])
    OBVIOUS
  <2>. DEFINE k == k0 + 1
              x == scan[k0]
              y == scan[k]
              ty == t[k].type
  <2>1. k \in p .. q /\ k \in 1 .. Len(s) /\ k - 1 = k0 /\ k0 \in p - 1 .. q /\ k \in p - 1 .. q /\ k # p - 1
    BY <1>1, <1>6
  <2>2. Scanned(s, p, k0, x)
    BY <1>1, <1>6
  <2>3. x \in ScanState(T) /\ y = ScanStep(t, p, scan, k)
    BY <1>3, <2>1
  <2>4. /\ ty = "(" <=> s[k] = "("
        /\ ty = ")" <=> s[k] = ")"
        /\ ty \notin {"[", "]", "{", "}"}
    BY <2>1, TokenFacts, ParenthesesAre DEF Balanced
  <2>5. /\ d[k] \in Int /\ d[k + 1] \in Int /\ d[p] \in Int
        /\ d[k] >= d[p] /\ d[k + 1] >= d[p] /\ d[k + 1] = d[k] + (IF ty = "(" THEN 1 ELSE IF ty = ")" THEN -1 ELSE 0)
    <3>1. k \in p .. q + 1 /\ k + 1 \in p .. q + 1 /\ p \in 1 .. Len(s) + 1
          /\ k \in 1 .. Len(s) + 1 /\ k + 1 \in 1 .. Len(s) + 1
      BY <1>1, <2>1
    <3>2. d[k] >= d[p] /\ d[k + 1] >= d[p]
      BY <3>1 DEF Balanced, d
    <3>. HIDE DEF k, ty
    <3>3. d[k + 1] = d[k] + (IF s[k] = "(" THEN 1 ELSE IF s[k] = ")" THEN -1 ELSE 0)
      BY <1>4, <2>1
    <3>. QED  BY <1>4, <2>4, <3>1, <3>2, <3>3
  <2>6. /\ x.ok = TRUE
        /\ x.flag => /\ x.stack \in Seq({"("}) /\ Len(x.stack) = d[k] - d[p]
                     /\ \A m \in p + 1 .. k : d[m] = d[p] => d[k] = d[p]
        /\ (\A m \in p + 1 .. k0 : d[m] > d[p]) => x.flag
    BY <2>1, <2>2 DEF Scanned, d
  <2>7. y = IF ~ x.flag THEN x
            ELSE IF ty = "(" THEN
              IF x.stack # <<>> \/ k = p THEN [x EXCEPT !.stack = <<ty>> \o @]
              ELSE [x EXCEPT !.flag = FALSE]
            ELSE IF ty = ")" THEN
              IF x.stack # <<>> /\ Head(x.stack) = "(" THEN [x EXCEPT !.stack = Tail(@)]
              ELSE [x EXCEPT !.flag = FALSE, !.ok = FALSE]
            ELSE x
    BY <2>1, <2>3, <2>4, ParenthesesAre DEF ScanStep
  <2>8. x.flag \in BOOLEAN /\ x = [stack |-> x.stack, flag |-> x.flag, ok |-> x.ok]
    BY <2>3 DEF ScanState
  <2>. HIDE DEF x, y, ty, k
  <2>9. (\A m \in p + 1 .. k : d[m] > d[p]) => (\A m \in p + 1 .. k0 : d[m] > d[p])
    BY <1>1, <2>1
  <2>10. Scanned(s, p, k, y)
    <3>1. CASE ~ x.flag
      <4>1. y = x
        BY <2>7, <3>1
      <4>. QED  BY <2>6, <2>9, <3>1, <4>1 DEF Scanned, d
    <3>2. CASE x.flag /\ ty = "("
      <4>1. CASE x.stack # <<>> \/ k = p
        <5>1. y.stack = <<"(">> \o x.stack /\ y.flag /\ y.ok = TRUE
          BY <2>6, <2>7, <2>8, <3>2, <4>1
        <5>2. x.stack \in Seq({"("})
          BY <2>6, <3>2
        <5>3. y.stack \in Seq({"("}) /\ Len(y.stack) = Len(x.stack) + 1
          BY <5>1, <5>2
        <5>4. d[k + 1] = d[k] + 1 /\ Len(x.stack) = d[k] - d[p]
          BY <2>5, <2>6, <3>2
        <5>5. Len(y.stack) = d[k + 1] - d[p]
          BY <2>5, <5>3, <5>4
        <5>6. ASSUME NEW m \in p + 1 .. k + 1, d[m] = d[p]  PROVE d[k + 1] = d[p]
          <6>1. CASE m = k + 1
            BY <5>6, <6>1
          <6>2. CASE m # k + 1
            <7>1. m \in p + 1 .. k /\ k # p
              BY <1>1, <2>1, <6>2
            <7>2. d[k] = d[p]
              BY <2>6, <3>2, <5>6, <7>1
            <7>3. Len(x.stack) = 0
              BY <2>5, <5>4, <7>2
            <7>. QED  BY <4>1, <5>2, <7>1, <7>3
          <6>. QED  BY <6>1, <6>2
        <5>. QED  BY <5>1, <5>3, <5>5, <5>6 DEF Scanned, d
      <4>2. CASE x.stack = <<>> /\ k # p
        <5>1. ~ y.flag /\ y.ok = TRUE
          BY <2>6, <2>7, <2>8, <3>2, <4>2
        <5>2. Len(x.stack) = d[k] - d[p] /\ Len(x.stack) = 0
          BY <2>6, <3>2, <4>2
        <5>3. k \in p + 1 .. k /\ ~ (d[k] > d[p])
          BY <1>1, <2>1, <2>5, <4>2, <5>2
        <5>. QED  BY <5>1, <5>3 DEF Scanned, d
      <4>. QED  BY <4>1, <4>2
    <3>3. CASE x.flag /\ ty = ")"
      <4>1. d[k + 1] = d[k] - 1 /\ Len(x.stack) = d[k] - d[p] /\ x.stack \in Seq({"("})
        BY <2>5, <2>6, <3>3
      <4>2. Len(x.stack) >= 1
        BY <2>5, <4>1
      <4>3. x.stack # <<>> /\ Head(x.stack) = "(" /\ Tail(x.stack) \in Seq({"("})
            /\ Len(Tail(x.stack)) = Len(x.stack) - 1
        BY <4>1, <4>2
      <4>4. y.stack = Tail(x.stack) /\ y.flag /\ y.ok = TRUE
        BY <2>6, <2>7, <2>8, <3>3, <4>3
      <4>5. Len(y.stack) = d[k + 1] - d[p]
        BY <2>5, <4>1, <4>3, <4>4
      <4>6. ASSUME NEW m \in p + 1 .. k + 1, d[m] = d[p]  PROVE d[k + 1] = d[p]
        <5>1. CASE m = k + 1
          BY <4>6, <5>1
        <5>2. CASE m # k + 1
          <6>1. m \in p + 1 .. k
            BY <1>1, <2>1, <5>2
          <6>2. d[k] = d[p]
            BY <2>6, <3>3, <4>6, <6>1
          <6>. QED  BY <2>5, <4>1, <4>2, <6>2
        <5>. QED  BY <5>1, <5>2
      <4>. QED  BY <4>3, <4>4, <4>5, <4>6 DEF Scanned, d
    <3>4. CASE x.flag /\ ty # "(" /\ ty # ")"
      <4>1. y = x /\ d[k + 1] = d[k]
        BY <2>5, <2>7, <3>4
      <4>2. ASSUME NEW m \in p + 1 .. k + 1, d[m] = d[p]  PROVE d[k + 1] = d[p]
        <5>1. CASE m = k + 1
          BY <4>2, <5>1
        <5>2. CASE m # k + 1
          <6>1. m \in p + 1 .. k
            BY <1>1, <2>1, <5>2
          <6>. QED  BY <2>6, <3>4, <4>1, <4>2, <6>1
        <5>. QED  BY <5>1, <5>2
      <4>. QED  BY <2>6, <3>4, <4>1, <4>2 DEF Scanned, d
    <3>. QED  BY <2>8, <3>1, <3>2, <3>3, <3>4
  <2>. QED  BY <2>10 DEF k, y
<1>7. \A k \in Nat : p - 1 <= k => k \in S
  <2>. HIDE DEF S
  <2>. QED  BY <1>1, <1>5, <1>6, StepInduction
<1>. QED  BY <1>1, <1>7 DEF scan

LEMMA CheckOpen ==
  ASSUME NEW s, IsText(s), NEW t, AreTokens(t, s), NEW p \in 1 .. Len(s), NEW q \in 1 .. Len(s),
         ~ (s[p] = "(" /\ s[q] = ")")
  PROVE  check_parentheses(t, p, q).yes = FALSE /\ check_parentheses(t, p, q).ok = TRUE
<1>1. ~ (t[p].type = "(" /\ t[q].type = ")")
  BY TokenFacts, ParenthesesAre
<1>. QED  BY <1>1 DEF check_parentheses

LEMMA ScanAt ==
  ASSUME NEW t, NEW p \in Nat \ {0}, NEW q \in Nat
  PROVE  \A i \in p - 1 .. q : Scan(t, p, q)[i] = ScanStep(t, p, Scan(t, p, q), i)
<1>. DEFINE T == {t[i].type : i \in p .. q}
<1>1. \A i \in p .. q : t[i].type \in T
  OBVIOUS
<1>. HIDE DEF T
<1>. QED  BY <1>1, ScanDef

LEMMA CheckBalanced ==
  ASSUME NEW s, IsText(s), NEW t, AreTokens(t, s), NEW p \in 1 .. Len(s), NEW q \in 1 .. Len(s), p < q,
         Balanced(s, p, q), Depth(s)[q + 1] = Depth(s)[p], s[p] = "(", s[q] = ")"
  PROVE  /\ check_parentheses(t, p, q).ok = TRUE
         /\ check_parentheses(t, p, q).yes <=> \A m \in p + 1 .. q : Depth(s)[m] > Depth(s)[p]
<1>. DEFINE scan == Scan(t, p, q)
            d == Depth(s)
            end == scan[q]
<1>1. Len(s) \in Nat /\ p <= q /\ q \in p - 1 .. q /\ q - 1 \in p - 1 .. q /\ (q - 1) + 1 = q
  BY TextLength
<1>2. Scanned(s, p, q, end) /\ Scanned(s, p, q - 1, scan[q - 1])
  BY <1>1, ScanBalanced
<1>3. t[p].type = "(" /\ t[q].type = ")"
  <2>1. \A i \in 1 .. Len(s) : \A b \in Parentheses : t[i].type = b <=> s[i] = b
    BY TokenFacts
  <2>. QED  BY <2>1, ParenthesesAre
<1>4. /\ check_parentheses(t, p, q).ok = end.ok
      /\ check_parentheses(t, p, q).yes <=> end.flag /\ end.stack = <<>>
  BY <1>3 DEF check_parentheses
<1>5. /\ \A k \in 1 .. Len(s) + 1 : d[k] \in Int
      /\ d[q + 1] = d[q] - 1
  BY <1>1, DepthStep
<1>6. \A m \in p + 1 .. q : d[m] >= d[p]
  <2>1. \A m \in p + 1 .. q : m \in p .. q + 1
    BY <1>1
  <2>. QED  BY <2>1 DEF Balanced
<1>7. ASSUME end.flag  PROVE end.stack = <<>>
  <2>1. end.stack \in Seq({"("}) /\ Len(end.stack) = d[q + 1] - d[p]
    BY <1>2, <1>7 DEF Scanned
  <2>2. d[p] \in Int /\ d[q + 1] = d[p]
    BY <1>1, <1>5
  <2>3. Len(end.stack) = 0
    BY <2>1, <2>2
  <2>. QED  BY <2>1, <2>3
<1>8. (\A m \in p + 1 .. q : d[m] > d[p]) => end.flag
  BY <1>2 DEF Scanned
<1>9. ASSUME NEW m \in p + 1 .. q, d[m] = d[p], end.flag  PROVE FALSE
  <2>1. scan[q] = ScanStep(t, p, scan, q)
    BY <1>1, ScanAt
  <2>2. q # p - 1
    BY <1>1
  <2>3. scan[q - 1].flag
    <3>. DEFINE x == scan[q - 1]
    <3>1. ~ x.flag => scan[q] = x
      BY <2>1, <2>2 DEF ScanStep
    <3>. QED  BY <1>9, <3>1
  <2>4. d[q] = d[p]
    BY <1>1, <1>2, <1>9, <2>3 DEF Scanned
  <2>. QED  BY <1>1, <1>5, <2>4
<1>10. \A m \in p + 1 .. q : m \in 1 .. Len(s) + 1
  BY <1>1
<1>11. \A m \in p + 1 .. q : d[m] \in Int /\ d[p] \in Int
  BY <1>1, <1>5, <1>10
<1>12. ASSUME end.flag, NEW m \in p + 1 .. q  PROVE d[m] > d[p]
  <2>1. d[m] # d[p]
    BY <1>9, <1>12
  <2>. QED  BY <1>6, <1>11, <2>1
<1>13. end.ok = TRUE
  BY <1>2 DEF Scanned
<1>. HIDE DEF end, d
<1>14. check_parentheses(t, p, q).yes <=> \A m \in p + 1 .. q : d[m] > d[p]
  BY <1>4, <1>7, <1>8, <1>12
<1>. QED  BY <1>4, <1>13, <1>14 DEF d

-----------------------------------------------------------------------------
(* What the grammar makes of a phrase.                                     *)

(* Where an operand is due, seen from unit i on.                           *)
Due(s, i, k) == k = i \/ s[k - 1] \in Ops \cup {"("}

(* An operator outside the parentheses of units i .. j.                    *)
OuterOp(s, i, k) == Depth(s)[k] = Depth(s)[i] /\ s[k] \in Ops

Shaped(s, i, j, level) ==
  /\ Balanced(s, i, j) /\ Depth(s)[j + 1] = Depth(s)[i]
  /\ s[j] \in Atoms \cup {")"}
  /\ \A k \in i .. j :
       OuterOp(s, i, k) =>
         \/ s[k] = "*" /\ Due(s, i, k)
         \/ ~ Due(s, i, k) /\ \E l \in level .. 5 : s[k] \in Levels[l]
  /\ level = 6 /\ s[i] # "*" => \A k \in i .. j : ~ OuterOp(s, i, k)

LEMMA Kinds ==
  /\ \A u \in Atoms : u \notin Ops /\ u \notin Parentheses
  /\ \A u \in Ops : u \notin Atoms /\ u \notin Parentheses
  /\ \A l \in 1 .. 5 : \A u \in Levels[l] : u \in Ops
  /\ "*" \in Ops /\ "(" \in Parentheses /\ ")" \in Parentheses
<1>1. Atoms \cap (Ops \cup Parentheses) = {}
  BY ExprAssumption DEF ExprAssumption
<1>2. \A u \in Ops : u \notin Parentheses
  BY OpsAre, ParenthesesAre
<1>3. \A l \in 1 .. 5 : \A u \in Levels[l] : u \in Ops
  BY DEF Ops
<1>4. "*" \in Ops /\ "(" \in Parentheses /\ ")" \in Parentheses
  BY OpsAre, ParenthesesAre
<1>. QED  BY <1>1, <1>2, <1>3, <1>4

(* What a unit does to the depth.                                          *)
LEMMA DepthSteps ==
  ASSUME NEW s, IsText(s), NEW k \in 1 .. Len(s)
  PROVE  /\ Depth(s)[k] \in Int /\ Depth(s)[k + 1] \in Int
         /\ s[k] = "(" => Depth(s)[k + 1] = Depth(s)[k] + 1
         /\ s[k] = ")" => Depth(s)[k + 1] = Depth(s)[k] - 1
         /\ s[k] \notin Parentheses => Depth(s)[k + 1] = Depth(s)[k]
<1>1. Len(s) \in Nat /\ k \in 1 .. Len(s) + 1 /\ k + 1 \in 1 .. Len(s) + 1
  BY TextLength
<1>2. /\ Depth(s) \in [1 .. Len(s) + 1 -> Int]
      /\ Depth(s)[k + 1] = Depth(s)[k] + (IF s[k] = "(" THEN 1 ELSE IF s[k] = ")" THEN -1 ELSE 0)
  BY <1>1, DepthStep
<1>3. Depth(s)[k] \in Int /\ Depth(s)[k + 1] \in Int
  BY <1>1, <1>2
<1>4. s[k] \notin Parentheses => s[k] # "(" /\ s[k] # ")"
  BY ParenthesesAre
<1>. QED  BY <1>2, <1>3, <1>4

LEMMA ShapedAll ==
  ASSUME NEW s, IsText(s)
  PROVE  \A i \in 1 .. Len(s) + 1, j \in 0 .. Len(s), level \in 1 .. 6 :
           Sen(s, i, j, level) # {} =>
             i \in 1 .. Len(s) /\ j \in 1 .. Len(s) /\ i <= j /\ Shaped(s, i, j, level)
<1>. DEFINE S == {x \in Parses(s) : Shaped(s, x.i, x.j, x.level)}
            d == Depth(s)
<1>1. Len(s) \in Nat
  BY TextLength
<1>2. \A k \in 1 .. Len(s) :
        /\ d[k] \in Int /\ d[k + 1] \in Int
        /\ s[k] = "(" => d[k + 1] = d[k] + 1
        /\ s[k] = ")" => d[k + 1] = d[k] - 1
        /\ s[k] \notin Parentheses => d[k + 1] = d[k]
  BY DepthSteps
<1>3. \A i \in 1 .. Len(s), j \in 1 .. Len(s), level \in 1 .. 6, m \in Values :
        Parse(i, j, level, m) \in S <=> Shaped(s, i, j, level)
  <2>1. \A i \in 1 .. Len(s), j \in 1 .. Len(s), level \in 1 .. 6, m \in Values :
          LET x == Parse(i, j, level, m)
          IN  x \in Parses(s) /\ x.i = i /\ x.j = j /\ x.level = level
    BY DEF Parse, Parses
  <2>. QED  BY <2>1
<1>4. \A i \in 1 .. Len(s) + 1, j \in 0 .. Len(s), level \in 1 .. 6 : Sen(s, i, j, level) \subseteq Values
  BY <1>1, SenDef
<1>. HIDE DEF S, d
<1>5. Tighter(s, S)
  <2>. SUFFICES ASSUME NEW i \in 1 .. Len(s), NEW j \in 1 .. Len(s), NEW level \in 1 .. 5,
                       NEW m \in Sen(s, i, j, level + 1), i <= j, Parse(i, j, level + 1, m) \in S
                PROVE  Parse(i, j, level, m) \in S
    BY DEF Tighter
  <2>1. /\ i \in 1 .. Len(s) + 1 /\ j \in 0 .. Len(s) /\ level + 1 \in 1 .. 6 /\ level \in 1 .. 6
        /\ level + 1 .. 5 \subseteq level .. 5 /\ level # 6
    BY <1>1
  <2>2. m \in Values
    BY <1>4, <2>1
  <2>3. Shaped(s, i, j, level + 1)
    BY <1>3, <2>1, <2>2
  <2>4. Shaped(s, i, j, level)
    BY <2>1, <2>3 DEF Shaped
  <2>. QED  BY <1>3, <2>1, <2>2, <2>4
<1>6. Joins(s, S)
  <2>. SUFFICES ASSUME NEW i \in 1 .. Len(s), NEW j \in 1 .. Len(s), NEW level \in 1 .. 5,
                       NEW k \in 1 .. Len(s)
                PROVE  \A a \in Sen(s, i, k - 1, level), b \in Sen(s, k + 1, j, level + 1) :
                         /\ i < k /\ k < j /\ s[k] \in Levels[level]
                         /\ Parse(i, k - 1, level, a) \in S /\ Parse(k + 1, j, level + 1, b) \in S
                         => Parse(i, j, level, Joined(s[k], a, b)) \in S
    BY DEF Joins
  <2>. SUFFICES ASSUME NEW a \in Sen(s, i, k - 1, level), NEW b \in Sen(s, k + 1, j, level + 1),
                       i < k, k < j, s[k] \in Levels[level],
                       Parse(i, k - 1, level, a) \in S, Parse(k + 1, j, level + 1, b) \in S
                PROVE  Parse(i, j, level, Joined(s[k], a, b)) \in S
    OBVIOUS
  <2>1. /\ i \in 1 .. Len(s) + 1 /\ j \in 0 .. Len(s) /\ level + 1 \in 1 .. 6 /\ level \in 1 .. 6
        /\ k - 1 \in 1 .. Len(s) /\ k + 1 \in 1 .. Len(s) /\ k - 1 \in 0 .. Len(s) /\ k + 1 \in 1 .. Len(s) + 1
        /\ (k - 1) + 1 = k /\ (k + 1) - 1 = k
        /\ level + 1 .. 5 \subseteq level .. 5 /\ level # 6 /\ level \in level .. 5
    BY <1>1
  <2>2. a \in Values /\ b \in Values /\ Joined(s[k], a, b) \in Values
    BY <1>4, <2>1, JoinedType
  <2>3. Shaped(s, i, k - 1, level) /\ Shaped(s, k + 1, j, level + 1)
    BY <1>3, <2>1, <2>2
  <2>4. s[k] \in Ops /\ s[k] \notin Parentheses
    BY Kinds
  <2>5. d[k] = d[i] /\ d[k + 1] = d[k] /\ d[j + 1] = d[i] /\ d[i] \in Int
    <3>1. d[k] = d[i]
      BY <2>1, <2>3 DEF Shaped, d
    <3>2. d[j + 1] = d[k + 1]
      BY <2>3 DEF Shaped, d
    <3>3. d[k + 1] = d[k]
      BY <1>2, <2>4
    <3>. QED  BY <1>2, <3>1, <3>2, <3>3
  <2>6. Balanced(s, i, j)
    <3>1. \A x \in i .. j : x \in i .. k - 1 \/ x = k \/ x \in k + 1 .. j
      BY <2>1
    <3>2. \A x \in i .. j + 1 : x \in i .. (k - 1) + 1 \/ x \in k + 1 .. j + 1
      BY <2>1
    <3>3. s[k] \notin {"[", "]", "{", "}"}
      BY <2>4, ParenthesesAre
    <3>4. \A x \in i .. j : s[x] \notin {"[", "]", "{", "}"}
      BY <2>3, <3>1, <3>3 DEF Shaped, Balanced
    <3>5. \A x \in i .. j + 1 : d[x] >= d[i]
      BY <2>3, <2>5, <3>2 DEF Shaped, Balanced, d
    <3>. QED  BY <3>4, <3>5 DEF Balanced, d
  <2>7. ASSUME NEW x \in i .. j, OuterOp(s, i, x)
        PROVE  \/ s[x] = "*" /\ Due(s, i, x)
               \/ ~ Due(s, i, x) /\ \E l \in level .. 5 : s[x] \in Levels[l]
    <3>1. CASE x \in i .. k - 1
      BY <2>3, <2>7, <3>1 DEF Shaped
    <3>2. CASE x = k
      <4>1. s[k - 1] \in Atoms \cup {")"}
        BY <2>3 DEF Shaped
      <4>2. ~ Due(s, i, k)
        <5>1. s[k - 1] \notin Ops /\ s[k - 1] # "("
          BY <4>1, Kinds, ParenthesesAre
        <5>2. k # i
          BY <2>1
        <5>. QED  BY <5>1, <5>2 DEF Due
      <4>. QED  BY <2>1, <3>2, <4>2
    <3>3. CASE x \in k + 1 .. j
      <4>1. OuterOp(s, k + 1, x)
        BY <2>5, <2>7 DEF OuterOp, d
      <4>2. Due(s, k + 1, x) <=> Due(s, i, x)
        BY <2>1, <2>4, <3>3 DEF Due
      <4>. QED  BY <2>1, <2>3, <3>3, <4>1, <4>2 DEF Shaped
    <3>. QED  BY <2>1, <3>1, <3>2, <3>3
  <2>8. s[j] \in Atoms \cup {")"}
    BY <2>3 DEF Shaped
  <2>9. Shaped(s, i, j, level)
    BY <2>1, <2>5, <2>6, <2>7, <2>8 DEF Shaped, d
  <2>. QED  BY <1>3, <2>1, <2>2, <2>9
<1>7. Reads(s, S)
  <2>. SUFFICES ASSUME NEW i \in 1 .. Len(s), NEW j \in 1 .. Len(s), NEW x \in Sen(s, i + 1, j, 6),
                       i < j, s[i] = "*", Parse(i + 1, j, 6, x) \in S
                PROVE  Parse(i, j, 6, AtAddress(x)) \in S
    BY DEF Reads
  <2>1. /\ i + 1 \in 1 .. Len(s) /\ i + 1 \in 1 .. Len(s) + 1 /\ j \in 0 .. Len(s) /\ (i + 1) - 1 = i
        /\ 6 .. 5 = {} /\ 6 \in 1 .. 6
    BY <1>1
  <2>2. x \in Values
    BY <1>4, <2>1
  <2>3. AtAddress(x) \in Values
    <3>1. Vaddr_read(x.r) \in Results
      BY <2>2, ReadResult DEF Values
    <3>. QED  BY <2>2, <3>1 DEF Values, AtAddress
  <2>4. Shaped(s, i + 1, j, 6)
    BY <1>3, <2>1, <2>2
  <2>5. d[i + 1] = d[i] /\ d[j + 1] = d[i] /\ d[i] \in Int
    <3>1. d[i + 1] = d[i]
      BY <1>2, Kinds
    <3>. QED  BY <1>2, <2>4, <3>1 DEF Shaped, d
  <2>6. Balanced(s, i, j)
    <3>1. \A y \in i .. j : y = i \/ y \in i + 1 .. j
      OBVIOUS
    <3>2. \A y \in i .. j + 1 : y = i \/ y \in i + 1 .. j + 1
      OBVIOUS
    <3>3. \A y \in i .. j : s[y] \notin {"[", "]", "{", "}"}
      BY <2>4, <3>1 DEF Shaped, Balanced
    <3>4. \A y \in i + 1 .. j + 1 : d[y] >= d[i + 1]
      BY <2>4 DEF Shaped, Balanced, d
    <3>5. \A y \in i .. j + 1 : d[y] >= d[i]
      BY <2>5, <3>2, <3>4
    <3>. QED  BY <3>3, <3>5 DEF Balanced, d
  <2>7. ASSUME NEW y \in i .. j, OuterOp(s, i, y)  PROVE s[y] = "*" /\ Due(s, i, y)
    <3>1. CASE y = i
      BY <3>1 DEF Due
    <3>2. CASE y \in i + 1 .. j
      <4>1. OuterOp(s, i + 1, y)
        BY <2>5, <2>7 DEF OuterOp, d
      <4>2. s[y] = "*" /\ Due(s, i + 1, y)
        BY <2>1, <2>4, <3>2, <4>1 DEF Shaped
      <4>. QED  BY <2>1, <3>2, <4>2, Kinds DEF Due
    <3>. QED  BY <3>1, <3>2
  <2>8. s[j] \in Atoms \cup {")"}
    BY <2>4 DEF Shaped
  <2>9. Shaped(s, i, j, 6)
    BY <2>5, <2>6, <2>7, <2>8 DEF Shaped, d
  <2>. QED  BY <1>3, <2>1, <2>3, <2>9
<1>8. Encloses(s, S)
  <2>. SUFFICES ASSUME NEW i \in 1 .. Len(s), NEW j \in 1 .. Len(s), NEW x \in Sen(s, i + 1, j - 1, 1),
                       i + 1 < j, s[i] = "(", s[j] = ")", Parse(i + 1, j - 1, 1, x) \in S
                PROVE  Parse(i, j, 6, x) \in S
    BY DEF Encloses
  <2>1. /\ i + 1 \in 1 .. Len(s) /\ i + 1 \in 1 .. Len(s) + 1 /\ j - 1 \in 0 .. Len(s) /\ j - 1 \in 1 .. Len(s)
        /\ (j - 1) + 1 = j
    BY <1>1
  <2>2. x \in Values
    BY <1>4, <2>1
  <2>3. Shaped(s, i + 1, j - 1, 1)
    BY <1>3, <2>1, <2>2
  <2>4. d[i + 1] = d[i] + 1 /\ d[j] = d[i] + 1 /\ d[j + 1] = d[i] /\ d[i] \in Int
    <3>1. d[i + 1] = d[i] + 1 /\ d[j + 1] = d[j] - 1
      BY <1>2
    <3>2. d[j] = d[i + 1]
      <4>1. d[(j - 1) + 1] = d[i + 1]
        BY <2>3 DEF Shaped, d
      <4>. QED  BY <2>1, <4>1
    <3>. QED  BY <1>2, <3>1, <3>2
  <2>5. \A y \in i + 1 .. j : d[y] >= d[i] + 1 /\ d[y] \in Int
    <3>1. \A y \in i + 1 .. j : d[y] >= d[i + 1]
      BY <2>1, <2>3 DEF Shaped, Balanced, d
    <3>2. \A y \in i + 1 .. j : d[y] \in Int
      BY <1>2
    <3>. QED  BY <2>4, <3>1, <3>2
  <2>6. Balanced(s, i, j)
    <3>1. \A y \in i .. j : y = i \/ y = j \/ y \in i + 1 .. j - 1
      OBVIOUS
    <3>2. \A y \in i .. j + 1 : y = i \/ y = j + 1 \/ y \in i + 1 .. j
      OBVIOUS
    <3>3. \A y \in i .. j : s[y] \notin {"[", "]", "{", "}"}
      BY <2>3, <3>1 DEF Shaped, Balanced
    <3>4. \A y \in i .. j + 1 : d[y] >= d[i]
      BY <2>4, <2>5, <3>2
    <3>. QED  BY <3>3, <3>4 DEF Balanced, d
  <2>7. ASSUME NEW y \in i .. j, OuterOp(s, i, y)  PROVE FALSE
    <3>1. CASE y = i
      BY <2>7, <3>1, Kinds DEF OuterOp
    <3>2. CASE y \in i + 1 .. j
      BY <2>4, <2>5, <2>7, <3>2 DEF OuterOp, d
    <3>. QED  BY <3>1, <3>2
  <2>8. Shaped(s, i, j, 6)
    BY <2>4, <2>6, <2>7 DEF Shaped, d
  <2>. QED  BY <1>3, <2>2, <2>8
<1>9. Stands(s, S)
  <2>. SUFFICES ASSUME NEW i \in 1 .. Len(s), NEW m \in Sen(s, i, i, 6), s[i] \in Atoms
                PROVE  Parse(i, i, 6, m) \in S
    BY DEF Stands
  <2>1. i \in 1 .. Len(s) + 1 /\ i \in 0 .. Len(s) /\ i .. i = {i} /\ i .. i + 1 = {i, i + 1}
    BY <1>1
  <2>2. m \in Values
    BY <1>4, <2>1
  <2>3. s[i] \notin Ops \cup Parentheses
    BY Kinds
  <2>4. d[i + 1] = d[i] /\ d[i] \in Int
    BY <1>2, <2>3
  <2>5. Balanced(s, i, i)
    <3>1. s[i] \notin {"[", "]", "{", "}"}
      BY <2>3, ParenthesesAre
    <3>2. \A k \in i .. i : s[k] \notin {"[", "]", "{", "}"}
      BY <2>1, <3>1
    <3>3. \A k \in i .. i + 1 : d[k] >= d[i]
      BY <2>1, <2>4
    <3>. QED  BY <3>2, <3>3 DEF Balanced, d
  <2>6. Shaped(s, i, i, 6)
    BY <2>1, <2>3, <2>4, <2>5 DEF Shaped, OuterOp, d
  <2>. QED  BY <1>3, <2>2, <2>6
<1>10. \A i \in 1 .. Len(s) + 1, j \in 0 .. Len(s), level \in 1 .. 6 : \A m \in Sen(s, i, j, level) :
           /\ i \in 1 .. Len(s) /\ j \in 1 .. Len(s) /\ i <= j
           /\ Parse(i, j, level, m) \in S
  BY <1>1, <1>5, <1>6, <1>7, <1>8, <1>9, PhraseInduction
<1>. QED  BY <1>3, <1>4, <1>10

-----------------------------------------------------------------------------
(* eval on the phrases of an expression.                                   *)

LEMMA EvEnclosed ==
  ASSUME NEW t, IsTokens(t), NEW p \in 1 .. Len(t), NEW q \in 1 .. Len(t), NEW ok \in BOOLEAN, p < q,
         check_parentheses(t, p, q).yes = TRUE
  PROVE  Ev(t, p, q, ok) = Ev(t, p + 1, q - 1, ok)
<1>. DEFINE c == check_parentheses(t, p, q)
            op == find_dominated_op(t, p, q)
            a == Ev(t, p, op - 1, ok /\ c.ok)
<1>1. Ev(t, p, q, ok) =
              IF c.yes THEN Ev(t, p + 1, q - 1, ok)
              ELSE IF t[op].type = "deref" THEN Vaddr_read(Ev(t, op + 1, q, ok /\ c.ok))
              ELSE Apply(t[op].type, a, Ev(t, op + 1, q, a.ok))
  BY EvLong
<1>. QED  BY <1>1

LEMMA EvSplit ==
  ASSUME NEW t, IsTokens(t), NEW p \in 1 .. Len(t), NEW q \in 1 .. Len(t), NEW ok \in BOOLEAN, p < q,
         check_parentheses(t, p, q).yes = FALSE, check_parentheses(t, p, q).ok = TRUE,
         NEW op, op = find_dominated_op(t, p, q)
  PROVE  Ev(t, p, q, ok) =
           IF t[op].type = "deref" THEN Vaddr_read(Ev(t, op + 1, q, ok))
           ELSE Apply(t[op].type, Ev(t, p, op - 1, ok), Ev(t, op + 1, q, Ev(t, p, op - 1, ok).ok))
<1>. DEFINE c == check_parentheses(t, p, q)
            b == ok /\ c.ok
            a == Ev(t, p, op - 1, b)
<1>1. /\ Ev(t, p, q, ok) =
              IF c.yes THEN Ev(t, p + 1, q - 1, ok)
              ELSE IF t[op].type = "deref" THEN Vaddr_read(Ev(t, op + 1, q, b))
              ELSE Apply(t[op].type, a, Ev(t, op + 1, q, a.ok))
  BY EvLong
<1>2. b = ok
  OBVIOUS
<1>3. c.yes = FALSE
  OBVIOUS
<1>. HIDE DEF b, c
<1>. QED  BY <1>1, <1>2, <1>3

LEMMA EvRead ==
  ASSUME NEW t, IsTokens(t), NEW p \in 1 .. Len(t), NEW q \in 1 .. Len(t), NEW ok \in BOOLEAN, p < q,
         check_parentheses(t, p, q).yes = FALSE, check_parentheses(t, p, q).ok = TRUE,
         NEW op, op = find_dominated_op(t, p, q), t[op].type = "deref"
  PROVE  Ev(t, p, q, ok) = Vaddr_read(Ev(t, op + 1, q, ok))
BY EvSplit

LEMMA EvApply ==
  ASSUME NEW t, IsTokens(t), NEW p \in 1 .. Len(t), NEW q \in 1 .. Len(t), NEW ok \in BOOLEAN, p < q,
         check_parentheses(t, p, q).yes = FALSE, check_parentheses(t, p, q).ok = TRUE,
         NEW op, op = find_dominated_op(t, p, q), t[op].type # "deref"
  PROVE  Ev(t, p, q, ok) =
           Apply(t[op].type, Ev(t, p, op - 1, ok), Ev(t, op + 1, q, Ev(t, p, op - 1, ok).ok))
BY EvSplit

(* The operators that find_dominated_op chooses from.                      *)
LEMMA OuterIs ==
  ASSUME NEW s, IsText(s), NEW t, AreTokens(t, s), NEW p \in 1 .. Len(s), NEW q \in 1 .. Len(s),
         NEW x \in p .. q
  PROVE  x \in Outer(t, p, q) <=> OuterOp(s, p, x)
<1>1. /\ x \in 1 .. Len(s) /\ x \in 1 .. Len(s) + 1 /\ p \in 1 .. Len(s) + 1 /\ p <= x
  BY TextLength
<1>2. OpenAt(t, p, x) = Depth(s)[x] - Depth(s)[p]
  BY <1>1, OpenAtIs
<1>3. Depth(s)[x] \in Int /\ Depth(s)[p] \in Int
  BY <1>1, DepthSteps
<1>4. t[x].type \in Operators <=> s[x] \in Ops
  BY <1>1, TokenFacts
<1>. QED  BY <1>2, <1>3, <1>4 DEF Outer, OuterOp

(* Outside parentheses a phrase has no operator that binds weaker than its *)
(* level says.                                                             *)
LEMMA OuterPriority ==
  ASSUME NEW s, IsText(s), NEW t, AreTokens(t, s), NEW i \in 1 .. Len(s), NEW j \in 1 .. Len(s),
         NEW level \in 1 .. 6, Shaped(s, i, j, level), Due(s, 1, i),
         NEW x \in i .. j, OuterOp(s, i, x)
  PROVE  Priority(t[x].type) \in Nat /\ Priority(t[x].type) >= level - 1
<1>1. x \in 1 .. Len(s)
  BY TextLength
<1>2. s[x] \in Ops /\ t[x].type = (IF PrefixAt(s, x) THEN "deref" ELSE s[x])
  BY <1>1, TokenTypes DEF OuterOp
<1>3. CASE s[x] = "*" /\ Due(s, i, x)
  <2>1. PrefixAt(s, x)
    BY <1>3 DEF Due, PrefixAt
  <2>2. Priority(t[x].type) = 5
    BY <1>2, <2>1 DEF Priority
  <2>. QED  BY <2>2
<1>4. CASE ~ Due(s, i, x) /\ \E l \in level .. 5 : s[x] \in Levels[l]
  <2>1. ~ PrefixAt(s, x)
    BY <1>1, <1>4 DEF Due, PrefixAt
  <2>2. PICK l \in level .. 5 : s[x] \in Levels[l]
    BY <1>4
  <2>3. l \in 1 .. 5
    OBVIOUS
  <2>4. Priority(s[x]) = l - 1
    BY <2>2, <2>3, PriorityOfLevel
  <2>. QED  BY <1>2, <2>1, <2>2, <2>4
<1>. QED  BY <1>3, <1>4 DEF Shaped

(* A place strictly inside a stretch of a text, and the two beside it.     *)
LEMMA Between ==
  ASSUME NEW n \in Nat, NEW i \in 1 .. n, NEW j \in 1 .. n, NEW k \in 1 .. n, i < k, k < j
  PROVE  /\ i \in Nat /\ j \in Nat /\ i <= j /\ (k - 1) + 1 = k /\ (k + 1) - 1 = k
         /\ k \in i .. j /\ k + 1 \in 1 .. n /\ k - 1 \in 1 .. n /\ i <= k - 1 /\ k + 1 <= j
         /\ i \in 1 .. n + 1 /\ k - 1 \in 0 .. n /\ 1 \in 1 .. 6
OBVIOUS

(* The operator that joins a phrase is the one eval splits it at.          *)
LEMMA SplitAt ==
  ASSUME NEW s, IsText(s), NEW t, AreTokens(t, s), NEW i \in 1 .. Len(s), NEW j \in 1 .. Len(s),
         NEW level \in 1 .. 5, NEW k \in 1 .. Len(s), i < k, k < j, s[k] \in Levels[level], Due(s, 1, i),
         Shaped(s, i, j, level), Shaped(s, i, k - 1, level), Shaped(s, k + 1, j, level + 1)
  PROVE  /\ find_dominated_op(t, i, j) = k /\ t[k].type = s[k] /\ s[k] \in Ops
         /\ check_parentheses(t, i, j).yes = FALSE /\ check_parentheses(t, i, j).ok = TRUE
<1>. DEFINE op == find_dominated_op(t, i, j)
            pri(x) == Priority(t[x].type)
<1>1. /\ Len(s) \in Nat /\ i \in Nat /\ j \in Nat /\ i <= j /\ (k - 1) + 1 = k /\ (k + 1) - 1 = k
      /\ k \in i .. j /\ k + 1 \in 1 .. Len(s) /\ k - 1 \in 1 .. Len(s) /\ level + 1 \in 1 .. 6 /\ level \in 1 .. 6
  <2>1. Len(s) \in Nat
    BY TextLength, Zenon
  <2>2. level + 1 \in 1 .. 6 /\ level \in 1 .. 6
    OBVIOUS
  <2>. QED  BY <2>1, <2>2, Between
<1>2. s[k] \in Ops /\ s[k] \notin Parentheses
  BY Kinds
<1>3. Depth(s)[k] = Depth(s)[i] /\ Depth(s)[k + 1] = Depth(s)[i]
  <2>1. Depth(s)[(k - 1) + 1] = Depth(s)[i]
    BY DEF Shaped
  <2>2. Depth(s)[k + 1] = Depth(s)[k]
    BY <1>2, DepthSteps
  <2>. QED  BY <1>1, <2>1, <2>2
<1>4. ~ PrefixAt(s, k)
  <2>1. s[k - 1] \in Atoms \cup {")"}
    BY DEF Shaped
  <2>2. s[k - 1] \notin Ops /\ s[k - 1] # "("
    BY <2>1, Kinds, ParenthesesAre
  <2>. QED  BY <2>2 DEF PrefixAt
<1>5. t[k].type = s[k] /\ pri(k) = level - 1
  <2>1. t[k].type = s[k]
    BY <1>2, <1>4, TokenTypes
  <2>. QED  BY <2>1, PriorityOfLevel
<1>6. Due(s, 1, k + 1)
  BY <1>1, <1>2 DEF Due
<1>7. ASSUME NEW x \in k + 1 .. j, x \in Outer(t, i, j)  PROVE pri(x) \in Nat /\ pri(x) >= level
  <2>1. x \in i .. j
    BY <1>1
  <2>2. OuterOp(s, i, x)
    BY <1>7, <2>1, OuterIs
  <2>3. OuterOp(s, k + 1, x)
    BY <1>3, <2>2 DEF OuterOp
  <2>4. Priority(t[x].type) \in Nat /\ Priority(t[x].type) >= (level + 1) - 1
    BY <1>1, <1>6, <2>3, OuterPriority
  <2>. QED  BY <2>4
<1>8. ASSUME NEW x \in i .. j, x \in Outer(t, i, j)  PROVE pri(x) \in Nat /\ pri(x) >= level - 1
  <2>2. OuterOp(s, i, x)
    BY <1>8, OuterIs
  <2>4. Priority(t[x].type) \in Nat /\ Priority(t[x].type) >= level - 1
    BY <1>1, <2>2, OuterPriority
  <2>. QED  BY <2>4
<1>9. k \in Outer(t, i, j)
  BY <1>1, <1>2, <1>3, OuterIs DEF OuterOp
<1>10. /\ op \in Outer(t, i, j) /\ op \in i .. j
       /\ pri(op) <= pri(k) /\ (k > op => pri(op) < pri(k))
  BY <1>1, <1>9, DominatedOp
<1>. HIDE DEF op, pri
<1>11. op = k
  <2>1. CASE op > k
    <3>1. op \in k + 1 .. j
      BY <1>1, <1>10, <2>1
    <3>2. pri(op) \in Nat /\ pri(op) >= level
      BY <1>7, <1>10, <3>1
    <3>. QED  BY <1>5, <1>10, <3>2
  <2>2. CASE op < k
    <3>1. pri(op) \in Nat /\ pri(op) >= level - 1
      BY <1>8, <1>10
    <3>2. k > op
      BY <1>1, <1>10, <2>2
    <3>. QED  BY <1>5, <1>10, <3>1, <3>2
  <2>. QED  BY <1>1, <1>10, <2>1, <2>2
<1>12. check_parentheses(t, i, j).yes = FALSE /\ check_parentheses(t, i, j).ok = TRUE
  <2>1. CASE s[i] = "(" /\ s[j] = ")"
    <3>1. /\ check_parentheses(t, i, j).ok = TRUE
          /\ check_parentheses(t, i, j).yes <=> \A m \in i + 1 .. j : Depth(s)[m] > Depth(s)[i]
      <4>1. i < j /\ Balanced(s, i, j) /\ Depth(s)[j + 1] = Depth(s)[i]
        BY <1>1 DEF Shaped
      <4>. QED  BY <2>1, <4>1, CheckBalanced
    <3>0. k \in i + 1 .. j /\ i \in Nat \ {0} /\ j \in Nat /\ i <= j
      BY <1>1
    <3>2. Depth(s)[i] \in Int
      BY DepthSteps
    <3>3. ~ (Depth(s)[k] > Depth(s)[i])
      BY <1>3, <3>2
    <3>4. check_parentheses(t, i, j).yes \in BOOLEAN
      BY <3>0, CheckType
    <3>. QED  BY <3>0, <3>1, <3>3, <3>4
  <2>2. CASE ~ (s[i] = "(" /\ s[j] = ")")
    BY <2>2, CheckOpen
  <2>. QED  BY <2>1, <2>2
<1>. QED  BY <1>2, <1>5, <1>11, <1>12 DEF op

(* The value of an operation, when eval does not evaluate the right one    *)
(* after the left one has failed.                                          *)
Agrees(e, m) == e.ok = m.r.ok /\ (m.r.ok => e = m.r)

LEMMA JoinedAgrees ==
  ASSUME NEW op, NEW a \in Values, NEW b \in Values, NEW x \in Results, NEW y \in Results,
         Agrees(x, a), x.ok => Agrees(y, b)
  PROVE  Agrees(Apply(op, x, y), Joined(op, a, b))
<1>1. a.r \in Results /\ b.r \in Results /\ Joined(op, a, b).r = Apply(op, a.r, b.r)
  BY DEF Values, Joined
<1>2. /\ Apply(op, x, y) \in Results /\ Apply(op, a.r, b.r) \in Results
      /\ Apply(op, x, y).ok => x.ok /\ y.ok
      /\ Apply(op, a.r, b.r).ok => a.r.ok /\ b.r.ok
  BY <1>1, ApplyResult
<1>3. Apply(op, x, y).ok \in BOOLEAN /\ Apply(op, a.r, b.r).ok \in BOOLEAN
      /\ a.r.ok \in BOOLEAN /\ b.r.ok \in BOOLEAN /\ x.ok \in BOOLEAN /\ y.ok \in BOOLEAN
  BY <1>1, <1>2 DEF Results
<1>4. CASE a.r.ok /\ b.r.ok
  <2>1. x = a.r /\ y = b.r
    BY <1>4 DEF Agrees
  <2>. QED  BY <1>1, <2>1 DEF Agrees
<1>5. CASE ~ (a.r.ok /\ b.r.ok)
  <2>1. ~ (x.ok /\ y.ok)
    BY <1>3, <1>5 DEF Agrees
  <2>2. ~ Apply(op, x, y).ok /\ ~ Apply(op, a.r, b.r).ok
    BY <1>2, <1>5, <2>1
  <2>. QED  BY <1>1, <1>3, <2>2 DEF Agrees
<1>. QED  BY <1>4, <1>5

LEMMA ReadAgrees ==
  ASSUME NEW x \in Values, NEW e \in Results, Agrees(e, x)
  PROVE  Agrees(Vaddr_read(e), AtAddress(x))
<1>1. x.r \in Results /\ AtAddress(x).r = Vaddr_read(x.r)
  BY DEF Values, AtAddress
<1>2. Vaddr_read(e).ok = e.ok /\ Vaddr_read(x.r).ok = x.r.ok
  BY <1>1, ReadResult
<1>. QED  BY <1>1, <1>2 DEF Agrees

LEMMA AtomAgrees ==
  ASSUME NEW s, IsText(s), NEW t, AreTokens(t, s), NEW i \in 1 .. Len(s), s[i] \in Atoms,
         NEW m \in Sen(s, i, i, 6)
  PROVE  Agrees(Ev(t, i, i, TRUE), m)
<1>1. Len(s) \in Nat /\ IsTokens(t) /\ Len(t) = Len(s) /\ i <= i
  BY TextLength, TokensAre
<1>2. m \in Unary(s, Sentence(s), i, i)
  BY <1>1, SenUnary
<1>3. s[i] # "*" /\ s[i] # "("
  BY Kinds
<1>4. m \in (IF s[i] \in DOMAIN Decimal THEN {Leaf(Res(Wrap(Decimal[s[i]]), TRUE, FALSE), Decimal[s[i]])}
             ELSE IF s[i] \in DOMAIN Hex THEN {Leaf(Res(Wrap(Hex[s[i]]), TRUE, FALSE), Hex[s[i]])}
             ELSE IF s[i] \in Gprs THEN {Leaf(Named(s[i]), 0)}
             ELSE {})
  BY <1>1, <1>2, <1>3 DEF Unary
<1>5. \A r, c : Leaf(r, c).r = r
  BY DEF Leaf
<1>6. m.r = IF s[i] \in DOMAIN Decimal THEN Res(Wrap(Decimal[s[i]]), TRUE, FALSE)
            ELSE IF s[i] \in DOMAIN Hex THEN Res(Wrap(Hex[s[i]]), TRUE, FALSE)
            ELSE Named(s[i])
  BY <1>4, <1>5, Zenon
<1>7. /\ s[i] \in DOMAIN Decimal => t[i] = Number(Decimal[s[i]])
      /\ s[i] \in DOMAIN Hex => t[i] = Number(Hex[s[i]])
      /\ s[i] \in Gprs => t[i] = Token("gpr", s[i])
  BY TokenTypes
<1>8. Ev(t, i, i, TRUE) = IF t[i].type = "num" THEN Res(t[i].val, TRUE, FALSE)
                          ELSE IF t[i].type = "gpr" THEN get_gpr(t[i].val, TRUE)
                          ELSE Res(0, TRUE, FALSE)
  BY <1>1, EvOne
<1>9. Ev(t, i, i, TRUE) = m.r
  <2>1. CASE s[i] \in DOMAIN Decimal
    <3>1. t[i].type = "num" /\ t[i].val = Wrap(Decimal[s[i]])
      BY <1>7, <2>1 DEF Number, Token
    <3>. QED  BY <1>6, <1>8, <2>1, <3>1, Zenon
  <2>2. CASE s[i] \notin DOMAIN Decimal /\ s[i] \in DOMAIN Hex
    <3>1. t[i].type = "num" /\ t[i].val = Wrap(Hex[s[i]])
      BY <1>7, <2>2 DEF Number, Token
    <3>. QED  BY <1>6, <1>8, <2>2, <3>1, Zenon
  <2>3. CASE s[i] \notin DOMAIN Decimal /\ s[i] \notin DOMAIN Hex
    <3>1. t[i].type = "gpr" /\ t[i].type # "num" /\ t[i].val = s[i]
      BY <1>7, <2>3 DEF Atoms, Token
    <3>. QED  BY <1>6, <1>8, <2>3, <3>1, NamedGpr, Zenon
  <2>. QED  BY <2>1, <2>2, <2>3
<1>. QED  BY <1>9 DEF Agrees

Valued(s, t, i, j, m) == Due(s, 1, i) => Agrees(Ev(t, i, j, TRUE), m)

LEMMA ValuesRight ==
  ASSUME NEW s, IsText(s), ~ Misread(s), NEW t, AreTokens(t, s)
  PROVE  \A i \in 1 .. Len(s) + 1, j \in 0 .. Len(s), level \in 1 .. 6 : \A m \in Sen(s, i, j, level) :
           Valued(s, t, i, j, m)
<1>. DEFINE S == {x \in Parses(s) : Valued(s, t, x.i, x.j, x.m)}
<1>1. Len(s) \in Nat /\ IsTokens(t) /\ Len(t) = Len(s)
  BY TextLength, TokensAre
<1>2. \A i \in 1 .. Len(s), j \in 1 .. Len(s), level \in 1 .. 6, m \in Values :
        Parse(i, j, level, m) \in S <=> Valued(s, t, i, j, m)
  <2>1. \A i \in 1 .. Len(s), j \in 1 .. Len(s), level \in 1 .. 6, m \in Values :
          LET x == Parse(i, j, level, m)
          IN  x \in Parses(s) /\ x.i = i /\ x.j = j /\ x.m = m
    BY DEF Parse, Parses
  <2>. QED  BY <2>1
<1>3. \A i \in 1 .. Len(s) + 1, j \in 0 .. Len(s), level \in 1 .. 6 : Sen(s, i, j, level) \subseteq Values
  BY <1>1, SenDef
<1>4. \A i \in 1 .. Len(s) + 1, j \in 0 .. Len(s), level \in 1 .. 6 :
        Sen(s, i, j, level) # {} => Shaped(s, i, j, level)
  BY ShapedAll
<1>5. \A i \in 1 .. Len(s) + 1, j \in 0 .. Len(s), ok \in BOOLEAN : Ev(t, i, j, ok) \in Results
  BY <1>1, EvType
<1>. HIDE DEF S
<1>6. Tighter(s, S)
  <2>. SUFFICES ASSUME NEW i \in 1 .. Len(s), NEW j \in 1 .. Len(s), NEW level \in 1 .. 5,
                       NEW m \in Sen(s, i, j, level + 1), i <= j, Parse(i, j, level + 1, m) \in S
                PROVE  Parse(i, j, level, m) \in S
    BY DEF Tighter
  <2>1. i \in 1 .. Len(s) + 1 /\ j \in 0 .. Len(s) /\ level + 1 \in 1 .. 6 /\ level \in 1 .. 6
    BY <1>1
  <2>2. m \in Values
    BY <1>3, <2>1
  <2>. QED  BY <1>2, <2>1, <2>2
<1>7. Joins(s, S)
  <2>. SUFFICES ASSUME NEW i \in 1 .. Len(s), NEW j \in 1 .. Len(s), NEW level \in 1 .. 5,
                       NEW k \in 1 .. Len(s)
                PROVE  \A a \in Sen(s, i, k - 1, level), b \in Sen(s, k + 1, j, level + 1) :
                         /\ i < k /\ k < j /\ s[k] \in Levels[level]
                         /\ Parse(i, k - 1, level, a) \in S /\ Parse(k + 1, j, level + 1, b) \in S
                         => Parse(i, j, level, Joined(s[k], a, b)) \in S
    BY DEF Joins
  <2>. SUFFICES ASSUME NEW a \in Sen(s, i, k - 1, level), NEW b \in Sen(s, k + 1, j, level + 1),
                       i < k, k < j, s[k] \in Levels[level],
                       Parse(i, k - 1, level, a) \in S, Parse(k + 1, j, level + 1, b) \in S
                PROVE  Parse(i, j, level, Joined(s[k], a, b)) \in S
    OBVIOUS
  <2>1. /\ i \in 1 .. Len(s) + 1 /\ j \in 0 .. Len(s) /\ level + 1 \in 1 .. 6 /\ level \in 1 .. 6
        /\ k - 1 \in 1 .. Len(s) /\ k + 1 \in 1 .. Len(s) /\ k - 1 \in 0 .. Len(s) /\ k + 1 \in 1 .. Len(s) + 1
        /\ (k + 1) - 1 = k /\ i <= j /\ i < j /\ k \in i .. j
    BY <1>1
  <2>2. a \in Values /\ b \in Values /\ Joined(s[k], a, b) \in Values
    BY <1>3, <2>1, JoinedType
  <2>3. Shaped(s, i, k - 1, level) /\ Shaped(s, k + 1, j, level + 1)
    BY <1>4, <2>1
  <2>4. Shaped(s, i, j, level)
    <3>1. Joined(s[k], a, b) \in Joinings(s, i, j, level)
      BY <2>1, InJoinings
    <3>2. Joined(s[k], a, b) \in Sen(s, i, j, level)
      BY <1>1, <2>1, <3>1, SenBinary
    <3>. QED  BY <1>4, <2>1, <3>2
  <2>. SUFFICES ASSUME Due(s, 1, i)  PROVE Agrees(Ev(t, i, j, TRUE), Joined(s[k], a, b))
    BY <1>2, <2>1, <2>2 DEF Valued
  <2>5. /\ find_dominated_op(t, i, j) = k /\ t[k].type = s[k] /\ s[k] \in Ops
        /\ check_parentheses(t, i, j).yes = FALSE /\ check_parentheses(t, i, j).ok = TRUE
    BY <2>3, <2>4, SplitAt
  <2>6. s[k] # "deref"
    BY <2>5, OpsAre
  <2>. DEFINE x == Ev(t, i, k - 1, TRUE)
              y == Ev(t, k + 1, j, x.ok)
  <2>7. Ev(t, i, j, TRUE) = Apply(s[k], x, y)
    <3>1. ASSUME NEW ok \in BOOLEAN
          PROVE  Ev(t, i, j, ok) = Apply(t[k].type, Ev(t, i, k - 1, ok), Ev(t, k + 1, j, Ev(t, i, k - 1, ok).ok))
      <4>1. i \in 1 .. Len(t) /\ j \in 1 .. Len(t) /\ i < j /\ IsTokens(t) /\ t[k].type # "deref"
        BY <1>1, <2>1, <2>5, <2>6
      <4>2. k = find_dominated_op(t, i, j)
        BY <2>5
      <4>. QED  BY <2>5, <4>1, <4>2, EvApply
    <3>. QED  BY <2>5, <3>1
  <2>8. x \in Results /\ y \in Results
    <3>1. x \in Results
      BY <1>5, <2>1
    <3>2. x.ok \in BOOLEAN
      BY <3>1 DEF Results
    <3>. QED  BY <1>5, <2>1, <3>1, <3>2
  <2>9. Agrees(x, a)
    BY <1>2, <2>1, <2>2 DEF Valued
  <2>10. ASSUME x.ok  PROVE Agrees(y, b)
    <3>1. x.ok = TRUE
      BY <2>8, <2>10 DEF Results
    <3>2. Due(s, 1, k + 1)
      BY <2>1, <2>5 DEF Due
    <3>3. Agrees(Ev(t, k + 1, j, TRUE), b)
      BY <1>2, <2>1, <2>2, <3>2 DEF Valued
    <3>. QED  BY <3>1, <3>3
  <2>. HIDE DEF x, y
  <2>. QED  BY <2>2, <2>7, <2>8, <2>9, <2>10, JoinedAgrees
<1>8. Reads(s, S)
  <2>. SUFFICES ASSUME NEW i \in 1 .. Len(s), NEW j \in 1 .. Len(s), NEW x \in Sen(s, i + 1, j, 6),
                       i < j, s[i] = "*", Parse(i + 1, j, 6, x) \in S
                PROVE  Parse(i, j, 6, AtAddress(x)) \in S
    BY DEF Reads
  <2>1. /\ i + 1 \in 1 .. Len(s) /\ i + 1 \in 1 .. Len(s) + 1 /\ j \in 0 .. Len(s) /\ (i + 1) - 1 = i
        /\ 6 \in 1 .. 6 /\ i + 1 \in 2 .. Len(s) /\ i <= j /\ i \in Nat /\ j \in Nat /\ i \in i .. j
    BY <1>1
  <2>2. x \in Values
    BY <1>3, <2>1
  <2>3. AtAddress(x) \in Values
    <3>1. Vaddr_read(x.r) \in Results
      BY <2>2, ReadResult DEF Values
    <3>. QED  BY <2>2, <3>1 DEF Values, AtAddress
  <2>. SUFFICES ASSUME Due(s, 1, i)  PROVE Agrees(Ev(t, i, j, TRUE), AtAddress(x))
    BY <1>2, <2>1, <2>3 DEF Valued
  <2>4. PrefixAt(s, i) /\ s[i] \in Ops
    BY Kinds DEF Due, PrefixAt
  <2>5. s[i + 1] # "*"
    <3>. SUFFICES ASSUME s[i + 1] = "*"  PROVE FALSE
      OBVIOUS
    <3>1. PrefixAt(s, i + 1)
      BY <2>1, <2>4 DEF PrefixAt
    <3>. QED  BY <2>1, <2>4, <3>1 DEF Misread
  <2>6. Shaped(s, i + 1, j, 6)
    BY <1>4, <2>1
  <2>7. Depth(s)[i + 1] = Depth(s)[i]
    BY Kinds, DepthSteps
  <2>8. Outer(t, i, j) = {i}
    <3>1. i \in Outer(t, i, j)
      BY <2>1, <2>4, OuterIs DEF OuterOp
    <3>2. ASSUME NEW y \in Outer(t, i, j), y # i  PROVE FALSE
      <4>1. y \in i .. j /\ y \in i + 1 .. j
        BY <2>1, <3>2 DEF Outer
      <4>2. OuterOp(s, i, y)
        BY <4>1, OuterIs
      <4>3. OuterOp(s, i + 1, y)
        BY <2>7, <4>2 DEF OuterOp
      <4>. QED  BY <2>5, <2>6, <4>1, <4>3 DEF Shaped
    <3>. QED  BY <3>1, <3>2
  <2>9. find_dominated_op(t, i, j) = i
    BY <2>1, <2>8, DominatedOp
  <2>10. t[i].type = "deref"
    BY <2>4, TokenTypes
  <2>11. check_parentheses(t, i, j).yes = FALSE /\ check_parentheses(t, i, j).ok = TRUE
    BY CheckOpen
  <2>12. Ev(t, i, j, TRUE) = Vaddr_read(Ev(t, i + 1, j, TRUE))
    <3>1. ASSUME NEW ok \in BOOLEAN  PROVE Ev(t, i, j, ok) = Vaddr_read(Ev(t, i + 1, j, ok))
      <4>1. i \in 1 .. Len(t) /\ j \in 1 .. Len(t) /\ i < j /\ IsTokens(t)
        BY <1>1
      <4>2. i = find_dominated_op(t, i, j)
        BY <2>9
      <4>. QED  BY <2>10, <2>11, <4>1, <4>2, EvRead
    <3>. QED  BY <3>1
  <2>13. Due(s, 1, i + 1)
    BY <2>1, <2>4 DEF Due
  <2>14. Agrees(Ev(t, i + 1, j, TRUE), x)
    BY <1>2, <2>1, <2>2, <2>13 DEF Valued
  <2>15. Ev(t, i + 1, j, TRUE) \in Results
    BY <1>5, <2>1
  <2>. QED  BY <2>2, <2>12, <2>14, <2>15, ReadAgrees
<1>9. Encloses(s, S)
  <2>. SUFFICES ASSUME NEW i \in 1 .. Len(s), NEW j \in 1 .. Len(s), NEW x \in Sen(s, i + 1, j - 1, 1),
                       i + 1 < j, s[i] = "(", s[j] = ")", Parse(i + 1, j - 1, 1, x) \in S
                PROVE  Parse(i, j, 6, x) \in S
    BY DEF Encloses
  <2>1. /\ i + 1 \in 1 .. Len(s) /\ i + 1 \in 1 .. Len(s) + 1 /\ j - 1 \in 0 .. Len(s) /\ j - 1 \in 1 .. Len(s)
        /\ (j - 1) + 1 = j /\ (i + 1) - 1 = i /\ i < j /\ i <= j /\ i \in 1 .. Len(s) + 1 /\ j \in 0 .. Len(s)
        /\ 6 \in 1 .. 6 /\ 1 \in 1 .. 6
    BY <1>1
  <2>2. x \in Values
    BY <1>3, <2>1
  <2>3. Shaped(s, i + 1, j - 1, 1)
    BY <1>4, <2>1
  <2>4. Shaped(s, i, j, 6)
    <3>1. x \in Unary(s, Sentence(s), i, j)
      BY DEF Unary, Sen
    <3>2. x \in Sen(s, i, j, 6)
      BY <1>1, <2>1, <3>1, SenUnary
    <3>. QED  BY <1>4, <2>1, <3>2
  <2>5. \A y \in i + 1 .. j : Depth(s)[y] > Depth(s)[i]
    <3>1. \A y \in i + 1 .. j : Depth(s)[y] >= Depth(s)[i + 1]
      BY <2>1, <2>3 DEF Shaped, Balanced
    <3>2. Depth(s)[i + 1] = Depth(s)[i] + 1 /\ Depth(s)[i] \in Int
      BY DepthSteps
    <3>3. \A y \in i + 1 .. j : y \in 1 .. Len(s)
      BY <1>1
    <3>4. \A y \in i + 1 .. j : Depth(s)[y] \in Int
      BY <3>3, DepthSteps
    <3>. QED  BY <3>1, <3>2, <3>4
  <2>6. check_parentheses(t, i, j).yes = TRUE
    <3>1. Balanced(s, i, j) /\ Depth(s)[j + 1] = Depth(s)[i]
      BY <2>4 DEF Shaped
    <3>2. check_parentheses(t, i, j).yes
      BY <2>1, <2>5, <3>1, CheckBalanced
    <3>3. i \in Nat \ {0} /\ j \in Nat
      BY <1>1
    <3>4. check_parentheses(t, i, j).yes \in BOOLEAN
      BY <2>1, <3>3, CheckType
    <3>. QED  BY <3>2, <3>4
  <2>. SUFFICES ASSUME Due(s, 1, i)  PROVE Agrees(Ev(t, i, j, TRUE), x)
    BY <1>2, <2>1, <2>2 DEF Valued
  <2>7. Ev(t, i, j, TRUE) = Ev(t, i + 1, j - 1, TRUE)
    <3>1. \A ok \in BOOLEAN : Ev(t, i, j, ok) = Ev(t, i + 1, j - 1, ok)
      BY <1>1, <2>1, <2>6, EvEnclosed
    <3>. QED  BY <3>1
  <2>8. Due(s, 1, i + 1)
    BY <2>1 DEF Due
  <2>. QED  BY <1>2, <2>1, <2>2, <2>7, <2>8 DEF Valued
<1>10. Stands(s, S)
  <2>. SUFFICES ASSUME NEW i \in 1 .. Len(s), NEW m \in Sen(s, i, i, 6), s[i] \in Atoms
                PROVE  Parse(i, i, 6, m) \in S
    BY DEF Stands
  <2>1. i \in 1 .. Len(s) + 1 /\ i \in 0 .. Len(s) /\ 6 \in 1 .. 6
    BY <1>1
  <2>2. m \in Values
    BY <1>3, <2>1
  <2>3. Agrees(Ev(t, i, i, TRUE), m)
    BY AtomAgrees
  <2>. QED  BY <1>2, <2>1, <2>2, <2>3 DEF Valued
<1>11. \A i \in 1 .. Len(s) + 1, j \in 0 .. Len(s), level \in 1 .. 6 : \A m \in Sen(s, i, j, level) :
           /\ i \in 1 .. Len(s) /\ j \in 1 .. Len(s) /\ i <= j
           /\ Parse(i, j, level, m) \in S
  BY <1>1, <1>6, <1>7, <1>8, <1>9, <1>10, PhraseInduction
<1>. QED  BY <1>2, <1>3, <1>11

-----------------------------------------------------------------------------
(* make_token on texts that the lexer does not misread.                    *)

LEMMA MatchedPlain ==
  ASSUME NEW s, IsText(s), ~ Overrun(s)
  PROVE  Matched(s) = s
<1>. DEFINE gprs == {i \in DOMAIN s : s[i] \in Gprs}
            first == Min(gprs)
            last == GprEnd(s, first)
<1>1. gprs \in SUBSET Nat
  BY TextLength
<1>2. ASSUME gprs # {}  PROVE first \in gprs
  <2>. HIDE DEF gprs
  <2>1. \E x \in gprs : \A y \in gprs : x <= y
    BY <1>1, <1>2, LeastOf
  <2>. QED  BY <2>1 DEF Min
<1>3. gprs # {} => last = first
  BY <1>2 DEF Overrun
<1>4. Matched(s) =
        IF gprs = {} \/ last = first THEN s
        ELSE SubSeq(s, 1, first - 1) \o <<Swallowed>>
               \o (IF s[last] \in DOMAIN Hex THEN <<AfterX[s[last]]>> ELSE <<>>) \o SubSeq(s, last + 1, Len(s))
  BY Zenon DEF Matched
<1>. QED  BY <1>3, <1>4

LEMMA DerefIsPrefix ==
  ASSUME NEW w, Len(w) \in Nat, NEW i \in 1 .. Len(w), Derefs(w)[i]
  PROVE  PrefixAt(w, i)
<1>1. IsDeref(w, Derefs(w), i)
  BY DerefsDef
<1>. QED  BY <1>1, OpsAre DEF IsDeref, PrefixAt

LEMMA PrefixIsDeref ==
  ASSUME NEW s, IsText(s), ~ Misread(s), NEW i \in 1 .. Len(s), PrefixAt(s, i)
  PROVE  Derefs(s)[i]
<1>1. Len(s) \in Nat
  BY TextLength
<1>2. CASE i = 1
  <2>1. IsDeref(s, Derefs(s), i)
    BY <1>2 DEF IsDeref, PrefixAt
  <2>. QED  BY <1>1, <2>1, DerefsDef
<1>3. CASE i # 1
  <2>1. i \in 2 .. Len(s) /\ i - 1 \in 1 .. Len(s)
    BY <1>1, <1>3
  <2>2. s[i - 1] \notin {"&&", "||"} /\ ~ (s[i - 1] = "*" /\ PrefixAt(s, i - 1))
    BY <2>1 DEF Misread
  <2>3. s[i - 1] \in Ops \cup {"("} /\ s[i] = "*"
    BY <1>3 DEF PrefixAt
  <2>4. s[i - 1] = "*" => ~ Derefs(s)[i - 1]
    BY <1>1, <2>1, <2>2, DerefIsPrefix
  <2>5. IsDeref(s, Derefs(s), i)
    BY <2>2, <2>3, <2>4, OpsAre DEF IsDeref
  <2>. QED  BY <1>1, <2>5, DerefsDef
<1>. QED  BY <1>2, <1>3

LEMMA TokensOfText ==
  ASSUME NEW s, IsText(s), Matched(s) = s, \A i \in 1 .. Len(s) : Derefs(s)[i] <=> PrefixAt(s, i)
  PROVE  make_token(s).ok /\ AreTokens(make_token(s).toks, s)
<1>1. Len(s) \in Nat /\ DOMAIN s = 1 .. Len(s)
  BY TextLength
<1>2. make_token(s) =
        [ok |-> \A i \in DOMAIN s : s[i] \in Atoms \cup Ops \cup Parentheses \cup {Swallowed},
         toks |-> [i \in 1 .. Len(s) |-> TokenOf(s[i], Derefs(s)[i])]]
  BY DEF make_token
<1>3. \A i \in 1 .. Len(s) : s[i] \in Atoms \cup Ops \cup Parentheses
  BY DEF IsText
<1>. DEFINE t == make_token(s).toks
<1>4. t = [i \in 1 .. Len(s) |-> TokenOf(s[i], Derefs(s)[i])] /\ make_token(s).ok
  BY <1>1, <1>2, <1>3
<1>5. Len(t) = Len(s)
  BY <1>1, <1>4
<1>6. ASSUME NEW i \in 1 .. Len(s)  PROVE t[i] = TokenOf(s[i], PrefixAt(s, i))
  <2>1. Derefs(s)[i] \in BOOLEAN
    BY <1>1, DerefsDef
  <2>2. Derefs(s)[i] = PrefixAt(s, i)
    BY <2>1 DEF PrefixAt
  <2>. QED  BY <1>4, <2>2
<1>. QED  BY <1>4, <1>5, <1>6 DEF AreTokens

LEMMA ExprValue ==
  ASSUME NEW s, IsText(s), make_token(s).ok, AreTokens(make_token(s).toks, s)
  PROVE  expr(s) = Ev(make_token(s).toks, 1, Len(s), TRUE)
BY DEF expr, Ev, AreTokens

LEMMA TextValue ==
  ASSUME NEW s, IsText(s), ~ Misread(s), NEW m \in Sentence(s)[Phrase(1, Len(s), 1)]
  PROVE  Agrees(expr(s), m)
<1>. DEFINE t == make_token(s).toks
<1>1. Len(s) \in Nat /\ DOMAIN s = 1 .. Len(s) /\ 1 \in 1 .. Len(s) + 1 /\ Len(s) \in 0 .. Len(s) /\ 1 \in 1 .. 6
  BY TextLength
<1>2. Matched(s) = s
  <2>1. ~ Overrun(s)
    BY DEF Misread
  <2>. QED  BY <2>1, MatchedPlain
<1>3. \A i \in 1 .. Len(s) : Derefs(s)[i] <=> PrefixAt(s, i)
  BY <1>1, DerefIsPrefix, PrefixIsDeref
<1>4. make_token(s).ok /\ AreTokens(t, s)
  BY <1>2, <1>3, TokensOfText
<1>5. expr(s) = Ev(t, 1, Len(s), TRUE)
  BY <1>4, ExprValue
<1>. HIDE DEF t
<1>6. m \in Sen(s, 1, Len(s), 1)
  BY DEF Sen
<1>7. Valued(s, t, 1, Len(s), m)
  BY <1>1, <1>4, <1>6, ValuesRight
<1>8. Due(s, 1, 1)
  BY DEF Due
<1>. QED  BY <1>5, <1>7, <1>8 DEF Valued

-----------------------------------------------------------------------------
(* The value of the same expression in C.                                  *)

(* A value that expr.c and C agree on.                                     *)
Same(m) == InInt(m.c) /\ m.r = Res(Wrap(m.c), TRUE, FALSE)

LEMMA WrapSmall ==
  ASSUME NEW n \in Nat, InInt(n)
  PROVE  Wrap(n) = n
<1>1. n \in Word
  BY ExprAssumption DEF InInt, Word, ExprAssumption
<1>. QED  BY <1>1, WrapWord

LEMMA JoinedSame ==
  ASSUME NEW op, NEW a \in Values, NEW b \in Values, Same(a), Same(b), Joined(op, a, b).cok
  PROVE  Same(Joined(op, a, b))
<1>. DEFINE m == Joined(op, a, b)
            x == a.r
            y == b.r
            both == Both(x, y)
            To(n) == [both EXCEPT !.val = n]
<1>1. a.c \in Int /\ b.c \in Int
  BY DEF Values
<1>2. /\ m.r = Apply(op, x, y)
      /\ m.c = CASE op = "+" -> a.c + b.c
                 [] op = "-" -> a.c - b.c
                 [] op = "*" -> a.c * b.c
                 [] op = "/" /\ a.c >= 0 /\ b.c > 0 -> a.c \div b.c
                 [] OTHER -> Half
      /\ InInt(m.c)
  BY DEF Joined
<1>3. /\ x.val = Wrap(a.c) /\ x.ok = TRUE /\ x.dead = FALSE
      /\ y.val = Wrap(b.c) /\ y.ok = TRUE /\ y.dead = FALSE
      /\ x = [val |-> Wrap(a.c), ok |-> TRUE, dead |-> FALSE]
  BY DEF Same, Res
<1>4. \A n \in Word : To(n) = Res(n, TRUE, FALSE)
  <2>1. both \in Results /\ both.ok = TRUE /\ both.dead = FALSE
    <3>1. both = Res(Wrap(a.c), TRUE, FALSE)
      BY <1>3 DEF Both, Res
    <3>2. Wrap(a.c) \in Word
      BY <1>1, WrapType
    <3>3. both \in Results
      BY <3>1, <3>2, ResType
    <3>. HIDE DEF both
    <3>. QED  BY <3>1, <3>3 DEF Res
  <2>2. \A r \in Results, n \in Word :
          LET z == [r EXCEPT !.val = n]
          IN  z \in Results /\ z.val = n /\ z.ok = r.ok /\ z.dead = r.dead
    BY DEF Results
  <2>3. \A r \in Results : r = Res(r.val, r.ok, r.dead)
    BY DEF Results, Res
  <2>. HIDE DEF both
  <2>. SUFFICES ASSUME NEW n \in Word  PROVE [both EXCEPT !.val = n] = Res(n, TRUE, FALSE)
    OBVIOUS
  <2>. DEFINE z == [both EXCEPT !.val = n]
  <2>4. z \in Results /\ z.val = n /\ z.ok = both.ok /\ z.dead = both.dead
    BY <2>1, <2>2
  <2>5. z = Res(z.val, z.ok, z.dead)
    BY <2>3, <2>4
  <2>. QED  BY <2>1, <2>4, <2>5, Zenon
<1>5. Apply(op, x, y) =
        CASE op = "+" -> To(Wrap(x.val + y.val))
          [] op = "-" -> To(Wrap(x.val - y.val))
          [] op = "*" -> To(Wrap(x.val * y.val))
          [] op = "/" /\ y.val # 0 -> To(x.val \div y.val)
          [] op = "==" -> To(Truth(x.val = y.val))
          [] op = "!=" -> To(Truth(x.val # y.val))
          [] op = "&&" -> To(Truth(x.val # 0 /\ y.val # 0))
          [] op = "||" -> To(Truth(x.val # 0 \/ y.val # 0))
          [] OTHER -> Strange(both)
  BY Zenon DEF Apply, Both
<1>. HIDE DEF m, x, y, To, both
<1>6. CASE op = "+"
  <2>1. m.c = a.c + b.c /\ m.r = To(Wrap(x.val + y.val))
    BY <1>2, <1>5, <1>6
  <2>2. Wrap(x.val + y.val) = Wrap(a.c + b.c)
    <3>1. Wrap(Wrap(a.c) + Wrap(b.c)) = Wrap(a.c + b.c)
      BY <1>1, WrapSum
    <3>. QED  BY <1>3, <3>1
  <2>3. Wrap(m.c) \in Word
    BY <1>1, <2>1, WrapType
  <2>. QED  BY <1>2, <1>4, <2>1, <2>2, <2>3 DEF Same, m
<1>7. CASE op = "-"
  <2>1. m.c = a.c - b.c /\ m.r = To(Wrap(x.val - y.val))
    BY <1>2, <1>5, <1>7
  <2>2. Wrap(x.val - y.val) = Wrap(a.c - b.c)
    <3>1. Wrap(Wrap(a.c) - Wrap(b.c)) = Wrap(a.c - b.c)
      BY <1>1, WrapSum
    <3>. QED  BY <1>3, <3>1
  <2>3. Wrap(m.c) \in Word
    BY <1>1, <2>1, WrapType
  <2>. QED  BY <1>2, <1>4, <2>1, <2>2, <2>3 DEF Same, m
<1>8. CASE op = "*"
  <2>1. m.c = a.c * b.c /\ m.r = To(Wrap(x.val * y.val))
    BY <1>2, <1>5, <1>8
  <2>2. Wrap(x.val * y.val) = Wrap(a.c * b.c)
    <3>1. Wrap(Wrap(a.c) * Wrap(b.c)) = Wrap(a.c * b.c)
      BY <1>1, WrapProduct
    <3>. QED  BY <1>3, <3>1
  <2>3. Wrap(m.c) \in Word
    BY <1>1, <2>1, WrapType
  <2>. QED  BY <1>2, <1>4, <2>1, <2>2, <2>3 DEF Same, m
<1>9. CASE op = "/" /\ a.c >= 0 /\ b.c > 0
  <2>1. m.c = a.c \div b.c
    BY <1>2, <1>9
  <2>2. a.c \in Nat /\ b.c \in Nat \ {0} /\ InInt(a.c) /\ InInt(b.c)
    BY <1>1, <1>9 DEF Same
  <2>3. x.val = a.c /\ y.val = b.c
    BY <1>3, <2>2, WrapSmall
  <2>4. m.r = To(a.c \div b.c)
    BY <1>2, <1>5, <1>9, <2>2, <2>3
  <2>5. m.c \in Nat
    BY <2>1, <2>2, QuotientType
  <2>6. Wrap(m.c) = m.c
    BY <1>2, <2>5, WrapSmall
  <2>7. m.c \in Word
    BY <2>5, <2>6, WrapType
  <2>. QED  BY <1>2, <1>4, <2>1, <2>4, <2>6, <2>7 DEF Same, m
<1>10. CASE op \notin {"+", "-", "*"} /\ ~ (op = "/" /\ a.c >= 0 /\ b.c > 0)
  <2>1. m.c = Half
    BY <1>2, <1>10
  <2>. QED  BY <1>2, <2>1, ExprAssumption DEF InInt, ExprAssumption
<1>. QED  BY <1>6, <1>7, <1>8, <1>9, <1>10

(* What it has no overflow in has no prefix either.                        *)
Counted(s, i, j, m) ==
  m.cok => Same(m) /\ \A k \in i .. j : s[k] = "*" => ~ Due(s, i, k)

LEMMA CountedAll ==
  ASSUME NEW s, IsText(s), Generated(s)
  PROVE  \A i \in 1 .. Len(s) + 1, j \in 0 .. Len(s), level \in 1 .. 6 : \A m \in Sen(s, i, j, level) :
           Counted(s, i, j, m)
<1>. DEFINE S == {x \in Parses(s) : Counted(s, x.i, x.j, x.m)}
<1>1. Len(s) \in Nat /\ DOMAIN s = 1 .. Len(s)
  BY TextLength
<1>2. \A i \in 1 .. Len(s), j \in 1 .. Len(s), level \in 1 .. 6, m \in Values :
        Parse(i, j, level, m) \in S <=> Counted(s, i, j, m)
  <2>1. \A i \in 1 .. Len(s), j \in 1 .. Len(s), level \in 1 .. 6, m \in Values :
          LET x == Parse(i, j, level, m)
          IN  x \in Parses(s) /\ x.i = i /\ x.j = j /\ x.m = m
    BY DEF Parse, Parses
  <2>. QED  BY <2>1
<1>3. \A i \in 1 .. Len(s) + 1, j \in 0 .. Len(s), level \in 1 .. 6 : Sen(s, i, j, level) \subseteq Values
  BY <1>1, SenDef
<1>4. \A i \in 1 .. Len(s) + 1, j \in 0 .. Len(s), level \in 1 .. 6 :
        Sen(s, i, j, level) # {} => Shaped(s, i, j, level)
  BY ShapedAll
<1>. HIDE DEF S
<1>6. Tighter(s, S)
  <2>. SUFFICES ASSUME NEW i \in 1 .. Len(s), NEW j \in 1 .. Len(s), NEW level \in 1 .. 5,
                       NEW m \in Sen(s, i, j, level + 1), i <= j, Parse(i, j, level + 1, m) \in S
                PROVE  Parse(i, j, level, m) \in S
    BY DEF Tighter
  <2>1. i \in 1 .. Len(s) + 1 /\ j \in 0 .. Len(s) /\ level + 1 \in 1 .. 6 /\ level \in 1 .. 6
    BY <1>1
  <2>2. m \in Values
    BY <1>3, <2>1
  <2>. QED  BY <1>2, <2>1, <2>2
<1>7. Joins(s, S)
  <2>. SUFFICES ASSUME NEW i \in 1 .. Len(s), NEW j \in 1 .. Len(s), NEW level \in 1 .. 5,
                       NEW k \in 1 .. Len(s)
                PROVE  \A a \in Sen(s, i, k - 1, level), b \in Sen(s, k + 1, j, level + 1) :
                         /\ i < k /\ k < j /\ s[k] \in Levels[level]
                         /\ Parse(i, k - 1, level, a) \in S /\ Parse(k + 1, j, level + 1, b) \in S
                         => Parse(i, j, level, Joined(s[k], a, b)) \in S
    BY DEF Joins
  <2>. SUFFICES ASSUME NEW a \in Sen(s, i, k - 1, level), NEW b \in Sen(s, k + 1, j, level + 1),
                       i < k, k < j, s[k] \in Levels[level],
                       Parse(i, k - 1, level, a) \in S, Parse(k + 1, j, level + 1, b) \in S
                PROVE  Parse(i, j, level, Joined(s[k], a, b)) \in S
    OBVIOUS
  <2>. DEFINE m == Joined(s[k], a, b)
  <2>1. /\ i \in 1 .. Len(s) + 1 /\ j \in 0 .. Len(s) /\ level + 1 \in 1 .. 6 /\ level \in 1 .. 6
        /\ k - 1 \in 1 .. Len(s) /\ k + 1 \in 1 .. Len(s) /\ k - 1 \in 0 .. Len(s) /\ k + 1 \in 1 .. Len(s) + 1
    BY <1>1
  <2>2. a \in Values /\ b \in Values /\ m \in Values
    BY <1>3, <2>1, JoinedType
  <2>. SUFFICES ASSUME m.cok  PROVE Same(m) /\ \A x \in i .. j : s[x] = "*" => ~ Due(s, i, x)
    BY <1>2, <2>1, <2>2 DEF Counted
  <2>3. a.cok /\ b.cok
    BY DEF Joined
  <2>4. /\ Same(a) /\ Same(b)
        /\ \A x \in i .. k - 1 : s[x] = "*" => ~ Due(s, i, x)
        /\ \A x \in k + 1 .. j : s[x] = "*" => ~ Due(s, k + 1, x)
    BY <1>2, <2>1, <2>2, <2>3 DEF Counted
  <2>5. Same(m)
    BY <2>2, <2>4, JoinedSame
  <2>6. ASSUME NEW x \in i .. j, s[x] = "*"  PROVE ~ Due(s, i, x)
    <3>1. CASE x \in i .. k - 1
      BY <2>4, <2>6, <3>1
    <3>2. CASE x = k
      <4>1. s[k - 1] \in Atoms \cup {")"}
        BY <1>4, <2>1 DEF Shaped
      <4>2. s[k - 1] \notin Ops /\ s[k - 1] # "("
        BY <4>1, Kinds, ParenthesesAre
      <4>. QED  BY <3>2, <4>2 DEF Due
    <3>3. CASE x \in k + 1 .. j
      BY <2>4, <2>6, <3>3 DEF Due
    <3>. QED  BY <3>1, <3>2, <3>3
  <2>. QED  BY <2>5, <2>6
<1>8. Reads(s, S)
  <2>. SUFFICES ASSUME NEW i \in 1 .. Len(s), NEW j \in 1 .. Len(s), NEW x \in Sen(s, i + 1, j, 6),
                       i < j, s[i] = "*", Parse(i + 1, j, 6, x) \in S
                PROVE  Parse(i, j, 6, AtAddress(x)) \in S
    BY DEF Reads
  <2>1. i + 1 \in 1 .. Len(s) + 1 /\ j \in 0 .. Len(s) /\ 6 \in 1 .. 6
    BY <1>1
  <2>2. x \in Values
    BY <1>3, <2>1
  <2>3. AtAddress(x) \in Values
    <3>1. Vaddr_read(x.r) \in Results
      BY <2>2, ReadResult DEF Values
    <3>. QED  BY <2>2, <3>1 DEF Values, AtAddress
  <2>4. ~ AtAddress(x).cok
    BY <2>2 DEF AtAddress, Values
  <2>. QED  BY <1>2, <2>1, <2>3, <2>4 DEF Counted
<1>9. Encloses(s, S)
  <2>. SUFFICES ASSUME NEW i \in 1 .. Len(s), NEW j \in 1 .. Len(s), NEW x \in Sen(s, i + 1, j - 1, 1),
                       i + 1 < j, s[i] = "(", s[j] = ")", Parse(i + 1, j - 1, 1, x) \in S
                PROVE  Parse(i, j, 6, x) \in S
    BY DEF Encloses
  <2>1. /\ i + 1 \in 1 .. Len(s) /\ i + 1 \in 1 .. Len(s) + 1 /\ j - 1 \in 0 .. Len(s) /\ j - 1 \in 1 .. Len(s)
        /\ 6 \in 1 .. 6 /\ 1 \in 1 .. 6
    BY <1>1
  <2>2. x \in Values
    BY <1>3, <2>1
  <2>. SUFFICES ASSUME x.cok  PROVE Same(x) /\ \A y \in i .. j : s[y] = "*" => ~ Due(s, i, y)
    BY <1>2, <2>1, <2>2 DEF Counted
  <2>3. Same(x) /\ \A y \in i + 1 .. j - 1 : s[y] = "*" => ~ Due(s, i + 1, y)
    BY <1>2, <2>1, <2>2 DEF Counted
  <2>4. ASSUME NEW y \in i .. j, s[y] = "*"  PROVE ~ Due(s, i, y)
    <3>1. y \in i + 1 .. j - 1
      BY <1>1, <2>4
    <3>2. ~ Due(s, i + 1, y)
      BY <2>3, <2>4, <3>1
    <3>. QED  BY <3>1, <3>2 DEF Due
  <2>. QED  BY <2>3, <2>4
<1>10. Stands(s, S)
  <2>. SUFFICES ASSUME NEW i \in 1 .. Len(s), NEW m \in Sen(s, i, i, 6), s[i] \in Atoms
                PROVE  Parse(i, i, 6, m) \in S
    BY DEF Stands
  <2>1. i \in 1 .. Len(s) + 1 /\ i \in 0 .. Len(s) /\ 6 \in 1 .. 6 /\ i <= i /\ i .. i = {i}
    BY <1>1
  <2>2. m \in Values
    BY <1>3, <2>1
  <2>3. s[i] # "*" /\ s[i] # "("
    BY Kinds
  <2>4. s[i] \in DOMAIN Decimal
    BY <1>1, Kinds, OpsAre DEF Generated
  <2>5. m \in Unary(s, Sentence(s), i, i)
    BY <1>1, <2>1, SenUnary
  <2>6. m = Leaf(Res(Wrap(Decimal[s[i]]), TRUE, FALSE), Decimal[s[i]])
    BY <2>1, <2>3, <2>4, <2>5 DEF Unary
  <2>7. m.cok => Same(m)
    BY <2>6 DEF Leaf, Same
  <2>8. \A k \in i .. i : s[k] # "*"
    BY <2>1, <2>3
  <2>. QED  BY <1>2, <2>1, <2>2, <2>7, <2>8 DEF Counted
<1>11. \A i \in 1 .. Len(s) + 1, j \in 0 .. Len(s), level \in 1 .. 6 : \A m \in Sen(s, i, j, level) :
           /\ i \in 1 .. Len(s) /\ j \in 1 .. Len(s) /\ i <= j
           /\ Parse(i, j, level, m) \in S
  BY <1>1, <1>6, <1>7, <1>8, <1>9, <1>10, PhraseInduction
<1>. QED  BY <1>2, <1>3, <1>11

LEMMA TextCount ==
  ASSUME NEW s, IsText(s), Generated(s), NEW m \in Sentence(s)[Phrase(1, Len(s), 1)], m.cok
  PROVE  expr(s) = Res(Wrap(m.c), TRUE, FALSE)
<1>1. Len(s) \in Nat /\ DOMAIN s = 1 .. Len(s) /\ 1 \in 1 .. Len(s) + 1 /\ Len(s) \in 0 .. Len(s) /\ 1 \in 1 .. 6
  BY TextLength
<1>2. m \in Sen(s, 1, Len(s), 1)
  BY DEF Sen
<1>3. Counted(s, 1, Len(s), m)
  BY <1>1, <1>2, CountedAll
<1>4. m.r = Res(Wrap(m.c), TRUE, FALSE) /\ \A k \in 1 .. Len(s) : s[k] = "*" => ~ Due(s, 1, k)
  BY <1>3 DEF Counted, Same
<1>5. ~ Misread(s)
  <2>1. ASSUME NEW i \in DOMAIN s  PROVE s[i] \notin Gprs
    <3>1. s[i] \in DOMAIN Decimal \cup {"+", "-", "*", "/", "(", ")"}
      BY DEF Generated
    <3>2. \A u \in Gprs : u \in Atoms /\ u \notin DOMAIN Decimal
      BY ExprAssumption DEF ExprAssumption, Atoms
    <3>. QED  BY <3>1, <3>2, Kinds, OpsAre
  <2>2. ASSUME NEW i \in 2 .. Len(s)  PROVE ~ PrefixAt(s, i)
    BY <1>1, <1>4 DEF Due, PrefixAt
  <2>. QED  BY <2>1, <2>2 DEF Misread, Overrun
<1>6. Agrees(expr(s), m)
  BY <1>5, TextValue
<1>7. m.r.ok = TRUE
  BY <1>4 DEF Res
<1>. QED  BY <1>4, <1>6, <1>7 DEF Agrees

-----------------------------------------------------------------------------
(* Refusing: operands and binary operators alternate in what eval accepts, *)
(* so the grammar has it.                                                  *)

(* A phrase is one of every level that binds weaker.                       *)
LEMMA Weaker ==
  ASSUME NEW s, IsText(s), NEW i \in 1 .. Len(s), NEW j \in 1 .. Len(s), i <= j, NEW level \in 1 .. 6,
         Sen(s, i, j, level) # {}
  PROVE  Sen(s, i, j, 1) # {}
<1>. DEFINE S == {n \in Nat : n <= level => Sen(s, i, j, level - n) # {} \/ n = level}
<1>1. Len(s) \in Nat
  BY TextLength
<1>2. 0 \in S
  OBVIOUS
<1>3. ASSUME NEW n \in Nat, 0 <= n, n \in S  PROVE n + 1 \in S
  <2>1. CASE n + 1 < level
    <3>1. level - (n + 1) \in 1 .. 5 /\ (level - (n + 1)) + 1 = level - n
      BY <2>1
    <3>2. Sen(s, i, j, level - n) # {}
      BY <1>3, <2>1
    <3>. QED  BY <1>1, <3>1, <3>2, SenBinary
  <2>2. CASE n + 1 >= level
    BY <2>2
  <2>. QED  BY <2>1, <2>2
<1>4. \A n \in Nat : 0 <= n => n \in S
  <2>. HIDE DEF S
  <2>. QED  BY <1>2, <1>3, StepInduction
<1>5. level - 1 \in Nat /\ level - (level - 1) = 1 /\ level - 1 # level /\ level - 1 <= level
  OBVIOUS
<1>6. level - 1 \in S
  <2>. HIDE DEF S
  <2>. QED  BY <1>4, <1>5
<1>. QED  BY <1>5, <1>6

(* One that has no operator of a weaker level outside parentheses is a     *)
(* phrase of the level.                                                    *)
LEMMA Stronger ==
  ASSUME NEW s, IsText(s), NEW i \in 1 .. Len(s), NEW j \in 1 .. Len(s), i <= j, NEW level \in 1 .. 6,
         Sen(s, i, j, 1) # {},
         \A k \in i .. j : OuterOp(s, i, k) => \A l \in 1 .. level - 1 : s[k] \notin Levels[l]
  PROVE  Sen(s, i, j, level) # {}
<1>. DEFINE S == {n \in Nat : n <= level => Sen(s, i, j, n) # {}}
<1>1. Len(s) \in Nat /\ \A k \in i .. j : k - 1 \in 0 .. Len(s) /\ i \in 1 .. Len(s) + 1
  BY TextLength
<1>2. 1 \in S
  OBVIOUS
<1>3. ASSUME NEW n \in Nat, 1 <= n, n \in S  PROVE n + 1 \in S
  <2>. SUFFICES ASSUME n + 1 <= level, Sen(s, i, j, n + 1) = {}  PROVE FALSE
    OBVIOUS
  <2>1. n \in 1 .. 5 /\ n \in 1 .. 6 /\ n \in 1 .. level - 1
    BY <1>3
  <2>2. Joinings(s, i, j, n) # {}
    <3>1. Sen(s, i, j, n) # {}
      BY <1>3
    <3>2. Sen(s, i, j, n) = Sen(s, i, j, n + 1) \cup Joinings(s, i, j, n)
      BY <1>1, <2>1, SenBinary
    <3>. QED  BY <3>1, <3>2
  <2>3. PICK m : m \in Joinings(s, i, j, n)
    BY <2>2
  <2>4. PICK k \in i .. j : s[k] \in Levels[n] /\ Sen(s, i, k - 1, n) # {}
    BY <2>3, InJoinings
  <2>5. Shaped(s, i, k - 1, n)
    BY <1>1, <2>1, <2>4, ShapedAll
  <2>6. Depth(s)[k] = Depth(s)[i]
    <3>1. (k - 1) + 1 = k
      OBVIOUS
    <3>. QED  BY <2>5, <3>1 DEF Shaped
  <2>7. s[k] \in Ops
    BY <2>1, <2>4, Kinds
  <2>. QED  BY <2>1, <2>4, <2>6, <2>7 DEF OuterOp
<1>4. \A n \in Nat : 1 <= n => n \in S
  <2>. HIDE DEF S
  <2>. QED  BY <1>2, <1>3, StepInduction
<1>5. level \in S
  <2>. HIDE DEF S
  <2>. QED  BY <1>4
<1>. QED  BY <1>5

(* What eval does when it succeeds on more than one token, none of which   *)
(* is a prefix: it drops a pair of parentheses, or evaluates both sides of *)
(* an operator.                                                            *)
LEMMA EvSucceeds ==
  ASSUME NEW t, IsTokens(t), NEW p \in 1 .. Len(t), NEW q \in 1 .. Len(t), NEW ok \in BOOLEAN, p < q,
         \A i \in p .. q : t[i].type # "deref",
         Ev(t, p, q, ok).ok,
         NEW op, op = find_dominated_op(t, p, q)
  PROVE  \/ t[p].type = "(" /\ t[q].type = ")" /\ Ev(t, p + 1, q - 1, ok).ok
         \/ /\ op \in p .. q /\ t[op].type \in Ops
            /\ \E b \in BOOLEAN : Ev(t, p, op - 1, b).ok
            /\ \E b \in BOOLEAN : Ev(t, op + 1, q, b).ok
<1>. DEFINE c == check_parentheses(t, p, q)
            b == ok /\ c.ok
            x == Ev(t, p, op - 1, b)
            y == Ev(t, op + 1, q, x.ok)
<1>1. /\ Ev(t, p, q, ok) =
              IF c.yes THEN Ev(t, p + 1, q - 1, ok)
              ELSE IF t[op].type = "deref" THEN Vaddr_read(Ev(t, op + 1, q, b))
              ELSE Apply(t[op].type, x, y)
      /\ c.yes \in BOOLEAN /\ c.ok \in BOOLEAN /\ op \in p .. q
      /\ x \in Results /\ x.ok \in BOOLEAN
  BY EvLong
<1>2. c.yes => t[p].type = "(" /\ t[q].type = ")"
  BY DEF check_parentheses
<1>3. b \in BOOLEAN
  BY <1>1
<1>4. y \in Results
  <2>1. op + 1 \in 1 .. Len(t) + 1 /\ q \in 0 .. Len(t)
    BY <1>1
  <2>. HIDE DEF x
  <2>. QED  BY <1>1, <2>1, EvType
<1>. HIDE DEF b, c, x, y
<1>5. CASE c.yes
  BY <1>1, <1>2, <1>5
<1>6. CASE ~ c.yes
  <2>1. t[op].type # "deref"
    BY <1>1
  <2>2. Ev(t, p, q, ok) = Apply(t[op].type, x, y)
    BY <1>1, <1>6, <2>1
  <2>3. x.ok /\ y.ok /\ t[op].type \in Ops
    <3>1. Apply(t[op].type, x, y).ok
      BY <2>2
    <3>. QED  BY <1>1, <1>4, <3>1, ApplyResult
  <2>. QED  BY <1>1, <1>3, <2>3 DEF x, y
<1>. QED  BY <1>5, <1>6

(* An operand somewhere, one on either side of each operator, and one      *)
(* between any two operators.                                              *)
Alternate(s, p, q) ==
  /\ \E a \in p .. q : s[a] \in Atoms
  /\ \A k \in p .. q : s[k] \in Ops => \E a \in p .. k - 1 : s[a] \in Atoms
  /\ \A k \in p .. q : s[k] \in Ops => \E a \in k + 1 .. q : s[a] \in Atoms
  /\ \A k \in p .. q : \A l \in k + 1 .. q :
       s[k] \in Ops /\ s[l] \in Ops => \E a \in k + 1 .. l - 1 : s[a] \in Atoms

LEMMA AlternateInside ==
  ASSUME NEW s, NEW p \in Nat, NEW q \in Nat, p < q, Alternate(s, p, q),
         s[p] \notin Atoms \cup Ops, s[q] \notin Atoms \cup Ops
  PROVE  Alternate(s, p + 1, q - 1)
<1>1. \A a \in p .. q : s[a] \in Atoms => a \in p + 1 .. q - 1
  OBVIOUS
<1>2. \E a \in p + 1 .. q - 1 : s[a] \in Atoms
  BY <1>1 DEF Alternate
<1>3. ASSUME NEW k \in p + 1 .. q - 1, s[k] \in Ops
      PROVE  /\ \E a \in p + 1 .. k - 1 : s[a] \in Atoms
             /\ \E a \in k + 1 .. q - 1 : s[a] \in Atoms
  <2>1. k \in p .. q
    OBVIOUS
  <2>2. PICK a \in p .. k - 1 : s[a] \in Atoms
    BY <1>3, <2>1 DEF Alternate
  <2>3. PICK b \in k + 1 .. q : s[b] \in Atoms
    BY <1>3, <2>1 DEF Alternate
  <2>4. a \in p + 1 .. k - 1
    BY <2>1, <2>2
  <2>5. b \in k + 1 .. q - 1
    BY <2>1, <2>3
  <2>. QED  BY <2>2, <2>3, <2>4, <2>5
<1>4. \A k \in p + 1 .. q - 1 : \A l \in k + 1 .. q - 1 :
        s[k] \in Ops /\ s[l] \in Ops => \E a \in k + 1 .. l - 1 : s[a] \in Atoms
  <2>1. \A k \in p + 1 .. q - 1 : k \in p .. q /\ \A l \in k + 1 .. q - 1 : l \in k + 1 .. q
    OBVIOUS
  <2>. QED  BY <2>1 DEF Alternate
<1>. QED  BY <1>2, <1>3, <1>4 DEF Alternate

LEMMA AlternateSides ==
  ASSUME NEW s, NEW p \in Nat, NEW q \in Nat, Alternate(s, p, q), NEW k \in p .. q, s[k] \in Ops
  PROVE  Alternate(s, p, k - 1) /\ Alternate(s, k + 1, q)
<1>1. /\ \A x \in p .. k - 1 : x \in p .. q /\ k \in x + 1 .. q
      /\ \A x \in k + 1 .. q : x \in p .. q
      /\ \A x \in p .. k - 1 : \A y \in x + 1 .. k - 1 : y \in x + 1 .. q
  OBVIOUS
<1>2. Alternate(s, p, k - 1)
  <2>1. \E a \in p .. k - 1 : s[a] \in Atoms
    BY DEF Alternate
  <2>2. \A x \in p .. k - 1 : s[x] \in Ops => \E a \in p .. x - 1 : s[a] \in Atoms
    BY <1>1 DEF Alternate
  <2>3. \A x \in p .. k - 1 : s[x] \in Ops => \E a \in x + 1 .. k - 1 : s[a] \in Atoms
    BY <1>1 DEF Alternate
  <2>4. \A x \in p .. k - 1 : \A y \in x + 1 .. k - 1 :
          s[x] \in Ops /\ s[y] \in Ops => \E a \in x + 1 .. y - 1 : s[a] \in Atoms
    BY <1>1 DEF Alternate
  <2>. QED  BY <2>1, <2>2, <2>3, <2>4 DEF Alternate
<1>3. Alternate(s, k + 1, q)
  <2>1. \E a \in k + 1 .. q : s[a] \in Atoms
    BY DEF Alternate
  <2>2. \A x \in k + 1 .. q : s[x] \in Ops => \E a \in k + 1 .. x - 1 : s[a] \in Atoms
    BY <1>1 DEF Alternate
  <2>3. \A x \in k + 1 .. q : s[x] \in Ops => \E a \in x + 1 .. q : s[a] \in Atoms
    BY <1>1 DEF Alternate
  <2>4. \A x \in k + 1 .. q : \A y \in x + 1 .. q :
          s[x] \in Ops /\ s[y] \in Ops => \E a \in x + 1 .. y - 1 : s[a] \in Atoms
    BY <1>1 DEF Alternate
  <2>. QED  BY <2>1, <2>2, <2>3, <2>4 DEF Alternate
<1>. QED  BY <1>2, <1>3

(* Phrases on either side of the operator that eval splits at make one.    *)
LEMMA SidesJoin ==
  ASSUME NEW s, IsText(s), \A i \in 1 .. Len(s) : ~ PrefixAt(s, i), NEW t, AreTokens(t, s),
         NEW p \in 1 .. Len(s), NEW q \in 1 .. Len(s), p < q,
         NEW op, op = find_dominated_op(t, p, q), op \in p + 1 .. q - 1, s[op] \in Ops,
         Sen(s, p, op - 1, 1) # {}, Sen(s, op + 1, q, 1) # {}
  PROVE  Sen(s, p, q, 1) # {}
<1>1. /\ Len(s) \in Nat /\ op \in 1 .. Len(s) /\ op \in p .. q /\ p \in Nat /\ q \in Nat /\ p <= q
      /\ op - 1 \in 1 .. Len(s) /\ op + 1 \in 1 .. Len(s) /\ p <= op - 1 /\ op + 1 <= q
      /\ p \in 1 .. Len(s) + 1 /\ op - 1 \in 0 .. Len(s) /\ (op - 1) + 1 = op /\ 1 \in 1 .. 6
  <2>1. Len(s) \in Nat
    BY TextLength, Zenon
  <2>2. op \in 1 .. Len(s) /\ p < op /\ op < q
    BY <2>1
  <2>. QED  BY <2>1, <2>2, Between
<1>2. /\ op \in Outer(t, p, q)
      /\ \A j \in Outer(t, p, q) :
           /\ Priority(t[op].type) <= Priority(t[j].type)
           /\ j > op => Priority(t[op].type) < Priority(t[j].type)
  <2>1. op # p
    BY <1>1
  <2>. QED  BY <1>1, <2>1, DominatedOp
<1>3. ASSUME NEW k \in p .. q, OuterOp(s, p, k), NEW l \in 1 .. 5, s[k] \in Levels[l]
      PROVE  k \in Outer(t, p, q) /\ Priority(t[k].type) = l - 1
  <2>1. k \in 1 .. Len(s) /\ s[k] \in Ops
    BY <1>1, <1>3, SMTT(30) DEF OuterOp
  <2>2. t[k].type = s[k]
    BY <2>1, TokenTypes
  <2>. QED  BY <1>3, <2>2, OuterIs, PriorityOfLevel
<1>4. OuterOp(s, p, op) /\ Depth(s)[op + 1] = Depth(s)[p] /\ Depth(s)[op] = Depth(s)[p]
  <2>1. Shaped(s, p, op - 1, 1)
    BY <1>1, ShapedAll
  <2>2. Depth(s)[op] = Depth(s)[p]
    BY <1>1, <2>1 DEF Shaped
  <2>3. Depth(s)[op + 1] = Depth(s)[op]
    BY <1>1, Kinds, DepthSteps
  <2>. QED  BY <2>2, <2>3 DEF OuterOp
<1>5. PICK l \in 1 .. 5 : s[op] \in Levels[l]
  BY DEF Ops
<1>6. Priority(t[op].type) = l - 1
  BY <1>1, <1>3, <1>4, <1>5
<1>7. Sen(s, p, op - 1, l) # {}
  <2>1. ASSUME NEW k \in p .. op - 1, OuterOp(s, p, k), NEW x \in 1 .. l - 1, s[k] \in Levels[x]  PROVE FALSE
    <3>1. k \in p .. q /\ x \in 1 .. 5 /\ x < l
      BY <1>1
    <3>2. Priority(t[k].type) = x - 1 /\ k \in Outer(t, p, q)
      BY <1>3, <2>1, <3>1
    <3>. QED  BY <1>2, <1>6, <3>1, <3>2
  <2>2. l \in 1 .. 6
    OBVIOUS
  <2>. QED  BY <1>1, <2>1, <2>2, Stronger
<1>8. Sen(s, op + 1, q, l + 1) # {}
  <2>1. ASSUME NEW k \in op + 1 .. q, OuterOp(s, op + 1, k), NEW x \in 1 .. (l + 1) - 1, s[k] \in Levels[x]
        PROVE  FALSE
    <3>1. k \in p .. q /\ x \in 1 .. 5 /\ x <= l /\ k > op
      BY <1>1, SMTT(30)
    <3>2. OuterOp(s, p, k)
      BY <1>4, <2>1 DEF OuterOp
    <3>3. Priority(t[k].type) = x - 1 /\ k \in Outer(t, p, q)
      BY <1>3, <2>1, <3>1, <3>2
    <3>. QED  BY <1>2, <1>6, <3>1, <3>3
  <2>2. l + 1 \in 1 .. 6
    OBVIOUS
  <2>. QED  BY <1>1, <2>1, <2>2, Stronger
<1>9. Joinings(s, p, q, l) # {}
  <2>1. PICK a \in Sen(s, p, op - 1, l) : TRUE
    BY <1>7
  <2>2. PICK b \in Sen(s, op + 1, q, l + 1) : TRUE
    BY <1>8
  <2>3. Joined(s[op], a, b) \in Joinings(s, p, q, l)
    BY <1>1, <1>5, InJoinings
  <2>. QED  BY <2>3
<1>10. Sen(s, p, q, l) # {}
  <2>1. Len(s) \in Nat /\ p <= q
    BY <1>1
  <2>2. Sen(s, p, q, l) = Sen(s, p, q, l + 1) \cup Joinings(s, p, q, l)
    BY <2>1, SenBinary
  <2>. QED  BY <1>9, <2>2
<1>11. l \in 1 .. 6
  OBVIOUS
<1>. QED  BY <1>1, <1>10, <1>11, Weaker

(* A phrase in parentheses is one, and so is an operand.                   *)
LEMMA Enclosed ==
  ASSUME NEW s, IsText(s), NEW p \in 1 .. Len(s), NEW q \in 1 .. Len(s), p < q,
         s[p] = "(", s[q] = ")", Sen(s, p + 1, q - 1, 1) # {}
  PROVE  Sen(s, p, q, 1) # {}
<1>1. Len(s) \in Nat /\ p <= q /\ 6 \in 1 .. 6
  BY TextLength
<1>2. Sen(s, p, q, 6) = Unary(s, Sentence(s), p, q)
  BY <1>1, SenUnary
<1>3. Unary(s, Sentence(s), p, q) = Sen(s, p + 1, q - 1, 1)
  BY DEF Unary, Sen
<1>. QED  BY <1>1, <1>2, <1>3, Weaker

LEMMA Stand ==
  ASSUME NEW s, IsText(s), NEW p \in 1 .. Len(s), s[p] \in Atoms
  PROVE  Sen(s, p, p, 1) # {}
<1>1. Len(s) \in Nat /\ p <= p /\ 6 \in 1 .. 6
  BY TextLength
<1>2. Sen(s, p, p, 6) = Unary(s, Sentence(s), p, p)
  BY <1>1, SenUnary
<1>3. s[p] # "*" /\ s[p] # "("
  BY Kinds
<1>4. Unary(s, Sentence(s), p, p) # {}
  <2>1. ~ (p < p)
    OBVIOUS
  <2>2. Unary(s, Sentence(s), p, p) =
          IF s[p] \in DOMAIN Decimal
          THEN {Leaf(Res(Wrap(Decimal[s[p]]), TRUE, FALSE), Decimal[s[p]])}
          ELSE IF s[p] \in DOMAIN Hex THEN {Leaf(Res(Wrap(Hex[s[p]]), TRUE, FALSE), Hex[s[p]])}
          ELSE IF s[p] \in Gprs THEN {Leaf(Named(s[p]), 0)}
          ELSE {}
    BY <1>3, <2>1, Zenon DEF Unary
  <2>3. s[p] \in DOMAIN Decimal \/ s[p] \in DOMAIN Hex \/ s[p] \in Gprs
    BY DEF Atoms
  <2>. QED  BY <2>2, <2>3, Zenon
<1>. QED  BY <1>1, <1>2, <1>4, Weaker

LEMMA Accepted ==
  ASSUME NEW s, IsText(s), \A i \in 1 .. Len(s) : ~ PrefixAt(s, i), NEW t, AreTokens(t, s)
  PROVE  \A p \in 1 .. Len(s) + 1, q \in 0 .. Len(s), ok \in BOOLEAN :
           Ev(t, p, q, ok).ok /\ Alternate(s, p, q) => Sen(s, p, q, 1) # {}
<1>. DEFINE Reach(n) ==
              \A p \in 1 .. Len(s) + 1, q \in 0 .. Len(s), ok \in BOOLEAN :
                q - p < n /\ Ev(t, p, q, ok).ok /\ Alternate(s, p, q) => Sen(s, p, q, 1) # {}
            S == {n \in Nat : Reach(n)}
<1>1. Len(s) \in Nat /\ IsTokens(t) /\ Len(t) = Len(s)
  BY TextLength, TokensAre
<1>2. \A p \in 1 .. Len(s) + 1, q \in 0 .. Len(s) : Alternate(s, p, q) => p <= q /\ p \in 1 .. Len(s) /\ q \in 1 .. Len(s)
  BY <1>1 DEF Alternate
<1>3. 0 \in S
  BY <1>1, <1>2
<1>4. ASSUME NEW n \in Nat, 0 <= n, n \in S  PROVE n + 1 \in S
  <2>. SUFFICES ASSUME NEW p \in 1 .. Len(s) + 1, NEW q \in 0 .. Len(s), NEW ok \in BOOLEAN,
                       q - p < n + 1, Ev(t, p, q, ok).ok, Alternate(s, p, q)
                PROVE  Sen(s, p, q, 1) # {}
    <3>1. n + 1 \in Nat
      OBVIOUS
    <3>. HIDE DEF Reach
    <3>2. Reach(n + 1) => n + 1 \in S
      BY <3>1
    <3>. USE DEF Reach
    <3>. HIDE DEF S
    <3>. QED  BY <3>2
  <2>1. p <= q /\ p \in 1 .. Len(s) /\ q \in 1 .. Len(s) /\ p \in Nat /\ q \in Nat
    BY <1>1, <1>2
  <2>2. ASSUME NEW x \in 1 .. Len(s) + 1, NEW y \in 0 .. Len(s), NEW b \in BOOLEAN,
               y - x < q - p, Ev(t, x, y, b).ok, Alternate(s, x, y)
        PROVE  Sen(s, x, y, 1) # {}
    <3>1. Reach(n)
      BY <1>4
    <3>2. y - x < n
      BY <2>1, <2>2, <1>1
    <3>. HIDE DEF S
    <3>. QED  BY <2>2, <3>1, <3>2
  <2>. HIDE DEF S, Reach
  <2>3. CASE p = q
    <3>1. s[p] \in Atoms
      BY <2>3 DEF Alternate
    <3>. QED  BY <2>1, <2>3, <3>1, Stand
  <2>4. CASE p < q
    <3>. DEFINE op == find_dominated_op(t, p, q)
    <3>1. \A i \in p .. q : t[i].type # "deref" /\ i \in 1 .. Len(s)
      <4>1. \A i \in p .. q : i \in 1 .. Len(s)
        BY <2>1
      <4>. QED  BY <4>1, TokenFacts
    <3>2. \/ t[p].type = "(" /\ t[q].type = ")" /\ Ev(t, p + 1, q - 1, ok).ok
          \/ /\ op \in p .. q /\ t[op].type \in Ops
             /\ \E b \in BOOLEAN : Ev(t, p, op - 1, b).ok
             /\ \E b \in BOOLEAN : Ev(t, op + 1, q, b).ok
      BY <1>1, <2>1, <2>4, <3>1, EvSucceeds
    <3>. HIDE DEF op
    <3>3. CASE t[p].type = "(" /\ t[q].type = ")" /\ Ev(t, p + 1, q - 1, ok).ok
      <4>1. s[p] = "(" /\ s[q] = ")"
        BY <2>1, <3>3, TokenFacts, ParenthesesAre
      <4>2. Alternate(s, p + 1, q - 1)
        BY <2>1, <2>4, <4>1, Kinds, AlternateInside
      <4>3. p + 1 \in 1 .. Len(s) + 1 /\ q - 1 \in 0 .. Len(s) /\ (q - 1) - (p + 1) < q - p
        BY <2>1, <2>4
      <4>4. Sen(s, p + 1, q - 1, 1) # {}
        BY <2>2, <3>3, <4>2, <4>3
      <4>. QED  BY <2>1, <2>4, <4>1, <4>4, Enclosed
    <3>4. CASE /\ op \in p .. q /\ t[op].type \in Ops
               /\ \E b \in BOOLEAN : Ev(t, p, op - 1, b).ok
               /\ \E b \in BOOLEAN : Ev(t, op + 1, q, b).ok
      <4>1. op \in 1 .. Len(s) /\ op \in p .. q
        BY <3>1, <3>4
      <4>2. s[op] \in Ops
        <5>1. t[op].type \in Operators
          BY <3>4 DEF Operators
        <5>. QED  BY <4>1, <5>1, TokenFacts
      <4>3. Alternate(s, p, op - 1) /\ Alternate(s, op + 1, q)
        BY <2>1, <4>1, <4>2, AlternateSides
      <4>4. op - 1 \in 0 .. Len(s) /\ op + 1 \in 1 .. Len(s) + 1
        BY <4>1
      <4>5. p <= op - 1 /\ op + 1 <= q /\ op \in p + 1 .. q - 1
        BY <1>2, <2>1, <4>1, <4>3, <4>4
      <4>6. (op - 1) - p < q - p /\ q - (op + 1) < q - p
        BY <2>1, <4>1
      <4>7. Sen(s, p, op - 1, 1) # {}
        BY <2>2, <3>4, <4>3, <4>4, <4>6
      <4>8. Sen(s, op + 1, q, 1) # {}
        BY <2>2, <3>4, <4>3, <4>4, <4>6
      <4>. QED  BY <2>1, <2>4, <4>2, <4>5, <4>7, <4>8, SidesJoin DEF op
    <3>. QED  BY <3>2, <3>3, <3>4
  <2>. QED  BY <2>1, <2>3, <2>4
<1>5. \A n \in Nat : 0 <= n => n \in S
  <2>. HIDE DEF S
  <2>. QED  BY <1>3, <1>4, StepInduction
<1>6. ASSUME NEW p \in 1 .. Len(s) + 1, NEW q \in 0 .. Len(s), NEW ok \in BOOLEAN,
             Ev(t, p, q, ok).ok, Alternate(s, p, q)
      PROVE  Sen(s, p, q, 1) # {}
  <2>1. Len(s) + 1 \in Nat /\ 0 <= Len(s) + 1 /\ q - p < Len(s) + 1
    BY <1>1
  <2>2. Reach(Len(s) + 1)
    <3>1. Len(s) + 1 \in S
      <4>. HIDE DEF S
      <4>. QED  BY <1>5, <2>1
    <3>. QED  BY <3>1
  <2>. HIDE DEF S
  <2>. QED  BY <1>6, <2>1, <2>2
<1>. QED  BY <1>6

(* Without a prefix, eval comes to every register it is given, and         *)
(* succeeds only if it knows them all.                                     *)
LEMMA EvKnown ==
  ASSUME NEW t, IsTokens(t), \A i \in 1 .. Len(t) : t[i].type # "deref"
  PROVE  \A p \in 1 .. Len(t) + 1, q \in 0 .. Len(t), ok \in BOOLEAN :
           Ev(t, p, q, ok).ok => \A i \in p .. q : t[i].type = "gpr" => t[i].val \in Registers
<1>. DEFINE Known(p, q) == \A i \in p .. q : t[i].type = "gpr" => t[i].val \in Registers
            Reach(n) ==
              \A p \in 1 .. Len(t) + 1, q \in 0 .. Len(t), ok \in BOOLEAN :
                q - p < n /\ Ev(t, p, q, ok).ok => Known(p, q)
            S == {n \in Nat : Reach(n)}
<1>1. Len(t) \in Nat
  BY DEF IsTokens
<1>3. 0 \in S
  BY <1>1
<1>4. ASSUME NEW n \in Nat, 0 <= n, n \in S  PROVE n + 1 \in S
  <2>. SUFFICES ASSUME NEW p \in 1 .. Len(t) + 1, NEW q \in 0 .. Len(t), NEW ok \in BOOLEAN,
                       q - p < n + 1, Ev(t, p, q, ok).ok
                PROVE  Known(p, q)
    <3>1. n + 1 \in Nat
      OBVIOUS
    <3>. HIDE DEF Reach
    <3>2. Reach(n + 1) => n + 1 \in S
      BY <3>1
    <3>. USE DEF Reach
    <3>. HIDE DEF S, Known
    <3>. QED  BY <3>2
  <2>2. ASSUME NEW x \in 1 .. Len(t) + 1, NEW y \in 0 .. Len(t), NEW b \in BOOLEAN,
               y - x < q - p, Ev(t, x, y, b).ok
        PROVE  Known(x, y)
    <3>1. Reach(n)
      BY <1>4
    <3>2. y - x < n
      BY <2>2, <1>1
    <3>. HIDE DEF S, Known
    <3>. QED  BY <2>2, <3>1, <3>2
  <2>. HIDE DEF S, Reach
  <2>3. CASE p > q
    BY <1>1, <2>3
  <2>4. CASE p = q
    <3>1. p \in 1 .. Len(t)
      BY <1>1, <2>4
    <3>2. Ev(t, p, p, ok) = IF t[p].type = "num" THEN Res(t[p].val, ok, FALSE)
                            ELSE IF t[p].type = "gpr" THEN get_gpr(t[p].val, ok)
                            ELSE Res(0, ok, FALSE)
      BY <3>1, EvOne
    <3>3. t[p].type = "gpr" => t[p].val \in Registers
      BY <2>4, <3>2, GprResult
    <3>. QED  BY <2>4, <3>3
  <2>5. CASE p < q
    <3>. DEFINE op == find_dominated_op(t, p, q)
    <3>1. p \in 1 .. Len(t) /\ q \in 1 .. Len(t) /\ \A i \in p .. q : t[i].type # "deref"
      <4>1. p \in 1 .. Len(t) /\ q \in 1 .. Len(t) /\ \A i \in p .. q : i \in 1 .. Len(t)
        BY <1>1, <2>5
      <4>. QED  BY <4>1
    <3>2. \/ t[p].type = "(" /\ t[q].type = ")" /\ Ev(t, p + 1, q - 1, ok).ok
          \/ /\ op \in p .. q /\ t[op].type \in Ops
             /\ \E b \in BOOLEAN : Ev(t, p, op - 1, b).ok
             /\ \E b \in BOOLEAN : Ev(t, op + 1, q, b).ok
      BY <1>1, <2>5, <3>1, EvSucceeds
    <3>. HIDE DEF op
    <3>3. CASE t[p].type = "(" /\ t[q].type = ")" /\ Ev(t, p + 1, q - 1, ok).ok
      <4>1. p + 1 \in 1 .. Len(t) + 1 /\ q - 1 \in 0 .. Len(t) /\ (q - 1) - (p + 1) < q - p
        BY <1>1, <3>1, <2>5
      <4>2. Known(p + 1, q - 1)
        BY <2>2, <3>3, <4>1
      <4>3. \A i \in p .. q : i = p \/ i = q \/ i \in p + 1 .. q - 1
        BY <1>1
      <4>. QED  BY <3>3, <4>2, <4>3
    <3>4. CASE /\ op \in p .. q /\ t[op].type \in Ops
               /\ \E b \in BOOLEAN : Ev(t, p, op - 1, b).ok
               /\ \E b \in BOOLEAN : Ev(t, op + 1, q, b).ok
      <4>1. /\ op - 1 \in 0 .. Len(t) /\ op + 1 \in 1 .. Len(t) + 1
            /\ (op - 1) - p < q - p /\ q - (op + 1) < q - p
        BY <1>1, <3>1, <3>4
      <4>2. Known(p, op - 1) /\ Known(op + 1, q)
        BY <2>2, <3>4, <4>1
      <4>3. \A i \in p .. q : i = op \/ i \in p .. op - 1 \/ i \in op + 1 .. q
        BY <1>1, <3>4
      <4>4. t[op].type # "gpr"
        BY <3>4, OpsAre
      <4>. QED  BY <4>2, <4>3, <4>4
    <3>. QED  BY <3>2, <3>3, <3>4
  <2>. QED  BY <1>1, <2>3, <2>4, <2>5
<1>5. \A n \in Nat : 0 <= n => n \in S
  <2>. HIDE DEF S
  <2>. QED  BY <1>3, <1>4, StepInduction
<1>6. ASSUME NEW p \in 1 .. Len(t) + 1, NEW q \in 0 .. Len(t), NEW ok \in BOOLEAN, Ev(t, p, q, ok).ok
      PROVE  Known(p, q)
  <2>1. Len(t) + 1 \in Nat /\ 0 <= Len(t) + 1 /\ q - p < Len(t) + 1
    BY <1>1
  <2>2. Reach(Len(t) + 1)
    <3>1. Len(t) + 1 \in S
      <4>. HIDE DEF S
      <4>. QED  BY <1>5, <2>1
    <3>. QED  BY <3>1
  <2>. HIDE DEF S, Known
  <2>. QED  BY <1>6, <2>1, <2>2
<1>. QED  BY <1>6

(* What the greedy rule for registers makes of a text: the text before the *)
(* register, what stands for it, no more than one token, which is no       *)
(* operator and no parenthesis, and a tail of the text.                    *)
Cut(w, u, f, d, r) ==
  /\ f <= Len(w)
  /\ \A i \in 1 .. Len(w) :
       /\ i < f => w[i] = u[i]
       /\ i = f => w[i] = Swallowed
       /\ f < i /\ i <= f + r => w[i] \notin Ops \cup Parentheses
       /\ i > f + r => i + d <= Len(u) /\ w[i] = u[i + d]

LEMMA MatchedCut ==
  ASSUME NEW u, IsText(u), Overrun(u)
  PROVE  /\ Len(Matched(u)) \in Nat /\ DOMAIN Matched(u) = 1 .. Len(Matched(u))
         /\ \E f \in 1 .. Len(u), d \in Nat, r \in 0 .. 1 : Cut(Matched(u), u, f, d, r)
<1>. DEFINE gprs == {i \in DOMAIN u : u[i] \in Gprs}
            first == Min(gprs)
            last == GprEnd(u, first)
            rest == IF u[last] \in DOMAIN Hex THEN <<AfterX[u[last]]>> ELSE <<>>
            T == Atoms \cup Ops \cup Parentheses \cup {Swallowed} \cup {AfterX[h] : h \in DOMAIN Hex}
            A == SubSeq(u, 1, first - 1)
            B == A \o <<Swallowed>>
            C == SubSeq(u, last + 1, Len(u))
            D == B \o rest
            w == D \o C
<1>1. Len(u) \in Nat /\ DOMAIN u = 1 .. Len(u) /\ \A i \in 1 .. Len(u) : u[i] \in T
  BY TextLength DEF IsText
<1>2. Matched(u) = IF gprs = {} \/ last = first THEN u ELSE w
  BY Zenon DEF Matched
<1>3. PICK g \in 1 .. Len(u) : u[g] \in Gprs /\ GprEnd(u, g) # g
  BY <1>1 DEF Overrun
<1>4. first \in 1 .. Len(u) /\ u[first] \in Gprs /\ first <= g
  <2>1. gprs \in SUBSET Nat /\ g \in gprs
    BY <1>1, <1>3
  <2>2. first \in gprs /\ first <= g
    <3>. HIDE DEF gprs
    <3>1. \E x \in gprs : \A y \in gprs : x <= y
      BY <2>1, LeastOf
    <3>. QED  BY <2>1, <3>1 DEF Min
  <2>. HIDE DEF first
  <2>. QED  BY <1>1, <2>2
<1>19. ASSUME NEW i \in 1 .. Len(u), u[i] \in Gprs
       PROVE  /\ GprEnd(u, i) \in i .. Len(u) /\ u[GprEnd(u, i)] \in Gprs \cup DOMAIN Hex
              /\ \A j \in i .. Len(u) : u[j] \in Gprs \cup DOMAIN Hex => j <= GprEnd(u, i)
  <2>. DEFINE E == {j \in i .. Len(u) : u[j] \in Gprs \cup DOMAIN Hex}
              end == GprEnd(u, i)
  <2>1. E \in SUBSET (0 .. Len(u)) /\ E # {}
    BY <1>1, <1>19
  <2>2. end = Max(E)
    BY DEF GprEnd
  <2>3. Max(E) \in E /\ \A y \in E : y <= Max(E)
    <3>. HIDE DEF E
    <3>. QED  BY <1>1, <2>1, GreatestOf
  <2>. SUFFICES /\ end \in i .. Len(u) /\ u[end] \in Gprs \cup DOMAIN Hex
                /\ \A j \in i .. Len(u) : u[j] \in Gprs \cup DOMAIN Hex => j <= end
    OBVIOUS
  <2>. HIDE DEF end
  <2>. QED  BY <2>2, <2>3
<1>5. last \in first + 1 .. Len(u)
  <2>. DEFINE end == GprEnd(u, g)
  <2>1. end \in g .. Len(u) /\ u[end] \in Gprs \cup DOMAIN Hex /\ end # g
    BY <1>3, <1>19
  <2>2. /\ last \in first .. Len(u)
        /\ \A j \in first .. Len(u) : u[j] \in Gprs \cup DOMAIN Hex => j <= last
    <3>. HIDE DEF first
    <3>. QED  BY <1>4, <1>19
  <2>. HIDE DEF first, last, end
  <2>3. end \in first .. Len(u)
    BY <1>1, <1>4, <2>1
  <2>4. end <= last
    BY <2>1, <2>2, <2>3
  <2>. QED  BY <1>1, <1>4, <2>1, <2>2, <2>4
<1>20. gprs # {} /\ last # first /\ Matched(u) = w
  <2>1. g \in gprs
    BY <1>1, <1>3
  <2>2. last # first
    <3>. HIDE DEF first, last
    <3>. QED  BY <1>4, <1>5
  <2>. HIDE DEF gprs, first, last, w
  <2>. QED  BY <1>2, <2>1, <2>2
<1>. HIDE DEF first, last, gprs
<1>. DEFINE r == Len(rest)
            n == Len(u)
<1>6. rest \in Seq(T) /\ r \in 0 .. 1 /\ (r = 1 => rest[1] \notin Ops \cup Parentheses)
  <2>1. CASE u[last] \in DOMAIN Hex
    <3>1. rest = <<AfterX[u[last]]>> /\ AfterX[u[last]] \in T
      BY <2>1
    <3>2. AfterX[u[last]] \notin Ops \cup Parentheses
      BY <2>1, ExprAssumption DEF ExprAssumption
    <3>. HIDE DEF T, rest
    <3>. QED  BY <3>1, <3>2
  <2>2. CASE u[last] \notin DOMAIN Hex
    <3>1. rest = <<>>
      BY <2>2
    <3>. HIDE DEF T, rest
    <3>2. rest \in Seq(T) /\ r = 0
      BY <3>1, EmptySeq
    <3>. QED  BY <3>2
  <2>. QED  BY <2>1, <2>2
<1>0. /\ n \in Nat /\ DOMAIN u = 1 .. n /\ \A i \in 1 .. n : u[i] \in T
      /\ first \in 1 .. n /\ last \in first + 1 .. n
  BY <1>1, <1>4, <1>5
<1>. HIDE DEF r, n, rest
<1>7. A \in Seq(T) /\ Len(A) = first - 1 /\ \A i \in 1 .. first - 1 : A[i] = u[i]
  <2>1. 1 \in Int /\ first - 1 \in Int /\ \A i \in 1 .. first - 1 : u[i] \in T
    BY <1>0
  <2>. HIDE DEF T
  <2>2. /\ A \in Seq(T)
        /\ Len(A) = IF 1 <= first - 1 THEN (first - 1) - 1 + 1 ELSE 0
        /\ \A i \in 1 .. (first - 1) - 1 + 1 : A[i] = u[1 + i - 1]
    BY <2>1, SubSeqProperties
  <2>. HIDE DEF A
  <2>. QED  BY <1>0, <2>2
<1>8. C \in Seq(T) /\ Len(C) = n - last /\ \A i \in 1 .. n - last : C[i] = u[last + i]
  <2>1. last + 1 \in Int /\ n \in Int /\ \A i \in last + 1 .. n : u[i] \in T
    BY <1>0
  <2>. HIDE DEF T
  <2>2. /\ C \in Seq(T)
        /\ Len(C) = IF last + 1 <= n THEN n - (last + 1) + 1 ELSE 0
        /\ \A i \in 1 .. n - (last + 1) + 1 : C[i] = u[(last + 1) + i - 1]
    BY <2>1, SubSeqProperties DEF n
  <2>. HIDE DEF C
  <2>3. \A i \in 1 .. n - last : i \in 1 .. n - (last + 1) + 1 /\ (last + 1) + i - 1 = last + i
    BY <1>0
  <2>. QED  BY <1>0, <2>2, <2>3
<1>9. <<Swallowed>> \in Seq(T) /\ Len(<<Swallowed>>) = 1 /\ <<Swallowed>>[1] = Swallowed
  OBVIOUS
<1>. HIDE DEF T, A, C
<1>10. /\ B \in Seq(T) /\ Len(B) = first
       /\ \A i \in 1 .. first : B[i] = IF i < first THEN u[i] ELSE Swallowed
  <2>1. /\ B \in Seq(T) /\ Len(B) = Len(A) + Len(<<Swallowed>>)
        /\ \A i \in 1 .. Len(A) + Len(<<Swallowed>>) :
             B[i] = IF i <= Len(A) THEN A[i] ELSE <<Swallowed>>[i - Len(A)]
    BY <1>7, <1>9, ConcatProperties
  <2>. HIDE DEF B
  <2>. QED  BY <1>0, <1>7, <1>9, <2>1
<1>. HIDE DEF B
<1>11. /\ D \in Seq(T) /\ Len(D) = first + r
       /\ \A i \in 1 .. first + r : D[i] = IF i <= first THEN B[i] ELSE rest[i - first]
  BY <1>6, <1>10, ConcatProperties DEF r
<1>. HIDE DEF D
<1>12. /\ w \in Seq(T) /\ Len(w) = first + r + (n - last)
       /\ \A i \in 1 .. first + r + (n - last) :
            w[i] = IF i <= first + r THEN D[i] ELSE C[i - (first + r)]
  <2>1. /\ w \in Seq(T) /\ Len(w) = Len(D) + Len(C)
        /\ \A i \in 1 .. Len(D) + Len(C) :
             w[i] = IF i <= Len(D) THEN D[i] ELSE C[i - Len(D)]
    BY <1>8, <1>11, ConcatProperties
  <2>. HIDE DEF w
  <2>. QED  BY <1>8, <1>11, <2>1
<1>. HIDE DEF w
<1>13. Len(w) \in Nat /\ DOMAIN w = 1 .. Len(w) /\ first <= Len(w)
  BY <1>0, <1>6, <1>12
<1>14. last - first - r \in Nat
  BY <1>0, <1>6
<1>15. ASSUME NEW i \in 1 .. Len(w)
       PROVE  /\ i < first => w[i] = u[i]
              /\ i = first => w[i] = Swallowed
              /\ first < i /\ i <= first + r => w[i] \notin Ops \cup Parentheses
              /\ i > first + r =>
                   /\ i + (last - first - r) <= n
                   /\ w[i] = u[i + (last - first - r)]
  <2>1. w[i] = IF i <= first + r THEN D[i] ELSE C[i - (first + r)]
    BY <1>12
  <2>2. i <= first => w[i] = B[i]
    BY <1>0, <1>6, <1>11, <2>1
  <2>3. i < first => w[i] = u[i]
    BY <1>0, <1>10, <2>2
  <2>4. i = first => w[i] = Swallowed
    BY <1>0, <1>10, <2>2
  <2>5. ASSUME first < i, i <= first + r  PROVE w[i] \notin Ops \cup Parentheses
    <3>1. r = 1 /\ i - first = 1
      BY <1>0, <1>6, <2>5
    <3>2. w[i] = rest[1]
      BY <1>0, <1>6, <1>11, <2>1, <2>5, <3>1
    <3>. QED  BY <1>6, <3>1, <3>2
  <2>6. ASSUME i > first + r
        PROVE  /\ i + (last - first - r) <= n
               /\ w[i] = u[i + (last - first - r)]
    <3>. DEFINE k == i - (first + r)
    <3>1. k \in 1 .. n - last /\ last + k = i + (last - first - r) /\ last + k <= n
      BY <1>0, <1>6, <1>12, <2>6
    <3>2. w[i] = C[k]
      BY <1>0, <1>6, <2>1, <2>6
    <3>. HIDE DEF k
    <3>. QED  BY <1>8, <3>1, <3>2
  <2>. QED  BY <2>3, <2>4, <2>5, <2>6
<1>16. Cut(w, u, first, last - first - r, r)
  BY <1>13, <1>15 DEF Cut, n
<1>17. first \in 1 .. Len(u)
  BY <1>0 DEF n
<1>. QED  BY <1>20, <1>6, <1>13, <1>14, <1>16, <1>17

LEMMA TokenOfType ==
  ASSUME NEW u \in Atoms \cup Ops \cup Parentheses \cup {Swallowed}, NEW star \in BOOLEAN, ~ star
  PROVE  /\ TokenOf(u, star).type = "num" => TokenOf(u, star).val \in Word
         /\ TokenOf(u, star).type # "deref"
         /\ u = Swallowed => TokenOf(u, star) = Token("gpr", Swallowed)
<1>1. Swallowed \notin Atoms
  BY ExprAssumption DEF ExprAssumption
<1>6. /\ DOMAIN Decimal \cap (DOMAIN Hex \cup Gprs) = {} /\ DOMAIN Hex \cap Gprs = {}
  BY ExprAssumption DEF ExprAssumption
<1>7. TokenOf(u, star) =
        IF u \in DOMAIN Decimal THEN Number(Decimal[u])
        ELSE IF u \in DOMAIN Hex THEN Number(Hex[u])
        ELSE IF u \in Gprs \cup {Swallowed} THEN Token("gpr", u)
        ELSE Token(u, 0)
  BY <1>1, <1>6 DEF TokenOf, Atoms
<1>2. CASE u \in DOMAIN Decimal
  <2>1. TokenOf(u, star) = Number(Decimal[u]) /\ u \in Atoms
    BY <1>2, <1>7 DEF Atoms
  <2>2. Wrap(Decimal[u]) \in Word
    BY <1>2, ExprAssumption, WrapType DEF ExprAssumption
  <2>. QED  BY <1>1, <2>1, <2>2 DEF Number, Token
<1>3. CASE u \notin DOMAIN Decimal /\ u \in DOMAIN Hex
  <2>1. TokenOf(u, star) = Number(Hex[u]) /\ u \in Atoms
    BY <1>3, <1>7 DEF Atoms
  <2>2. Wrap(Hex[u]) \in Word
    BY <1>3, ExprAssumption, WrapType DEF ExprAssumption
  <2>. QED  BY <1>1, <2>1, <2>2 DEF Number, Token
<1>4. CASE u \notin DOMAIN Decimal /\ u \notin DOMAIN Hex /\ u \in Gprs \cup {Swallowed}
  <2>1. TokenOf(u, star) = Token("gpr", u)
    BY <1>4, <1>7
  <2>. QED  BY <2>1 DEF Token
<1>5. CASE u \notin DOMAIN Decimal /\ u \notin DOMAIN Hex /\ u \notin Gprs \cup {Swallowed}
  <2>1. u \in Ops \cup Parentheses
    BY <1>5 DEF Atoms
  <2>2. u # "num" /\ u # "deref"
    BY <2>1, OpsAre, ParenthesesAre
  <2>3. TokenOf(u, star) = Token(u, 0)
    BY <1>5, <1>7
  <2>. QED  BY <1>5, <2>2, <2>3 DEF Token
<1>. QED  BY <1>2, <1>3, <1>4, <1>5

(* The rule does not make a prefix of a `*' that was none.                 *)
LEMMA CutPrefix ==
  ASSUME NEW u, IsText(u), \A i \in 1 .. Len(u) : ~ PrefixAt(u, i),
         NEW w, Len(w) \in Nat, NEW f \in 1 .. Len(u), NEW d \in Nat, NEW r \in 0 .. 1, Cut(w, u, f, d, r),
         NEW i \in 1 .. Len(w)
  PROVE  ~ PrefixAt(w, i)
<1>. SUFFICES ASSUME w[i] = "*", i = 1 \/ w[i - 1] \in Ops \cup {"("}  PROVE FALSE
  BY DEF PrefixAt
<1>1. /\ Len(u) \in Nat /\ "*" \in Ops /\ Swallowed \notin Ops \cup Parentheses /\ "(" \in Parentheses
  BY TextLength, Kinds, OpsAre, ParenthesesAre DEF Swallowed
<1>2. CASE i < f
  <2>1. i \in 1 .. Len(u) /\ (i # 1 => i - 1 \in 1 .. Len(w) /\ i - 1 < f)
    BY <1>1, <1>2
  <2>2. u[i] = "*" /\ (i # 1 => w[i - 1] = u[i - 1])
    BY <1>2, <2>1 DEF Cut
  <2>. QED  BY <2>1, <2>2 DEF PrefixAt
<1>3. CASE f <= i /\ i <= f + r
  BY <1>1, <1>3 DEF Cut
<1>4. CASE i > f + r
  <2>1. i - 1 \in 1 .. Len(w) /\ i # 1 /\ i + d \in 1 .. Len(u) /\ u[i + d] = "*"
    BY <1>1, <1>4 DEF Cut
  <2>2. w[i - 1] \in Ops \cup {"("}
    BY <2>1
  <2>3. CASE i - 1 > f + r
    <3>1. w[i - 1] = u[(i - 1) + d] /\ (i - 1) + d = (i + d) - 1
      BY <2>1, <2>3 DEF Cut
    <3>. QED  BY <2>1, <2>2, <3>1 DEF PrefixAt
  <2>4. CASE i - 1 <= f + r
    <3>1. i - 1 = f + r
      BY <1>4, <2>4
    <3>2. CASE r = 0
      BY <1>1, <2>1, <2>2, <3>1, <3>2 DEF Cut
    <3>3. CASE r = 1
      <4>1. f < i - 1 /\ i - 1 <= f + r
        BY <3>1, <3>3
      <4>. QED  BY <1>1, <2>1, <2>2, <4>1 DEF Cut
    <3>. QED  BY <3>2, <3>3
  <2>. QED  BY <2>3, <2>4
<1>. QED  BY <1>2, <1>3, <1>4

(* A text in which the rule takes more than a register is refused.         *)
LEMMA CutRefused ==
  ASSUME NEW u, IsText(u), \A i \in 1 .. Len(u) : ~ PrefixAt(u, i), Overrun(u)
  PROVE  ~ expr(u).ok
<1>. DEFINE w == Matched(u)
            star == Derefs(w)
            t == make_token(u).toks
<1>1. Len(w) \in Nat /\ DOMAIN w = 1 .. Len(w)
  BY MatchedCut
<1>2. PICK f \in 1 .. Len(u) : \E d \in Nat, r \in 0 .. 1 : Cut(w, u, f, d, r)
  BY MatchedCut
<1>3. PICK d \in Nat : \E r \in 0 .. 1 : Cut(w, u, f, d, r)
  BY <1>2
<1>4. PICK r \in 0 .. 1 : Cut(w, u, f, d, r)
  BY <1>3
<1>5. f \in 1 .. Len(w) /\ w[f] = Swallowed
  BY <1>1, <1>4 DEF Cut
<1>6. make_token(u) =
        [ok |-> \A i \in DOMAIN w : w[i] \in Atoms \cup Ops \cup Parentheses \cup {Swallowed},
         toks |-> [i \in 1 .. Len(w) |-> TokenOf(w[i], star[i])]]
  BY DEF make_token
<1>. HIDE DEF w
<1>7. \A i \in 1 .. Len(w) : star[i] \in BOOLEAN /\ ~ star[i]
  <2>1. ASSUME NEW i \in 1 .. Len(w)  PROVE star[i] \in BOOLEAN
    BY <1>1, DerefsDef
  <2>2. ASSUME NEW i \in 1 .. Len(w), star[i]  PROVE FALSE
    <3>1. PrefixAt(w, i)
      BY <1>1, <2>2, DerefIsPrefix
    <3>. QED  BY <1>1, <1>4, <3>1, CutPrefix
  <2>. QED  BY <2>1, <2>2
<1>. HIDE DEF star
<1>8. CASE ~ make_token(u).ok
  <2>1. expr(u) = Res(0, FALSE, FALSE)
    BY <1>8 DEF expr
  <2>. QED  BY <2>1 DEF Res
<1>9. CASE make_token(u).ok
  <2>1. \A i \in 1 .. Len(w) : w[i] \in Atoms \cup Ops \cup Parentheses \cup {Swallowed}
    BY <1>1, <1>6, <1>9
  <2>2. t = [i \in 1 .. Len(w) |-> TokenOf(w[i], star[i])]
    BY <1>6
  <2>3. Len(t) = Len(w) /\ \A i \in 1 .. Len(w) : t[i] = TokenOf(w[i], star[i])
    BY <1>1, <2>2
  <2>4. expr(u) = Ev(t, 1, Len(t), TRUE)
    BY <1>9 DEF expr, Ev
  <2>. HIDE DEF t
  <2>5. IsTokens(t) /\ \A i \in 1 .. Len(t) : t[i].type # "deref"
    BY <1>1, <1>7, <2>1, <2>3, TokenOfType DEF IsTokens
  <2>6. t[f] = Token("gpr", Swallowed) /\ f \in 1 .. Len(t)
    BY <1>5, <1>7, <2>1, <2>3, TokenOfType
  <2>7. 1 \in 1 .. Len(t) + 1 /\ Len(t) \in 0 .. Len(t) /\ TRUE \in BOOLEAN
    BY <1>1, <2>3
  <2>8. ASSUME Ev(t, 1, Len(t), TRUE).ok  PROVE FALSE
    <3>1. \A ok \in BOOLEAN : Ev(t, 1, Len(t), ok).ok => \A i \in 1 .. Len(t) : t[i].type = "gpr" => t[i].val \in Registers
      BY <2>5, <2>7, EvKnown
    <3>2. t[f].type = "gpr" => t[f].val \in Registers
      BY <2>6, <2>7, <2>8, <3>1
    <3>3. Swallowed \in Registers
      BY <2>6, <3>2 DEF Token
    <3>. QED  BY <3>3, ExprAssumption DEF ExprAssumption, Atoms, Gprs
  <2>. QED  BY <2>4, <2>8
<1>. QED  BY <1>8, <1>9

-----------------------------------------------------------------------------
(* What may be typed.                                                      *)

TextInv ==
  IsText(input) /\ want \in BOOLEAN /\ prefix \in BOOLEAN /\ parens \in Nat

LEMMA InitText == TextInit => TextInv
<1>1. <<>> \in Seq(Atoms \cup Ops \cup Parentheses)
  BY EmptySeq
<1>. SUFFICES ASSUME TextInit  PROVE TextInv
  OBVIOUS
<1>2. IsText(input)
  BY <1>1 DEF TextInit, IsText
<1>3. want \in BOOLEAN /\ prefix \in BOOLEAN
  BY DEF TextInit
<1>4. parens \in Nat
  BY DEF TextInit
<1>. QED  BY <1>2, <1>3, <1>4 DEF TextInv

LEMMA TypeText ==
  ASSUME IsText(input), NEW u \in Atoms \cup Ops \cup Parentheses, Type(u)
  PROVE  IsText(input') /\ input' = Append(input, u)
BY AppendProperties DEF Type, IsText

LEMMA NextText == TextInv /\ [TypeNext]_text => TextInv'
<1>. SUFFICES ASSUME TextInv, [TypeNext]_text  PROVE TextInv'
  OBVIOUS
<1>1. Operands \subseteq Atoms /\ BinaryOps \subseteq Ops /\ Parens \subseteq Parentheses /\ "*" \in Ops
  BY ExprAssumption, OpsAre DEF ExprAssumption
<1>2. CASE TypeOperand
  BY <1>1, <1>2, TypeText DEF TypeOperand, TextInv
<1>3. CASE TypePrefix
  BY <1>1, <1>3, TypeText DEF TypePrefix, TextInv
<1>4. CASE TypeBinary
  BY <1>1, <1>4, TypeText DEF TypeBinary, TextInv
<1>5. CASE TypeParen
  BY <1>1, <1>5, TypeText DEF TypeParen, TextInv
<1>6. CASE UNCHANGED text
  BY <1>6 DEF text, TextInv, IsText
<1>. QED  BY <1>2, <1>3, <1>4, <1>5, <1>6 DEF TypeNext

(* Whatever is typed, an expression that the lexer does not misread has    *)
(* the value its grammar gives it, and fails exactly when that value says  *)
(* so: the loops of make_token, check_parentheses and find_dominated_op    *)
(* find the operator the grammar splits at.                                *)
THEOREM ValueCorrect == TextSpec => []ValueRight
<1>1. TextInv => ValueRight
  BY TextValue DEF TextInv, ValueRight, Meaning, Agrees
<1>. QED  BY <1>1, InitText, NextText, PTL DEF TextSpec

(* What gen-expr generates has the value C's int gives it, as far as no    *)
(* operation overflows or divides a negative number.                       *)
THEOREM GenCorrect == TextSpec => []GenAgrees
<1>1. TextInv => GenAgrees
  BY TextCount DEF TextInv, GenAgrees, Meaning
<1>. QED  BY <1>1, InitText, NextText, PTL DEF TextSpec

(* What a text holds as long as no `*' has been typed where an operand was *)
(* due: an operand before each operator and between any two, and one after *)
(* the last when none is due.                                              *)
Typed(s, due) ==
  /\ \A k \in 1 .. Len(s) : s[k] \in Ops => \E a \in 1 .. k - 1 : s[a] \in Atoms
  /\ \A k \in 1 .. Len(s) : \A l \in k + 1 .. Len(s) :
       s[k] \in Ops /\ s[l] \in Ops => \E a \in k + 1 .. l - 1 : s[a] \in Atoms
  /\ ~ due => \E a \in 1 .. Len(s) : s[a] \in Atoms /\ \A k \in a + 1 .. Len(s) : s[k] \notin Ops

InTurn == prefix = FALSE => Typed(input, want)

LEMMA TypedAppend ==
  ASSUME NEW s, IsText(s), NEW u \in Atoms \cup Ops \cup Parentheses, NEW due \in BOOLEAN, NEW then \in BOOLEAN,
         Typed(s, due), u \in Ops => ~ due /\ then, u \in Parentheses => then = due
  PROVE  Typed(Append(s, u), then)
<1>. DEFINE w == Append(s, u)
            n == Len(s)
<1>1. n \in Nat /\ Len(w) = n + 1 /\ w[n + 1] = u /\ \A i \in 1 .. n : w[i] = s[i]
  BY TextLength, AppendProperties DEF IsText
<1>. HIDE DEF w, n
<1>2. \A k \in 1 .. n : s[k] \in Ops => \E a \in 1 .. k - 1 : s[a] \in Atoms
  BY DEF Typed, n
<1>3. \A k \in 1 .. n : \A l \in k + 1 .. n : s[k] \in Ops /\ s[l] \in Ops => \E a \in k + 1 .. l - 1 : s[a] \in Atoms
  BY DEF Typed, n
<1>4. ~ due => \E a \in 1 .. n : s[a] \in Atoms /\ \A k \in a + 1 .. n : s[k] \notin Ops
  BY DEF Typed, n
<1>5. ASSUME NEW k \in 1 .. n + 1, w[k] \in Ops  PROVE \E a \in 1 .. k - 1 : w[a] \in Atoms
  <2>1. CASE k <= n
    <3>1. k \in 1 .. n /\ s[k] \in Ops
      BY <1>1, <1>5, <2>1
    <3>2. PICK a \in 1 .. k - 1 : s[a] \in Atoms
      BY <1>2, <3>1
    <3>. QED  BY <1>1, <3>1, <3>2
  <2>2. CASE k = n + 1
    <3>1. PICK a \in 1 .. n : s[a] \in Atoms
      BY <1>1, <1>4, <1>5, <2>2
    <3>. QED  BY <1>1, <2>2, <3>1
  <2>. QED  BY <1>1, <2>1, <2>2
<1>6. ASSUME NEW k \in 1 .. n + 1, NEW l \in k + 1 .. n + 1, w[k] \in Ops, w[l] \in Ops
      PROVE  \E a \in k + 1 .. l - 1 : w[a] \in Atoms
  <2>1. CASE l <= n
    <3>1. k \in 1 .. n /\ l \in k + 1 .. n /\ l \in 1 .. n
      BY <1>1, <2>1
    <3>2. PICK a \in k + 1 .. l - 1 : s[a] \in Atoms
      BY <1>1, <1>3, <1>6, <3>1
    <3>3. a \in 1 .. n
      BY <1>1, <3>1
    <3>. QED  BY <1>1, <3>2, <3>3
  <2>2. CASE l = n + 1
    <3>1. k \in 1 .. n /\ s[k] \in Ops
      BY <1>1, <1>6, <2>2
    <3>2. PICK a \in 1 .. n : s[a] \in Atoms /\ \A x \in a + 1 .. n : s[x] \notin Ops
      BY <1>1, <1>4, <1>6, <2>2
    <3>3. a # k
      BY <3>1, <3>2, Kinds
    <3>4. ~ (a < k)
      BY <1>1, <3>1, <3>2
    <3>5. a \in k + 1 .. l - 1
      BY <1>1, <2>2, <3>1, <3>2, <3>3, <3>4
    <3>. QED  BY <1>1, <3>2, <3>5
  <2>. QED  BY <1>1, <2>1, <2>2
<1>7. ASSUME ~ then  PROVE \E a \in 1 .. n + 1 : w[a] \in Atoms /\ \A k \in a + 1 .. n + 1 : w[k] \notin Ops
  <2>1. CASE u \in Atoms
    <3>1. n + 1 \in 1 .. n + 1 /\ \A k \in (n + 1) + 1 .. n + 1 : FALSE
      BY <1>1
    <3>. QED  BY <1>1, <2>1, <3>1
  <2>2. CASE u \in Parentheses
    <3>1. PICK a \in 1 .. n : s[a] \in Atoms /\ \A x \in a + 1 .. n : s[x] \notin Ops
      BY <1>4, <1>7, <2>2
    <3>2. u \notin Ops
      BY <2>2, Kinds
    <3>3. a \in 1 .. n + 1 /\ w[a] \in Atoms
      BY <1>1, <3>1
    <3>4. \A x \in a + 1 .. n + 1 : x = n + 1 \/ (x \in a + 1 .. n /\ x \in 1 .. n)
      BY <1>1
    <3>5. \A x \in a + 1 .. n + 1 : w[x] \notin Ops
      BY <1>1, <3>1, <3>2, <3>4
    <3>. QED  BY <3>3, <3>5
  <2>. QED  BY <1>7, <2>1, <2>2
<1>. QED  BY <1>1, <1>5, <1>6, <1>7 DEF Typed, w

LEMMA TypedAlternate ==
  ASSUME NEW s, Len(s) \in Nat, Typed(s, FALSE)
  PROVE  Alternate(s, 1, Len(s))
<1>1. PICK a \in 1 .. Len(s) : s[a] \in Atoms /\ \A k \in a + 1 .. Len(s) : s[k] \notin Ops
  BY DEF Typed
<1>2. ASSUME NEW k \in 1 .. Len(s), s[k] \in Ops  PROVE \E x \in k + 1 .. Len(s) : s[x] \in Atoms
  <2>1. a # k
    BY <1>1, <1>2, Kinds
  <2>2. ~ (a < k)
    BY <1>1, <1>2
  <2>3. a \in k + 1 .. Len(s)
    BY <2>1, <2>2
  <2>. QED  BY <1>1, <2>3
<1>. QED  BY <1>1, <1>2 DEF Typed, Alternate

LEMMA InitTurn == TextInit => InTurn
BY DEF TextInit, InTurn, Typed

LEMMA NextTurn == TextInv /\ InTurn /\ [TypeNext]_text => InTurn'
<1>. SUFFICES ASSUME TextInv, InTurn, [TypeNext]_text  PROVE InTurn'
  OBVIOUS
<1>. SUFFICES ASSUME prefix' = FALSE  PROVE Typed(input', want')
  BY DEF InTurn
<1>1. Operands \subseteq Atoms /\ BinaryOps \subseteq Ops /\ Parens \subseteq Parentheses
  BY ExprAssumption DEF ExprAssumption
<1>0. IsText(input) /\ want \in BOOLEAN
  BY DEF TextInv
<1>2. CASE TypeOperand
  <2>1. PICK u \in Operands : Type(u)
    BY <1>2 DEF TypeOperand
  <2>2. u \in Atoms /\ u \notin Ops /\ u \notin Parentheses /\ input' = Append(input, u)
    BY <1>1, <2>1, Kinds DEF Type
  <2>3. Typed(input, want) /\ want' = FALSE
    BY <1>2 DEF TypeOperand, InTurn
  <2>4. Typed(Append(input, u), FALSE)
    BY <1>0, <2>2, <2>3, TypedAppend
  <2>. QED  BY <2>2, <2>3, <2>4
<1>3. CASE TypePrefix
  BY <1>3 DEF TypePrefix
<1>4. CASE TypeBinary
  <2>1. PICK u \in BinaryOps : Type(u)
    BY <1>4 DEF TypeBinary
  <2>2. u \in Ops /\ u \notin Parentheses /\ input' = Append(input, u)
    BY <1>1, <2>1, Kinds DEF Type
  <2>3. Typed(input, want) /\ want' = TRUE /\ ~ want
    BY <1>4 DEF TypeBinary, InTurn
  <2>4. Typed(Append(input, u), TRUE)
    BY <1>0, <2>2, <2>3, TypedAppend
  <2>. QED  BY <2>2, <2>3, <2>4
<1>5. CASE TypeParen
  <2>1. PICK u \in Parens : Type(u)
    BY <1>5 DEF TypeParen
  <2>2. u \in Parentheses /\ u \notin Ops /\ input' = Append(input, u)
    BY <1>1, <2>1, Kinds DEF Type
  <2>3. Typed(input, want) /\ want' = want
    BY <1>5 DEF TypeParen, InTurn
  <2>4. Typed(Append(input, u), want)
    BY <1>0, <2>2, <2>3, TypedAppend
  <2>. QED  BY <2>2, <2>3, <2>4
<1>6. CASE UNCHANGED text
  BY <1>6 DEF text, InTurn
<1>. QED  BY <1>2, <1>3, <1>4, <1>5, <1>6 DEF TypeNext

(* eval accepts no text of operands and operators in turn that is not an   *)
(* expression.                                                             *)
LEMMA TextRefused ==
  ASSUME NEW s, IsText(s), \A i \in 1 .. Len(s) : ~ PrefixAt(s, i), Typed(s, FALSE),
         Sentence(s)[Phrase(1, Len(s), 1)] = {} \/ Overrun(s)
  PROVE  ~ expr(s).ok
<1>1. Len(s) \in Nat /\ 1 \in 1 .. Len(s) + 1 /\ Len(s) \in 0 .. Len(s) /\ TRUE \in BOOLEAN
  BY TextLength
<1>2. CASE Overrun(s)
  BY <1>2, CutRefused
<1>3. CASE ~ Overrun(s)
  <2>0. Matched(s) = s
    BY <1>3, MatchedPlain
  <2>. DEFINE t == make_token(s).toks
  <2>1. \A i \in 1 .. Len(s) : Derefs(s)[i] <=> PrefixAt(s, i)
    BY <1>1, DerefIsPrefix
  <2>2. make_token(s).ok /\ AreTokens(t, s)
    BY <2>0, <2>1, TokensOfText
  <2>3. expr(s) = Ev(t, 1, Len(s), TRUE)
    BY <2>2, ExprValue
  <2>. HIDE DEF t
  <2>4. \A ok \in BOOLEAN : Ev(t, 1, Len(s), ok).ok /\ Alternate(s, 1, Len(s)) => Sen(s, 1, Len(s), 1) # {}
    BY <1>1, <2>2, Accepted
  <2>5. Sen(s, 1, Len(s), 1) = {}
    BY <1>3 DEF Sen
  <2>. QED  BY <1>1, <2>3, <2>4, <2>5, TypedAlternate
<1>. QED  BY <1>2, <1>3

(* Whatever is typed, a text in which operands and operators alternate but *)
(* whose parentheses make no expression of it, or in which the greedy rule *)
(* takes more than a register, is refused.                                 *)
THEOREM BadParensCorrect == TextSpec => []BadParensRefused
<1>1. TextInv /\ InTurn => BadParensRefused
  <2>. SUFFICES ASSUME TextInv, InTurn, ~ want, ~ prefix, \A i \in DOMAIN input : ~ PrefixAt(input, i),
                       Meaning = {} \/ Overrun(input)
                PROVE  ~ expr(input).ok
    BY DEF BadParensRefused
  <2>1. IsText(input) /\ want = FALSE /\ prefix = FALSE
    BY DEF TextInv
  <2>2. Typed(input, FALSE)
    BY <2>1 DEF InTurn
  <2>3. \A i \in 1 .. Len(input) : ~ PrefixAt(input, i)
    BY <2>1, TextLength
  <2>. QED  BY <2>1, <2>2, <2>3, TextRefused DEF Meaning
<1>. QED  BY <1>1, InitText, NextText, InitTurn, NextTurn, PTL DEF TextSpec

-----------------------------------------------------------------------------
(* Sequences.                                                              *)

(* A concatenation is injective exactly when both parts are and they share *)
(* no element.                                                             *)
LEMMA InjectiveConcat ==
  ASSUME NEW S, NEW s \in Seq(S), NEW t \in Seq(S)
  PROVE  IsInjective(s \o t) <=>
           /\ IsInjective(s)
           /\ IsInjective(t)
           /\ \A i \in 1 .. Len(s), j \in 1 .. Len(t) : s[i] # t[j]
<1>. DEFINE c == s \o t
<1>1. /\ c \in Seq(S)
      /\ Len(c) = Len(s) + Len(t)
      /\ \A i \in 1 .. Len(s) + Len(t) :
            c[i] = IF i <= Len(s) THEN s[i] ELSE t[i - Len(s)]
  BY ConcatProperties
<1>. HIDE DEF c
<1>2. /\ \A i \in 1 .. Len(s) : i \in 1 .. Len(c) /\ c[i] = s[i]
      /\ \A j \in 1 .. Len(t) : /\ Len(s) + j \in 1 .. Len(c)
                                /\ c[Len(s) + j] = t[j]
  <2>1. ASSUME NEW j \in 1 .. Len(t)
        PROVE  Len(s) + j \in 1 .. Len(c) /\ c[Len(s) + j] = t[j]
    <3>1. /\ Len(s) + j \in 1 .. Len(s) + Len(t)
          /\ ~ (Len(s) + j <= Len(s))
          /\ (Len(s) + j) - Len(s) = j
      OBVIOUS
    <3>. QED  BY <1>1, <3>1
  <2>. QED  BY <1>1, <2>1
<1>3. DOMAIN c = 1 .. Len(c) /\ DOMAIN s = 1 .. Len(s) /\ DOMAIN t = 1 .. Len(t)
  BY <1>1
<1>4. ASSUME IsInjective(c)
      PROVE  /\ IsInjective(s)
             /\ IsInjective(t)
             /\ \A i \in 1 .. Len(s), j \in 1 .. Len(t) : s[i] # t[j]
  <2>1. \A a, b \in 1 .. Len(c) : c[a] = c[b] => a = b
    BY <1>3, <1>4 DEF IsInjective
  <2>2. ASSUME NEW a \in 1 .. Len(s), NEW b \in 1 .. Len(s), s[a] = s[b]
        PROVE  a = b
    BY <1>2, <2>1, <2>2
  <2>3. ASSUME NEW a \in 1 .. Len(t), NEW b \in 1 .. Len(t), t[a] = t[b]
        PROVE  a = b
    <3>1. Len(s) + a = Len(s) + b
      BY <1>2, <2>1, <2>3
    <3>. QED  BY <3>1
  <2>4. ASSUME NEW i \in 1 .. Len(s), NEW j \in 1 .. Len(t), s[i] = t[j]
        PROVE  FALSE
    <3>1. i = Len(s) + j
      BY <1>2, <2>1, <2>4
    <3>. QED  BY <3>1
  <2>. QED  BY <1>3, <2>2, <2>3, <2>4 DEF IsInjective
<1>5. ASSUME IsInjective(s), IsInjective(t),
             \A i \in 1 .. Len(s), j \in 1 .. Len(t) : s[i] # t[j]
      PROVE  IsInjective(c)
  <2>1. /\ \A a, b \in 1 .. Len(s) : s[a] = s[b] => a = b
        /\ \A a, b \in 1 .. Len(t) : t[a] = t[b] => a = b
    BY <1>3, <1>5 DEF IsInjective
  <2>2. \A a \in 1 .. Len(c) : a \notin 1 .. Len(s) => a - Len(s) \in 1 .. Len(t)
    BY <1>1
  <2>3. ASSUME NEW a \in 1 .. Len(c), NEW b \in 1 .. Len(c), c[a] = c[b]
        PROVE  a = b
    <3>1. CASE a \in 1 .. Len(s) /\ b \in 1 .. Len(s)
      BY <1>2, <2>1, <2>3, <3>1
    <3>2. CASE a \in 1 .. Len(s) /\ b \notin 1 .. Len(s)
      <4>1. c[a] = s[a] /\ c[b] = t[b - Len(s)]
        BY <1>1, <3>2
      <4>. QED  BY <1>5, <2>2, <2>3, <3>2, <4>1
    <3>3. CASE a \notin 1 .. Len(s) /\ b \in 1 .. Len(s)
      <4>1. c[a] = t[a - Len(s)] /\ c[b] = s[b]
        BY <1>1, <3>3
      <4>. QED  BY <1>5, <2>2, <2>3, <3>3, <4>1
    <3>4. CASE a \notin 1 .. Len(s) /\ b \notin 1 .. Len(s)
      <4>1. c[a] = t[a - Len(s)] /\ c[b] = t[b - Len(s)]
        BY <1>1, <3>4
      <4>2. a - Len(s) = b - Len(s)
        BY <2>1, <2>2, <2>3, <3>4, <4>1
      <4>. QED  BY <4>2
    <3>. QED  BY <3>1, <3>2, <3>3, <3>4
  <2>. QED  BY <1>3, <2>3 DEF IsInjective
<1>. QED  BY <1>4, <1>5 DEF c

(* Moving the first element of t to the end of s leaves their              *)
(* concatenation as it was.                                                *)
LEMMA AppendTailConcat ==
  ASSUME NEW S, NEW s \in Seq(S), NEW t \in Seq(S), t # <<>>
  PROVE  /\ Append(s, Head(t)) \in Seq(S) /\ Tail(t) \in Seq(S)
         /\ Len(Append(s, Head(t))) + Len(Tail(t)) = Len(s) + Len(t)
         /\ Append(s, Head(t)) \o Tail(t) = s \o t
<1>. DEFINE h == Head(t)
<1>1. h \in S /\ h = t[1] /\ Tail(t) \in Seq(S) /\ Len(Tail(t)) = Len(t) - 1 /\ Len(t) >= 1
  BY HeadTailProperties
<1>2. Append(s, h) \in Seq(S) /\ Len(Append(s, h)) = Len(s) + 1 /\ Append(s, h) = s \o <<h>>
  BY <1>1, AppendProperties, AppendIsConcat
<1>3. <<h>> \o Tail(t) = t
  <2>1. SubSeq(t, 1, Len(t)) = <<t[1]>> \o SubSeq(t, 1 + 1, Len(t))
    BY <1>1, SubSeqRecursiveFirst
  <2>. QED  BY <1>1, <2>1, SubSeqFull, TailIsSubSeq
<1>4. (s \o <<h>>) \o Tail(t) = s \o (<<h>> \o Tail(t))
  <2>1. <<h>> \in Seq(S)
    BY <1>1
  <2>. QED  BY <1>1, <2>1, ConcatAssociative
<1>. QED  BY <1>1, <1>2, <1>3, <1>4

(* What RemoveAt returns, element by element.                              *)
LEMMA RemoveAtProperties ==
  ASSUME NEW S, NEW s \in Seq(S), NEW i \in 1 .. Len(s)
  PROVE  /\ RemoveAt(s, i) \in Seq(S)
         /\ Len(RemoveAt(s, i)) = Len(s) - 1
         /\ \A j \in 1 .. Len(s) - 1 :
               RemoveAt(s, i)[j] = IF j < i THEN s[j] ELSE s[j + 1]
<1>. DEFINE a == SubSeq(s, 1, i - 1)
            b == SubSeq(s, i + 1, Len(s))
<1>1. /\ a \in Seq(S)
      /\ Len(a) = i - 1
      /\ \A j \in 1 .. i - 1 : a[j] = s[j]
  BY SubSeqProperties
<1>2. /\ b \in Seq(S)
      /\ Len(b) = Len(s) - i
      /\ \A j \in 1 .. Len(s) - i : b[j] = s[i + j]
  BY SubSeqProperties
<1>. HIDE DEF a, b
<1>3. RemoveAt(s, i) = a \o b
  BY DEF RemoveAt, a, b
<1>4. /\ a \o b \in Seq(S)
      /\ Len(a \o b) = Len(a) + Len(b)
      /\ \A j \in 1 .. Len(a) + Len(b) :
            (a \o b)[j] = IF j <= Len(a) THEN a[j] ELSE b[j - Len(a)]
  BY <1>1, <1>2, ConcatProperties
<1>5. Len(a) + Len(b) = Len(s) - 1
  BY <1>1, <1>2
<1>6. ASSUME NEW j \in 1 .. Len(s) - 1
      PROVE  (a \o b)[j] = IF j < i THEN s[j] ELSE s[j + 1]
  <2>1. CASE j < i
    BY <1>1, <1>4, <1>5, <2>1
  <2>2. CASE ~ (j < i)
    <3>1. (a \o b)[j] = b[j - (i - 1)]
      BY <1>1, <1>4, <1>5, <2>2
    <3>2. j - (i - 1) \in 1 .. Len(s) - i
      BY <2>2
    <3>3. b[j - (i - 1)] = s[i + (j - (i - 1))]
      BY <1>2, <3>2
    <3>4. i + (j - (i - 1)) = j + 1
      OBVIOUS
    <3>. QED  BY <2>2, <3>1, <3>3, <3>4
  <2>. QED  BY <2>1, <2>2
<1>. QED  BY <1>3, <1>4, <1>5, <1>6

(* Moving an element from s to the end of t keeps their concatenation free *)
(* of repetitions.                                                         *)
LEMMA RemoveAppendInjective ==
  ASSUME NEW S, NEW s \in Seq(S), NEW t \in Seq(S), IsInjective(s \o t),
         NEW i \in 1 .. Len(s)
  PROVE  /\ RemoveAt(s, i) \in Seq(S) /\ Append(t, s[i]) \in Seq(S)
         /\ Len(RemoveAt(s, i)) + Len(Append(t, s[i])) = Len(s) + Len(t)
         /\ IsInjective(RemoveAt(s, i) \o Append(t, s[i]))
<1>. DEFINE r == RemoveAt(s, i)
            u == Append(t, s[i])
            c == s \o t
            d == r \o u
            N == Len(s) + Len(t)
<1>1. /\ r \in Seq(S) /\ Len(r) = Len(s) - 1
      /\ \A j \in 1 .. Len(s) - 1 : r[j] = IF j < i THEN s[j] ELSE s[j + 1]
  BY RemoveAtProperties
<1>2. /\ u \in Seq(S) /\ Len(u) = Len(t) + 1
      /\ (\A j \in 1 .. Len(t) : u[j] = t[j]) /\ u[Len(t) + 1] = s[i]
  BY AppendProperties
<1>3. /\ DOMAIN c = 1 .. N
      /\ \A k \in 1 .. N : c[k] = IF k <= Len(s) THEN s[k] ELSE t[k - Len(s)]
  BY ConcatProperties
<1>. HIDE DEF r, u, c
<1>4. /\ DOMAIN d = 1 .. N
      /\ \A k \in 1 .. N : d[k] = IF k <= Len(s) - 1 THEN r[k] ELSE u[k - (Len(s) - 1)]
  <2>1. /\ d \in Seq(S) /\ Len(d) = Len(r) + Len(u)
        /\ \A k \in 1 .. Len(r) + Len(u) : d[k] = IF k <= Len(r) THEN r[k] ELSE u[k - Len(r)]
    BY <1>1, <1>2, ConcatProperties
  <2>. HIDE DEF d
  <2>2. Len(r) + Len(u) = N /\ DOMAIN d = 1 .. Len(d)
    BY <1>1, <1>2, <2>1
  <2>. QED  BY <1>1, <2>1, <2>2
<1>. HIDE DEF d
<1>5. Len(s) \in Nat /\ Len(t) \in Nat
  OBVIOUS
<1>. HIDE DEF N
<1>6. ASSUME NEW k \in 1 .. N
      PROVE  d[k] = c[IF k < i THEN k ELSE IF k < N THEN k + 1 ELSE i]
  <2>1. CASE k <= Len(s) - 1
    <3>1. k \in 1 .. Len(s) - 1 /\ k < N /\ k + 1 \in 1 .. N /\ k + 1 <= Len(s) /\ k <= Len(s)
      BY <1>5, <2>1 DEF N
    <3>. QED  BY <1>1, <1>3, <1>4, <3>1
  <2>2. CASE k > Len(s) - 1 /\ k < N
    <3>1. /\ k - (Len(s) - 1) \in 1 .. Len(t) /\ ~ (k < i) /\ ~ (k <= Len(s) - 1)
          /\ k + 1 \in 1 .. N /\ ~ (k + 1 <= Len(s)) /\ (k + 1) - Len(s) = k - (Len(s) - 1)
      BY <1>5, <2>2 DEF N
    <3>. QED  BY <1>2, <1>3, <1>4, <2>2, <3>1
  <2>3. CASE k = N
    <3>1. /\ k - (Len(s) - 1) = Len(t) + 1 /\ ~ (k < i) /\ ~ (k <= Len(s) - 1) /\ ~ (k < N)
          /\ i \in 1 .. N /\ i <= Len(s)
      BY <1>5, <2>3 DEF N
    <3>. QED  BY <1>2, <1>3, <1>4, <3>1
  <2>. QED  BY <1>5, <2>1, <2>2, <2>3 DEF N
<1>7. IsInjective(d)
  <2>1. \A a, b \in 1 .. N : c[a] = c[b] => a = b
    BY <1>3 DEF IsInjective, c
  <2>2. ASSUME NEW a \in 1 .. N, NEW b \in 1 .. N, d[a] = d[b]  PROVE a = b
    <3>1. N \in Nat /\ i \in 1 .. N
      BY <1>5 DEF N
    <3>2. (IF a < i THEN a ELSE IF a < N THEN a + 1 ELSE i)
             = (IF b < i THEN b ELSE IF b < N THEN b + 1 ELSE i)
      BY <1>6, <2>1, <2>2, <3>1
    <3>. QED  BY <3>1, <3>2
  <2>. QED  BY <1>4, <2>2 DEF IsInjective
<1>. QED  BY <1>1, <1>2, <1>5, <1>7 DEF r, u, d

Links == [Wp -> Wp \cup {NULL}]

-----------------------------------------------------------------------------
(* Chains.                                                                 *)

(* SeqOf(Wp, NR_WP) are the sequences that may be the list of a pool.      *)
LEMMA SeqOfWp == \A s : s \in SeqOf(Wp, NR_WP) <=> s \in Seq(Wp) /\ Len(s) <= NR_WP
<1>1. NR_WP \in Nat
  BY ListAssumption
<1>2. ASSUME NEW s \in SeqOf(Wp, NR_WP)
      PROVE  s \in Seq(Wp) /\ Len(s) <= NR_WP
  <2>1. PICK m \in 0 .. NR_WP : s \in [1 .. m -> Wp]
    BY <1>2 DEF SeqOf
  <2>. QED  BY <1>1, <2>1
<1>3. ASSUME NEW s \in Seq(Wp), Len(s) <= NR_WP
      PROVE  s \in SeqOf(Wp, NR_WP)
  <2>1. Len(s) \in 0 .. NR_WP /\ s \in [1 .. Len(s) -> Wp]
    BY <1>1, <1>3, LenProperties
  <2>. QED  BY <2>1 DEF SeqOf
<1>. QED  BY <1>2, <1>3

(* A list is empty exactly when its pointer is NULL.                       *)
LEMMA ChainEmpty ==
  ASSUME NEW nx, NEW h, NEW s \in Seq(Wp), IsChain(nx, s, h)
  PROVE  /\ h = NULL <=> s = <<>>
         /\ h # NULL => /\ Len(s) >= 1
                        /\ h = s[1]
                        /\ h \in Wp
<1>1. NULL \notin Wp
  BY ListAssumption DEF Wp
<1>2. s # <<>> => Len(s) >= 1 /\ s[1] \in Wp
  OBVIOUS
<1>. QED  BY <1>1, <1>2 DEF IsChain

(* Two lists that start at the same pointer agree as far as the first goes.*)
LEMMA ChainPrefix ==
  ASSUME NEW nx, NEW h, NEW s \in Seq(Wp), NEW t \in Seq(Wp),
         IsChain(nx, s, h), IsChain(nx, t, h)
  PROVE  \A i \in 1 .. Len(s) : i <= Len(t) /\ t[i] = s[i]
<1>. DEFINE Agree == {i \in 1 .. Len(s) : i <= Len(t) /\ t[i] = s[i]}
<1>1. NULL \notin Wp
  BY ListAssumption DEF Wp
<1>2. Len(s) \in Nat /\ Len(t) \in Nat
  OBVIOUS
<1>3. Len(s) >= 1 => 1 \in Agree
  <2>1. Len(s) >= 1 => h # NULL
    BY <1>2, ChainEmpty
  <2>. QED  BY <1>2, <2>1, ChainEmpty
<1>4. ASSUME NEW i \in 1 .. Len(s) - 1, i \in Agree
      PROVE  i + 1 \in Agree
  <2>1. i \in 1 .. Len(t) /\ t[i] = s[i] /\ i \in 1 .. Len(s) /\ i # Len(s)
    BY <1>2, <1>4
  <2>2. nx[s[i]] = s[i + 1] /\ s[i + 1] \in Wp
    BY <1>2, <2>1 DEF IsChain
  <2>3. i # Len(t) /\ nx[t[i]] = t[i + 1]
    BY <1>1, <2>1, <2>2 DEF IsChain
  <2>. QED  BY <1>2, <2>1, <2>2, <2>3
<1>. HIDE DEF Agree
<1>5. 1 .. Len(s) \subseteq Agree
  BY <1>2, <1>3, <1>4, IntervalInduction
<1>. QED  BY <1>5 DEF Agree

(* The list that starts at a pointer is unique, so ListOf returns it.      *)
LEMMA ListOfChain ==
  ASSUME NEW nx, NEW h, NEW s \in Seq(Wp), Len(s) <= NR_WP, IsChain(nx, s, h)
  PROVE  ListOf(nx, h) = s
<1>1. s \in SeqOf(Wp, NR_WP)
  BY SeqOfWp
<1>2. ASSUME NEW t \in SeqOf(Wp, NR_WP), IsChain(nx, t, h)
      PROVE  t = s
  <2>1. t \in Seq(Wp)
    BY SeqOfWp
  <2>2. /\ \A i \in 1 .. Len(s) : i <= Len(t) /\ t[i] = s[i]
        /\ \A i \in 1 .. Len(t) : i <= Len(s) /\ s[i] = t[i]
    BY <1>2, <2>1, ChainPrefix
  <2>3. Len(s) = Len(t)
    <3>1. Len(s) \in Nat /\ Len(t) \in Nat
      BY <2>1
    <3>2. Len(s) >= 1 => Len(s) <= Len(t)
      BY <2>2, <3>1
    <3>3. Len(t) >= 1 => Len(t) <= Len(s)
      BY <2>2, <3>1
    <3>. QED  BY <3>1, <3>2, <3>3
  <2>. QED  BY <2>1, <2>2, <2>3, SeqEqual
<1>. QED  BY <1>1, <1>2 DEF ListOf

-----------------------------------------------------------------------------
(* Relinking.                                                              *)

(* A list none of whose links changed is still a list.                     *)
LEMMA ChainFrame ==
  ASSUME NEW nx, NEW nx2, NEW h, NEW s \in Seq(Wp), IsChain(nx, s, h),
         \A i \in 1 .. Len(s) : nx2[s[i]] = nx[s[i]]
  PROVE  IsChain(nx2, s, h)
  BY DEF IsChain

(* What follows the first node of a list is a list.                        *)
LEMMA ChainTail ==
  ASSUME NEW nx, NEW h, NEW s \in Seq(Wp), IsChain(nx, s, h), s # <<>>
  PROVE  IsChain(nx, Tail(s), nx[h])
<1>1. /\ Tail(s) \in Seq(Wp)
      /\ Len(Tail(s)) = Len(s) - 1
      /\ \A i \in 1 .. Len(s) - 1 : Tail(s)[i] = s[i + 1]
  BY HeadTailProperties
<1>2. Len(s) >= 1 /\ h = s[1] /\ (Tail(s) = <<>> <=> Len(Tail(s)) = 0)
  BY <1>1, ChainEmpty, EmptySeq DEF IsChain
<1>0. \A i \in 1 .. Len(s) : nx[s[i]] = IF i = Len(s) THEN NULL ELSE s[i + 1]
  BY DEF IsChain
<1>3. nx[h] = IF Tail(s) = <<>> THEN NULL ELSE Tail(s)[1]
  <2>1. CASE Len(s) = 1
    <3>1. nx[s[1]] = NULL
      BY <1>0, <2>1
    <3>. QED  BY <1>1, <1>2, <2>1, <3>1
  <2>2. CASE Len(s) # 1
    <3>1. 1 \in 1 .. Len(s) - 1 /\ nx[s[1]] = s[2]
      BY <1>0, <1>2, <2>2
    <3>2. Len(Tail(s)) # 0 /\ Tail(s)[1] = s[2]
      BY <1>1, <1>2, <2>2, <3>1
    <3>. QED  BY <1>2, <3>1, <3>2
  <2>. QED  BY <2>1, <2>2
<1>4. ASSUME NEW i \in 1 .. Len(Tail(s))
      PROVE  nx[Tail(s)[i]] = IF i = Len(Tail(s)) THEN NULL ELSE Tail(s)[i + 1]
  <2>1. i \in 1 .. Len(s) - 1 /\ i + 1 \in 1 .. Len(s) /\ Tail(s)[i] = s[i + 1]
    BY <1>1
  <2>2. nx[s[i + 1]] = IF i + 1 = Len(s) THEN NULL ELSE s[(i + 1) + 1]
    BY <2>1 DEF IsChain
  <2>3. (i + 1 = Len(s)) <=> (i = Len(Tail(s)))
    BY <1>1, <2>1
  <2>4. ASSUME i + 1 # Len(s)  PROVE Tail(s)[i + 1] = s[(i + 1) + 1]
    <3>1. i + 1 \in 1 .. Len(s) - 1
      BY <2>1, <2>4
    <3>. QED  BY <1>1, <3>1
  <2>. QED  BY <2>1, <2>2, <2>3, <2>4
<1>. QED  BY <1>3, <1>4 DEF IsChain

(* Linking a node behind the last one appends it to the list.              *)
LEMMA ChainAppend ==
  ASSUME NEW nx, NEW nx2, NEW h, NEW s \in Seq(Wp), NEW p \in Wp,
         IsChain(nx, s, h),
         nx2[p] = NULL,
         s # <<>> => nx2[s[Len(s)]] = p,
         \A i \in 1 .. Len(s) - 1 : nx2[s[i]] = nx[s[i]]
  PROVE  IsChain(nx2, Append(s, p), IF h = NULL THEN p ELSE h)
<1>. DEFINE a == Append(s, p)
<1>1. /\ a \in Seq(Wp)
      /\ Len(a) = Len(s) + 1
      /\ \A i \in 1 .. Len(s) : a[i] = s[i]
      /\ a[Len(s) + 1] = p
  BY AppendProperties
<1>. HIDE DEF a
<1>2. (IF h = NULL THEN p ELSE h) = IF a = <<>> THEN NULL ELSE a[1]
  <2>0. a # <<>>
    BY <1>1
  <2>1. CASE s = <<>>
    <3>1. a[1] = p
      BY <1>1, <2>1
    <3>. QED  BY <2>0, <2>1, <3>1, ChainEmpty
  <2>2. CASE s # <<>>
    BY <1>1, <2>0, <2>2, ChainEmpty
  <2>. QED  BY <2>1, <2>2
<1>3. ASSUME NEW i \in 1 .. Len(a)
      PROVE  nx2[a[i]] = IF i = Len(a) THEN NULL ELSE a[i + 1]
  <2>1. CASE i = Len(a)
    BY <1>1, <2>1
  <2>2. CASE i = Len(s)
    BY <1>1, <2>2
  <2>3. CASE i \in 1 .. Len(s) - 1
    <3>1. nx[s[i]] = s[i + 1]
      BY <2>3 DEF IsChain
    <3>. QED  BY <1>1, <2>3, <3>1
  <2>. QED  BY <1>1, <2>1, <2>2, <2>3
<1>. QED  BY <1>2, <1>3 DEF IsChain, a

(* Unlinking node i, with the link of its predecessor, removes it from the *)
(* list.                                                                   *)
LEMMA ChainRemove ==
  ASSUME NEW nx, NEW nx2, NEW h, NEW s \in Seq(Wp), NEW i \in 1 .. Len(s),
         IsChain(nx, s, h),
         i # 1 => nx2[s[i - 1]] = nx[s[i]],
         \A j \in 1 .. Len(s) : j # i /\ j # i - 1 => nx2[s[j]] = nx[s[j]]
  PROVE  IsChain(nx2, RemoveAt(s, i), IF i = 1 THEN nx[h] ELSE h)
<1>. DEFINE r == RemoveAt(s, i)
<1>1. /\ r \in Seq(Wp)
      /\ Len(r) = Len(s) - 1
      /\ \A j \in 1 .. Len(s) - 1 : r[j] = IF j < i THEN s[j] ELSE s[j + 1]
  BY RemoveAtProperties
<1>. HIDE DEF r
<1>2. Len(s) \in Nat /\ Len(s) >= 1 /\ h = s[1]
  BY DEF IsChain
<1>3. \A j \in 1 .. Len(s) : nx[s[j]] = IF j = Len(s) THEN NULL ELSE s[j + 1]
  BY DEF IsChain
<1>4. (IF i = 1 THEN nx[h] ELSE h) = IF r = <<>> THEN NULL ELSE r[1]
  <2>1. CASE Len(s) = 1
    BY <1>1, <1>2, <1>3, <2>1
  <2>2. CASE Len(s) # 1
    <3>1. r # <<>> /\ 1 \in 1 .. Len(s) - 1
      BY <1>1, <1>2, <2>2
    <3>2. r[1] = IF i = 1 THEN s[2] ELSE s[1]
      BY <1>1, <3>1
    <3>3. nx[s[1]] = s[2]
      <4>1. 1 \in 1 .. Len(s) /\ 1 # Len(s) /\ 1 + 1 = 2
        BY <1>2, <2>2
      <4>. QED  BY <1>3, <4>1
    <3>4. (IF i = 1 THEN nx[h] ELSE h) = r[1]
      BY <1>2, <3>2, <3>3
    <3>. QED  BY <3>1, <3>4
  <2>. QED  BY <2>1, <2>2, Zenon
<1>5. ASSUME NEW j \in 1 .. Len(r)
      PROVE  nx2[r[j]] = IF j = Len(r) THEN NULL ELSE r[j + 1]
  <2>1. j \in 1 .. Len(s) - 1
    BY <1>1
  <2>2. CASE j >= i
    <3>0. /\ ~ (j < i) /\ ~ (j + 1 < i) /\ (j + 1) + 1 = j + 2
          /\ j # Len(r) => j + 1 \in 1 .. Len(s) - 1
      BY <1>1, <1>2, <2>1, <2>2
    <3>1. r[j] = s[j + 1] /\ (j # Len(r) => r[j + 1] = s[j + 2])
      BY <1>1, <2>1, <3>0
    <3>2. nx2[s[j + 1]] = nx[s[j + 1]]
      BY <2>1, <2>2
    <3>. QED  BY <1>1, <1>3, <2>1, <3>1, <3>2
  <2>3. CASE j = i - 1
    <3>1. r[j] = s[i - 1] /\ nx2[s[i - 1]] = nx[s[i]]
      BY <1>1, <2>1, <2>3
    <3>2. j # Len(r) => r[j + 1] = s[i + 1]
      BY <1>1, <2>1, <2>3
    <3>3. j = Len(r) <=> i = Len(s)
      BY <1>1, <2>1, <2>3
    <3>. QED  BY <1>3, <3>1, <3>2, <3>3
  <2>4. CASE j < i - 1
    <3>1. r[j] = s[j] /\ j # Len(r) /\ r[j + 1] = s[j + 1]
      <4>1. /\ j \in 1 .. Len(s) - 1 /\ j < i
            /\ j + 1 \in 1 .. Len(s) - 1 /\ j + 1 < i
            /\ j # Len(s) - 1
        BY <1>2, <2>1, <2>4
      <4>. QED  BY <1>1, <4>1
    <3>2. nx2[s[j]] = nx[s[j]]
      BY <2>1, <2>4
    <3>. QED  BY <1>3, <2>1, <3>1, <3>2
  <2>. QED  BY <2>1, <2>2, <2>3, <2>4
<1>. QED  BY <1>4, <1>5 DEF IsChain, r

-----------------------------------------------------------------------------
(* The steps of the list operations on a split of the pool.                *)

(* A split in terms of its two lists.                                      *)
Parts(nx, h, f, s, t) ==
  /\ IsChain(nx, s, h)
  /\ IsChain(nx, t, f)
  /\ Len(s) + Len(t) = NR_WP
  /\ \A i, j \in 1 .. Len(s) : s[i] = s[j] => i = j
  /\ \A i, j \in 1 .. Len(t) : t[i] = t[j] => i = j
  /\ \A i \in 1 .. Len(s), j \in 1 .. Len(t) : s[i] # t[j]

(* IsSplit says of the concatenation what Parts says of the two lists.     *)
LEMMA SplitParts ==
  ASSUME NEW nx, NEW h, NEW f, NEW s \in Seq(Wp), NEW t \in Seq(Wp)
  PROVE  IsSplit(nx, h, f, s, t) <=> Parts(nx, h, f, s, t)
<1>1. /\ IsInjective(s) <=> \A i, j \in 1 .. Len(s) : s[i] = s[j] => i = j
      /\ IsInjective(t) <=> \A i, j \in 1 .. Len(t) : t[i] = t[j] => i = j
  BY DEF IsInjective
<1>2. IsInjective(s \o t) <=>
        /\ IsInjective(s)
        /\ IsInjective(t)
        /\ \A i \in 1 .. Len(s), j \in 1 .. Len(t) : s[i] # t[j]
  BY InjectiveConcat
<1>. QED  BY <1>1, <1>2, Zenon DEF IsSplit, Parts

(* Both lists of a split are found by walking the links.                   *)
LEMMA SplitLists ==
  ASSUME NEW nx, NEW h, NEW f, NEW s \in Seq(Wp), NEW t \in Seq(Wp),
         IsSplit(nx, h, f, s, t)
  PROVE  ListOf(nx, h) = s /\ ListOf(nx, f) = t
<1>1. IsChain(nx, s, h) /\ IsChain(nx, t, f) /\ Len(s) + Len(t) = NR_WP
  BY DEF IsSplit
<1>2. Len(s) <= NR_WP /\ Len(t) <= NR_WP
  BY <1>1, ListAssumption
<1>. QED  BY <1>1, <1>2, ListOfChain

(* LinkLast links p behind the last node of a list and touches no other.   *)
LEMMA LinkLastProperties ==
  ASSUME NEW nx \in Links, NEW h, NEW s \in Seq(Wp), NEW p \in Wp,
         IsChain(nx, s, h), Len(s) <= NR_WP,
         \A i \in 1 .. Len(s) : s[i] # p,
         IsInjective(s)
  PROVE  /\ LinkLast(nx, h, p) \in Links
         /\ IsChain(LinkLast(nx, h, p), Append(s, p), IF h = NULL THEN p ELSE h)
         /\ \A q \in Wp : q # p /\ (\A i \in 1 .. Len(s) : s[i] # q)
                            => LinkLast(nx, h, p)[q] = nx[q]
<1>. DEFINE nx2 == LinkLast(nx, h, p)
<1>1. ListOf(nx, h) = s /\ \A i, j \in 1 .. Len(s) : s[i] = s[j] => i = j
  BY ListOfChain DEF IsInjective
<1>2. CASE h = NULL
  <2>1. s = <<>> /\ nx2 = [nx EXCEPT ![p] = NULL]
    BY <1>2, ChainEmpty DEF LinkLast
  <2>2. nx2 \in Links /\ nx2[p] = NULL /\ \A q \in Wp : q # p => nx2[q] = nx[q]
    BY <2>1 DEF Links
  <2>3. \A i \in 1 .. Len(s) - 1 : nx2[s[i]] = nx[s[i]]
    BY <2>1
  <2>. HIDE DEF nx2
  <2>4. IsChain(nx2, Append(s, p), IF h = NULL THEN p ELSE h)
    BY <2>1, <2>2, <2>3, ChainAppend, ZenonT(30)
  <2>. QED  BY <2>2, <2>4 DEF nx2
<1>3. CASE h # NULL
  <2>. DEFINE last == s[Len(s)]
  <2>1. Len(s) \in Nat /\ Len(s) >= 1 /\ last \in Wp /\ last # p
    BY <1>3, ChainEmpty
  <2>2. nx2 = [nx EXCEPT ![p] = NULL, ![last] = p]
    BY <1>1, <1>3 DEF LinkLast, Last
  <2>. HIDE DEF last
  <2>3. /\ nx2 \in Links
        /\ nx2[p] = NULL
        /\ nx2[last] = p
        /\ \A q \in Wp : q # p /\ q # last => nx2[q] = nx[q]
    BY <2>1, <2>2 DEF Links
  <2>. HIDE DEF nx2
  <2>4. ASSUME NEW i \in 1 .. Len(s) - 1  PROVE nx2[s[i]] = nx[s[i]]
    <3>1. i \in 1 .. Len(s) /\ Len(s) \in 1 .. Len(s) /\ i # Len(s)
      BY <2>1
    <3>2. s[i] \in Wp /\ s[i] # p /\ s[i] # last
      BY <1>1, <3>1 DEF last
    <3>. QED  BY <2>3, <3>2
  <2>5. IsChain(nx2, Append(s, p), IF h = NULL THEN p ELSE h)
    <3>1. nx2[s[Len(s)]] = p
      BY <2>3 DEF last
    <3>. QED  BY <2>3, <2>4, <3>1, ChainAppend, Zenon
  <2>6. ASSUME NEW q \in Wp, q # p, \A i \in 1 .. Len(s) : s[i] # q
        PROVE  nx2[q] = nx[q]
    <3>1. q # last
      BY <2>1, <2>6 DEF last
    <3>. QED  BY <2>3, <2>6, <3>1
  <2>. QED  BY <2>3, <2>5, <2>6 DEF nx2
<1>. QED  BY <1>2, <1>3

(* new_wp moves the first free node to the end of the list in use.         *)
LEMMA NewSplit ==
  ASSUME NEW nx \in Links, NEW h, NEW f, NEW s \in Seq(Wp), NEW t \in Seq(Wp),
         IsSplit(nx, h, f, s, t), f # NULL
  PROVE  /\ t # <<>> /\ Head(t) = f /\ f \in Wp
         /\ LinkLast(nx, h, f) \in Links
         /\ IsSplit(LinkLast(nx, h, f), IF h = NULL THEN f ELSE h, nx[f],
                    Append(s, f), Tail(t))
<1>. DEFINE nx2 == LinkLast(nx, h, f)
            s2 == Append(s, f)
            t2 == Tail(t)
<1>1. /\ IsChain(nx, s, h)
      /\ IsChain(nx, t, f)
      /\ Len(s) + Len(t) = NR_WP
      /\ \A i, j \in 1 .. Len(s) : s[i] = s[j] => i = j
      /\ \A i, j \in 1 .. Len(t) : t[i] = t[j] => i = j
      /\ \A i \in 1 .. Len(s), j \in 1 .. Len(t) : s[i] # t[j]
  <2>1. Parts(nx, h, f, s, t)
    BY SplitParts
  <2>. QED  BY <2>1 DEF Parts
<1>2. t # <<>> /\ Len(t) >= 1 /\ f = t[1] /\ f \in Wp /\ Head(t) = f
  BY <1>1, ChainEmpty
<1>3. Len(s) \in Nat /\ Len(t) \in Nat /\ Len(s) <= NR_WP
  BY <1>1, ListAssumption
<1>4. \A i \in 1 .. Len(s) : s[i] # f
  BY <1>1, <1>2, <1>3
<1>5. /\ nx2 \in Links
      /\ IsChain(nx2, s2, IF h = NULL THEN f ELSE h)
      /\ \A q \in Wp : q # f /\ (\A i \in 1 .. Len(s) : s[i] # q) => nx2[q] = nx[q]
  <2>1. IsInjective(s)
    BY <1>1 DEF IsInjective
  <2>. QED  BY <1>1, <1>2, <1>3, <1>4, <2>1, LinkLastProperties
<1>6. /\ s2 \in Seq(Wp)
      /\ Len(s2) = Len(s) + 1
      /\ \A i \in 1 .. Len(s) : s2[i] = s[i]
      /\ s2[Len(s) + 1] = f
  BY <1>2, AppendProperties
<1>7. /\ t2 \in Seq(Wp)
      /\ Len(t2) = Len(t) - 1
      /\ \A i \in 1 .. Len(t) - 1 : t2[i] = t[i + 1]
  BY <1>2, HeadTailProperties
<1>8. IsChain(nx, t2, nx[f])
  BY <1>1, <1>2, ChainTail
<1>. HIDE DEF nx2, s2, t2
<1>9. \A i \in 1 .. Len(t2) : /\ i + 1 \in 1 .. Len(t)
                              /\ t2[i] = t[i + 1]
                              /\ t2[i] \in Wp
                              /\ t2[i] # f
  <2>1. ASSUME NEW i \in 1 .. Len(t2)
        PROVE  i + 1 \in 1 .. Len(t) /\ t2[i] = t[i + 1] /\ t2[i] \in Wp /\ t2[i] # f
    <3>1. i + 1 \in 1 .. Len(t) /\ 1 \in 1 .. Len(t) /\ i + 1 # 1 /\ t2[i] = t[i + 1]
      BY <1>2, <1>3, <1>7
    <3>2. t[i + 1] # t[1] /\ t[i + 1] \in Wp
      BY <1>1, <3>1
    <3>. QED  BY <1>2, <3>1, <3>2
  <2>. QED  BY <2>1
<1>10. IsChain(nx2, t2, nx[f])
  <2>1. ASSUME NEW i \in 1 .. Len(t2)  PROVE nx2[t2[i]] = nx[t2[i]]
    <3>1. i + 1 \in 1 .. Len(t) /\ t2[i] = t[i + 1] /\ t2[i] \in Wp /\ t2[i] # f
      BY <1>9
    <3>2. \A k \in 1 .. Len(s) : s[k] # t[i + 1]
      BY <1>1, <3>1
    <3>. QED  BY <1>5, <3>1, <3>2
  <2>. QED  BY <1>7, <1>8, <2>1, ChainFrame
<1>11. Len(s2) + Len(t2) = NR_WP
  BY <1>1, <1>3, <1>6, <1>7
<1>12. s2 \o t2 = s \o t /\ IsInjective(s \o t)
  BY <1>2, AppendTailConcat DEF s2, t2, IsSplit
<1>13. IsSplit(nx2, IF h = NULL THEN f ELSE h, nx[f], s2, t2)
  BY <1>5, <1>10, <1>11, <1>12, Zenon DEF IsSplit
<1>. QED  BY <1>2, <1>5, <1>13 DEF nx2, s2, t2

(* delete_wp and free_wp move node i of the list in use to the end of the  *)
(* free list; nx1 are the links once the node is unlinked.                 *)
LEMMA DeleteSplit ==
  ASSUME NEW nx \in Links, NEW h, NEW f, NEW s \in Seq(Wp), NEW t \in Seq(Wp),
         IsSplit(nx, h, f, s, t), NEW i \in 1 .. Len(s),
         NEW nx1 \in Links,
         nx1 = IF i = 1 THEN nx ELSE [nx EXCEPT ![s[i - 1]] = nx[s[i]]]
  PROVE  /\ LinkLast(nx1, f, s[i]) \in Links
         /\ IsSplit(LinkLast(nx1, f, s[i]),
                    IF i = 1 THEN nx[h] ELSE h, IF f = NULL THEN s[i] ELSE f,
                    RemoveAt(s, i), Append(t, s[i]))
<1>. DEFINE num == s[i]
            nx2 == LinkLast(nx1, f, num)
            r == RemoveAt(s, i)
            t2 == Append(t, num)
<1>1. /\ IsChain(nx, s, h)
      /\ IsChain(nx, t, f)
      /\ Len(s) + Len(t) = NR_WP
      /\ \A a, b \in 1 .. Len(s) : s[a] = s[b] => a = b
      /\ \A a, b \in 1 .. Len(t) : t[a] = t[b] => a = b
      /\ \A a \in 1 .. Len(s), b \in 1 .. Len(t) : s[a] # t[b]
  <2>1. Parts(nx, h, f, s, t)
    BY SplitParts
  <2>. QED  BY <2>1 DEF Parts
<1>2. Len(s) \in Nat /\ Len(t) \in Nat /\ Len(t) <= NR_WP
  BY <1>1, ListAssumption
<1>3. num \in Wp /\ i \in 1 .. Len(s)
  OBVIOUS
<1>4. i # 1 => i - 1 \in 1 .. Len(s) /\ i - 1 # i
  BY <1>2
<1>. HIDE DEF num, nx2
<1>5. \A a \in 1 .. Len(s) : a # i - 1 => nx1[s[a]] = nx[s[a]]
  <2>1. ASSUME NEW a \in 1 .. Len(s), a # i - 1
        PROVE  nx1[s[a]] = nx[s[a]]
    <3>1. i # 1 => s[a] # s[i - 1]
      BY <1>1, <1>4, <2>1
    <3>. QED  BY <3>1 DEF Links
  <2>. QED  BY <2>1
<1>6. i # 1 => nx1[s[i - 1]] = nx[s[i]]
  BY <1>4 DEF Links
<1>7. \A b \in 1 .. Len(t) : nx1[t[b]] = nx[t[b]]
  <2>1. ASSUME NEW b \in 1 .. Len(t)  PROVE nx1[t[b]] = nx[t[b]]
    <3>1. i # 1 => t[b] # s[i - 1]
      BY <1>1, <1>4, <2>1
    <3>. QED  BY <3>1 DEF Links
  <2>. QED  BY <2>1
<1>8. IsChain(nx1, t, f)
  BY <1>1, <1>7, ChainFrame, ZenonT(30)
<1>9. \A b \in 1 .. Len(t) : t[b] # num
  BY <1>1, <1>3 DEF num
<1>10. /\ nx2 \in Links
       /\ IsChain(nx2, t2, IF f = NULL THEN num ELSE f)
       /\ \A q \in Wp : q # num /\ (\A b \in 1 .. Len(t) : t[b] # q) => nx2[q] = nx1[q]
  <2>1. IsInjective(t)
    BY <1>1 DEF IsInjective
  <2>2. /\ LinkLast(nx1, f, num) \in Links
        /\ IsChain(LinkLast(nx1, f, num), Append(t, num), IF f = NULL THEN num ELSE f)
        /\ \A q \in Wp : q # num /\ (\A b \in 1 .. Len(t) : t[b] # q)
                           => LinkLast(nx1, f, num)[q] = nx1[q]
    BY ONLY ListAssumption, nx1 \in Links, t \in Seq(Wp), <1>2, <1>3, <1>8, <1>9, <2>1, LinkLastProperties
  <2>. QED  BY <2>2 DEF nx2
<1>11. \A a \in 1 .. Len(s) : a # i => nx2[s[a]] = nx1[s[a]]
  <2>1. ASSUME NEW a \in 1 .. Len(s), a # i
        PROVE  nx2[s[a]] = nx1[s[a]]
    <3>1. /\ s[a] \in Wp
          /\ s[a] # num
          /\ \A b \in 1 .. Len(t) : t[b] # s[a]
      BY <1>1, <1>3, <2>1 DEF num
    <3>. QED  BY <1>10, <3>1
  <2>. QED  BY <2>1
<1>12. IsChain(nx2, r, IF i = 1 THEN nx[h] ELSE h)
  <2>1. i # 1 => nx2[s[i - 1]] = nx[s[i]]
    BY <1>4, <1>6, <1>11
  <2>2. \A j \in 1 .. Len(s) : j # i /\ j # i - 1 => nx2[s[j]] = nx[s[j]]
    BY <1>5, <1>11
  <2>. QED  BY <1>1, <2>1, <2>2, ChainRemove
<1>13. /\ Len(r) + Len(t2) = NR_WP
       /\ IsInjective(r \o t2)
  <2>1. IsInjective(s \o t)
    BY DEF IsSplit
  <2>. QED  BY <1>1, <2>1, RemoveAppendInjective DEF num
<1>. HIDE DEF r, t2
<1>14. IsSplit(nx2, IF i = 1 THEN nx[h] ELSE h, IF f = NULL THEN num ELSE f, r, t2)
  BY <1>10, <1>12, <1>13, Zenon DEF IsSplit
<1>. QED  BY <1>10, <1>14 DEF nx2, num, r, t2

-----------------------------------------------------------------------------
(* The inductive invariant: the four invariants hold together.             *)

Used == ListOf(next, head)
Free == ListOf(next, free_)

IInv == TypeOK /\ ListsPartition /\ DeathsAtLimits

(* ListsPartition, with the two lists named.                               *)
LEMMA PartitionLists ==
  ASSUME NEW nx, NEW h, NEW f,
         \E s, t \in SeqOf(Wp, NR_WP) : IsSplit(nx, h, f, s, t)
  PROVE  /\ ListOf(nx, h) \in Seq(Wp)
         /\ ListOf(nx, f) \in Seq(Wp)
         /\ IsSplit(nx, h, f, ListOf(nx, h), ListOf(nx, f))
<1>1. PICK s \in SeqOf(Wp, NR_WP), t \in SeqOf(Wp, NR_WP) : IsSplit(nx, h, f, s, t)
  OBVIOUS
<1>2. s \in Seq(Wp) /\ t \in Seq(Wp)
  BY SeqOfWp
<1>3. ListOf(nx, h) = s /\ ListOf(nx, f) = t
  BY <1>1, <1>2, SplitLists
<1>. QED  BY <1>1, <1>2, <1>3

(* And the way back.                                                       *)
LEMMA ListsPartitioned ==
  ASSUME NEW nx, NEW h, NEW f, NEW s \in Seq(Wp), NEW t \in Seq(Wp),
         IsSplit(nx, h, f, s, t)
  PROVE  \E u, v \in SeqOf(Wp, NR_WP) : IsSplit(nx, h, f, u, v)
<1>1. Len(s) + Len(t) = NR_WP
  BY DEF IsSplit
<1>2. s \in SeqOf(Wp, NR_WP) /\ t \in SeqOf(Wp, NR_WP)
  BY <1>1, SeqOfWp, ListAssumption
<1>. QED  BY <1>2

(* The lists of the initial state: nothing in use, 0 .. NR_WP - 1 free.    *)
LEMMA InitSplit ==
  ASSUME Init
  PROVE  LET t == [i \in 1 .. NR_WP |-> i - 1]
         IN  t \in Seq(Wp) /\ IsSplit(next, head, free_, <<>>, t)
<1>. DEFINE t == [i \in 1 .. NR_WP |-> i - 1]
<1>1. NR_WP \in Nat /\ NR_WP >= 1
  BY ListAssumption
<1>2. t \in Seq(Wp) /\ Len(t) = NR_WP /\ \A i \in 1 .. NR_WP : t[i] = i - 1
  <2>1. \A i \in 1 .. NR_WP : i - 1 \in Wp
    BY <1>1 DEF Wp
  <2>. QED  BY <1>1, <2>1, IsASeq
<1>. HIDE DEF t
<1>3. <<>> \in Seq(Wp) /\ Len(<<>>) = 0
  OBVIOUS
<1>4. IsChain(next, <<>>, head)
  BY <1>3 DEF Init, InitLinks, IsChain
<1>5. IsChain(next, t, free_)
  <2>1. t # <<>> /\ t[1] = 0
    BY <1>1, <1>2
  <2>2. ASSUME NEW i \in 1 .. Len(t)
        PROVE  next[t[i]] = IF i = Len(t) THEN NULL ELSE t[i + 1]
    <3>1. i \in 1 .. NR_WP /\ t[i] = i - 1 /\ i - 1 \in Wp
      BY <1>1, <1>2 DEF Wp
    <3>2. next[i - 1] = IF i - 1 = NR_WP - 1 THEN NULL ELSE (i - 1) + 1
      BY <3>1 DEF Init, InitLinks
    <3>3. i # NR_WP => i + 1 \in 1 .. NR_WP /\ t[i + 1] = (i + 1) - 1
      BY <1>1, <1>2, <3>1
    <3>. QED  BY <1>1, <1>2, <3>1, <3>2, <3>3
  <2>. QED  BY <2>1, <2>2 DEF Init, InitLinks, IsChain
<1>6. Parts(next, head, free_, <<>>, t)
  <2>1. Len(<<>>) + Len(t) = NR_WP
    BY <1>1, <1>2, <1>3
  <2>2. \A i, j \in 1 .. Len(t) : t[i] = t[j] => i = j
    BY <1>1, <1>2
  <2>3. \A i \in 1 .. Len(<<>>) : FALSE
    BY <1>3
  <2>. QED  BY <1>4, <1>5, <2>1, <2>2, <2>3 DEF Parts
<1>. QED  BY <1>2, <1>3, <1>6, SplitParts DEF t

(* new_wp on the two lists.                                                *)
LEMMA NewStep ==
  ASSUME TypeOK, ListsPartition,
         NEW e \in Exps, NEW v \in Vals, new_wp(e, v)
  PROVE  /\ TypeOK'
         /\ Free # <<>> /\ free_ = Head(Free) /\ free_ \in Wp
         /\ Append(Used, free_) \in Seq(Wp) /\ Tail(Free) \in Seq(Wp)
         /\ IsSplit(next', head', free_', Append(Used, free_), Tail(Free))
<1>1. /\ Used \in Seq(Wp) /\ Free \in Seq(Wp)
      /\ IsSplit(next, head, free_, Used, Free)
  BY PartitionLists DEF ListsPartition, Used, Free
<1>2. next \in Links /\ free_ # NULL
  BY DEF TypeOK, Links, new_wp
<1>3. /\ Free # <<>> /\ Head(Free) = free_ /\ free_ \in Wp
      /\ next' \in Links
      /\ IsSplit(next', head', free_', Append(Used, free_), Tail(Free))
  BY <1>1, <1>2, NewSplit DEF new_wp
<1>4. Append(Used, free_) \in Seq(Wp) /\ Tail(Free) \in Seq(Wp)
  BY <1>1, <1>3, AppendProperties, HeadTailProperties
<1>5. Stored(e) \in (Exps \ LongExps) \cup {NoExp, Unterminated}
  BY DEF Stored
<1>6. TypeOK'
  BY <1>2, <1>3, <1>5 DEF TypeOK, new_wp, Links
<1>. QED  BY <1>3, <1>4, <1>6

(* delete_wp of a node in use on the two lists.                            *)
LEMMA DeleteStep ==
  ASSUME TypeOK, ListsPartition,
         NEW num \in Wp, delete_wp_head(num) \/ delete_wp_inner(num)
  PROVE  /\ TypeOK'
         /\ \E i \in 1 .. Len(Used) :
              /\ Used[i] = num
              /\ RemoveAt(Used, i) \in Seq(Wp) /\ Append(Free, num) \in Seq(Wp)
              /\ IsSplit(next', head', free_', RemoveAt(Used, i), Append(Free, num))
<1>. DEFINE s == Used
            t == Free
<1>1. /\ s \in Seq(Wp) /\ t \in Seq(Wp)
      /\ IsSplit(next, head, free_, s, t)
  BY PartitionLists DEF ListsPartition, Used, Free
<1>2. next \in Links
  BY DEF TypeOK, Links
<1>3. NULL \notin Wp
  BY ListAssumption DEF Wp
<1>4. IsChain(next, s, head)
  BY <1>1 DEF IsSplit
<1>. HIDE DEF s, t
<1>5. CASE delete_wp_head(num)
  <2>1. head # NULL /\ Len(s) \in Nat /\ Len(s) >= 1 /\ s[1] = num
    BY <1>1, <1>3, <1>4, <1>5, ChainEmpty DEF delete_wp_head
  <2>2. 1 \in 1 .. Len(s)
    BY <2>1
  <2>3. /\ next' = LinkLast(next, free_, s[1])
        /\ head' = next[head]
        /\ free_' = IF free_ = NULL THEN s[1] ELSE free_
    BY <1>5, <2>1 DEF delete_wp_head, free_wp
  <2>4. /\ next' \in Links
        /\ IsSplit(next', head', free_', RemoveAt(s, 1), Append(t, s[1]))
    BY <1>1, <1>2, <2>2, <2>3, DeleteSplit
  <2>5. RemoveAt(s, 1) \in Seq(Wp) /\ Append(t, num) \in Seq(Wp)
    BY <1>1, <2>2, RemoveAtProperties, AppendProperties
  <2>6. TypeOK'
    BY <1>5, <2>1, <2>3, <2>4 DEF TypeOK, delete_wp_head, Links
  <2>. QED  BY <2>1, <2>2, <2>4, <2>5, <2>6 DEF s, t
<1>6. CASE delete_wp_inner(num)
  <2>1. PICK p \in ToSet(s) : /\ next[p] = num
                              /\ free_wp([next EXCEPT ![p] = next[num]], num)
    BY <1>6 DEF delete_wp_inner, s, Used
  <2>2. PICK k \in 1 .. Len(s) : p = s[k]
    BY <1>1, <2>1 DEF ToSet
  <2>3. k # Len(s) /\ s[k + 1] = num
    BY <1>3, <1>4, <2>1, <2>2 DEF IsChain
  <2>. DEFINE i == k + 1
              nx1 == [next EXCEPT ![s[i - 1]] = next[s[i]]]
  <2>4. i \in 1 .. Len(s) /\ i # 1 /\ i - 1 = k
    BY <1>1, <2>2, <2>3
  <2>5. nx1 \in Links /\ nx1 = [next EXCEPT ![p] = next[num]]
    BY <1>1, <1>2, <2>2, <2>3, <2>4 DEF Links
  <2>6. /\ next' = LinkLast(nx1, free_, s[i])
        /\ head' = head
        /\ free_' = IF free_ = NULL THEN s[i] ELSE free_
    BY <1>6, <2>1, <2>3, <2>5 DEF delete_wp_inner, free_wp
  <2>. HIDE DEF i
  <2>7. nx1 = IF i = 1 THEN next ELSE [next EXCEPT ![s[i - 1]] = next[s[i]]]
    BY <2>4
  <2>. HIDE DEF nx1
  <2>8. /\ LinkLast(nx1, free_, s[i]) \in Links
        /\ IsSplit(LinkLast(nx1, free_, s[i]),
                   IF i = 1 THEN next[head] ELSE head, IF free_ = NULL THEN s[i] ELSE free_,
                   RemoveAt(s, i), Append(t, s[i]))
    BY ONLY <1>1, <1>2, <2>4, <2>5, <2>7, DeleteSplit
  <2>9. /\ next' \in Links
        /\ IsSplit(next', head', free_', RemoveAt(s, i), Append(t, s[i]))
    BY <2>4, <2>6, <2>8
  <2>10. s[i] = num
    BY <2>3 DEF i
  <2>11. RemoveAt(s, i) \in Seq(Wp) /\ Append(t, num) \in Seq(Wp)
    BY <1>1, <2>4, RemoveAtProperties, AppendProperties
  <2>12. TypeOK'
    BY <1>6, <2>6, <2>9, <2>10 DEF TypeOK, delete_wp_inner, Links
  <2>. QED  BY <2>4, <2>9, <2>10, <2>11, <2>12 DEF s, t
<1>. QED  BY <1>5, <1>6

-----------------------------------------------------------------------------
(* Invariance.                                                             *)

LEMMA InitInv == Init => IInv
<1>. SUFFICES ASSUME Init  PROVE IInv
  OBVIOUS
<1>1. TypeOK
  <2>1. 0 \in Wp /\ \A p \in Wp : p # NR_WP - 1 => p + 1 \in Wp
    BY ListAssumption DEF Wp
  <2>2. next \in [Wp -> Wp \cup {NULL}]
    BY <2>1 DEF Init, InitLinks
  <2>. QED  BY <2>1, <2>2, ListAssumption, OutcomeAssumption DEF Init, InitLinks, TypeOK
<1>2. ListsPartition
  BY InitSplit, ListsPartitioned, EmptySeq DEF ListsPartition
<1>. QED  BY <1>1, <1>2 DEF IInv, DeathsAtLimits, Init, InitLinks

(* When one of the lists is empty the other one holds every node.          *)
LEMMA EmptyAndFull ==
  ASSUME ListsPartition
  PROVE  /\ free_ = NULL => Len(Used) = NR_WP
         /\ head = NULL => Len(Free) = NR_WP
<1>1. /\ Used \in Seq(Wp) /\ Free \in Seq(Wp)
      /\ IsChain(next, Used, head)
      /\ IsChain(next, Free, free_)
      /\ Len(Used) + Len(Free) = NR_WP
  BY PartitionLists DEF ListsPartition, Used, Free, IsSplit
<1>2. /\ head = NULL => Used = <<>>
      /\ free_ = NULL => Free = <<>>
  BY <1>1, ChainEmpty
<1>. QED  BY <1>1, <1>2, ListAssumption

(* expr() returns a value to new_wp.                                       *)
LEMMA ShownVal ==
  ASSUME NEW reading \in Readings, NEW c \in BOOLEAN
  PROVE  Shown(reading, c).val \in Vals
<1>1. reading.on \in Outcomes /\ reading.off \in Outcomes
  BY OutcomeAssumption
<1>. QED  BY <1>1 DEF Shown, Outcomes

LEMMA NextInv == IInv /\ [Next]_vars => IInv'
<1>. SUFFICES ASSUME IInv, [Next]_vars  PROVE IInv'
  OBVIOUS
<1>. USE DEF IInv
<1>1. ASSUME NEW e \in Exps, NEW v \in Vals, new_wp(e, v), proc = "run"
      PROVE  IInv'
  <2>1. TypeOK' /\ ListsPartition'
    BY <1>1, NewStep, ListsPartitioned DEF ListsPartition
  <2>2. proc' = "run"
    BY <1>1 DEF new_wp
  <2>. QED  BY <2>1, <2>2 DEF DeathsAtLimits
<1>2. ASSUME NEW num \in Wp, delete_wp_head(num) \/ delete_wp_inner(num), proc = "run"
      PROVE  IInv'
  <2>1. TypeOK' /\ ListsPartition'
    BY <1>2, DeleteStep, ListsPartitioned DEF ListsPartition
  <2>2. proc' = "run"
    BY <1>2 DEF delete_wp_head, delete_wp_inner
  <2>. QED  BY <2>1, <2>2 DEF DeathsAtLimits
<1>3. ASSUME NEW how, Die(how), \/ how = "new_wp" /\ free_ = NULL
                                \/ how \in {"delete_wp", "check"} /\ head = NULL
                                \/ how = "expr"
      PROVE  IInv'
  <2>1. TypeOK' /\ ListsPartition'
    BY <1>3 DEF Die, TypeOK, ListsPartition
  <2>2. /\ free_ = NULL => Len(ListOf(next, head)) = NR_WP
        /\ head = NULL => Len(ListOf(next, free_)) = NR_WP
    BY EmptyAndFull DEF Used, Free
  <2>. QED  BY <1>3, <2>1, <2>2 DEF Die, DeathsAtLimits
<1>4. ASSUME NEW cur, NEW c, check(cur, c)
      PROVE  IInv'
  <2>1. UNCHANGED <<head, free_, next, exp, value, proc>> /\ flag' \in BOOLEAN
    BY <1>4 DEF check
  <2>. QED  BY <2>1 DEF TypeOK, ListsPartition, DeathsAtLimits
<1>5. CASE UNCHANGED vars
  BY <1>5 DEF vars, TypeOK, ListsPartition, DeathsAtLimits
<1>6. CASE Next
  <2>1. ASSUME NEW num \in Num, delete_wp(num), proc = "run"  PROVE IInv'
    BY <1>2, <1>5, <2>1 DEF delete_wp, delete_wp_unknown
  <2>2. free_ = NULL /\ Die("new_wp") => IInv'
    BY <1>3
  <2>3. head = NULL /\ (Die("delete_wp") \/ Die("check")) => IInv'
    BY <1>3
  <2>4. Die("expr") => IInv'
    BY <1>3
  <2>5. ASSUME NEW e \in Exps, NEW reading \in Readings, NEW c \in BOOLEAN, proc = "run",
               new_wp(e, Shown(reading, c).val)
        PROVE  IInv'
    BY <1>1, <2>5, ShownVal
  <2>. QED  BY <1>4, <1>6, <2>1, <2>2, <2>3, <2>4, <2>5
            DEF Next, new_wp_full, new_wp_fatal, delete_wp_empty, check_fatal, check_empty
<1>. QED  BY <1>5, <1>6

(* The node array, the list heads and the process state keep their types.  *)
THEOREM TypeCorrect == Spec => []TypeOK
<1>1. IInv => TypeOK
  BY DEF IInv
<1>. QED  BY InitInv, NextInv, <1>1, PTL DEF Spec

(* However many watchpoints are created and deleted, and in whatever       *)
(* order, the lists of watchpoint.c lose no node and share none.           *)
THEOREM PartitionCorrect == Spec => []ListsPartition
<1>1. IInv => ListsPartition
  BY DEF IInv
<1>. QED  BY InitInv, NextInv, <1>1, PTL DEF Spec

(* The panic of new_wp comes only with NR_WP watchpoints set, the NULL     *)
(* dereferences of delete_wp and check only with none.                     *)
THEOREM DeathsCorrect == Spec => []DeathsAtLimits
<1>1. IInv => DeathsAtLimits
  BY DEF IInv
<1>. QED  BY InitInv, NextInv, <1>1, PTL DEF Spec

-----------------------------------------------------------------------------
(* Refinement.                                                             *)

LEMMA InitRefines == Init => Pool!InitPool
<1>. SUFFICES ASSUME Init  PROVE Pool!InitPool
  OBVIOUS
<1>1. ListOf(next, head) = <<>> /\ ListOf(next, free_) = [i \in 1 .. NR_WP |-> i - 1]
  BY InitSplit, SplitLists, EmptySeq
<1>. QED  BY <1>1 DEF Init, InitLinks, Pool!InitPool, Wp, Pool!Wp

LEMMA NextRefines == IInv /\ [Next]_vars => [Pool!NextPool]_(Pool!poolVars)
<1>. SUFFICES ASSUME IInv, [Next]_vars  PROVE [Pool!NextPool]_(Pool!poolVars)
  OBVIOUS
<1>1. /\ Used \in Seq(Wp) /\ Free \in Seq(Wp)
      /\ IsSplit(next, head, free_, Used, Free)
  BY PartitionLists DEF IInv, ListsPartition, Used, Free
<1>2. /\ Wp = Pool!Wp
      /\ \A s, i : Pool!RemoveAt(s, i) = RemoveAt(s, i)
      /\ \A r, c, i : Pool!Seen(r, c, i) = Seen(r, c, i)
  BY DEF Wp, Pool!Wp, RemoveAt, Pool!RemoveAt, Seen, Pool!Seen, Shown, Pool!Shown,
         Readable, Pool!Readable
<1>3. ASSUME NEW e \in Exps, NEW v \in Vals, new_wp(e, v)
      PROVE  Pool!New(e, v)
  <2>1. /\ Free # <<>> /\ free_ = Head(Free)
        /\ Append(Used, free_) \in Seq(Wp) /\ Tail(Free) \in Seq(Wp)
        /\ IsSplit(next', head', free_', Append(Used, free_), Tail(Free))
    BY <1>3, NewStep DEF IInv
  <2>2. ListOf(next', head') = Append(Used, free_) /\ ListOf(next', free_') = Tail(Free)
    BY <2>1, SplitLists
  <2>3. Stored(e) = Pool!Stored(e)
    BY DEF Stored, Pool!Stored
  <2>. QED  BY <1>3, <2>1, <2>2, <2>3 DEF new_wp, Pool!New, Used, Free
<1>4. ASSUME NEW num \in Wp, delete_wp_head(num) \/ delete_wp_inner(num)
      PROVE  Pool!Delete(num)
  <2>1. PICK i \in 1 .. Len(Used) :
           /\ Used[i] = num
           /\ RemoveAt(Used, i) \in Seq(Wp) /\ Append(Free, num) \in Seq(Wp)
           /\ IsSplit(next', head', free_', RemoveAt(Used, i), Append(Free, num))
    BY <1>4, DeleteStep DEF IInv
  <2>2. /\ ListOf(next', head') = RemoveAt(Used, i)
        /\ ListOf(next', free_') = Append(Free, num)
    BY <2>1, SplitLists
  <2>3. UNCHANGED <<exp, value, flag>>
    BY <1>4 DEF delete_wp_head, delete_wp_inner
  <2>4. /\ Used[i] = num
        /\ ListOf(next', head') = RemoveAt(Used, i)
        /\ ListOf(next', free_') = Append(Free, num)
        /\ UNCHANGED <<exp, value, flag>>
    BY <2>1, <2>2, <2>3
  <2>. QED
    <3>1. /\ ListOf(next, head)' = RemoveAt(ListOf(next, head), i)
          /\ ListOf(next, free_)' = Append(ListOf(next, free_), num)
          /\ i \in 1 .. Len(ListOf(next, head)) /\ ListOf(next, head)[i] = num
          /\ UNCHANGED <<exp, value, flag>>
      BY <2>4 DEF Used, Free
    <3>. QED  BY <1>2, <3>1, Zenon DEF Pool!Delete
<1>5. ASSUME NEW cur, NEW c, check(cur, c)
      PROVE  Used # <<>> /\ \E r \in Pool!ReadingsNow(cur) : Pool!Check(r, c)
  <2>. DEFINE m == Len(Used) - 1
  <2>1. /\ IsChain(next, Used, head) /\ Used # <<>>
        /\ Len(Used) \in Nat /\ Len(Used) >= 1
    BY <1>1, <1>5, ChainEmpty DEF check, IsSplit
  <2>2. Visited(Used) = 1 .. m
    <3>1. ASSUME NEW i \in 1 .. Len(Used), i # Len(Used)
          PROVE  next[Used[i]] # NULL
      <4>1. next[Used[i]] = Used[i + 1] /\ i + 1 \in 1 .. Len(Used)
        BY <2>1, <3>1 DEF IsChain
      <4>. QED  BY <1>1, <4>1, ListAssumption DEF Wp
    <3>2. next[Used[Len(Used)]] = NULL
      <4>1. Len(Used) \in 1 .. Len(Used)
        BY <2>1
      <4>. QED  BY <2>1, <4>1 DEF IsChain
    <3>3. DOMAIN Used = 1 .. Len(Used)
      BY <1>1
    <3>4. \A i \in 1 .. Len(Used) : next[Used[i]] # NULL <=> i \in 1 .. m
      BY <2>1, <3>1, <3>2
    <3>5. 1 .. m \subseteq 1 .. Len(Used)
      BY <2>1
    <3>. HIDE DEF m
    <3>. QED  BY <3>3, <3>4, <3>5 DEF Visited
  <2>3. PICK r \in ReadingsOf(Used, cur) :
           flag' = \E i \in DOMAIN r : Seen(r, c, i).val # value[Used[i]]
    BY <1>5 DEF check, Used
  <2>4. /\ r \in [1 .. m -> Readings]
        /\ \A i \in 1 .. m : exp[Used[i]] # Unterminated => r[i] = cur[exp[Used[i]]]
    BY <2>2, <2>3 DEF ReadingsOf
  <2>5. Pool!Compared = 1 .. m
    BY DEF Pool!Compared, Used
  <2>6. r \in Pool!ReadingsNow(cur)
    BY <2>4, <2>5 DEF Pool!ReadingsNow, Used
  <2>7. Pool!Check(r, c)
    <3>1. /\ UNCHANGED <<next, head, free_, exp, value>>
          /\ flag' = \E i \in Pool!Compared : Pool!Seen(r, c, i).val # value[ListOf(next, head)[i]]
      <4>1. DOMAIN r = Pool!Compared
        BY <2>4, <2>5
      <4>. QED  BY <1>2, <1>5, <2>3, <4>1 DEF check, Used
    <3>2. /\ ListOf(next, head)' = ListOf(next, head)
          /\ ListOf(next, free_)' = ListOf(next, free_)
      BY <3>1
    <3>. QED  BY <3>1, <3>2, Zenon DEF Pool!Check
  <2>. QED  BY <2>1, <2>6, <2>7
<1>6. ASSUME NEW how, Die(how)
      PROVE  UNCHANGED Pool!poolVars
  BY <1>6 DEF Die, Pool!poolVars
<1>7. CASE UNCHANGED vars
  BY <1>7 DEF vars, Pool!poolVars
<1>8. CASE Next
  <2>1. ASSUME NEW num \in Num, delete_wp(num)
        PROVE  [Pool!NextPool]_(Pool!poolVars)
    BY <1>2, <1>4, <1>7, <2>1 DEF delete_wp, delete_wp_unknown, Pool!NextPool
  <2>2. ASSUME NEW cur \in [Exps -> Readings], NEW c \in BOOLEAN, check(cur, c)
        PROVE  Pool!NextPool
    <3>1. ListOf(next, head) # <<>> /\ \E r \in Pool!ReadingsNow(cur) : Pool!Check(r, c)
      BY <1>5, <2>2 DEF Used
    <3>. QED  BY <3>1 DEF Pool!NextPool
  <2>3. ASSUME NEW e \in Exps, NEW reading \in Readings, NEW c \in BOOLEAN,
               new_wp(e, Shown(reading, c).val)
        PROVE  Pool!NextPool
    <3>1. PICK v \in Vals : new_wp(e, v)
      BY <2>3, ShownVal
    <3>. QED  BY <1>3, <3>1 DEF Pool!NextPool
  <2>. QED  BY <1>6, <1>8, <2>1, <2>2, <2>3
            DEF Next, new_wp_full, new_wp_fatal, delete_wp_empty, check_fatal, check_empty
<1>. QED  BY <1>7, <1>8

(* The linked lists of watchpoint.c implement the pool of sequences that   *)
(* Monitor works on: every step of the pointer program is a step of the    *)
(* pool or leaves it unchanged.                                            *)
THEOREM Refinement == Spec => PoolSpec
<1>. QED  BY InitInv, NextInv, InitRefines, NextRefines, PTL
          DEF Spec, PoolSpec, Pool!SpecPool

=============================================================================
