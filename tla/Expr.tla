--------------------------------- MODULE Expr ---------------------------------
(***************************************************************************)
(* The expression evaluator of the debugger,                               *)
(* nemu/src/monitor/debug/expr.c: make_token, check_parentheses,           *)
(* find_dominated_op and eval, on the text a user has typed so far.        *)
(*                                                                         *)
(* The text is a sequence of units: an operator, a parenthesis, a run of   *)
(* digits, a hexadecimal number, the name of a register.  Blanks are left  *)
(* out: make_token skips them.  Words are the numbers below 2 * Half.  The *)
(* result of an evaluation is a record: val, ok (what success points to),  *)
(* dead (an assertion of memory.c failed).                                 *)
(*                                                                         *)
(* The callers' success is a bool of one byte; expr.c, which defines bool  *)
(* as int, compares four bytes with 1 before it hands out a register.      *)
(*                                                                         *)
(* What the source computes by recursion or in a loop is a function whose  *)
(* body is an operator of its own, with the function as a parameter.       *)
(***************************************************************************)
EXTENDS Integers, Sequences, FiniteSetsExt

CONSTANTS Half,           \* half the number of words, 2^31 in NEMU
          Decimal,        \* the value of each run of digits
          Hex,            \* the value of each hexadecimal number
          AfterX,         \* what follows the "0x" of a hexadecimal number
          RegValue,       \* what the registers hold that get_gpr knows
          OtherRegisters, \* registers that it does not know
          Mem,            \* guest memory
          Operands,       \* what may be typed as an operand
          BinaryOps,      \* operators that may be typed between operands
          Parens,         \* parentheses that may be typed
          MaxLen,         \* units of a text (bound)
          MaxParens       \* parentheses of a text (bound)

VARIABLES input,      \* the text
          want,       \* an operand is due, if one looks at no parenthesis
          prefix,     \* a `*' has been typed where an operand is due
          parens,     \* parentheses typed
          clean       \* the three bytes behind the caller's success are 0

text == <<input, want, prefix, parens, clean>>

Word == 0 .. 2 * Half - 1

Wrap(n) == n % (2 * Half)

Registers == {"$eax", "$ecx", "$edx", "$ebx"}
Gprs == Registers \cup OtherRegisters

Opening == {"(", "[", "{"}
Matching == [c \in {")", "]", "}"} |-> IF c = ")" THEN "(" ELSE IF c = "]" THEN "[" ELSE "{"]
Parentheses == Opening \cup DOMAIN Matching

(* The binary operators, those that bind weakest first.                    *)
Levels == << {"||"}, {"&&"}, {"==", "!="}, {"+", "-"}, {"*", "/"} >>
Ops == UNION {Levels[i] : i \in 1 .. 5}

Atoms == DOMAIN Decimal \cup DOMAIN Hex \cup Gprs

(* What the greedy rule for registers makes of more than one unit.         *)
Swallowed == "$..."

(* A unit is of one kind, which its first character tells; what is left of *)
(* a hexadecimal number without its "0x" is decimal digits, or no token.   *)
ExprAssumption ==
  /\ Half \in Nat \ {0}
  /\ \A d \in DOMAIN Decimal : Decimal[d] \in Nat
  /\ \A h \in DOMAIN Hex :
       Hex[h] \in Nat /\ AfterX[h] \notin DOMAIN Hex \cup Gprs \cup Ops \cup Parentheses
  /\ RegValue \in [Registers -> Word]
  /\ \A a \in DOMAIN Mem : Mem[a] \in Word
  /\ DOMAIN Decimal \cap (DOMAIN Hex \cup Gprs) = {} /\ DOMAIN Hex \cap Gprs = {}
  /\ Atoms \cap (Ops \cup Parentheses \cup {Swallowed}) = {}
  /\ Operands \subseteq Atoms /\ BinaryOps \subseteq Ops /\ Parens \subseteq Parentheses

ASSUME ExprAssumption

Res(val, ok, dead) == [val |-> val, ok |-> ok, dead |-> dead]
Vaddr_read(r) ==
  IF r.val \in DOMAIN Mem THEN [r EXCEPT !.val = Mem[r.val]] ELSE [r EXCEPT !.val = 0, !.dead = TRUE]

-----------------------------------------------------------------------------
(* make_token.                                                             *)

Token(type, val) == [type |-> type, val |-> val]
Number(n) == Token("num", Wrap(n))

(* The rule for registers, \$[e,a,b,c,d,s].*?[x,p,i,l,h], is greedy: from  *)
(* a register on, it takes everything up to the last x, p, i, l or h.      *)
GprEnd(u, i) == Max({j \in i .. Len(u) : u[j] \in Gprs \cup DOMAIN Hex})

(* The text as the rules cut it.                                           *)
Matched(u) ==
  LET gprs == {i \in DOMAIN u : u[i] \in Gprs}
      first == Min(gprs)
      last == GprEnd(u, first)
      rest == IF u[last] \in DOMAIN Hex THEN <<AfterX[u[last]]>> ELSE <<>>
  IN  IF gprs = {} \/ last = first THEN u
      ELSE SubSeq(u, 1, first - 1) \o <<Swallowed>> \o rest \o SubSeq(u, last + 1, Len(u))

(* A `*' dereferences when it comes first, or after one of these tokens, a *)
(* `*' that multiplies among them.  star tells it of those before.         *)
IsDeref(w, star, i) ==
  /\ w[i] = "*"
  /\ \/ i = 1
     \/ w[i - 1] \in {"(", "+", "-", "/", "==", "!="}
     \/ w[i - 1] = "*" /\ ~ star[i - 1]

Derefs(w) == LET star[i \in 1 .. Len(w)] == IsDeref(w, star, i) IN star

TokenOf(unit, star) ==
  CASE unit \in DOMAIN Decimal -> Number(Decimal[unit])
    [] unit \in DOMAIN Hex -> Number(Hex[unit])
    [] unit \in Gprs \cup {Swallowed} -> Token("gpr", unit)
    [] star -> Token("deref", 0)
    [] OTHER -> Token(unit, 0)

(* ok is FALSE when no rule matches somewhere.                             *)
make_token(u) ==
  LET w == Matched(u)
      star == Derefs(w)
  IN  [ok |-> \A i \in DOMAIN w : w[i] \in Atoms \cup Ops \cup Parentheses \cup {Swallowed},
       toks |-> [i \in 1 .. Len(w) |-> TokenOf(w[i], star[i])]]

-----------------------------------------------------------------------------
(* eval and what it calls, on tokens p .. q of t.                          *)

(* `*success==true' compares four bytes: with something in the last three, *)
(* every register is 0, and the caller's byte stays true.                  *)
HandedOut == [name \in Registers |-> IF clean THEN RegValue[name] ELSE 0]

(* get_gpr and that test.  After a failure every register is 0, too.       *)
get_gpr(name, ok) ==
  IF ok /\ name \in Registers THEN Res(HandedOut[name], TRUE, FALSE) ELSE Res(0, FALSE, FALSE)

(* The loop of check_parentheses after token i, when scan has it after the *)
(* tokens before.  flag is dropped without failing when the first          *)
(* parenthesis is closed before the last; a parenthesis that closes none   *)
(* of its kind makes the evaluation fail.                                  *)
ScanStep(t, p, scan, i) ==
  LET s == scan[i - 1]
  IN  IF i = p - 1 THEN [stack |-> <<>>, flag |-> TRUE, ok |-> TRUE]
      ELSE IF ~ s.flag THEN s
      ELSE IF t[i].type \in Opening THEN
        IF s.stack # <<>> \/ i = p THEN [s EXCEPT !.stack = <<t[i].type>> \o @]
        ELSE [s EXCEPT !.flag = FALSE]
      ELSE IF t[i].type \in DOMAIN Matching THEN
        IF s.stack # <<>> /\ Head(s.stack) = Matching[t[i].type]
        THEN [s EXCEPT !.stack = Tail(@)]
        ELSE [s EXCEPT !.flag = FALSE, !.ok = FALSE]
      ELSE s

Scan(t, p, q) == LET scan[i \in p - 1 .. q] == ScanStep(t, p, scan, i) IN scan

check_parentheses(t, p, q) ==
  LET end == Scan(t, p, q)[q]
  IN  IF t[p].type = "(" /\ t[q].type = ")"
      THEN [yes |-> end.flag /\ end.stack = <<>>, ok |-> end.ok]
      ELSE [yes |-> FALSE, ok |-> TRUE]

Operators == Ops \cup {"deref"}

(* Bug of Priority: `-' binds like `*'.                                    *)
PriorityMinus(op) ==
  IF op = "deref" THEN 5 ELSE IF op = "-" THEN 4 ELSE CHOOSE i \in 0 .. 4 : op \in Levels[i + 1]

Priority(op) == IF op = "deref" THEN 5 ELSE CHOOSE i \in 0 .. 4 : op \in Levels[i + 1]

(* num_left_parentheses when the loop of find_dominated_op is at token i.  *)
OpenAt(t, p, i) ==
  Cardinality({j \in p .. i - 1 : t[j].type = "("})
    - Cardinality({j \in p .. i - 1 : t[j].type = ")"})

(* Bug of find_dominated_op: `<' where `<=' is meant, so the leftmost.     *)
find_dominated_op_left(t, p, q) ==
  LET outer == {i \in p .. q : t[i].type \in Operators /\ OpenAt(t, p, i) = 0}
      lowest == {i \in outer : \A j \in outer : Priority(t[i].type) <= Priority(t[j].type)}
  IN  IF outer = {} THEN p ELSE Min(lowest)

(* The rightmost of the operators of lowest priority outside parentheses;  *)
(* the first token when there is none.                                     *)
find_dominated_op(t, p, q) ==
  LET outer == {i \in p .. q : t[i].type \in Operators /\ OpenAt(t, p, i) = 0}
      lowest == {i \in outer : \A j \in outer : Priority(t[i].type) <= Priority(t[j].type)}
  IN  IF outer = {} THEN p ELSE Max(lowest)

Truth(b) == IF b THEN 1 ELSE 0

(* Bug of Strange: what is no operator is not reported.                    *)
StrangeOk(r) == [r EXCEPT !.val = 0]

(* Division by zero, and a token that is no operator, fail.                *)
Strange(r) == [r EXCEPT !.val = 0, !.ok = FALSE]

(* The switch of eval: both operands have been evaluated.                  *)
Apply(op, a, b) ==
  LET both == [a EXCEPT !.ok = @ /\ b.ok, !.dead = @ \/ b.dead]
      To(n) == [both EXCEPT !.val = n]
  IN  CASE op = "+" -> To(Wrap(a.val + b.val))
        [] op = "-" -> To(Wrap(a.val - b.val))
        [] op = "*" -> To(Wrap(a.val * b.val))
        [] op = "/" /\ b.val # 0 -> To(a.val \div b.val)
        [] op = "==" -> To(Truth(a.val = b.val))
        [] op = "!=" -> To(Truth(a.val # b.val))
        [] op = "&&" -> To(Truth(a.val # 0 /\ b.val # 0))
        [] op = "||" -> To(Truth(a.val # 0 \/ b.val # 0))
        [] OTHER -> Strange(both)

(* A call of eval.  ok is what success points to then: the operands share  *)
(* it, the left one first.                                                 *)
Call(p, q, ok) == [p |-> p, q |-> q, ok |-> ok]
Calls(t) == [p : 1 .. Len(t) + 1, q : 0 .. Len(t), ok : BOOLEAN]

(* eval, with ev for its own calls.  An empty range, and a single token    *)
(* that is no operand, are 0.                                              *)
eval(t, ev, p, q, ok) ==
  LET c == check_parentheses(t, p, q)
      op == find_dominated_op(t, p, q)
      a == ev[Call(p, op - 1, ok /\ c.ok)]
  IN  IF p > q THEN Res(0, ok, FALSE)
      ELSE IF p = q THEN
        IF t[p].type = "num" THEN Res(t[p].val, ok, FALSE)
        ELSE IF t[p].type = "gpr" THEN get_gpr(t[p].val, ok)
        ELSE Res(0, ok, FALSE)
      ELSE IF c.yes THEN ev[Call(p + 1, q - 1, ok)]
      ELSE IF t[op].type = "deref" THEN Vaddr_read(ev[Call(op + 1, q, ok /\ c.ok)])
      ELSE Apply(t[op].type, a, ev[Call(op + 1, q, a.ok)])

Evaluated(t) == LET ev[c \in Calls(t)] == eval(t, ev, c.p, c.q, c.ok) IN ev

expr(u) ==
  LET m == make_token(u)
  IN  IF m.ok THEN Evaluated(m.toks)[Call(1, Len(m.toks), TRUE)] ELSE Res(0, FALSE, FALSE)

-----------------------------------------------------------------------------
(* Typing: operands and operators in turn, and parentheses anywhere.       *)

TextInit ==
  /\ input = <<>> /\ want = TRUE /\ prefix = FALSE /\ parens = 0
  /\ clean \in BOOLEAN

Type(unit) == Len(input) < MaxLen /\ input' = Append(input, unit) /\ UNCHANGED clean

TypeOperand == want /\ want' = FALSE /\ (\E o \in Operands : Type(o)) /\ UNCHANGED <<prefix, parens>>
TypePrefix == want /\ prefix' = TRUE /\ Type("*") /\ UNCHANGED <<want, parens>>
TypeBinary ==
  ~ want /\ want' = TRUE /\ (\E o \in BinaryOps : Type(o)) /\ UNCHANGED <<prefix, parens>>
TypeParen ==
  /\ parens < MaxParens /\ parens' = parens + 1
  /\ \E b \in Parens : Type(b)
  /\ UNCHANGED <<want, prefix>>

TypeNext == TypeOperand \/ TypePrefix \/ TypeBinary \/ TypeParen

TextSpec == TextInit /\ [][TypeNext]_text

-----------------------------------------------------------------------------
(* The language of expressions, by its grammar, with the value of each     *)
(* sentence: `||' binds weakest, then `&&', `==' and `!=', `+' and `-',    *)
(* `*' and `/', all to the left, then the prefix `*'.                      *)

(* Beside the value of expr.c, the value C's int gives it (gen-expr.c),    *)
(* with cok when no operation overflows or divides with a sign or by zero. *)
InInt(n) == n \in -Half .. Half - 1
Leaf(r, c) == [r |-> r, c |-> c, cok |-> InInt(c)]
Joined(op, a, b) ==
  LET c == CASE op = "+" -> a.c + b.c
             [] op = "-" -> a.c - b.c
             [] op = "*" -> a.c * b.c
             [] op = "/" /\ a.c >= 0 /\ b.c > 0 -> a.c \div b.c
             [] OTHER -> Half
  IN  [r |-> Apply(op, a.r, b.r), c |-> c, cok |-> a.cok /\ b.cok /\ InInt(c)]

AtAddress(x) == [x EXCEPT !.r = Vaddr_read(@), !.cok = FALSE]

(* A register counts as what it holds, or as 0 where something stands      *)
(* behind the caller's success.                                            *)
Named(name) ==
  IF name \in Registers THEN Res(IF clean THEN RegValue[name] ELSE 0, TRUE, FALSE)
                        ELSE Res(0, FALSE, FALSE)

(* Units i .. j as operands of operators of a level, 6 for the prefix.     *)
Phrase(i, j, level) == [i |-> i, j |-> j, level |-> level]
Phrases(s) == [i : 1 .. Len(s) + 1, j : 0 .. Len(s), level : 1 .. 6]

(* The values of a phrase, with means for those of the phrases inside:     *)
(* two phrases around an operator of the level,                            *)
Splits(s, means, i, j, level) ==
  UNION {{Joined(s[k], a, b) : a \in means[Phrase(i, k - 1, level)],
                               b \in means[Phrase(k + 1, j, level + 1)]} :
           k \in {k \in i .. j : s[k] \in Levels[level]}}

(* or a prefix, parentheses, an operand.                                   *)
Unary(s, means, i, j) ==
  IF s[i] = "*" THEN {AtAddress(x) : x \in means[Phrase(i + 1, j, 6)]}
  ELSE IF s[i] = "(" /\ s[j] = ")" THEN means[Phrase(i + 1, j - 1, 1)]
  ELSE IF i < j THEN {}
  ELSE IF s[i] \in DOMAIN Decimal THEN {Leaf(Res(Wrap(Decimal[s[i]]), TRUE, FALSE), Decimal[s[i]])}
  ELSE IF s[i] \in DOMAIN Hex THEN {Leaf(Res(Wrap(Hex[s[i]]), TRUE, FALSE), Hex[s[i]])}
  ELSE IF s[i] \in Gprs THEN {Leaf(Named(s[i]), 0)}
  ELSE {}

Means(s, means, i, j, level) ==
  IF i > j THEN {}
  ELSE IF level <= 5 THEN means[Phrase(i, j, level + 1)] \cup Splits(s, means, i, j, level)
  ELSE Unary(s, means, i, j)

Sentence(s) == LET means[x \in Phrases(s)] == Means(s, means, x.i, x.j, x.level) IN means

(* Texts that the lexer is known to misread: a register with another or a  *)
(* hexadecimal number after it, and a prefix `*' after `&&', `||' or       *)
(* another prefix `*'.                                                     *)
PrefixAt(s, i) == s[i] = "*" /\ (i = 1 \/ s[i - 1] \in Ops \cup {"("})
Overrun(s) == \E i \in DOMAIN s : s[i] \in Gprs /\ GprEnd(s, i) # i
Misread(s) ==
  \/ Overrun(s)
  \/ \E i \in 2 .. Len(s) :
       PrefixAt(s, i) /\ (s[i - 1] \in {"&&", "||"} \/ (s[i - 1] = "*" /\ PrefixAt(s, i - 1)))

Meaning == Sentence(input)[Phrase(1, Len(input), 1)]

(* Unless the lexer misreads it, an expression has the value its grammar   *)
(* gives it, whatever the nesting of operators and parentheses, and fails  *)
(* exactly for a division by zero or an unknown register (eval,            *)
(* find_dominated_op, check_parentheses, make_token); its registers count  *)
(* as 0 where expr.c reads something else than 0 behind success.           *)
ValueRight ==
  ~ Misread(input) =>
    \A m \in Meaning : expr(input).ok = m.r.ok /\ (m.r.ok => expr(input) = m.r)

(* A text in which operands and binary operators alternate is refused when *)
(* its parentheses do not make an expression of it, and when the greedy    *)
(* rule takes more than the name of a register (make_token,                *)
(* check_parentheses and the default of eval's switch).  Where a `*' looks *)
(* like a prefix it may not be: eval ignores what is to its left.          *)
BadParensRefused ==
  /\ ~ want /\ ~ prefix /\ \A i \in DOMAIN input : ~ PrefixAt(input, i)
  /\ Meaning = {} \/ Overrun(input)
  => ~ expr(input).ok

(* On what gen-expr generates, expr() agrees with the C program that       *)
(* computes in int, as long as that program overflows nowhere and divides  *)
(* nothing negative.                                                       *)
Generated(s) == \A i \in DOMAIN s : s[i] \in DOMAIN Decimal \cup {"+", "-", "*", "/", "(", ")"}
GenAgrees ==
  Generated(input) =>
    \A m \in Meaning : m.cok => expr(input) = Res(Wrap(m.c), TRUE, FALSE)
=============================================================================
