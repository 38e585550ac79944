-------------------------------- MODULE RExpr --------------------------------
(***************************************************************************)
(* The numbers that R reads (src/src/r/rexpr.c, rin.c): expressions, and   *)
(* the arguments of requests, which may be missing, relative or in units.  *)
(* A text is a sequence of characters that ends with "nl"; a number is a   *)
(* fraction <<n, d>>, and one divided by zero is <<n, 0>>.                 *)
(***************************************************************************)
EXTENDS Integers, Sequences, FiniteSets

CONSTANTS Operands,             \* operands, as sequences of characters
          Operators,            \* operators, likewise
          FewOperands,          \* operands of the longer expressions
          SecondArgs,           \* second arguments of requests
          Units,                \* of an argument: "" for none
          NumberRegisters,      \* the values of number registers: a letter to an integer
          char_width, nhui      \* horizontal units in a character and in an inch

VARIABLES expr,         \* the operands and operators of an expression
          arg,          \* the arguments of a request: see ArgsRead
          exprDone      \* both have been read

Num(n) == <<n, 1>>
Truth(b) == Num(IF b THEN 1 ELSE 0)
Abs(x) == IF x < 0 THEN -x ELSE x
Sign(x) == IF x < 0 THEN -1 ELSE IF x = 0 THEN 0 ELSE 1
Frac(n, d) == IF d < 0 THEN <<-n, -d>> ELSE <<n, d>>
Plus(a, b) == <<a[1] * b[2] + b[1] * a[2], a[2] * b[2]>>
Neg(a) == <<-a[1], a[2]>>
Times(a, b) == <<a[1] * b[1], a[2] * b[2]>>
(* The conversion to an integer, which round leaves to the compiler: it    *)
(* takes the nearest, of two the one nearer zero.                          *)
Round(a) == IF a[2] = 0 THEN 0 ELSE Sign(a[1]) * ((2 * Abs(a[1]) + a[2] - 1) \div (2 * a[2]))
(* fcomp: no two of the numbers here differ by less than a part in 10000.  *)
fcomp(a, b) == Sign(a[1] * b[2] - b[1] * a[2])

Prec ==
  [op \in {"+", "-", "*", "/", "&", "|", "==", "~=", "<", "<=", ">", ">=", "%"} |->
     CASE op = "|" -> 1 [] op = "&" -> 2 [] op \in {"==", "~="} -> 3 [] op \in {"<", "<=", ">", ">="} -> 4
       [] op \in {"+", "-"} -> 5 [] OTHER -> 6]
Remainder(x, y) == IF y = 0 THEN <<0, 0>> ELSE Num(Sign(x) * (Abs(x) % Abs(y)))
Apply(op, a, b) ==
  CASE op = "|" -> Truth(fcomp(a, Num(0)) # 0 \/ fcomp(b, Num(0)) # 0)
    [] op = "&" -> Truth(fcomp(a, Num(0)) # 0 /\ fcomp(b, Num(0)) # 0)
    [] op = "==" -> Truth(fcomp(a, b) = 0)
    [] op = "~=" -> Truth(fcomp(a, b) # 0)
    [] op = "<" -> Truth(fcomp(a, b) < 0)
    [] op = "<=" -> Truth(fcomp(a, b) <= 0)
    [] op = ">" -> Truth(fcomp(a, b) > 0)
    [] op = ">=" -> Truth(fcomp(a, b) >= 0)
    [] op = "+" -> Plus(a, b)
    [] op = "-" -> Plus(a, Neg(b))
    [] op = "*" -> Times(a, b)
    [] op = "/" -> Frac(a[1] * b[2], a[2] * b[1])
    [] op = "%" -> Remainder(Round(a), Round(b))

(* getop: the operator the text begins with, or "end"; what is no operator *)
(* is put back.  opctab has ^ too, which pushop cannot put back (opstab    *)
(* ends before it): ^ is not in the texts here.                            *)
Single == {"+", "-", "*", "/", "&", "|", "%"}
Got(op, s) == [op |-> op, rest |-> s]
getop(s) ==
  IF Head(s) \in Single THEN Got(Head(s), Tail(s))
  ELSE IF Head(s) \in {"~", "=", "<", ">"}
  THEN IF s[2] = "=" THEN Got((CASE Head(s) = "~" -> "~=" [] Head(s) = "=" -> "=="
                                 [] Head(s) = "<" -> "<=" [] Head(s) = ">" -> ">="), Tail(Tail(s)))
       ELSE IF Head(s) \in {"<", ">"} THEN Got(Head(s), Tail(s)) ELSE Got("end", s)
  ELSE Got("end", s)
Spelling(op) == CASE op = "==" -> <<"=", "=">> [] op = "~=" -> <<"~", "=">> [] op = "<=" -> <<"<", "=">>
                  [] op = ">=" -> <<">", "=">> [] OTHER -> <<op>>
pushop(op, s) == Spelling(op) \o s

Digits == [c \in {"0", "1", "2", "3", "5"} |->
             CASE c = "0" -> 0 [] c = "1" -> 1 [] c = "2" -> 2 [] c = "3" -> 3 [] c = "5" -> 5]
IsDigit(c) == c \in DOMAIN Digits
Count(s) == Cardinality({k \in DOMAIN s : \A i \in 1 .. k : IsDigit(s[i])})
Drop(s, n) == SubSeq(s, n + 1, Len(s))
Whole(s, n) ==
  LET val[i \in 0 .. n] == IF i = 0 THEN 0 ELSE val[i - 1] * 10 + Digits[s[i]] IN val[n]
Read(val, s) == [val |-> val, rest |-> s]
Decimals(val, s, n) == Read(Plus(Num(val), <<Whole(s, n), 10 ^ n>>), Drop(s, n))
Number(s, n) ==
  IF s[n + 1] # "." THEN Read(Num(Whole(s, n)), Drop(s, n))
  ELSE Decimals(Whole(s, n), Drop(s, n + 1), Count(Drop(s, n + 1)))

Binds(op, lprec) == Prec[op] > lprec

(* gete1 reads operands while their operators bind more than the one on    *)
(* the left; getp reads an operand.                                        *)
RECURSIVE gete1(_, _), Continues(_, _, _), getp(_)
Continues(val, g, lprec) ==
  IF g.op = "end" THEN Read(val, g.rest)
  ELSE IF ~Binds(g.op, lprec) THEN Read(val, pushop(g.op, g.rest))
  ELSE LET With(r) == Continues(Apply(g.op, val, r.val), getop(r.rest), lprec) IN With(gete1(g.rest, Prec[g.op]))
gete1(s, lprec) == LET After(p) == Continues(p.val, getop(p.rest), lprec) IN After(getp(s))
getp(s) ==
  LET c == Head(s)
      Negated(p) == Read(Neg(p.val), p.rest)
      Not(p) == Read(Truth(fcomp(p.val, Num(0)) = 0), p.rest)
      Closed(p) == IF Head(p.rest) = ")" THEN Read(p.val, Tail(p.rest)) ELSE p IN
  CASE c = "+" -> getp(Tail(s))
    [] c = "-" -> Negated(getp(Tail(s)))
    [] c = "~" -> Not(getp(Tail(s)))
    [] c = "(" -> Closed(gete1(Tail(s), 0))
    [] IsDigit(c) \/ c = "." -> Number(s, Count(s))
    [] c \in DOMAIN NumberRegisters -> Read(Num(NumberRegisters[c]), IF s[2] = "!" THEN Drop(s, 2) ELSE Tail(s))
    [] OTHER -> Read(Num(0), s)
gete(s) == gete1(s, 0)
-----------------------------------------------------------------------------
(* The arguments: blanks are skipped, a sign makes a value relative to     *)
(* base, a unit scales it, and a blank after it is eaten.                  *)
SkipBlanks(s) ==
  LET n == CHOOSE n \in DOMAIN s : s[n] # " " /\ \A i \in 1 .. n - 1 : s[i] = " " IN Drop(s, n - 1)
check_prefix(s) ==
  IF Head(s) \in {"+", "-"} THEN [f |-> IF Head(s) = "+" THEN 1 ELSE -1, rest |-> Tail(s)]
  ELSE [f |-> IF Head(s) = "nl" THEN 2 ELSE 0, rest |-> s]
SkipArg(s) ==
  LET n == CHOOSE n \in DOMAIN s : s[n] \in {" ", "nl"} /\ \A i \in 1 .. n - 1 : s[i] \notin {" ", "nl"}
  IN Drop(s, n - 1)
Ended(s) == IF Head(SkipArg(s)) = " " THEN Tail(SkipArg(s)) ELSE SkipArg(s)
check_next(s, units) ==
  IF Head(s) \in units THEN [unit |-> Head(s), rest |-> Ended(Tail(s))] ELSE [unit |-> "", rest |-> Ended(s)]

Scaled(val, unit) ==
  CASE unit = "i" -> Times(val, Num(nhui)) [] unit = "m" -> Times(val, <<nhui, 1000>>)
    [] unit = "c" -> Times(val, <<nhui * 50, 127>>) [] unit = "" -> Times(val, Num(char_width))

Relative(f, val, base) == IF f > 0 THEN Plus(Num(base), val) ELSE IF f < 0 THEN Plus(Num(base), Neg(val)) ELSE val
Positive(n, allow_neg) == IF n < 0 /\ ~allow_neg THEN 0 ELSE n

HuFrom(p, g, n, base, allow_neg) ==
  [val |-> Positive(Round(Relative(p.f, Scaled(g.val, n.unit), base)), allow_neg), rest |-> n.rest]
get_hu(s, def, base, allow_neg) ==
  LET Rest(p) == LET Unit(g) == HuFrom(p, g, check_next(g.rest, {"i", "m", "c"}), base, allow_neg)
                 IN IF p.f = 2 THEN [val |-> def, rest |-> p.rest] ELSE Unit(gete(p.rest))
  IN Rest(check_prefix(SkipBlanks(s)))
get_int(s, def, base) ==
  LET Rest(p) ==
        LET Value(g) == [val |-> Round(Relative(p.f, g.val, base)), rest |-> Ended(g.rest)]
        IN IF p.f = 2 THEN [val |-> def, rest |-> p.rest] ELSE Value(gete(p.rest))
  IN Rest(check_prefix(SkipBlanks(s)))
get_fixed(s, def, base) ==
  LET Rest(p) ==
        LET Value(g) == [val |-> Round(Relative(p.f, Times(g.val, Num(100)), base)), rest |-> Ended(g.rest)]
        IN IF p.f = 2 THEN [val |-> def, rest |-> p.rest] ELSE Value(gete(p.rest))
  IN Rest(check_prefix(SkipBlanks(s)))
-----------------------------------------------------------------------------
(* The texts.                                                              *)
RECURSIVE Flat(_, _), ValueOf(_, _)
Flat(as, ops) == IF Len(as) = 1 THEN as[1] ELSE as[1] \o ops[1] \o Flat(Tail(as), Tail(ops))
NamedAs(op) == IF Len(op) = 2 THEN op[1] \o op[2] ELSE op[1]

Prefixes == {<<>>, <<"+">>, <<"-">>}
ExprInit ==
  /\ \/ \E a, b, c \in Operands, o, p \in Operators : expr = [as |-> <<a, b, c>>, ops |-> <<o, p>>]
     \/ \E a, b, c, d \in FewOperands, o, p, q \in Operators : expr = [as |-> <<a, b, c, d>>, ops |-> <<o, p, q>>]
  /\ arg = <<>> /\ exprDone = FALSE
Give ==
  /\ ~exprDone /\ exprDone' = TRUE /\ expr.ops[1] = expr.ops[2]
  /\ \E p, q \in Prefixes, a \in SecondArgs, u, v \in Units :
       arg' = << [p |-> p, s |-> Flat(expr.as, expr.ops), u |-> u], [p |-> q, s |-> a, u |-> v] >>
  /\ UNCHANGED expr

(* A text of operands and operators has the value that its operators give  *)
(* it, the ones that bind least last, and those alike from left to right.  *)
ValueOf(as, ops) ==
  IF ops = <<>> THEN getp(as[1] \o <<"nl">>).val
  ELSE LET p(i) == Prec[NamedAs(ops[i])]
           k == CHOOSE k \in DOMAIN ops :
                  /\ \A i \in DOMAIN ops : p(i) >= p(k)
                  /\ \A i \in k + 1 .. Len(ops) : p(i) > p(k)
       IN Apply(NamedAs(ops[k]), ValueOf(SubSeq(as, 1, k), SubSeq(ops, 1, k - 1)),
                ValueOf(Drop(as, k), Drop(ops, k)))
ExpressionsRead ==
  gete(Flat(expr.as, expr.ops) \o <<"nl">>) = Read(ValueOf(expr.as, expr.ops), <<"nl">>)

(* The arguments of a request are read one after the other, each with its  *)
(* own sign and unit, and those that are missing have their defaults.      *)
Line(as) == as[1].p \o as[1].s \o as[1].u \o <<" ", " ">> \o as[2].p \o as[2].s \o as[2].u \o <<"nl">>
With(p, v, base) ==
  Round(CASE p = <<>> -> v [] p = <<"+">> -> Plus(v, Num(base)) [] p = <<"-">> -> Plus(Num(base), Neg(v)))
Alone(a) == gete(a.s \o <<"nl">>).val
Meant(a, base) == Positive(With(a.p, Scaled(Alone(a), IF a.u = <<>> THEN "" ELSE a.u[1]), base), FALSE)
ArgsRead ==
  (exprDone /\ Alone(arg[1])[2] # 0 /\ (arg[1].p # <<>> \/ Head(arg[1].s) # "-")) =>
    LET one == get_hu(Line(arg), 77, 20, FALSE)
        two == get_hu(one.rest, 78, 30, FALSE)
        three == get_hu(two.rest, 79, 40, FALSE)
        int == get_int(Line(arg), 77, 20)
        fixed == get_fixed(int.rest, 78, 30)
    IN /\ <<one.val, two.val, three.val>> = <<Meant(arg[1], 20), Meant(arg[2], 30), 79>>
       /\ int.val = With(arg[1].p, Alone(arg[1]), 20)
       /\ fixed.val = With(arg[2].p, Times(Num(100), Alone(arg[2])), 30)
NumbersRead == ExpressionsRead /\ ArgsRead
=============================================================================
