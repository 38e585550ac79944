---------------------------------- MODULE CStmt ----------------------------------
(***************************************************************************)
(* Statements and expressions in the parser of the C compiler              *)
(* (src/src/c/c22.c, c21.c, c24.c).  A reduction of the grammar calls an   *)
(* action routine, which appends nodes of the tree to a file and has the   *)
(* location of the last as its value; the loops and switches around are on *)
(* a stack, with the internal labels that were taken for them.             *)
(***************************************************************************)
EXTENDS Integers, Sequences, SequencesExt, FiniteSets

CONSTANTS Bodies,     \* of functions: trees of statements [k, e, s], with expressions e, statements s
          Variables,  \* the dictionary's entries of identifiers: [dtype, class, offset]
          GSSIZE      \* entries of the stack of groups

UNDEF == -1
NULL == 0
NoValue == "none"

Binary == {"times", "div", "mod", "plus", "minus", "ls", "rs", "lt", "gt", "le", "ge", "eq", "ne", "band",
           "bxor", "bior", "tv_and", "tv_or", "assign", "comma", "elist", "call", "aplus"}
Unary == {"inca", "deca", "star", "addr", "uminus", "tvnot", "bnot", "incb", "decb", "sizeof"}

VARIABLES body,  \* what is left of the body
          st     \* the parser: its value stack, the nodes, the groups, the labels, the errors

stmtVars == <<body, st>>

Fails_(s, n) == [s EXCEPT !.errors = Append(@, n), !.fatal = @ \/ n >= 4000]

node(s, op, args) ==
  [s EXCEPT !.nodes = Append(@, [loc |-> s.lc_node, op |-> op, args |-> args]),
            !.lc_node = @ + 1 + Len(args), !.val = s.lc_node]

\* The values of the phrases that are reduced, the first first.
Pops(s, n) == SubSeq(s.vals, Len(s.vals) - n + 1, Len(s.vals))
Dropped(s, n) == [s EXCEPT !.vals = SubSeq(@, 1, Len(@) - n)]
GPushed(s) == [s EXCEPT !.vals = Append(@, s.val)]
-----------------------------------------------------------------------------
(* The groups: the bottom of the stack is no group.                        *)
Group(gtype, giln) == [gtype |-> gtype, gchain |-> NULL, giln |-> giln]
gpush(s, gtype, niln) ==
  LET p == [s EXCEPT !.gstack = Append(@, Group(gtype, s.ciln)), !.ciln = @ + niln] IN
  IF Len(p.gstack) > GSSIZE THEN Fails_(p, 4002) ELSE p
Innermost(s, types) ==
  LET is == {i \in 2 .. Len(s.gstack) : s.gstack[i].gtype \in types} IN
  IF is = {} THEN 0 ELSE CHOOSE i \in is : \A j \in is : j <= i
Loops == {"for", "do", "while"}
findswitch(s) == Innermost(s, {"switch"})
GPopped(s) == [s EXCEPT !.gstack = Front(@)]
giln(s) == Last(s.gstack).giln
-----------------------------------------------------------------------------
ailabel(s, iln, stmt) == node(s, "label", <<iln, stmt>>)
abranch(s, iln) == node(s, "branch", <<iln>>)
astmtl(s, stmtl, stmt) == node(s, "stmtl", <<stmtl, stmt>>)
aexprstmt(s, expr) == node(s, "exprs", <<expr>>)
aif(s, test, if_part, else_part) == node(s, "if", <<test, if_part, else_part>>)

awhile(s, expr, stmt) ==
  LET l == giln(s)
      again == abranch(GPopped(s), l + 1)
      both == astmtl(again, stmt, again.val)
      test == aif(both, expr, both.val, NULL)
      loop == ailabel(test, l + 1, test.val)
      end == ailabel(loop, l, NULL)
  IN astmtl(end, loop.val, end.val)

ado(s, stmt, expr) ==
  LET l == giln(s)
      first == ailabel(GPopped(s), l + 2, stmt)
      again == abranch(first, l + 2)
      test == aif(again, expr, again.val, NULL)
      next == ailabel(test, l + 1, test.val)
      end == ailabel(next, l, NULL)
      tail == astmtl(end, next.val, end.val)
  IN astmtl(tail, first.val, tail.val)

\* An expression that is left out has the location 0.
afor(s, e1, e2, e3, stmt) ==
  LET l == giln(s)
      step == IF e3 = NULL THEN [GPopped(s) EXCEPT !.val = NULL] ELSE aexprstmt(GPopped(s), e3)
      next == ailabel(step, l + 1, step.val)
      again == abranch(next, l + 2)
      tail == astmtl(again, next.val, again.val)
      all == astmtl(tail, stmt, tail.val)
      test == IF e2 = NULL THEN all ELSE aif(all, e2, all.val, NULL)
      loop == ailabel(test, l + 2, test.val)
      end == ailabel(loop, l, NULL)
      whole == astmtl(end, loop.val, end.val)
      start == aexprstmt(whole, e1)
  IN IF e1 = NULL THEN whole ELSE astmtl(start, start.val, whole.val)

aswitch(s, expr, stmt) ==
  LET g == Last(s.gstack)
      switch == node(GPopped(s), "switch", <<expr, stmt, g.gchain>>)
      end == ailabel(switch, g.giln, NULL)
  IN astmtl(end, switch.val, end.val)

abreak(s) == IF Len(s.gstack) = 1 THEN [Fails_(s, 2002) EXCEPT !.val = NULL] ELSE abranch(s, giln(s))
\* Mutant: a switch is taken for a loop.
acontinueSwitch(s) ==
  IF Len(s.gstack) = 1 THEN [Fails_(s, 2003) EXCEPT !.val = NULL] ELSE abranch(s, giln(s) + 1)
acontinue(s) ==
  LET g == Innermost(s, Loops) IN
  IF g = 0 THEN [Fails_(s, 2003) EXCEPT !.val = NULL] ELSE abranch(s, s.gstack[g].giln + 1)

\* A case of the innermost switch, whichever loops are between.
Chained(s, g, n, stmt) == ailabel([n EXCEPT !.gstack[g].gchain = n.val, !.ciln = @ + 1], s.ciln, stmt)
acase(s, c, stmt) ==
  LET g == findswitch(s) IN
  IF g = 0 THEN [Fails_(s, 2004) EXCEPT !.val = stmt]
  ELSE Chained(s, g, node(s, "case", <<s.gstack[g].gchain, c, s.ciln>>), stmt)
adefault(s, stmt) ==
  LET g == findswitch(s) IN
  IF g = 0 THEN [Fails_(s, 2005) EXCEPT !.val = stmt]
  ELSE Chained(s, g, node(s, "def", <<s.gstack[g].gchain, s.ciln>>), stmt)

\* Labels of the program, by name: declared by the first use or the definition.
Label(s, name) == SelectInSeq(s.labels, LAMBDA l : l.name = name)
define_(s, name, class) ==
  LET i == Label(s, name) IN
  CASE i = 0 -> [s EXCEPT !.labels = Append(@, [name |-> name, class |-> class, offset |-> s.ciln]), !.ciln = @ + 1]
    [] i # 0 /\ class = "label" /\ s.labels[i].class = "label" -> Fails_(s, 2016)
    [] i # 0 /\ class = "label" /\ s.labels[i].class = "ulabel" -> [s EXCEPT !.labels[i].class = "label"]
    [] OTHER -> s
Offset(s, name) == s.labels[Label(s, name)].offset
alabel_(s, name, stmt) == LET d == define_(s, name, "label") IN ailabel(d, Offset(d, name), stmt)
alidn_(s, name) == LET d == define_(s, name, "ulabel") IN node(d, "idn", <<"int", "label", Offset(d, name)>>)

astar(s, expr) == node(s, "star", <<expr>>)
adot(s, expr, idn) == node(s, "dot", <<expr, idn>>)
aptr(s, expr, idn) == LET e == astar(s, expr) IN adot(e, e.val, idn)
asubscript(s, e1, e2) == LET e == node(s, "plus", <<e1, e2>>) IN astar(e, e.val)
aidn(s, dp) ==
  LET class == CASE dp.class = "ulabel" -> "label" [] dp.class = "extern" -> "extdef"
                 [] dp.class \in {"uauto", "typedef"} -> "auto" [] OTHER -> dp.class
  IN node(IF dp.class = "typedef" THEN Fails_(s, 2042) ELSE s, "idn", <<dp.dtype, class, dp.offset>>)
agoto(s, expr) == LET e == astar(s, expr) IN node(e, "goto", <<e.val>>)
areturn(s, expr) == node(s, "return", <<expr>>)
-----------------------------------------------------------------------------
ainit ==
  [vals |-> <<>>, val |-> NULL, nodes |-> <<>>, lc_node |-> 1, gstack |-> <<Group("none", 0)>>, ciln |-> 0,
   labels |-> <<>>, errors |-> <<>>, fatal |-> FALSE]

\* The reductions of the parser, in its order.  An expression is a sequence, the operator first.
Rule_(rule, arg) == <<[rule |-> rule, arg |-> arg]>>
RECURSIVE Terms(_), Phrases(_)
Terms(e) ==
  CASE e[1] \in {"int", "identifier", "lexpression"} -> Rule_(e[1], e[2])
    [] e[1] \in {"ptr", "dot"} -> Terms(e[2]) \o Rule_(e[1], e[3])
    [] OTHER -> FlattenSeq([i \in 1 .. Len(e) - 1 |-> Terms(e[i + 1])]) \o Rule_(e[1], 0)
Phrases(t) ==
  LET es == FlattenSeq([i \in DOMAIN t.e |-> Terms(t.e[i])])
      ss == FlattenSeq([i \in DOMAIN t.s |-> Phrases(t.s[i])])
  IN CASE t.k \in {"while", "switch", "for"} -> Rule_(t.k, 0) \o es \o ss \o Rule_("end" \o t.k, 0)
       [] t.k = "do" -> Rule_("do", 0) \o ss \o es \o Rule_("enddo", 0)
       [] t.k \in {"case", "label"} -> ss \o Rule_(t.k, t.e[1][2])
       [] OTHER -> es \o ss \o Rule_(t.k, 0)

StmtInit == body \in {Phrases(t) : t \in Bodies} /\ st = ainit

Rule(names) == ~st.fatal /\ body # <<>> /\ Head(body).rule \in names
Arg == Head(body).arg
ReducesBy(s) == st' = s /\ body' = Tail(body)
\* A reduction of n phrases, to the value that the action leaves.
V(n) == Pops(st, n)
To(n, s) == ReducesBy(GPushed(Dropped(s, n)))

Expression ==
  \/ Rule({"int", "float", "string"}) /\ To(0, node(st, Head(body).rule, <<Arg>>))
  \/ Rule({"identifier"}) /\ To(0, aidn(st, Variables[Arg]))
  \/ Rule(Binary) /\ To(2, node(st, Head(body).rule, V(2)))
  \/ Rule(Unary) /\ To(1, node(st, Head(body).rule, V(1)))
  \/ Rule({"qmark"}) /\ LET c == node(st, "colon", <<V(3)[2], V(3)[3]>>) IN To(3, node(c, "qmark", <<V(3)[1], c.val>>))
  \/ Rule({"subscript"}) /\ To(2, asubscript(st, V(2)[1], V(2)[2]))
  \/ Rule({"call0"}) /\ To(1, node(st, "call", <<V(1)[1], NULL>>))
  \/ Rule({"dot"}) /\ To(1, adot(st, V(1)[1], Arg))
  \/ Rule({"ptr"}) /\ To(1, aptr(st, V(1)[1], Arg))
  \/ Rule({"lexpression"}) /\ To(0, alidn_(st, Arg))
  \/ Rule({"empty"}) /\ To(0, [st EXCEPT !.val = NULL])

\* WHILE, DO, FOR and SWITCH, before what belongs to them.
Begins ==
  \/ Rule({"while", "switch"}) /\ ReducesBy(gpush(st, Head(body).rule, IF Head(body).rule = "while" THEN 2 ELSE 1))
  \/ Rule({"do", "for"}) /\ ReducesBy(gpush(st, Head(body).rule, 3))

Ends ==
  \/ Rule({"endwhile"}) /\ To(2, awhile(st, V(2)[1], V(2)[2]))
  \/ Rule({"enddo"}) /\ To(2, ado(st, V(2)[1], V(2)[2]))
  \/ Rule({"endfor"}) /\ To(4, afor(st, V(4)[1], V(4)[2], V(4)[3], V(4)[4]))
  \/ Rule({"endswitch"}) /\ To(2, aswitch(st, V(2)[1], V(2)[2]))

Statement ==
  \/ Rule({"list"}) /\ To(2, astmtl(st, V(2)[1], V(2)[2]))
  \/ Rule({"expression"}) /\ To(1, aexprstmt(st, V(1)[1]))
  \/ Rule({"if"}) /\ To(2, aif(st, V(2)[1], V(2)[2], NULL))
  \/ Rule({"ifelse"}) /\ To(3, aif(st, V(3)[1], V(3)[2], V(3)[3]))
  \/ Rule({"case"}) /\ To(1, acase(st, Arg, V(1)[1]))
  \/ Rule({"default"}) /\ To(1, adefault(st, V(1)[1]))
  \/ Rule({"break"}) /\ To(0, abreak(st))
  \/ Rule({"continue"}) /\ To(0, acontinue(st))
  \/ Rule({"return"}) /\ To(1, areturn(st, V(1)[1]))
  \/ Rule({"goto"}) /\ To(1, agoto(st, V(1)[1]))
  \/ Rule({"label"}) /\ To(1, alabel_(st, Arg, V(1)[1]))
  \/ Rule({"null"}) /\ To(0, [st EXCEPT !.val = NULL])

StmtNext == Expression \/ Begins \/ Ends \/ Statement
StmtSpec == StmtInit /\ [][StmtNext]_stmtVars
=============================================================================
