-------------------------------- MODULE MCCcTrees -------------------------------
(***************************************************************************)
(* The C compiler on trees, for TLC: the type table of its two phases, the *)
(* dictionary that declarations make, and the nodes that statements make,  *)
(* with what small programs mean.                                          *)
(***************************************************************************)
EXTENDS CTypes, CDict, CStmt, TLC

VARIABLE tree \* the body that the statements are of
-----------------------------------------------------------------------------
(* Types: characters, integers and doubles of one, four and eight bytes.   *)
mtsize == [t \in TTCHAR .. TTDOUBLE |-> <<1, 4, 4, 8>>[t + 1]]
mtalign == [t \in TTCHAR .. TTDOUBLE |-> <<0, 1, 1, 2>>[t + 1]]
mtpoint == mtalign
mcalign == [class \in 0 .. 2 |-> <<1, 4, 8>>[class + 1]]

\* A type has one descriptor, unless it is a structure.
Unique ==
  LET alike(t, u) == Tag(ty, t) = Tag(ty, u)
                     /\ \A i \in 1 .. typnval(Tag(ty, t)) : Word_(ty, t + 2 + i) = Word_(ty, u + 2 + i)
  IN \A t, u \in Known : alike(t, u) /\ Tag(ty, t) \notin {TTSTRUCT, TTDUMMY} => t = u

\* An array has room for its elements.  The members of a structure follow each
\* other at the next place of their alignment, and those of the next structure
\* in an array of them are aligned too.
RoomForMembers(t) ==
  LET ps == MembersAt(ty, Val(ty, t))
      type(i) == Word_(ty, ps[i] + 1)
      begin(i) == Word_(ty, ps[i] + 2)
      end(i) == begin(i) + Size(ty, type(i))
      unit(i) == calign[Align(ty, type(i))]
      units == calign[Align(ty, t)]
  IN /\ \A i \in DOMAIN ps :
          /\ begin(i) % unit(i) = 0 /\ units % unit(i) = 0
          /\ begin(i) <= end(i) /\ end(i) <= Size(ty, t)
          /\ i > 1 => begin(i) \in end(i - 1) .. end(i - 1) + unit(i) - 1
     /\ Size(ty, t) % units = 0
Sized(t) ==
  CASE Tag(ty, t) = TTARRAY ->
         LET e == Val(ty, t) IN
         Size(ty, e) >= 0 /\ Size(ty, t) = Nelem(ty, t) * Size(ty, e) /\ Align(ty, t) = Align(ty, e)
    [] Tag(ty, t) = TTSTRUCT -> RoomForMembers(t)
    [] OTHER -> TRUE

\* A type as a tree, to a depth: what it is, wherever its table is.
RECURSIVE Shape(_, _, _)
Shape(s, t, depth) ==
  LET tag == Tag(s, t)
      ps == MembersAt(s, Val(s, t))
      value == CASE tag = TTDUMMY -> <<Val(s, t)>>
                 [] tag \in {TTPTR, TTFUNC} -> <<Shape(s, Val(s, t), depth - 1)>>
                 [] tag = TTARRAY -> <<Nelem(s, t), Shape(s, Val(s, t), depth - 1)>>
                 [] tag = TTSTRUCT -> [i \in DOMAIN ps |-> <<Word_(s, ps[i]), Word_(s, ps[i] + 2),
                                                           Shape(s, Word_(s, ps[i] + 1), depth - 1)>>]
                 [] OTHER -> <<>>
  IN IF depth = 0 THEN <<>> ELSE <<tag, Size(s, t), Align(s, t)>> \o value

(* The two ends of the table do not cross; types have one descriptor, but  *)
(* for those of which an error was told; sizes and places are right; and   *)
(* the code generator reads the types that the parser has written.         *)
TypesTrue ==
  /\ ty.ctypp <= ty.crecp
  /\ ty.errors \intersect {1005, 2040} = {} => Unique
  /\ ~ty.dead => \A t \in Known : Sized(t)
  /\ theirs.ctypp > TableC =>
       \A t \in Known : LET u == t - TableP + TableC IN
         Shape(ty, t, 4) = Shape(theirs, u, 4) /\ ctype(ty, t) = ctype(theirs, u)
-----------------------------------------------------------------------------
(* Declarations of a few names, that agree and disagree.                   *)
Simple(name) == [kind |-> "basic", name |-> name, fs |-> <<>>]
Structure(name) == [kind |-> "use", name |-> name, fs |-> <<>>]
NewStructure(name, fs) == [kind |-> "define", name |-> name, fs |-> fs]
TypeName(name) == [kind |-> "name", name |-> name, fs |-> <<>>]
Field(name, mods) == [btype |-> Basic_(name), mods |-> mods]
Initial(kind) == [kind |-> kind, name |-> "b"]
Declaration(class, spec, name, mods, init) ==
  [class |-> class, spec |-> spec, ds |-> <<[name |-> name, mods |-> mods, init |-> init]>>]
Ints(n) == [i \in 1 .. n |-> Initial("int")]
mExternals ==
  {Declaration("undef", Simple("int"), "a", <<"1">>, <<>>), Declaration("extern", Simple("int"), "a", <<"2">>, <<>>),
   Declaration("undef", Simple("char"), "a", <<"2", "2">>, Ints(5)),
   Declaration("static", Simple("char"), "b", <<"3">>, Ints(1)),
   Declaration("undef", Simple("int"), "b", <<"ptr">>, <<Initial("idn")>>),
   Declaration("undef", Simple("int"), "f", <<"func">>, <<>>),
   Declaration("undef", Structure("S"), "a", <<"2">>, <<>>),
   Declaration("undef", NewStructure("S", <<Field("char", <<>>), Field("int", <<>>), Field("char", <<"3">>)>>),
               "a", <<"1">>, <<Initial("int"), Initial("idn")>>),
   Declaration("typedef", Simple("char"), "a", <<"ptr">>, <<>>), Declaration("extern", TypeName("a"), "b", <<>>, <<>>)}
mFunctions ==
  {[class |-> "undef", spec |-> Simple("int"), name |-> "f", mods |-> <<"func">>, params |-> ps] :
     ps \in {<<>>, <<"p", "q">>, <<"p", "a", "q">>}}
mFormals ==
  {Declaration("undef", Simple("char"), "p", <<>>, <<>>), Declaration("undef", Simple("double"), "p", <<"2">>, <<>>),
   Declaration("undef", Simple("double"), "q", <<>>, <<>>)}
mLocals ==
  {Declaration("undef", Simple("int"), "x", <<>>, <<>>), Declaration("auto", Simple("char"), "x", <<"3">>, <<>>),
   Declaration("extern", Simple("int"), "b", <<>>, <<>>),
   Declaration("static", Simple("int"), "y", <<>>, Ints(1)),
   Declaration("auto", Structure("S"), "z", <<>>, <<>>)}
BasicTypes == {"char", "int", "double", "float", "undef", "func", "unspec"}
mSize0 == [t \in BasicTypes |-> CASE t = "char" -> 1 [] t \in {"int", "float"} -> 2 [] t = "double" -> 4
                                  [] t = "func" -> -1 [] OTHER -> 0]
mAlign0 == [t \in BasicTypes |-> CASE t \in {"int", "float"} -> 2 [] t = "double" -> 4 [] OTHER -> 1]

Visible == dc.global \o dc.local
EndOf(e) == e.offset + SizeOf(dc, e.dtype)
Clean == dc.errors \subseteq {1006}
Between == dc.at = "external"
Nodes_(op) == {i \in DOMAIN dc.nodes : dc.nodes[i].op = op}

\* Names are entered once.  Automatic variables lie in the frame, above its
\* save area, each aligned and below the next.
NamesOnce == \A i, j \in DOMAIN Visible : Visible[i].name = Visible[j].name => i = j
FrameKept ==
  Clean /\ (\A i \in DOMAIN dc.local : ~IsDummy(dc, dc.local[i].dtype)) =>
    LET autos == {i \in DOMAIN dc.local : dc.local[i].class \in {"auto", "uauto"} /\ dc.local[i].offset # UNDEFINED_} IN
    \A i \in autos : LET e == dc.local[i] IN
      /\ e.offset >= sv_area_sz /\ EndOf(e) <= dc.autoloc /\ e.offset % AlignOf(dc, e.dtype) = 0
      /\ \A j \in autos : i < j => EndOf(e) <= dc.local[j].offset
ParametersApart ==
  dc.at = "block" /\ Clean =>
    \A i, j \in DOMAIN dc.fparms : i < j => EndOf(EntryOf(dc, dc.fparms[i])) <= EntryOf(dc, dc.fparms[j]).offset

\* When a function has ended, what it jumps to is a label of its own or has
\* been told; and it has asked for a frame that all its blocks fit in.
JumpsLand ==
  Between =>
    /\ \A i \in Nodes_("goto") : LET n == dc.nodes[i] IN
         n.class \in {"ulabel", "label"} =>
           n.name \in dc.missing \/ \E j \in Nodes_("label") : dc.nodes[j].name = n.name /\ dc.nodes[j].offset = n.offset
    /\ 2016 \notin dc.errors => \A i, j \in Nodes_("label") : dc.nodes[i].offset = dc.nodes[j].offset => i = j
    /\ \A m \in dc.missing : \E i \in Nodes_("goto") :
         dc.nodes[i].name = m /\ \A j \in Nodes_("label") : j >= i => dc.nodes[j].name # m
    /\ 2016 \notin dc.errors => \A i \in DOMAIN dc.symtab : dc.symtab[i].class \notin {"ulabel", "uauto"}
    /\ Clean => \A i \in Nodes_("prog") : \A j \in DOMAIN dc.nodes : dc.nodes[j].end <= dc.nodes[i].offset

\* A program without errors gives each of its variables room once, and those
\* of other programs none.
StorageOnce ==
  dc.at = "done" /\ Clean =>
    \A i \in DOMAIN dc.global :
      LET e == dc.global[i]
          mine == {k \in DOMAIN dc.mac : dc.mac[k].key = <<"name", e.name>>}
      IN /\ e.class = "extdef" /\ e.dtype.tag # "func" => \E k \in mine : mine = {k} /\ dc.mac[k].size = SizeOf(dc, e.dtype)
         /\ e.class = "extern" => mine = {}

(* The dictionary and the frame of a function hold together.               *)
DictionaryTrue ==
  /\ ~dc.fatal => Len(Visible) <= stsize
  /\ NamesOnce /\ FrameKept /\ ParametersApart /\ JumpsLand /\ StorageOnce
-----------------------------------------------------------------------------
(* Statements: trees of two and three levels, with the jumps that loops,   *)
(* switches and labels are for.                                            *)
Tree(k, e, s) == [k |-> k, e |-> e, s |-> s]
Con(n) == <<"int", n>>
Empty == <<"empty">>
SimpleOnes == {Tree("expression", <<Con(1)>>, <<>>), Tree("break", <<>>, <<>>), Tree("continue", <<>>, <<>>),
               Tree("goto", << <<"lexpression", "L">> >>, <<>>)}
Seconds == {Tree("expression", <<Con(2)>>, <<>>), Tree("continue", <<>>, <<>>), Tree("break", <<>>, <<>>)}
Lasts == {Tree("expression", <<Con(9)>>, <<>>)}
Over(A, B, c) ==
  {Tree("list", <<>>, <<a, b>>) : a \in A, b \in B}
    \union {Tree("if", <<Con(3)>>, <<a>>) : a \in A}
    \union {Tree("ifelse", <<Con(3)>>, <<a, b>>) : a \in A, b \in Lasts}
    \union {Tree("while", <<Con(4)>>, <<a>>) : a \in A}
    \union {Tree("do", <<Con(5)>>, <<a>>) : a \in A}
    \union {Tree("for", <<Empty, y, z>>, <<a>>) : y \in {Con(6), Empty}, z \in {Con(7), Empty}, a \in A}
    \union {Tree("switch", <<Con(8)>>, <<a>>) : a \in A}
    \union {Tree("case", <<Con(c)>>, <<a>>) : a \in A}
    \union {Tree("default", <<>>, <<a>>) : a \in A}
    \union {Tree("label", << <<"lexpression", "L">> >>, <<a>>) : a \in A}
Twos == Over(SimpleOnes, Seconds, 1)
Threes == Over(Twos, Lasts, 0)
Cases ==
  {Tree("list", <<>>, <<Tree("case", <<Con(0)>>, <<a>>), Tree("list", <<>>, <<b, Tree("default", <<>>, <<c>>)>>)>>) :
     a \in SimpleOnes, b \in Twos, c \in Lasts}
In(ks, A) ==
  {Tree(k, CASE k = "while" -> <<Con(4)>> [] k = "switch" -> <<Con(8)>> [] k = "for" -> <<Con(10), Con(6), Con(7)>>
             [] OTHER -> <<Con(5)>>, <<a>>) : k \in ks, a \in A}
Nested(ks, in) == {t \in Threes : t.k \in ks /\ t.s[1].k \in in}
Fours ==
  In({"while", "for"}, Nested({"list", "label", "switch"}, {"switch", "case", "list"}))
    \union In({"switch"}, Nested({"while", "do", "for"}, {"case", "default"}) \union Cases)
Terms_ ==
  {<<"plus", Con(1), <<"identifier", "v">> >>, <<"ptr", <<"identifier", "v">>, 3>>,
   <<"subscript", <<"identifier", "f">>, <<"star", Con(2)>> >>, <<"call", <<"identifier", "f">>, <<"elist", Con(1), Con(2)>> >>,
   <<"call0", <<"identifier", "f">> >>, <<"qmark", Con(1), <<"dot", <<"identifier", "v">>, 3>>, Con(3)>>,
   <<"plus", <<"identifier", "t">>, Con(1)>> }
Returns ==
  {Tree("list", <<>>, <<Tree("expression", <<e>>, <<>>), Tree("return", <<f>>, <<>>)>>) : e \in Terms_, f \in Terms_ \union {Empty}}
mBodies == Twos \union Threes \union Fours \union Returns
mVariables == [v \in {"v", "f", "t"} |-> [dtype |-> "int", class |-> CASE v = "v" -> "uauto" [] v = "f" -> "extern"
                                                                      [] v = "t" -> "typedef", offset |-> 5]]

\* What the nodes of an expression are to be.
RECURSIVE MeantBy(_)
MeantBy(e) ==
  CASE e[1] = "int" -> e
    [] e[1] = "identifier" -> <<"idn", IF e[2] = "f" THEN "extdef" ELSE "auto">>
    [] e[1] = "empty" -> <<"none">>
    [] e[1] = "ptr" -> <<"dot", <<"star", MeantBy(e[2])>>, e[3]>>
    [] e[1] = "dot" -> <<"dot", MeantBy(e[2]), e[3]>>
    [] e[1] = "subscript" -> <<"star", <<"plus", MeantBy(e[2]), MeantBy(e[3])>> >>
    [] e[1] = "call0" -> <<"call", MeantBy(e[2]), <<"none">> >>
    [] e[1] = "qmark" -> <<"qmark", MeantBy(e[2]), <<"colon", MeantBy(e[3]), MeantBy(e[4])>> >>
    [] OTHER -> <<e[1]>> \o [i \in 1 .. Len(e) - 1 |-> MeantBy(e[i + 1])]

(* A body runs by the meaning of its statements: `todo' is what is to be   *)
(* done, the oracle has the values of the conditions, and the trace has    *)
(* the expressions evaluated.  "again" and "out" in todo mark the loops    *)
(* and the switches around.                                                *)
Thing(k, t) == [k |-> k, t |-> t]
Do(t) == Thing("do", t)
\* What is to be done from a label, or a case of this switch, on.
RECURSIVE Found(_, _, _)
Found(t, target, rest) ==
  LET first == Found(t.s[1], target, IF t.k = "list" THEN <<Do(t.s[2])>> \o rest ELSE rest) IN
  CASE t.k = target.k /\ (t.e = <<>> \/ t.e[1][2] = target.e) -> <<Do(t.s[1])>> \o rest
    [] t.k \in {"list", "ifelse"} -> IF first # <<>> THEN first ELSE Found(t.s[2], target, rest)
    [] t.k \in {"while", "for", "do"} -> Found(t.s[1], target, <<Thing("again", t)>> \o rest)
    [] t.k = "switch" /\ target.k = "label" -> Found(t.s[1], target, <<Thing("out", t)>> \o rest)
    [] t.k \in {"if", "case", "default", "label"} /\ ~(t.k = target.k /\ (t.e = <<>> \/ t.e[1][2] = target.e)) -> first
    [] OTHER -> <<>>
RECURSIVE Run(_, _, _, _)
Run(todo, oracle, trace, fuel) ==
  IF fuel = 0 \/ todo = <<>> THEN [trace |-> trace, out |-> todo = <<>>]
  ELSE
  LET rest == Tail(todo)
      t == Head(todo).t
      what == <<Head(todo).k, t.k>>
      Goes_(things) == Run(things, oracle, trace, fuel - 1)
      After(e, things) == Run(things, oracle, IF e = Empty THEN trace ELSE Append(trace, MeantBy(e)), fuel - 1)
      Asks(e, things(_)) ==
        IF oracle = <<>> THEN [trace |-> Append(trace, MeantBy(e)), out |-> FALSE]
        ELSE Run(things(Head(oracle)), Tail(oracle), Append(trace, MeantBy(e)), fuel - 1)
      Around == <<Do(t.s[1]), Thing("again", t)>> \o rest
      Loop(e) == IF e = Empty THEN Goes_(Around) ELSE Asks(e, LAMBDA v : IF v > 0 THEN Around ELSE rest)
      Place_(k, c) == Found(t.s[1], [k |-> k, e |-> c], <<Thing("out", t)>> \o rest)
      Enclosing(ks) == SelectInSeq(rest, LAMBDA x : x.k \in ks)
  IN
  CASE what[1] = "out" -> Goes_(rest)
    [] what \in {<<"again", "while">>, <<"do", "while">>, <<"again", "do">>} -> Loop(t.e[1])
    [] what = <<"do", "do">> -> Goes_(Around)
    [] what = <<"do", "for">> -> After(t.e[1], <<Thing("test", t)>> \o rest)
    [] what = <<"again", "for">> -> After(t.e[3], <<Thing("test", t)>> \o rest)
    [] what = <<"test", "for">> -> Loop(t.e[2])
    [] what = <<"do", "expression">> -> After(t.e[1], rest)
    [] what = <<"do", "return">> -> [trace |-> Append(trace, MeantBy(t.e[1])), out |-> TRUE]
    [] what = <<"do", "list">> -> Goes_(<<Do(t.s[1]), Do(t.s[2])>> \o rest)
    [] what = <<"do", "if">> -> Asks(t.e[1], LAMBDA v : IF v > 0 THEN <<Do(t.s[1])>> \o rest ELSE rest)
    [] what = <<"do", "ifelse">> -> Asks(t.e[1], LAMBDA v : <<Do(t.s[IF v > 0 THEN 1 ELSE 2])>> \o rest)
    [] what = <<"do", "switch">> ->
         Asks(t.e[1], LAMBDA v : CASE Place_("case", v) # <<>> -> Place_("case", v)
                                   [] Place_("case", v) = <<>> /\ Place_("default", 0) # <<>> -> Place_("default", 0)
                                   [] OTHER -> rest)
    [] what[1] = "do" /\ t.k \in {"case", "default", "label"} -> Goes_(<<Do(t.s[1])>> \o rest)
    [] what = <<"do", "goto">> -> Goes_(Found(tree, [k |-> "label", e |-> "L"], <<>>))
    [] what = <<"do", "break">> -> Goes_(SubSeq(rest, Enclosing({"again", "out"}) + 1, Len(rest)))
    [] what = <<"do", "continue">> -> Goes_(SubSeq(rest, Enclosing({"again"}), Len(rest)))

(* The nodes as instructions, and running these.                           *)
NodeAt(loc) == st.nodes[SelectInSeq(st.nodes, LAMBDA n : n.loc = loc)]
RECURSIVE Evaluates(_)
Evaluates(loc) ==
  LET n == NodeAt(loc) IN
  IF loc = NULL THEN <<"none">>
  ELSE CASE n.op = "int" -> <<"int", n.args[1]>>
         [] n.op = "idn" -> <<"idn", n.args[2]>>
         [] n.op = "dot" -> <<"dot", Evaluates(n.args[1]), n.args[2]>>
         [] OTHER -> <<n.op>> \o [i \in DOMAIN n.args |-> Evaluates(n.args[i])]
Instruction(k, a, b) == <<[k |-> k, a |-> a, b |-> b]>>
RECURSIVE Code_(_)
Code_(loc) ==
  LET n == NodeAt(loc)
      one == Code_(n.args[2])
      other == Code_(n.args[3])
  IN IF loc = NULL THEN <<>>
     ELSE CASE n.op = "stmtl" -> Code_(n.args[1]) \o one
            [] n.op = "label" -> Instruction("label", n.args[1], 0) \o one
            [] n.op = "branch" -> Instruction("branch", n.args[1], 0)
            [] n.op = "exprs" -> Instruction("expr", Evaluates(n.args[1]), 0)
            [] n.op = "return" -> Instruction("return", Evaluates(n.args[1]), 0)
            [] n.op = "goto" -> Instruction("branch", NodeAt(NodeAt(n.args[1]).args[1]).args[3], 0)
            [] n.op = "if" -> Instruction("test", Evaluates(n.args[1]), Len(one) + 1) \o one
                              \o Instruction("skip", 0, Len(other)) \o other
            [] n.op = "switch" -> Instruction("switch", Evaluates(n.args[1]), [chain |-> n.args[3], len |-> Len(one)]) \o one
\* The cases of a switch, as pairs of value and label; its default has no value.
RECURSIVE Chain(_)
Chain(loc) ==
  IF loc = NULL THEN <<>>
  ELSE LET n == NodeAt(loc) IN
       <<IF n.op = "case" THEN <<n.args[2], n.args[3]>> ELSE <<UNDEF, n.args[2]>> >> \o Chain(n.args[1])
Labels(c) == {i \in DOMAIN c : c[i].k = "label"}
RECURSIVE Exec(_, _, _, _, _)
Exec(c, pc, oracle, trace, fuel) ==
  IF fuel = 0 \/ pc > Len(c) THEN [trace |-> trace, out |-> pc > Len(c)]
  ELSE
  LET i == c[pc]
      place(l) == CHOOSE p \in Labels(c) : c[p].a = l
      Goes_(p) == Exec(c, p, oracle, trace, fuel - 1)
      Asks(p(_)) == IF oracle = <<>> THEN [trace |-> Append(trace, i.a), out |-> FALSE]
                    ELSE Exec(c, p(Head(oracle)), Tail(oracle), Append(trace, i.a), fuel - 1)
      case(v) == SelectSeq(Chain(i.b.chain), LAMBDA x : x[1] = v)
  IN CASE i.k = "label" -> Goes_(pc + 1)
       [] i.k = "branch" -> Goes_(place(i.a))
       [] i.k = "expr" -> Exec(c, pc + 1, oracle, Append(trace, i.a), fuel - 1)
       [] i.k = "return" -> [trace |-> Append(trace, i.a), out |-> TRUE]
       [] i.k = "test" -> Asks(LAMBDA v : IF v > 0 THEN pc + 1 ELSE pc + 1 + i.b)
       [] i.k = "skip" -> Goes_(pc + 1 + i.b)
       [] i.k = "switch" ->
            Asks(LAMBDA v : CASE case(v) # <<>> -> place(case(v)[1][2])
                              [] case(v) = <<>> /\ case(UNDEF) # <<>> -> place(case(UNDEF)[1][2])
                              [] OTHER -> pc + 1 + i.b.len)

(* Errors are told of jumps and cases that are in no loop or switch and of *)
(* types used as variables, and of those only; a body without errors, once its nodes are made, runs as  *)
(* its statements do, however its conditions come out.                     *)
RECURSIVE Misplaced(_, _, _)
Misplaced(t, loop, switch) ==
  (CASE t.k = "break" /\ ~loop /\ ~switch -> {2002}
     [] t.k = "continue" /\ ~loop -> {2003}
     [] t.k = "case" /\ ~switch -> {2004}
     [] t.k = "default" /\ ~switch -> {2005}
     [] OTHER -> {})
  \union UNION {Misplaced(t.s[i], loop \/ t.k \in {"while", "do", "for"}, switch \/ t.k = "switch") : i \in DOMAIN t.s}
Occurrences(rule) == LET ps == Phrases(tree) IN Cardinality({i \in DOMAIN ps : ps[i].rule = rule})
NamesType == LET ps == Phrases(tree) IN \E i \in DOMAIN ps : ps[i].rule = "identifier" /\ ps[i].arg = "t"
WellFormed == (Occurrences("lexpression") > 0 => Occurrences("label") > 0) /\ Occurrences("default") <= 1
Oracles == {<<0, 0, 1>>, <<0, 1, 0>>, <<1, 0, 1>>, <<1, 1, 0>>}
StatementsTrue ==
  body = <<>> /\ ~st.fatal =>
    /\ ToSet(st.errors) \ {2016} = Misplaced(tree, FALSE, FALSE) \union (IF NamesType THEN {2042} ELSE {})
    /\ st.errors = <<>> /\ WellFormed =>
         LET c == Code_(Last(st.vals)) IN
         /\ Len(st.gstack) = 1 /\ Len(st.vals) = 1
         /\ \A i, j \in Labels(c) : c[i].a = c[j].a => i = j
         /\ \A o \in Oracles :
              LET meaning == Run(<<Do(tree)>>, o, <<>>, 10)
                  made == Exec(c, 1, o, <<>>, 40)
              IN IsPrefix(meaning.trace, made.trace) /\ (meaning.out => made = meaning)
=============================================================================
