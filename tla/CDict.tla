---------------------------------- MODULE CDict ----------------------------------
(***************************************************************************)
(* Declarations in the parser of the C compiler (src/src/c/c23.c): the     *)
(* dictionary, the offsets in the stack frame, and the storage of the      *)
(* variables on the macro file.  The dictionary is one array: the global   *)
(* definitions grow from its beginning, those of the function from its end.*)
(* A phrase of the grammar, with the reductions in it, is a step.          *)
(***************************************************************************)
EXTENDS Integers, Sequences, SequencesExt, FiniteSets

CONSTANTS Externals, Functions, Formals_, Locals_, \* the declarations that programs make
          Uses, Labels_,        \* the names that statements use, and jump to
          Size0, Align0,        \* of the basic types
          stsize, sv_area_sz, MAXDIMS, MaxMods,
          MaxExternals, MaxPhrases  \* in a program, outside of functions and in all

UNDEFINED_ == -1
Basic_(tag) == [tag |-> tag]
TINT == Basic_("int")
TUNDEF == Basic_("undef")
TUNSPEC == Basic_("unspec")

VARIABLE dc  \* the dictionary, the block, the frame, the macro file, the errors

Err(s, n) == [s EXCEPT !.errors = @ \union {n}, !.fatal = @ \/ n >= 4000]
-----------------------------------------------------------------------------
(* Types: a structure is known by its number, and has a size when it is    *)
(* defined.                                                                *)
IsDummy(s, t) == t.tag = "struct" /\ s.structs[t.id].size = UNDEFINED_
RECURSIVE SizeOf(_, _), AlignOf(_, _), remarr_(_)
SizeOf(s, t) == CASE t.tag = "ptr" -> Size0["int"]
                  [] t.tag = "array" -> t.n * SizeOf(s, t.of)
                  [] t.tag = "struct" -> s.structs[t.id].size
                  [] OTHER -> Size0[t.tag]
AlignOf(s, t) == CASE t.tag = "ptr" -> Align0["int"]
                   [] t.tag = "array" -> AlignOf(s, t.of)
                   [] t.tag = "struct" -> s.structs[t.id].align
                   [] OTHER -> Align0[t.tag]
remarr_(t) == IF t.tag = "array" THEN remarr_(t.of) ELSE t
Aligned(n, a) == IF n % a = 0 THEN n ELSE (n + a) - (n % a)

\* What has no size cannot be an element or a member.
Fixed(s, t) == CASE t.tag = "func" -> [s |-> Err(s, 1005), t |-> [tag |-> "ptr", of |-> t]]
                 [] t.tag # "func" /\ IsDummy(s, t) -> [s |-> Err(s, 2040), t |-> [tag |-> "ptr", of |-> t]]
                 [] OTHER -> [s |-> s, t |-> t]
mkptr(s, t) == [s |-> s, t |-> [tag |-> "ptr", of |-> t]]
mkarray(s, t, n) == LET e == Fixed(s, t) IN [s |-> e.s, t |-> [tag |-> "array", of |-> e.t, n |-> n]]
mkfunc_(s, t) ==
  CASE t.tag \in {"func", "array", "struct"} ->
         [s |-> Err(s, 1004), t |-> [tag |-> "func", of |-> [tag |-> "ptr", of |-> t]]]
    [] t.tag = "char" -> [s |-> s, t |-> [tag |-> "func", of |-> TINT]]
    [] t.tag = "float" -> [s |-> s, t |-> [tag |-> "func", of |-> Basic_("double")]]
    [] OTHER -> [s |-> s, t |-> [tag |-> "func", of |-> t]]
TFINT == [tag |-> "func", of |-> TINT]

\* The modifiers of a declarator, the innermost first: "ptr", "func", or the dimension of an array.
IsDim(m) == m \notin {"ptr", "func"}
adclr(s, mods) ==
  LET dims == SelectSeq(mods, IsDim)
      d == IF \E i \in DOMAIN dims : i <= MAXDIMS /\ dims[i] = "0" THEN Err(s, 1031) ELSE s
  IN IF Len(dims) > MAXDIMS THEN [s |-> Err(d, 2015), mods |-> <<"bad">>] ELSE [s |-> d, mods |-> mods]
Dimension(m) == CASE m = "0" -> 1 [] m = "1" -> 1 [] m = "2" -> 2 [] OTHER -> 3
maktyp(s, btype, mods) ==
  LET Of(r, m) == CASE m = "ptr" -> mkptr(r.s, r.t)
                    [] m = "func" -> mkfunc_(r.s, r.t)
                    [] OTHER -> mkarray(r.s, r.t, Dimension(m))
  IN CASE mods = <<"bad">> -> [s |-> s, t |-> TUNDEF]
       [] Len(mods) > MaxMods -> [s |-> Err(s, 2014), t |-> TUNDEF]
       [] OTHER -> FoldLeft(Of, [s |-> s, t |-> btype], Reverse(mods))
Declared(s, btype, mods) == LET d == adclr(s, mods) IN maktyp(d.s, btype, d.mods)
-----------------------------------------------------------------------------
(* The dictionary: an entry is known by its part and its place from the    *)
(* end of the array that the part begins at.                               *)
EntryOf(s, dp) == IF dp.part = "global" THEN s.global[dp.n] ELSE s.local[dp.n]
Set(s, dp, e) == IF dp.part = "global" THEN [s EXCEPT !.global[dp.n] = e] ELSE [s EXCEPT !.local[dp.n] = e]
NoEntry == [part |-> "none", n |-> 0]
find(s, name) ==
  LET l == SelectLastInSeq(s.local, LAMBDA e : e.name = name)
      g == SelectLastInSeq(s.global, LAMBDA e : e.name = name)
  IN CASE l # 0 -> [part |-> "local", n |-> l]
       [] l = 0 /\ g # 0 -> [part |-> "global", n |-> g]
       [] OTHER -> NoEntry

dmerge(s, dp, xclass, dtype) ==
  LET e == EntryOf(s, dp)
      completes == <<xclass, e.class>> \in {<<"extdef", "extern">>, <<"label", "ulabel">>}
      c == IF completes THEN xclass ELSE e.class
      x == IF completes THEN e.class ELSE xclass
      t == IF completes THEN dtype ELSE e.dtype
      u == IF completes THEN e.dtype ELSE dtype
      new == IF completes THEN Set(s, dp, [e EXCEPT !.class = xclass, !.dtype = dtype]) ELSE s
      agrees == \/ u = TUNSPEC \/ t = u
                \/ t.tag = "array" /\ u.tag = "array" /\ t.of = u.of
      good == <<x, c>> \in {<<"extern", "extdef">>, <<"extern", "extern">>, <<"ulabel", "label">>, <<"ulabel", "ulabel">>} /\ agrees
  IN [s |-> IF xclass = "undef" THEN s ELSE IF good THEN new ELSE Err(new, 2016), dp |-> dp]

define(s, block, name, xclass, dtype, offset) ==
  LET dp == find(s, name)
      e == [name |-> name, class |-> xclass, dtype |-> dtype, offset |-> offset]
      n == IF block = 0 \/ xclass = "extern" THEN [s EXCEPT !.global = Append(@, e)] ELSE [s EXCEPT !.local = Append(@, e)]
  IN CASE dp # NoEntry -> dmerge(s, dp, xclass, dtype)
       [] dp = NoEntry /\ Len(n.global) + Len(n.local) > stsize -> [s |-> Err(s, 4005), dp |-> NoEntry]
       [] OTHER -> [s |-> n, dp |-> find(n, name)]

\* The end of a block: what is not defined in it is reported, but labels move to the block around.
Undummied(s, e) == IF IsDummy(s, e.dtype) THEN [e EXCEPT !.dtype = TUNDEF] ELSE e
chkdict(s, first, moves) ==
  LET Check(r, i) ==
        LET dummy == IsDummy(s, r.local[i].dtype)
            e == Undummied(s, r.local[i])
            a == [(IF dummy THEN Err(r, 2024) ELSE r) EXCEPT !.local[i] = e]
        IN CASE e.class = "ulabel" /\ moves ->
                  [a EXCEPT !.dldp = @ + 1, !.local = [@ EXCEPT ![i] = a.local[a.dldp + 1], ![a.dldp + 1] = e]]
             [] e.class = "ulabel" /\ ~moves -> [Err(a, 2017) EXCEPT !.local[i].class = "label", !.missing = @ \union {e.name}]
             [] e.class = "uauto" -> [Err(a, 1006) EXCEPT !.local[i].class = "auto"]
             [] OTHER -> a
  IN FoldLeft(Check, [s EXCEPT !.dldp = first], [k \in 1 .. Len(s.local) - first |-> first + k])
Ended(s) == [s EXCEPT !.local = SubSeq(@, 1, s.dldp), !.symtab = @ \o SubSeq(s.local, s.dldp + 1, Len(s.local))]
-----------------------------------------------------------------------------
(* Structures.                                                             *)
Members_(s, fs) ==
  LET Add(r, f) == LET d == Declared(r.s, f.btype, f.mods) IN [s |-> d.s, ts |-> Append(r.ts, d.t)]
  IN FoldLeft(Add, [s |-> s, ts |-> <<>>], fs)
fixstr_(s0, id, ts0) ==
  LET Fix(r, t) == LET x == IF t = [tag |-> "struct", id |-> id] THEN [s |-> Err(r.s, 2019), t |-> [tag |-> "ptr", of |-> t]]
                            ELSE Fixed(r.s, t)
                   IN [s |-> x.s, ts |-> Append(r.ts, x.t)]
      fixed == FoldLeft(Fix, [s |-> s0, ts |-> <<>>], ts0)
      s == fixed.s
      ts == fixed.ts
      aligns == {AlignOf(s, ts[i]) : i \in DOMAIN ts} \union {1}
      a == CHOOSE x \in aligns : \A y \in aligns : y <= x
      end == FoldLeft(LAMBDA n, t : Aligned(n, AlignOf(s, t)) + SizeOf(s, t), 0, ts)
  IN [s EXCEPT !.structs[id] = [@ EXCEPT !.size = Aligned(end, a), !.align = a]]
mkdummy_(s, name) == [s EXCEPT !.structs = Append(@, [name |-> name, size |-> UNDEFINED_, align |-> 1])]
NewStruct(s) == [tag |-> "struct", id |-> Len(s.structs) + 1]

\* The tag of a structure is in the dictionary, under a name that no variable has.
Of_(name) == "struct " \o name
astridn(s, name) ==
  LET dp == find(s, Of_(name)) IN
  CASE dp = NoEntry -> define(mkdummy_(s, name), s.cblock, Of_(name), "struct", NewStruct(s), 0)
    [] dp # NoEntry /\ EntryOf(s, dp).class = "ustruct" ->
         [s |-> Set(s, dp, [EntryOf(s, dp) EXCEPT !.class = "struct"]), dp |-> dp]
    [] OTHER -> [s |-> Err(s, 2018), dp |-> NoEntry]
aostruct(s, name) ==
  LET dp == find(s, Of_(name))
      d == define(mkdummy_(s, name), s.cblock, Of_(name), "ustruct", NewStruct(s), 0)
  IN IF dp # NoEntry THEN [s |-> s, t |-> EntryOf(s, dp).dtype] ELSE [s |-> d.s, t |-> NewStruct(s)]
StructureOf(dp, m) ==
  IF dp = NoEntry
  THEN [s |-> fixstr_(mkdummy_(m.s, ""), Len(m.s.structs) + 1, m.ts), t |-> NewStruct(m.s)]
  ELSE LET t == EntryOf(m.s, dp).dtype IN [s |-> fixstr_(m.s, t.id, m.ts), t |-> t]
Completed(d, fs) == IF d.s.fatal THEN [s |-> d.s, t |-> TUNDEF] ELSE StructureOf(d.dp, Members_(d.s, fs))
astruct(s, name, fs) == Completed(IF name = "" THEN [s |-> s, dp |-> NoEntry] ELSE astridn(s, name), fs)

\* A type specifier: a basic type, a structure, or the name of a type.
atidn(s, name) ==
  LET dp == find(s, name) IN
  IF dp = NoEntry \/ (dp # NoEntry /\ EntryOf(s, dp).class # "typedef") THEN [s |-> Err(s, 2041), t |-> TUNDEF]
  ELSE [s |-> s, t |-> EntryOf(s, dp).dtype]
Specified(s, spec) ==
  CASE spec.kind = "basic" -> [s |-> s, t |-> Basic_(spec.name)]
    [] spec.kind = "name" -> atidn(s, spec.name)
    [] spec.kind = "use" -> aostruct(s, spec.name)
    [] spec.kind = "define" -> astruct(s, spec.name, spec.fs)

\* The class that a declaration means where it is.
attrib(s, formal, pclass) ==
  CASE formal -> [s |-> s, class |-> "param"]
    [] ~formal /\ s.cblock = 0 /\ pclass = "undef" -> [s |-> s, class |-> "extdef"]
    [] ~formal /\ s.cblock = 0 /\ pclass = "auto" -> [s |-> Err(s, 1018), class |-> "extdef"]
    [] OTHER -> [s |-> s, class |-> pclass]
-----------------------------------------------------------------------------
(* Declarators.                                                            *)
\* The type of a parameter, which may have been declared already.
Formal(s, dp, t) ==
  LET ptype == CASE t.tag = "char" -> TINT
                 [] t.tag = "float" -> Basic_("double")
                 [] t.tag = "array" -> [tag |-> "ptr", of |-> t.of]
                 [] t.tag \in {"func", "struct"} -> [tag |-> "ptr", of |-> t]
                 [] OTHER -> t
      e == EntryOf(s, dp)
      warned == IF t.tag \in {"func", "struct"} THEN Err(s, 2036) ELSE s
  IN IF e.dtype # TUNSPEC THEN Err(warned, 2016) ELSE Set(warned, dp, [e EXCEPT !.dtype = ptype])
\* Any other variable has its place, in the frame or in static storage, or none yet.
Variable(s, name, class, t) ==
  LET place == Aligned(s.autoloc, AlignOf(s, t))
      k == IF class = "auto" THEN "uauto" ELSE class
      r == CASE class = "static" -> [s EXCEPT !.nstatic = @ + 1]
             [] class = "auto" -> [s EXCEPT !.autoloc = place + SizeOf(s, t)]
             [] OTHER -> s
      o == CASE class = "static" -> s.nstatic + 1
             [] class = "auto" -> place
             [] class \in {"extdef", "extern"} -> 0
             [] OTHER -> UNDEFINED_
  IN define(r, s.cblock, name, k, t, o) @@ [class |-> k]
Placed(s, name, class, t) ==
  LET dp == find(s, name) IN
  CASE class # "param" -> Variable(s, name, class, t)
    [] class = "param" /\ dp = NoEntry -> Variable(Err(s, 1027), name, "auto", t)
    [] OTHER -> [s |-> IF EntryOf(s, dp).class = "param" THEN Formal(s, dp, t) ELSE s, dp |-> dp, class |-> class]
adeclr(s, name, class, t) ==
  LET c == CASE class # "undef" -> class [] class = "undef" /\ t.tag = "func" -> "extern" [] OTHER -> "auto"
      function == t.tag = "func" /\ c \notin {"param", "typedef"}
      warned == IF function /\ c \notin {"extern", "extdef"} THEN Err(s, 1021) ELSE s
  IN Placed(warned, name, IF function THEN "extern" ELSE c, t)

(* Initialization: the kinds of initializers that a type allows; each goes *)
(* to the macro file, where the storage of a variable begins at its name.  *)
allow(t) == CASE t.tag \in {"char", "int"} -> {"int"}
              [] t.tag \in {"float", "double"} -> {"float"}
              [] t.tag = "struct" -> {"int", "idn", "string"}
              [] t.tag = "ptr" -> {"int", "idn"} \union (IF t.of.tag = "char" THEN {"string"} ELSE {})
              [] OTHER -> {}
Begun(s, key) == [s EXCEPT !.mac = Append(@, [key |-> key, size |-> 0])]
Emits(s, n) == IF s.mac = <<>> THEN s ELSE [s EXCEPT !.mac[Len(s.mac)].size = @ + n]
Key(s, dp, class) == IF class = "static" THEN <<"static", EntryOf(s, dp).offset>> ELSE <<"name", EntryOf(s, dp).name>>

External(s, dp) ==
  LET e == EntryOf(s, dp) IN
  CASE e.class = "undef" -> Set(s, dp, [e EXCEPT !.class = "extern", !.dtype = TFINT])
    [] e.class = "uauto" -> Set(s, dp, [e EXCEPT !.class = "auto"])
    [] OTHER -> s
afidn(s, name) ==
  LET d == define(s, 0, name, "undef", TUNSPEC, 0) IN IF d.s.fatal THEN d.s ELSE External(d.s, d.dp)

\* r: the state, the initializers so far, whether there was an error.
Initializer(r, s, t, i) ==
  LET bad == i.kind = "idn" /\ ~s.fatal /\ EntryOf(s, find(s, i.name)).class \notin {"extern", "extdef", "static"}
  IN [r EXCEPT !.s = Emits(IF bad THEN Err(s, 2038) ELSE s, IF t.tag = "struct" THEN Size0["int"] ELSE SizeOf(s, t)),
               !.initc = @ + 1]
inz(r, t, i) ==
  CASE r.bad -> r
    [] ~r.bad /\ i.kind \notin allow(t) -> [r EXCEPT !.s = Err(@, 1022)]
    [] OTHER -> Initializer(r, IF i.kind = "idn" THEN afidn(r.s, i.name) ELSE r.s, t, i)

Quotient(a, b) == IF b = 0 THEN 0 ELSE a \div b
\* An array that has more initializers than elements grows; what has no initializer is zero.
Grown(dp, larger, esize, initc, fill) ==
  LET dcount == Quotient(SizeOf(larger.s, larger.t), esize) IN
  Emits(Set(larger.s, dp, [EntryOf(larger.s, dp) EXCEPT !.dtype = larger.t]),
        fill + (IF initc < dcount THEN esize * (dcount - initc) ELSE 0))
Cleared(s, dp, ivtype, esize, initc, fill) ==
  LET nelem == Quotient(SizeOf(s, ivtype), esize)
      aesize == SizeOf(s, ivtype.of)
  IN CASE ivtype.tag # "array" ->
            Emits(IF initc > 1 THEN Err(s, 1023) ELSE s, fill + (IF initc = 0 THEN SizeOf(s, ivtype) ELSE 0))
       [] ivtype.tag = "array" /\ initc > nelem ->
            Grown(dp, mkarray(s, ivtype.of, Quotient(initc * esize + (aesize - 1), aesize)), esize, initc, fill)
       [] OTHER -> Emits(s, fill + esize * (nelem - initc))
aidecl(r, dp, ivtype) ==
  LET it == remarr_(ivtype)
      esize == SizeOf(r.s, it)
      isize == r.initc * Size0["int"]
      fill == IF it.tag = "struct" /\ esize > 0 THEN Aligned(isize, esize) - isize ELSE 0
      initc == IF it.tag = "struct" THEN Quotient(isize + fill, esize) ELSE r.initc
  IN Cleared(r.s, dp, ivtype, esize, initc, fill)

\* r: the variable and its storage, as above, after its initializers.
Filled(a, r, ivtype) == IF r.s.fatal THEN Err(a.s, 4005) ELSE aidecl(r, a.dp, ivtype)
Initialized(a, init) ==
  LET ivtype == EntryOf(a.s, a.dp).dtype
      flag == CASE a.class \in {"extdef", "static"} -> 0 [] a.class = "uauto" -> 1024 [] OTHER -> 1026
      begun == IF flag = 0 THEN Begun(a.s, Key(a.s, a.dp, a.class)) ELSE Err(a.s, flag)
      Next_(r, i) == inz(r, remarr_(ivtype), i)
  IN CASE a.s.fatal -> Err(a.s, 4005)
       [] ~a.s.fatal /\ init = <<>> -> IF flag = 0 THEN Emits(begun, SizeOf(a.s, ivtype)) ELSE a.s
       [] OTHER -> Filled(a, FoldLeft(Next_, [s |-> begun, initc |-> 0, bad |-> flag # 0], init), ivtype)
InitDeclarator(s, btype, class, d) ==
  LET m == Declared(s, btype, d.mods) IN Initialized(adeclr(m.s, d.name, class, m.t), d.init)

InitDeclarators(c, btype, ds) ==
  FoldLeft(LAMBDA s, d : IF s.fatal THEN s ELSE InitDeclarator(s, btype, c.class, d), c.s, ds)
Specifiers(t, formal, d) == InitDeclarators(attrib(t.s, formal, d.class), t.t, d.ds)
Declares(s, formal, d) == Specifiers(Specified(s, d.spec), formal, d)
-----------------------------------------------------------------------------
(* Functions.                                                              *)
FunctionBegins(d, params) ==
  LET b == [d.s EXCEPT !.nblock = @ + 1, !.cblock = d.s.nblock + 1, !.framesize = sv_area_sz, !.autoloc = sv_area_sz,
                       !.nodes = <<>>, !.symtab = <<>>, !.missing = {}, !.fparms = <<>>]
      Parameter(r, n) == IF r.fatal THEN r
                         ELSE LET p == define(r, r.cblock, n, "param", TUNSPEC, UNDEFINED_) IN
                              [p.s EXCEPT !.fparms = Append(@, p.dp)]
  IN IF d.s.fatal THEN d.s ELSE FoldLeft(Parameter, b, params)
Function(c, m, f) ==
  FunctionBegins(define(IF c.class # "extdef" THEN Err(m.s, 1019) ELSE m.s, 0, f.name, "extdef", m.t, 0), f.params)
FunctionOf(t, f) == LET c == attrib(t.s, FALSE, f.class) IN Function(c, Declared(c.s, t.t, f.mods), f)
afdcl(s, f) == FunctionOf(Specified(s, f.spec), f)

\* The places of the parameters, when they have been declared.
afpdcl(s) ==
  LET Next_(r, dp) ==
        LET e == EntryOf(r.s, dp)
            t == IF e.dtype = TUNSPEC THEN TINT ELSE e.dtype
            p == Aligned(r.ploc, AlignOf(r.s, t))
        IN [s |-> Set(r.s, dp, [e EXCEPT !.dtype = t, !.offset = p]), ploc |-> p + SizeOf(r.s, t)]
  IN FoldLeft(Next_, [s |-> s, ploc |-> 0], s.fparms).s

afdef(s) ==
  LET e == Ended(chkdict(s, 0, FALSE)) IN
  [e EXCEPT !.cblock = 0, !.nodes = Append(@, [op |-> "prog", name |-> "", class |-> "", offset |-> s.framesize, end |-> 0])]

\* Mutant: the variables of a block begin where those of the function do.
abeginBelow(s) == [s EXCEPT !.stack = Append(@, [dldp |-> Len(s.local), autoloc |-> s.autoloc]), !.autoloc = sv_area_sz]
abegin(s) == [s EXCEPT !.stack = Append(@, [dldp |-> Len(s.local), autoloc |-> s.autoloc])]
aend(s) ==
  LET n == Last(s.stack)
      f == [s EXCEPT !.framesize = IF s.autoloc > @ THEN s.autoloc ELSE @, !.stack = Front(@),
                     !.autoloc = IF n.autoloc >= sv_area_sz /\ n.autoloc <= @ THEN n.autoloc ELSE @]
  IN IF n.dldp <= Len(s.local) THEN Ended(chkdict(f, n.dldp, TRUE)) ELSE f

\* Names in statements; an identifier becomes a node.
Noted(s, op, dp) ==
  LET e == EntryOf(s, dp) IN
  [s EXCEPT !.nodes = Append(@, [op |-> op, name |-> e.name, class |-> e.class, offset |-> e.offset,
                                 end |-> IF e.class = "auto" THEN e.offset + SizeOf(s, e.dtype) ELSE 0])]
Automatic(s, dp) ==
  LET e == EntryOf(s, dp) IN
  CASE e.class = "undef" -> Set(Err(s, 2027), dp, [e EXCEPT !.class = "auto"])
    [] e.class = "uauto" -> Set(s, dp, [e EXCEPT !.class = "auto"])
    [] OTHER -> s
aeidn(s, name) ==
  LET d == define(s, s.cblock, name, "undef", TUNDEF, UNDEFINED_) IN
  IF d.s.fatal THEN d.s ELSE Noted(Automatic(d.s, d.dp), "idn", d.dp)
Numbered(s, dp) ==
  LET e == EntryOf(s, dp) IN
  IF e.offset = UNDEFINED_ THEN [Set(s, dp, [e EXCEPT !.offset = s.ciln]) EXCEPT !.ciln = @ + 1] ELSE s
Jump(s, op, name, class) ==
  LET d == define(s, s.cblock, name, class, TINT, UNDEFINED_) IN
  IF d.s.fatal THEN d.s ELSE Noted(Numbered(d.s, d.dp), op, d.dp)
alidn(s, name) == Jump(s, "goto", name, "ulabel")
alabel(s, name) == Jump(s, "label", name, "label")
-----------------------------------------------------------------------------
DictInit ==
  dc = [global |-> <<>>, local |-> <<>>, dldp |-> 0, structs |-> <<>>, stack |-> <<>>, fparms |-> <<>>,
        cblock |-> 0, nblock |-> 0, nstatic |-> 0, autoloc |-> 0, framesize |-> 0, ciln |-> 0,
        mac |-> <<>>, nodes |-> <<>>, symtab |-> <<>>, hmac |-> <<>>, missing |-> {}, errors |-> {}, fatal |-> FALSE,
        at |-> "external", phrases |-> 0]

Then(at, s) == dc' = [s EXCEPT !.at = at, !.phrases = @ + 1]
May(at) == dc.at \in at /\ ~dc.fatal /\ dc.phrases < (IF dc.at = "external" THEN MaxExternals ELSE MaxPhrases)

\* A declaration outside of functions, of parameters, or in a block.
DeclaredAt == CASE dc.at = "external" -> Externals [] dc.at = "formals" -> Formals_ [] OTHER -> Locals_
Declaration_ ==
  /\ May({"external", "formals", "block"})
  /\ \E d \in DeclaredAt : Then(dc.at, Declares(dc, dc.at = "formals", d))
FunctionSpecification == May({"external"}) /\ \E f \in Functions : Then("formals", afdcl(dc, f))
FunctionBody == May({"formals"}) /\ Then("block", abegin(afpdcl(dc)))
BlockBegins == May({"block", "statements"}) /\ Len(dc.stack) < 3 /\ Then("block", abegin(dc))
Expression_ == May({"block", "statements"}) /\ \E n \in Uses : Then("statements", aeidn(dc, n))
Call == May({"block", "statements"}) /\ \E n \in Uses : Then("statements", afidn(dc, n))
Goto_ == May({"block", "statements"}) /\ \E n \in Labels_ : Then("statements", alidn(dc, n))
LabelStatement == May({"block", "statements"}) /\ \E n \in Labels_ : Then("statements", alabel(dc, n))

\* The end of a block, and of a function; that needs no further phrase of a program that has begun it.
EndBlock ==
  /\ dc.at \in {"block", "statements"} /\ ~dc.fatal
  /\ dc' = IF Len(dc.stack) > 1 THEN [aend(dc) EXCEPT !.at = "statements"] ELSE [afdef(aend(dc)) EXCEPT !.at = "external"]

\* The end of the file: the entry points and references, then the check of the dictionary.
cleanup ==
  LET sdef(class) == SelectSeq(dc.global, LAMBDA e : e.class = class)
      dummies == {i \in DOMAIN dc.global : IsDummy(dc, dc.global[i].dtype)}
  IN /\ dc.at = "external" /\ ~dc.fatal
     /\ dc' = [(IF dummies # {} THEN Err(dc, 2024) ELSE dc) EXCEPT
                !.at = "done", !.hmac = sdef("extdef") \o sdef("extern"),
                !.global = [i \in DOMAIN @ |-> Undummied(dc, @[i])]]

DictNext ==
  \/ Declaration_ \/ FunctionSpecification \/ FunctionBody \/ BlockBegins
  \/ Expression_ \/ Call \/ Goto_ \/ LabelStatement \/ EndBlock \/ cleanup
DictSpec == DictInit /\ [][DictNext]_dc
=============================================================================
