---------------------------------- MODULE CPre ----------------------------------
(***************************************************************************)
(* The preprocessor in the C compiler's lexical phase (src/src/c/c1.c):    *)
(* compiler control lines, manifest constants, macros and included files.  *)
(* It works on lexemes, which the lower half of the phase makes of         *)
(* characters; a blank is one, as a macro has its parenthesis next to its  *)
(* name.  Definitions are kept in mcdef with the constants and macros in   *)
(* them already expanded, and read back through a stack of token input     *)
(* blocks, taken from a pool of maxdepth.  Line numbers are left out.      *)
(***************************************************************************)
EXTENDS Integers, Sequences, SequencesExt

CONSTANTS CNames,      \* the identifiers
          Keywords,   \* those of them that are keywords
          CStrings,    \* the string constants
          Programs,      \* the programs: sequences of lexemes
          Included,   \* the files that can be included: a text for each of some names
          maxdepth, maxargs, margbsz, maxicb, mcdsz

Newline == "newline"
Blank_ == " "

Token(tag, val) == [tag |-> tag, val |-> val, n |-> 0]
LexEof == Token("lexeof", <<>>)
Eof_ == Token("eof", <<>>)
Control == Token("control", <<>>)
Idn(val) == Token("idn", val)
Margin(n) == [tag |-> "marg", val |-> <<>>, n |-> n]

Directives == {"include", "define", "undefine", "rename", "ifdef", "ifndef", "endif", "macro", "end"}

VARIABLES pre,   \* the state of the phase
          passed    \* the tokens that have gone to the parser

preVars == <<pre, passed>>

Fresh_(text) ==
  [text |-> text, icbs |-> <<>>,          \* what is left of the file, and of those that include it
   ccard |-> FALSE, mcdflv |-> 0,         \* in a control line; how many macros are being defined
   ti |-> <<>>, free |-> maxdepth,        \* the token input blocks, the newest first; those free
   mcdef |-> <<>>, cmcdp |-> 0,           \* the definitions, and the words they take
   hash |-> [n \in CNames |-> [class |-> IF n \in Keywords THEN "key" ELSE "idn", val |-> 0]],
   sw |-> FALSE, working |-> "",          \* strings are not for the string file; the text at cwp
   strings |-> <<>>,                      \* the string file
   tok |-> Eof_, fatal |-> 0]             \* the token read; the error that ended the phase

\* An error of a number from 4000 ends the phase; so does a file that is not there.
Fatal(s, errno) == [s EXCEPT !.fatal = IF @ = 0 THEN errno ELSE @, !.tok = Eof_]
Sets(s, t) == [s EXCEPT !.tok = t]
sethn(s, name, class, val) == [s EXCEPT !.hash[name] = [class |-> class, val |-> val]]
Spelled_(s) == s.tok.val[1]

in_push(s, text) ==
  IF Len(s.icbs) >= maxicb THEN Fatal(s, 4019)
                           ELSE [s EXCEPT !.icbs = <<s.text>> \o @, !.text = text]
in_pop(s) == [s EXCEPT !.text = Head(s.icbs), !.icbs = Tail(@)]

\* What is read from a definition or an argument ends at the first end mark.
Upto(ts) == LET e == SelectInSeq(ts, LAMBDA t : t.tag = "lexeof") IN IF e = 0 THEN ts ELSE SubSeq(ts, 1, e - 1)
Definition(s, k) == Upto(SubSeq(s.mcdef, k, Len(s.mcdef)))

Block_(type, ts, args) == [type |-> type, rest |-> ts, args |-> args]
ti_push(s, b) == [s EXCEPT !.ti = <<b>> \o @]
\* Mutant: a block that has ended stays in use.
ti_popKeeps(s) == [s EXCEPT !.ti = Tail(@)]
ti_pop(s) == [s EXCEPT !.ti = Tail(@), !.free = @ + 1]
in_mc(s, ts) == IF s.free = 0 THEN Fatal(s, 4018)
                              ELSE ti_push([s EXCEPT !.free = @ - 1], Block_("man", ts, <<>>))

deftok(s) == IF s.cmcdp >= mcdsz - 1 THEN Fatal(s, 4004)
                                     ELSE [s EXCEPT !.mcdef = Append(@, s.tok), !.cmcdp = @ + 2]
-----------------------------------------------------------------------------
RECURSIVE tokget(_, _), gettok(_), cskip(_), skipTo(_, _), SkipLine(_, _), Body(_), MacroBody(_), Formals(_, _),
          Arguments(_, _, _), Argument(_, _, _, _, _)

(* The arguments of a macro call: tokens up to a comma or the closing      *)
(* parenthesis outside any other.  `ap' is how many words they take.       *)
Arguments(s, args, ap) ==
  CASE s.tok.tag = "eof" -> [s |-> Fatal(s, 4017), args |-> args]
    [] s.tok.tag = ")" -> [s |-> s, args |-> args]
    [] s.tok.tag \notin {"eof", ")"} /\ Len(args) >= maxargs -> [s |-> Fatal(s, 4014), args |-> args]
    [] OTHER -> Argument(s, args, <<>>, 0, ap)

Argument(s, args, arg, level, ap) ==
  LET t == s.tok.tag IN
  CASE t = "eof" \/ (t = ")" /\ level = 0) -> Arguments(s, Append(args, arg), ap + 1)
    [] t = "," /\ level = 0 -> Arguments(gettok(s), Append(args, arg), ap + 1)
    [] OTHER -> IF ap >= margbsz - 3 THEN [s |-> Fatal(s, 4016), args |-> args]
                ELSE Argument(gettok(s), args, Append(arg, s.tok),
                              CASE t = "(" -> level + 1 [] t = ")" -> level - 1 [] OTHER -> level, ap + 2)

ArgumentsOf(first) ==
  IF first.tok.tag = "(" THEN Arguments(gettok(first), <<>>, 0) ELSE [s |-> first, args |-> <<>>]
Expanded(call, k) == ti_push(call.s, Block_("mac", Definition(call.s, k), call.args))
exmacro(s, k) ==
  IF s.free = 0 THEN Fatal(s, 4018) ELSE Expanded(ArgumentsOf(gettok([s EXCEPT !.free = @ - 1])), k)

(* The next token of the newest block: in a macro, an argument is read     *)
(* through a block of its own, and one that was not given is an error.     *)
FromBlock(s, quote) ==
  LET b == Head(s.ti)
      r == [s EXCEPT !.ti[1].rest = Tail(@)]
      t == Head(b.rest)
  IN CASE b.rest = <<>> -> tokget(ti_pop(s), quote)
       [] b.rest # <<>> /\ b.type = "mac" /\ t.tag = "marg" ->
            tokget(IF t.n >= Len(b.args) THEN r ELSE in_mc(r, Upto(b.args[t.n + 1])), quote)
       [] OTHER -> Sets(r, t)

\* When `quote' is set a name is only a name.
name(s, n, quote) ==
  LET h == s.hash[n] IN
  CASE h.class = "key" -> Sets(s, Token(n, <<>>))
    [] h.class = "man" /\ ~quote -> tokget(in_mc(s, Definition(s, h.val)), quote)
    [] h.class = "mac" /\ ~quote -> tokget(exmacro(s, h.val), quote)
    [] h.class = "arg" /\ ~quote -> Sets(s, Margin(h.val))
    [] OTHER -> Sets(s, Idn(<<n>>))

FromFile(s, l, quote) ==
  CASE l \in CNames -> name([s EXCEPT !.working = l], l, quote)
    [] l \in CStrings -> LET r == Sets(s, Token("string", <<l>>)) IN
                        IF s.sw THEN [r EXCEPT !.working = l] ELSE [r EXCEPT !.strings = Append(@, l)]
    [] l = Newline /\ s.ccard -> [s EXCEPT !.ccard = FALSE, !.tok = LexEof]
    [] l = "#" /\ ~s.ccard -> [s EXCEPT !.ccard = TRUE, !.tok = Control]
    [] l = Blank_ \/ (l = Newline /\ ~s.ccard) \/ (l = "#" /\ s.ccard) -> tokget(s, quote)
    [] OTHER -> Sets(s, Token(l, <<>>))

tokget(s, quote) ==
  CASE s.fatal # 0 -> Sets(s, Eof_)
    [] s.fatal = 0 /\ s.ti # <<>> -> FromBlock(s, quote)
    [] s.fatal = 0 /\ s.ti = <<>> /\ s.text # <<>> -> FromFile([s EXCEPT !.text = Tail(@)], Head(s.text), quote)
    [] s.fatal = 0 /\ s.ti = <<>> /\ s.text = <<>> /\ s.icbs # <<>> -> tokget(in_pop(s), quote)
    [] OTHER -> Sets(s, Eof_)

\* Strings in what is skipped of a control line do not go to the string file.
cskip(s) ==
  IF s.tok.tag \in {"lexeof", "eof"} THEN s
  ELSE [cskip(tokget([s EXCEPT !.sw = TRUE], TRUE)) EXCEPT !.sw = s.sw]
-----------------------------------------------------------------------------
(* The control lines.                                                      *)
skipTo(s, level) ==
  LET t == tokget(s, TRUE) IN
  CASE t.tok.tag = "eof" -> t
    [] t.tok.tag \notin {"eof", "control"} -> skipTo(t, level)
    [] OTHER -> SkipLine(tokget(t, TRUE), level)
SkipLine(d, level) ==
  LET left == CASE d.tok.tag = "if" -> level + 1
                [] d.tok.tag = "idn" /\ Spelled_(d) \in {"ifdef", "ifndef"} -> level + 1
                [] d.tok.tag = "idn" /\ Spelled_(d) = "endif" -> level - 1
                [] OTHER -> level
  IN IF left = 0 THEN cskip(d) ELSE skipTo(cskip(d), left)
ifskip(s) == skipTo(cskip(s), 1)

SkipsUnless(t, sense) ==
  IF t.tok.tag = "idn" /\ (sense = (t.hash[Spelled_(t)].class \in {"man", "mac"})) THEN ifskip(t) ELSE t
defskip(s, sense) == SkipsUnless(tokget(s, TRUE), sense)

\* A constant, up to the end of the line; no second word for the end mark.
EndMark(r) == [r EXCEPT !.cmcdp = @ - 1]
BodyAfter(r) == CASE r.fatal # 0 -> r [] r.fatal = 0 /\ r.tok.tag = "lexeof" -> EndMark(r) [] OTHER -> Body(r)
Body(s) == BodyAfter(deftok(tokget(s, FALSE)))
MacroAfter(r) == CASE r.fatal # 0 -> r [] r.fatal = 0 /\ r.tok.tag = "lexeof" -> EndMark(r) [] OTHER -> MacroBody(r)
MacroToken(t) == MacroAfter(IF t.tok.tag = "eof" THEN Fatal(t, 4015) ELSE deftok(t))
MacroBody(s) == MacroToken(gettok(s))

\* A formal argument takes the place of what its name has meant until then.
FormalsAfter(r, argv) == IF r.tok.tag = "," THEN Formals(tokget(r, TRUE), argv) ELSE [s |-> r, argv |-> argv]
Formals(s, argv) ==
  CASE s.tok.tag # "idn" -> [s |-> s, argv |-> argv]
    [] s.tok.tag = "idn" /\ Len(argv) >= maxargs -> [s |-> Fatal(s, 4014), argv |-> argv]
    [] OTHER -> FormalsAfter(tokget(sethn(s, Spelled_(s), "arg", Len(argv)), TRUE),
                             Append(argv, [name |-> Spelled_(s), old |-> s.hash[Spelled_(s)]]))

Restored(s, argv) == FoldLeft(LAMBDA r, a : [r EXCEPT !.hash[a.name] = a.old], s, argv)

\* f: the formal arguments have been read; a macro is made only after the closing parenthesis.
MacroOf(s, f, flag) ==
  LET b == IF f.open /\ f.s.tok.tag = ")"
           THEN sethn(MacroBody(IF flag THEN f.s ELSE cskip(f.s)), Spelled_(s), "mac", Len(s.mcdef) + 1)
           ELSE f.s
  IN Restored([b EXCEPT !.mcdflv = s.mcdflv], f.argv)
FormalsOf(p) ==
  IF p.tok.tag = "(" THEN Formals(tokget(p, TRUE), <<>>) @@ [open |-> TRUE] ELSE [s |-> p, argv |-> <<>>, open |-> FALSE]
defmac(s, flag) == MacroOf(s, FormalsOf(tokget([s EXCEPT !.mcdflv = @ + 1], TRUE)), flag)

Defines(t) ==
  CASE t.tok.tag # "idn" -> t
    [] t.tok.tag = "idn" /\ t.text # <<>> /\ Head(t.text) = "(" -> defmac(t, TRUE)
    [] OTHER -> sethn(Body(t), Spelled_(t), "man", Len(t.mcdef) + 1)
defccl(s) == Defines(tokget(s, TRUE))

undccl(s) == LET t == tokget(s, TRUE) IN IF t.tok.tag = "idn" THEN sethn(t, Spelled_(t), "idn", 0) ELSE t

macccl(s) == LET t == tokget(s, TRUE) IN IF t.tok.tag = "idn" THEN defmac(t, FALSE) ELSE t

\* The name of the file is what has been read last from the line.
FileNamed(e) ==
  CASE e.tok.tag # "lexeof" -> e
    [] e.tok.tag = "lexeof" /\ e.working \notin DOMAIN Included -> Fatal(e, 100)
    [] OTHER -> in_push(e, Included[e.working])
Includes(t) == IF t.tok.tag = "string" THEN FileNamed(tokget(t, FALSE)) ELSE t
incccl(s) == [Includes(tokget([s EXCEPT !.sw = TRUE], FALSE)) EXCEPT !.sw = FALSE]

\* A name becomes a constant that stands for an identifier no text can spell.
RenamedTo(t, d) ==
  IF d.tok.tag = "lexeof" THEN sethn(deftok(d), Spelled_(t), "man", Len(t.mcdef) + 1) ELSE d
NewName(t, v) ==
  IF v.tok.tag = "string" THEN RenamedTo(t, tokget(deftok(Sets(v, Idn(<<" ", v.working>>))), FALSE)) ELSE v
Renames(t) == IF t.tok.tag = "idn" THEN NewName(t, tokget(t, FALSE)) ELSE t
renccl(s) == [Renames(tokget([s EXCEPT !.sw = TRUE], TRUE)) EXCEPT !.sw = FALSE]

Directive(s) ==
  CASE Spelled_(s) = "include" -> incccl(s)
    [] Spelled_(s) = "define" -> defccl(s)
    [] Spelled_(s) = "undefine" -> undccl(s)
    [] Spelled_(s) = "rename" -> renccl(s)
    [] Spelled_(s) = "ifdef" -> defskip(s, FALSE)
    [] Spelled_(s) = "ifndef" -> defskip(s, TRUE)
    [] Spelled_(s) = "macro" -> macccl(s)
    [] OTHER -> s

ControlLine(s, d) ==
  LET Is(names) == d.tok.tag = "idn" /\ Spelled_(d) \in names IN
  CASE d.tok.tag = "lexeof" -> gettok(d)
    [] Is({"end"}) /\ s.mcdflv > 0 -> Sets(cskip(d), LexEof)
    [] Is(Directives) /\ ~(Is({"end"}) /\ s.mcdflv > 0) -> gettok(cskip(Directive(d)))
    [] OTHER -> gettok(cskip(d))
AfterControl(s, r) == IF r.tok.tag = "control" THEN ControlLine(s, tokget(r, TRUE)) ELSE r
gettok(s) == AfterControl(s, tokget(s, FALSE))
-----------------------------------------------------------------------------
PreInit == pre \in {Fresh_(t) : t \in Programs} /\ passed = <<>>

(* A call of gettok by the parser.                                         *)
PreNext ==
  /\ pre.fatal = 0 /\ Eof_ \notin ToSet(passed)
  /\ LET r == gettok(pre) IN
     IF r.fatal # 0 THEN pre' = [pre EXCEPT !.fatal = r.fatal] /\ UNCHANGED passed
                    ELSE pre' = r /\ passed' = Append(passed, r.tok)

PreSpec == PreInit /\ [][PreNext]_preVars
-----------------------------------------------------------------------------
(* Between tokens each block is free or being read, no control line is     *)
(* open, and no name is left as a formal argument.                         *)
BlocksKept ==
  /\ Len(pre.ti) + pre.free = maxdepth /\ pre.mcdflv = 0
  /\ pre.ti = <<>> => ~pre.ccard \/ pre.text = <<>>
  /\ \A n \in CNames : pre.hash[n].class # "arg"
=============================================================================
