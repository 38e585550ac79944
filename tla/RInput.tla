------------------------------- MODULE RInput -------------------------------
(***************************************************************************)
(* The input of R (src/src/r/rin1.c, rin2.c, parts of rmisc.c, rin.c,      *)
(* rreadr.c and rreq1.c): a stack of sources, one pushed-back character,   *)
(* control characters and their encoding in strings and macros, the        *)
(* insertion of arguments and registers, and the scanning of names,        *)
(* strings, macro definitions and arguments.                               *)
(*                                                                         *)
(* A logical character is <<level, c>>: level -1 is the text character c,  *)
(* 0 is control-c, and n > 0 is control-c under n protections.  A string,  *)
(* a macro and a file are sequences of characters; "^A" is the physical    *)
(* character with code 1, and "nl" the end of a line.                      *)
(***************************************************************************)
EXTENDS Integers, Sequences, FiniteSets, TLC

CONSTANTS max_icb,              \* sources at one time
          NAcs,                 \* arrays of characters there can be
          SourceTexts,          \* the texts of files
          ArrayTexts,           \* the texts of the arrays there are
          StringRegs,           \* the string registers that are defined: a name to its array
          NumberRegs,           \* the number registers that are defined: a name to its value
          MacroArray,           \* the array of the macro
          MaxTaken              \* operations

Text(c) == <<-1, c>>
Control(c) == <<0, c>>
Level(ic) == ic[1]
Char(ic) == ic[2]
i_newline == Control("j")
i_space == Control(" ")
i_eof == Control("@")
i_glue == Control("G")
NoChar == <<>>

Digits == <<"1", "2", "3", "4", "5", "6", "7", "8", "9">>
Digit(n) == IF n = 0 THEN "0" ELSE Digits[n]
Numeral(n) == IF n < 0 THEN <<"-", Digit(-n)>> ELSE <<Digit(n)>>    \* of one digit
IsDigit(c) == c = "0" \/ \E d \in 1 .. 9 : Digits[d] = c
DigitVal(c) == IF c = "0" THEN 0 ELSE CHOOSE d \in 1 .. 9 : Digits[d] = c
Least(S, default) == IF S = {} THEN default ELSE CHOOSE x \in S : \A y \in S : x <= y
SumOf(f, n) == LET sum[i \in 0 .. n] == IF i = 0 THEN 0 ELSE sum[i - 1] + f[i] IN sum[n]
Letters == {"a", "b", "e", "n", "m", "s"}
alpha(ic) == Level(ic) = -1 /\ (Char(ic) \in Letters \/ IsDigit(Char(ic)))
is_separator(ic) == ic = i_space \/ ic = Control("i")
is_terminator(ic) == is_separator(ic) \/ ic = i_newline \/ ic = i_eof

(* The physical characters that stand for control characters, and the      *)
(* input mode from which on they do; all others are text.                  *)
m_quote == 0
m_args == 1
m_text == 2
cc_tab ==
  [c \in {"nl", " ", "\\", ".", "'", "^A", "^K", "^Q", "^S", "^N", "^B"} |->
     CASE c = "nl" -> i_newline [] c = "^A" -> Control("a") [] c = "^K" -> Control("k")
       [] c = "^Q" -> Control("q") [] c = "^S" -> Control("s") [] c = "^N" -> Control("n")
       [] c = "^B" -> Control("b") [] OTHER -> Control(c)]
cc_mode(c) ==
  CASE c \notin DOMAIN cc_tab -> 1000
    [] c = "nl" -> m_quote
    [] c \in {".", "'", "^B"} -> m_text
    [] OTHER -> m_args
-----------------------------------------------------------------------------
(* The state: the stack, the top last; the character pushed back; the ACs, *)
(* with their text and the references to them; the registers that are      *)
(* defined, of numbers and of strings; the macro; and flags.               *)
Frame(type, text, s) ==
  [type |-> type, text |-> text, s |-> s, nl |-> TRUE, line |-> 0, args |-> <<>>, dot |-> FALSE]
InputStart(file) ==
  [stk |-> <<Frame("file", file, 0)>>, peek |-> NoChar,
   acs |-> [i \in 1 .. NAcs |->
              IF i <= Len(ArrayTexts) THEN [text |-> ArrayTexts[i], refs |-> 1] ELSE [text |-> <<>>, refs |-> 0]],
   nrs |-> NumberRegs, srs |-> StringRegs, macro |-> MacroArray, mode |-> m_text, noint |-> 0, exit_called |-> FALSE, dropped |-> 0,
   fatal |-> FALSE, errors |-> 0]

Top(st) == st.stk[Len(st.stk)]
SetTop(st, f) == [st EXCEPT !.stk[Len(st.stk)] = f]
Error(st) == [st EXCEPT !.errors = @ + 1]
ac_link(st, s) == IF s = 0 THEN st ELSE [st EXCEPT !.acs[s].refs = @ + 1]
ac_unlink(st, s) == IF s = 0 THEN st ELSE [st EXCEPT !.acs[s].refs = @ - 1]
FreeAc(st) == IF \E i \in 1 .. NAcs : st.acs[i].refs = 0
              THEN CHOOSE i \in 1 .. NAcs : st.acs[i].refs = 0 ELSE 0
ac_create(st, text) ==
  IF FreeAc(st) = 0 THEN [st EXCEPT !.fatal = TRUE]
  ELSE [st EXCEPT !.acs[FreeAc(st)] = [text |-> text, refs |-> 1]]

(* push_icb; a character that is pushed back becomes a source below.       *)
OnStack(st, f) ==
  IF Len(st.stk) >= max_icb THEN [st EXCEPT !.fatal = TRUE] ELSE [st EXCEPT !.stk = Append(@, f)]
\* Mutant: the character stays in front of the new source.
SettledNot(st) == st
Settled(st) ==
  IF st.peek = NoChar THEN st ELSE [OnStack(st, Frame("char", <<st.peek>>, 0)) EXCEPT !.peek = NoChar]
push_icb(st, f) == OnStack(Settled(st), f)
push_char(st, ic) == [Settled(st) EXCEPT !.peek = ic]
push_string(st, text) == push_icb(st, Frame("string", text, 0))
push_file(st, text, s) == push_icb(st, Frame("file", text, s))
push_ac(st, s) ==
  IF s = 0 \/ st.acs[s].text = <<>> THEN st
  ELSE push_icb(ac_link(st, s), Frame("ac", st.acs[s].text, s))

(* The arguments given to an empty macro are never unlinked.               *)
push_macro(st, s, argv, dot) ==
  IF s = 0 \/ st.acs[s].text = <<>> THEN [st EXCEPT !.dropped = @ + Len(argv)]
  ELSE push_icb(ac_link(st, s), [Frame("macro", st.acs[s].text, s) EXCEPT !.args = argv, !.dot = dot])

RECURSIVE UnlinkAll(_, _)
UnlinkAll(st, argv) == IF argv = <<>> THEN st ELSE UnlinkAll(ac_unlink(st, Head(argv)), Tail(argv))
pop_icb(st) ==
  IF st.peek # NoChar THEN [st EXCEPT !.peek = NoChar]
  ELSE IF st.stk = <<>> THEN st
  ELSE [UnlinkAll(ac_unlink(st, Top(st).s), Top(st).args) EXCEPT !.stk = SubSeq(@, 1, Len(@) - 1)]

RECURSIVE pop_all(_), pop_file(_)
pop_all(st) == IF st.stk = <<>> THEN st ELSE pop_all(pop_icb(st))
pop_file(st) ==
  IF st.stk = <<>> THEN st
  ELSE IF st.peek = NoChar /\ Top(st).type = "file" THEN pop_icb(st) ELSE pop_file(pop_icb(st))

(* The active macro, whose arguments ^A inserts: the innermost one.        *)
Macros(st) == {i \in DOMAIN st.stk : st.stk[i].type = "macro"}
Active(st) == st.stk[CHOOSE i \in Macros(st) : \A k \in Macros(st) : k <= i]
Arg(st, n) == IF n < Len(Active(st).args) THEN Active(st).args[n + 1] ELSE 0

Got(ic, st) == [ic |-> ic, st |-> st]
protect(ic, n) == IF n <= 0 THEN ic ELSE IF Level(ic) = 0 THEN <<n, Char(ic)>> ELSE Control("ignore")
unprotect(ic) == IF Level(ic) > 0 THEN <<Level(ic) - 1, Char(ic)>> ELSE ic
-----------------------------------------------------------------------------
RECURSIVE getc(_), getc_file(_, _), Recognized(_, _, _, _), SkipLine(_, _, _), NameFrom(_, _),
          Backslashes(_, _, _)
After(st) == SetTop(st, [Top(st) EXCEPT !.text = Tail(@)])

(* The exit macro is called once.                                          *)
Exit(st) ==
  push_char(push_string(push_char([st EXCEPT !.exit_called = TRUE], i_newline), <<"e">>), Control("'"))

decode_sharp(r) ==
  IF r.ic = i_space THEN Got(Text(" "), r.st)
  ELSE IF Char(r.ic) = "0" THEN Got(Text("#"), r.st)
  ELSE IF IsDigit(Char(r.ic)) THEN [getc(r.st) EXCEPT !.ic = <<DigitVal(Char(r.ic)), Char(@)>>]
  ELSE IF Char(r.ic) \in {"a", "s", "n"} /\ r.st.noint = 0
  THEN Recognized(r.st, Control(Char(r.ic)), Char(r.ic), FALSE)
  ELSE Got(Control(Char(r.ic)), r.st)

getc_string(st, c) ==
  CASE Top(st).type = "char" -> Got(c, pop_icb(st))
    [] Top(st).type # "char" /\ c = " " -> Got(i_space, After(st))
    [] Top(st).type # "char" /\ c = "#" -> decode_sharp(getc(After(st)))
    [] OTHER -> Got(Text(c), After(st))

(* getc1: the next character of the pushed-back one, or of the source on   *)
(* top, or, when all are at their end, of a call of the exit macro.        *)
getc(st) ==
  IF st.fatal \/ (st.peek = NoChar /\ st.stk = <<>> /\ st.exit_called) THEN Got(i_eof, st)
  ELSE IF st.peek # NoChar THEN Got(st.peek, [st EXCEPT !.peek = NoChar])
  ELSE IF st.stk = <<>> THEN getc(Exit(st))
  ELSE IF Top(st).type = "file" THEN getc_file(st, Top(st))
  ELSE IF Top(st).text = <<>> THEN getc(pop_icb(st))
  ELSE getc_string(st, Head(Top(st).text))

getc_file(st, f) ==
  IF f.text = <<>>
  THEN IF ~f.nl THEN Got(i_newline, SetTop(st, [f EXCEPT !.nl = TRUE])) ELSE getc(pop_icb(st))
  ELSE Recognized(SetTop(st, [f EXCEPT !.text = Tail(@), !.nl = FALSE,
                                       !.line = IF f.nl THEN @ + 1 ELSE @]),
                  IF cc_mode(Head(f.text)) > st.mode THEN Text(Head(f.text)) ELSE cc_tab[Head(f.text)],
                  Head(f.text), f.nl)

(* insert_argument, when r has been read after the ^A.                     *)
insert_argument(r) ==
  IF Level(r.ic) # -1 \/ ~(IsDigit(Char(r.ic)) \/ Char(r.ic) = ".") THEN push_char(Error(r.st), r.ic)
  ELSE IF Macros(r.st) = {} THEN Error(r.st)
  ELSE IF Char(r.ic) = "." THEN push_char(r.st, Text(IF Active(r.st).dot THEN "1" ELSE "0"))
  ELSE push_ac(r.st, Arg(r.st, DigitVal(Char(r.ic))))

(* Registers.  One that is asked for and not defined is an error, and      *)
(* becomes 0, or empty.                                                    *)
nr_enter(st, name, val) == [st EXCEPT !.nrs = (name :> val) @@ @]
sr_enter(st, name, s) ==
  [ac_unlink(st, IF name \in DOMAIN st.srs THEN st.srs[name] ELSE 0) EXCEPT !.srs = (name :> s) @@ @]
nr_defined(st, name) == IF name \in DOMAIN st.nrs THEN st ELSE nr_enter(Error(st), name, 0)
sr_defined(st, name) ==
  IF name \in DOMAIN st.srs THEN st ELSE sr_enter(ac_create(Error(st), <<>>), name, FreeAc(st))
nr_value(st, name) == IF name \in DOMAIN st.nrs THEN st.nrs[name] ELSE 0
Changed(val, incr) == CASE incr = "+" -> val + 1 [] incr = "-" -> val - 1 [] OTHER -> val

(* insert_string and insert_number, when ? or, for a number, + or - and    *)
(* the name n have been read.  Numbers are written in arabic.              *)
PushNumber(st, s, text) ==
  IF s = 0 THEN ac_create(st, text) ELSE ac_unlink(push_ac(ac_create(st, text), s), s)
insert_number(st, name, incr) ==
  LET val == Changed(nr_value(st, name), incr) IN
  PushNumber(IF incr = " " THEN nr_defined(st, name) ELSE nr_enter(nr_defined(st, name), name, val),
             FreeAc(st), Numeral(val))
insert_string(st, name) == push_ac(sr_defined(st, name), sr_defined(st, name).srs[name])
InsertRegister(n, isNumber, asks, incr) ==
  LET st == IF n.ic = Text("!") THEN n.st ELSE push_char(n.st, n.ic)
      defined == n.name \in (IF isNumber THEN DOMAIN st.nrs ELSE DOMAIN st.srs) IN
  CASE n.name = <<>> -> Error(st)
    [] n.name # <<>> /\ asks -> push_char(st, Text(IF defined THEN "1" ELSE "0"))
    [] n.name # <<>> /\ ~asks /\ isNumber -> insert_number(st, n.name, incr)
    [] n.name # <<>> /\ ~asks /\ ~isNumber -> insert_string(st, n.name)
Signed(r) == Level(r.ic) = -1 /\ Char(r.ic) \in {"+", "-"}
RegisterFrom(r, isNumber) ==
  InsertRegister(NameFrom(IF r.ic = Text("?") \/ (isNumber /\ Signed(r)) THEN getc(r.st) ELSE r, <<>>),
                 isNumber, r.ic = Text("?"), IF Signed(r) THEN Char(r.ic) ELSE " ")

NameFrom(r, name) ==
  IF alpha(r.ic) THEN NameFrom(getc(r.st), Append(name, Char(r.ic)))
  ELSE [ic |-> r.ic, st |-> r.st, name |-> name]

(* A character of a file, and the cases of decode_sharp that insert        *)
(* something.                                                              *)
Recognized(st, ic, c, onlflag) ==
  CASE ic = i_newline -> Got(ic, SetTop(st, [Top(st) EXCEPT !.nl = TRUE]))
    [] ic \in {Control("."), Control("'")} -> Got(IF onlflag THEN ic ELSE Text(c), st)
    [] ic = Control("\\") -> Backslashes(SetTop(st, [Top(st) EXCEPT !.nl = onlflag]), Top(st).text, 1)
    [] ic = Control("k") /\ st.noint = 0 -> SkipLine(st, Top(st).text, onlflag)
    [] ic = Control("q") /\ st.noint = 0 ->
         [getc_file([st EXCEPT !.mode = m_quote], Top(st)) EXCEPT !.st.mode = st.mode]
    [] ic = Control("a") /\ st.noint = 0 -> getc(insert_argument(getc(st)))
    [] ic \in {Control("s"), Control("n")} /\ st.noint = 0 ->
         getc(RegisterFrom(getc(st), ic = Control("n")))
    [] OTHER -> Got(ic, st)

(* A comment.                                                              *)
SkipLine(st, text, onlflag) ==
  IF text = <<>> THEN getc(pop_icb(st))
  ELSE IF Head(text) # "nl"
  THEN SkipLine(SetTop(st, [Top(st) EXCEPT !.text = Tail(@), !.nl = FALSE]), Tail(text), onlflag)
  ELSE IF onlflag THEN getc(SetTop(st, [Top(st) EXCEPT !.text = Tail(@), !.nl = TRUE]))
  ELSE Got(i_newline, SetTop(st, [Top(st) EXCEPT !.text = Tail(@), !.nl = TRUE]))

(* process_backslash: count of them protect the control character that     *)
(* follows, or the text character that is written \n, less one.            *)
Protected(r, ic) ==
  IF ic = Control("ignore") THEN getc(Error(r.st)) ELSE Got(ic, r.st)
Backslashes(st, text, count) ==
  IF text = <<>> THEN getc(Error(st))
  ELSE IF Head(text) = "\\" THEN Backslashes(After(st), Tail(text), count + 1)
  ELSE IF Head(text) \in Letters
  THEN Protected(Got(NoChar, After(st)),
                 IF Head(text) = "n" THEN protect(Text("NL"), count - 1) ELSE Control("ignore"))
  ELSE LET Next(r) == Protected([r EXCEPT !.st.noint = @ - 1], protect(r.ic, count))
       IN Next(getc_file([st EXCEPT !.noint = @ + 1], Top(st)))
-----------------------------------------------------------------------------
(* append_char: a character as it is kept in a string or macro, with one   *)
(* protection less.                                                        *)
Encoded(ic) ==
  CASE ic = Text(" ") -> <<"#", " ">>
    [] ic = Text("#") -> <<"#", "0">>
    [] Level(ic) = -1 /\ ic \notin {Text(" "), Text("#")} -> <<Char(ic)>>
    [] Level(ic) > 1 -> <<"#", Digit(Level(ic) - 1), Char(ic)>>
    [] OTHER -> IF Char(ic) = " " THEN <<" ">> ELSE <<"#", Char(ic)>>

RECURSIVE skip_blanks(_), skip_arg(_), skip_line(_), StringFrom(_, _)
skip_blanks(r) == IF is_separator(r.ic) THEN skip_blanks(getc(r.st)) ELSE r
skip_arg(r) == IF is_terminator(r.ic) THEN r ELSE skip_arg(getc(r.st))
skip_line(r) == IF r.ic \in {i_newline, i_eof} THEN r.st ELSE skip_line(getc(r.st))
First(st, mode) == skip_blanks(getc([st EXCEPT !.mode = mode]))

(* get_untraced_name: empty when there is none, "bad" when it does not end *)
(* where a name should.                                                    *)
Ended(n) ==
  LET Skipped(r) == [ic |-> r.ic, st |-> IF r.st.noint = 0 THEN Error(r.st) ELSE r.st, name |-> <<"bad">>]
  IN IF is_terminator(n.ic) THEN n ELSE Skipped(skip_arg(getc(n.st)))
Named(e, mode) ==
  [name |-> e.name,
   st |-> [(IF is_separator(e.ic) THEN e.st ELSE push_char(e.st, e.ic)) EXCEPT !.mode = mode]]
get_name(st) == Named(Ended(NameFrom(First(st, m_args), <<>>)), st.mode)

(* A character, to be read in an argument or as text: NoChar at the end of *)
(* the line.                                                               *)
OneOf(r, ic, mode) ==
  IF r.ic = i_newline THEN Got(NoChar, [push_char(r.st, r.ic) EXCEPT !.mode = mode])
  ELSE Got(ic, [(IF ic = NoChar THEN Error(r.st) ELSE r.st) EXCEPT !.mode = mode])
get_c(st) ==
  LET Read(r) == OneOf(r, IF Level(r.ic) = -1 THEN r.ic ELSE NoChar, st.mode)
  IN Read(First(st, IF st.mode > m_args THEN m_args ELSE st.mode))
get_l(st) == LET Read(r) == OneOf(r, unprotect(r.ic), st.mode) IN Read(First(st, m_text))

(* get_string: what is left of the line, encoded.                          *)
StringFrom(r, text) ==
  IF r.ic \in {i_newline, i_eof} THEN [text |-> text, st |-> push_char(r.st, r.ic)]
  ELSE StringFrom(getc(r.st), text \o Encoded(r.ic))
get_string(st) == StringFrom(First(st, m_text), <<>>)

(* scan_macro_def: the lines up to one that begins with a period or a      *)
(* quote and the terminating name; what looked like the name and was not   *)
(* is put into the definition.  The terminating request is pushed back.    *)
term == <<"e">>
EndsDefinition(ic, matched) == matched = term /\ is_terminator(ic)

RECURSIVE DefinitionLine(_, _, _, _, _), EncodedAll(_)
EncodedAll(ics) == IF ics = <<>> THEN <<>> ELSE Encoded(Head(ics)) \o EncodedAll(Tail(ics))
LikeName(leader, matched) ==
  IF leader = NoChar THEN <<>> ELSE Encoded(leader) \o EncodedAll([i \in DOMAIN matched |-> Text(matched[i])])

(* comparing is "no", or "begin" at the beginning of a line, or "name"     *)
(* after its leader, when matched of the name has been found.              *)
DefinitionLine(r, text, comparing, leader, matched) ==
  IF comparing = "name" /\ EndsDefinition(r.ic, matched)
  THEN [text |-> text,
        st |-> push_char(push_char(push_string(push_char(r.st, r.ic), term), leader), i_newline)]
  ELSE LET begins == comparing = "begin" /\ r.ic \in {Control("."), Control("'")}
           blank == comparing = "name" /\ matched = <<>> /\ is_separator(r.ic)
           matches == comparing = "name" /\ Len(matched) < Len(term) /\ r.ic = Text(term[Len(matched) + 1])
           so == text \o LikeName(leader, matched) IN
       IF ~(begins \/ blank \/ matches) /\ r.ic = i_eof
       THEN [text |-> so, st |-> Error(push_char(r.st, i_newline))]
       ELSE DefinitionLine(getc(r.st), IF begins \/ blank \/ matches THEN text ELSE so \o Encoded(r.ic),
              CASE begins \/ blank \/ matches -> "name"
                [] r.ic = i_newline -> "begin"
                [] OTHER -> "no",
              CASE begins -> r.ic [] blank \/ matches -> leader [] OTHER -> NoChar,
              IF matches THEN Append(matched, Char(r.ic)) ELSE <<>>)
scan_macro_def(st) ==
  DefinitionLine(getc([skip_line(getc([st EXCEPT !.mode = m_quote])) EXCEPT !.mode = m_text]),
                 <<>>, "begin", NoChar, <<>>)

(* The arguments of a macro, of a request line or in parentheses: words,   *)
(* or strings in quotes in which two quotes stand for one; in parentheses  *)
(* a word may contain balanced ones.                                       *)
RECURSIVE Word(_, _), Quoted(_, _), InParens(_, _, _), ArgsFrom(_, _, _)
Scanned(r, text) == [ic |-> r.ic, st |-> r.st, text |-> text]
Word(r, text) == IF is_terminator(r.ic) THEN Scanned(r, text) ELSE Word(getc(r.st), text \o Encoded(r.ic))
Quoted(r, text) ==
  LET Twice(s) == IF s.ic = Text("\"") THEN Quoted(getc(s.st), text \o Encoded(s.ic)) ELSE Scanned(s, text) IN
  IF r.ic \in {i_newline, i_eof} THEN Scanned([r EXCEPT !.st = Error(@)], text)
  ELSE IF r.ic = Text("\"") THEN Twice(getc(r.st))
  ELSE Quoted(getc(r.st), text \o Encoded(r.ic))

Closes(level) == level <= 0
InParens(r, text, level) ==
  IF \/ r.ic \in {i_newline, i_eof} \/ (is_separator(r.ic) /\ level <= 0)
     \/ (r.ic = Text(")") /\ Closes(level))
  THEN Scanned(r, text)
  ELSE InParens(getc(r.st), text \o Encoded(r.ic),
                IF r.ic = Text(")") THEN level - 1 ELSE IF r.ic = Text("(") THEN level + 1 ELSE level)

Ends(r, parens) == r.ic \in {i_newline, i_eof} \/ (parens /\ r.ic = Text(")"))
AfterArg(w, argv, parens) ==
  IF parens /\ w.ic = Text(")") THEN [argv |-> argv, ic |-> w.ic, st |-> w.st]
  ELSE ArgsFrom(getc(IF is_separator(w.ic) THEN w.st ELSE push_char(w.st, w.ic)), argv, parens)
ArgsFrom(r, argv, parens) ==
  LET Done(w) == AfterArg(w, Append(argv, w.text), parens) IN
  IF Ends(r, parens) THEN [argv |-> argv, ic |-> r.ic, st |-> r.st]
  ELSE IF is_separator(r.ic) THEN ArgsFrom(getc(r.st), argv, parens)
  ELSE Done(IF r.ic = Text("\"") THEN Quoted(getc(r.st), <<>>)
            ELSE IF parens THEN InParens(r, <<>>, 0) ELSE Word(r, <<>>))

(* Each argument is a new AC.                                              *)
RECURSIVE MadeAll(_, _, _)
MadeAll(st, texts, made) ==
  IF texts = <<>> \/ st.fatal THEN [st |-> st, argv |-> made]
  ELSE MadeAll(ac_create(st, Head(texts)), Tail(texts), Append(made, FreeAc(st)))

(* mac_com: the end of the line is read before the macro.                  *)
mac_com(st, s, brk) ==
  LET Called(a, m) == IF m.st.fatal THEN m.st ELSE push_char(push_macro(m.st, s, m.argv, brk), a.ic)
      With(a) == Called(a, MadeAll(a.st, a.argv, <<>>))
  IN With(ArgsFrom(getc([st EXCEPT !.mode = m_text]), <<>>, FALSE))

(* inline_macro: the name has been read; glue comes after the macro.       *)
inline_macro(st, s) ==
  LET Called(m) == IF m.st.fatal THEN m.st ELSE push_macro(push_char(m.st, i_glue), s, m.argv, FALSE)
      With(a) == Called(MadeAll(IF a.ic = Text(")") THEN a.st ELSE push_char(Error(a.st), a.ic), a.argv, <<>>))
      After1(r) == IF r.ic = Text("(") THEN With(ArgsFrom(getc(r.st), <<>>, TRUE))
                   ELSE Called([st |-> IF r.ic = Text("!") THEN r.st ELSE push_char(r.st, r.ic), argv |-> <<>>])
  IN After1(getc([st EXCEPT !.mode = m_text]))
-----------------------------------------------------------------------------
(* Characters are read and pushed back, names and lines are read, a macro  *)
(* is defined, called on a line and inside one, and a file is put in front *)
(* or left.                                                                *)
VARIABLES inp,          \* the state
          heard,        \* the characters read since the beginning of a line, and how they began
          taken         \* operations done

MacroIs(st, s) == [ac_unlink(st, st.macro) EXCEPT !.macro = s]

InputsInit ==
  /\ \E f \in SourceTexts : inp = InputStart(f)
  /\ heard = NoChar /\ taken = 0

ReadsIs(r) == r.ic # i_eof /\ inp' = r.st /\ heard' = r.ic
Reads == ReadsIs(getc(inp))
PutsBack == heard # NoChar /\ inp' = push_char(inp, heard) /\ heard' = NoChar
Takes(st) == inp' = st /\ heard' = NoChar
sr_com(d) == Takes(sr_enter(ac_create(d.st, d.text), <<"a">>, FreeAc(d.st)))
de_com(d) == Takes(MacroIs(ac_create(d.st, d.text), FreeAc(d.st)))

InputsNext ==
  /\ taken < MaxTaken /\ ~inp.fatal /\ ~inp.exit_called
  /\ taken' = taken + 1
  /\ \/ Reads
     \/ PutsBack
     \/ Takes(get_name(inp).st)
     \/ Takes(get_c(inp).st)
     \/ Takes(get_l(inp).st)
     \/ sr_com(get_string(inp))
     \/ de_com(scan_macro_def(inp))
     \/ Takes(mac_com(inp, inp.macro, FALSE))
     \/ Takes(inline_macro(inp, inp.macro))
     \/ \E f \in SourceTexts : Takes(push_file(inp, f, 0))
     \/ Takes(pop_file(inp))
-----------------------------------------------------------------------------
(* What a source says, to a reader who does not know of the stack: each    *)
(* text is what its characters are, with the texts that it inserts in      *)
(* their places.  Of the state st he knows the arrays and the registers,   *)
(* which the reading of a text defines and counts up and down as it goes.  *)
RECURSIVE SaysAc(_, _, _), SaysFile(_, _, _, _), Says(_, _), Drained(_)
Said(out, st) == [out |-> out, st |-> st]
Before(said, later) == [out |-> said.out \o later.out, st |-> later.st]
ArgText(st, args, c) ==
  IF DigitVal(c) < Len(args) THEN st.acs[args[DigitVal(c) + 1]].text ELSE <<>>
TextOf(st, name) == IF name \in DOMAIN st.srs /\ st.srs[name] # 0 THEN st.acs[st.srs[name]].text ELSE <<>>
InsertsNumber(st, sign, name) ==
  LET val == (IF name \in DOMAIN st.nrs THEN st.nrs[name] ELSE 0)
             + (IF sign = "+" THEN 1 ELSE IF sign = "-" THEN -1 ELSE 0)
      shown == IF val < 0 THEN <<Text("-"), Text(Digit(-val))>> ELSE <<Text(Digit(val))>> IN
  IF sign = "?" THEN Said(<<Text(IF name \in DOMAIN st.nrs THEN "1" ELSE "0")>>, st)
  ELSE Said(shown, [st EXCEPT !.nrs = (name :> val) @@ @])
InsertsString(st, args, sign, name) ==
  IF sign = "?" THEN Said(<<Text(IF name \in DOMAIN st.srs THEN "1" ELSE "0")>>, st)
  ELSE SaysAc(IF name \in DOMAIN st.srs THEN st ELSE [st EXCEPT !.srs = (name :> 0) @@ @], args, TextOf(st, name))
Inserts(st, args, isNumber, sign, name) ==
  IF isNumber THEN InsertsNumber(st, sign, name) ELSE InsertsString(st, args, sign, name)
From(t, n) == SubSeq(t, n, Len(t))
NameAt(t, n) == IF t[n] \in {"?", "+", "-"} THEN n + 1 ELSE n     \* the place of a name of one letter

SaysAc(st, args, t) ==
  LET Is(ic, n) == Before(Said(<<ic>>, st), SaysAc(st, args, From(t, n)))
      Has(said, n) == Before(said, SaysAc(said.st, args, From(t, n))) IN
  IF t = <<>> THEN Said(<<>>, st)
  ELSE IF t[1] = " " THEN Is(i_space, 2)
  ELSE IF t[1] # "#" THEN Is(Text(t[1]), 2)
  ELSE CASE t[2] = " " -> Is(Text(" "), 3)
         [] t[2] = "0" -> Is(Text("#"), 3)
         [] t[2] # "0" /\ IsDigit(t[2]) -> Is(<<DigitVal(t[2]), t[3]>>, 4)
         [] t[2] = "a" -> Has(SaysAc(st, args, ArgText(st, args, t[3])), 4)
         [] t[2] \in {"s", "n"} ->
              Has(Inserts(st, args, t[2] = "n", t[3], <<t[NameAt(t, 3)]>>), NameAt(t, 3) + 2)
         [] OTHER -> Is(Control(t[2]), 3)

SaysFile(st, args, t, begins) ==
  LET Is(ics, n, begin) == Before(Said(ics, st), SaysFile(st, args, From(t, n), begin))
      Has(said, n) == Before(said, SaysFile(said.st, args, From(t, n), FALSE)) IN
  IF t = <<>> THEN Said(IF begins THEN <<>> ELSE <<i_newline>>, st)
  ELSE LET c == t[1]
           slashes == Least({i \in DOMAIN t : t[i] # "\\"}, Len(t) + 1) - 1
           line == Least({i \in DOMAIN t : t[i] = "nl"}, Len(t) + 1)
           o == t[slashes + 1] IN
  CASE c = "nl" -> Is(<<i_newline>>, 2, TRUE)
    [] c \in {".", "'"} -> Is(<<IF begins THEN Control(c) ELSE Text(c)>>, 2, FALSE)
    [] c = "^Q" -> Is(<<Text(t[2])>>, 3, FALSE)
    [] c = "^K" -> Is(IF begins \/ line > Len(t) THEN <<>> ELSE <<i_newline>>, line + 1, TRUE)
    [] c = "\\" -> Is(<<IF o = "n" THEN IF slashes = 1 THEN Text("NL") ELSE Control("ignore")
                        ELSE <<slashes, Char(cc_tab[o])>>>>, slashes + 2, FALSE)
    [] c = "^A" -> Has(SaysAc(st, args, ArgText(st, args, t[2])), 3)
    [] c \in {"^S", "^N"} -> Has(Inserts(st, args, c = "^N", t[2], <<t[NameAt(t, 2)]>>), NameAt(t, 2) + 2)
    [] OTHER -> Is(<<IF c = " " THEN i_space ELSE Text(c)>>, 2, FALSE)

Says(st, k) ==
  IF k = 0 THEN IF st.exit_called THEN <<>> ELSE <<Control("'"), Text("e"), i_newline>>
  ELSE LET f == st.stk[k]
           below == {i \in Macros(st) : i <= k}
           args == IF below = {} THEN <<>> ELSE st.stk[CHOOSE i \in below : \A h \in below : h <= i].args
           said == CASE f.type = "file" -> SaysFile(st, args, f.text, f.nl)
                     [] f.type = "char" -> Said(IF f.text = <<i_eof>> THEN <<>> ELSE f.text, st)
                     [] OTHER -> SaysAc(st, args, f.text) IN
       said.out \o Says(said.st, k - 1)

Drained(r) ==                  \* i_eof is in it only when the stack overflows
  IF r.st.fatal THEN <<i_eof>> ELSE IF r.ic = i_eof THEN <<>> ELSE <<r.ic>> \o Drained(getc(r.st))

(* What is still to be read is the character pushed back, and what the     *)
(* sources say from the top down, whatever has been read, pushed back,     *)
(* inserted, scanned and left before.                                      *)
ReadsMeaning ==
  LET d == Drained(getc(inp)) IN
  (d = <<>> \/ d[Len(d)] # i_eof) =>
    d = (IF inp.peek \in {NoChar, i_eof} THEN <<>> ELSE <<inp.peek>>) \o Says(inp, Len(inp.stk))

(* An array is there as long as a source, a macro's arguments or a         *)
(* register hold it, and no longer, but for the arguments of empty macros. *)
(* What reads in another mode puts the mode back.                          *)
Holders(s) ==
  Cardinality({i \in DOMAIN inp.stk : inp.stk[i].s = s})
  + Cardinality({<<i, k>> \in (DOMAIN inp.stk) \X (1 .. 9) :
                   k \in DOMAIN inp.stk[i].args /\ inp.stk[i].args[k] = s})
  + Cardinality({n \in DOMAIN inp.srs : inp.srs[n] = s})
  + (IF inp.macro = s THEN 1 ELSE 0)
ReferencesTrue ==
  ~inp.fatal =>
    /\ \A s \in 1 .. NAcs : inp.acs[s].refs >= Holders(s)
    /\ inp.dropped = SumOf([s \in 1 .. NAcs |-> inp.acs[s].refs - Holders(s)], NAcs)
    /\ inp.mode = m_text /\ inp.noint = 0

InputRead == ReadsMeaning /\ ReferencesTrue
=============================================================================
