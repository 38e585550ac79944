------------------------------- MODULE MCCcTokens -------------------------------
(***************************************************************************)
(* The C compiler on texts, for TLC: small inputs of its character level,  *)
(* preprocessor, parser and error editor, and what these inputs mean,      *)
(* defined without the compiler's tables, buffers and states.              *)
(***************************************************************************)
EXTENDS YParse, CPre, CLex, CErr, FiniteSets, TLC

VARIABLE meant \* what the input of the part that runs means
-----------------------------------------------------------------------------
(* A grammar of statements "i ;" and blocks "( P )", and its tables.       *)
mTypes == {"i", ";", "(", ")", "eof"}
mRules == 1 .. 4
mr1 == <<"P", "P", "S", "S">>
mr2 == <<2, 0, 2, 3>>
On(row) == [t \in mTypes |-> IF t \in DOMAIN row THEN row[t] ELSE Fails]
Always(what) == [t \in mTypes |-> what]
mAct ==
  <<Always(Reduces(2)), On("eof" :> Accepts @@ "i" :> Shifts(3) @@ "(" :> Shifts(4)), On(";" :> Shifts(6)),
    Always(Reduces(2)), Always(Reduces(1)), Always(Reduces(3)),
    On(")" :> Shifts(8) @@ "i" :> Shifts(3) @@ "(" :> Shifts(4)), Always(Reduces(4))>>
mGoto == <<1, "P">> :> 2 @@ <<4, "P">> :> 7 @@ <<2, "S">> :> 5 @@ <<7, "S">> :> 5
mDepth == <<0, 1, 2, 2, 2, 3, 3, 4>>
mSentences == LET ts == SeqOf(mTypes \ {"eof"}, 5) IN ts \union {<<"(">> \o s : s \in ts}

IsSentence(text) ==
  LET Deeper(d, t) ==
        CASE d.want = ";" /\ t = ";" -> [d EXCEPT !.want = "any"]
          [] d.want = "any" /\ t = "i" -> [d EXCEPT !.want = ";"]
          [] d.want = "any" /\ t = "(" -> [d EXCEPT !.depth = @ + 1]
          [] d.want = "any" /\ t = ")" /\ d.depth > 0 -> [d EXCEPT !.depth = @ - 1]
          [] OTHER -> [d EXCEPT !.want = "error"]
  IN FoldLeft(Deeper, [depth |-> 0, want |-> "any"], text) = [depth |-> 0, want |-> "any"]

(* What the parser accepts is the text but for the tokens that its         *)
(* messages name, and a sentence.                                          *)
Remaining == SelectSeq([p \in 1 .. Len(source) |-> p], LAMBDA p : p \notin reported)
ParserSound == outcome = "accept" => IsSentence([i \in DOMAIN Remaining |-> source[Remaining[i]]])
-----------------------------------------------------------------------------
(* Characters: texts of the characters that a lexeme can begin, go on and  *)
(* end with, and string constants with their escapes.                      *)
mCode ==
  [c \in {"a", "b", "x", "L", "E", "X", "l", "0", "7", "9", ".", "+", "=", "<", "-", "/", "*", " ", EOL, "(", "#", "@",
          "\"", "'", "\\", "$", "n", "N", "A", "B"} |->
     CASE c = "a" -> 97 [] c = "0" -> 48 [] c = "\"" -> 34 [] c = "\\" -> 92 [] c = "$" -> 36 [] c = "'" -> 39
       [] c = "7" -> 55 [] c = EOL -> 10 [] OTHER -> 64]
mLetters == {"A", "B", "X", "L", "E", "N"}
mUpper == "a" :> "A" @@ "b" :> "B" @@ "x" :> "X" @@ "l" :> "L" @@ "n" :> "N"
mLetterDigits == "A" :> 10 @@ "B" :> 11 @@ "E" :> 14
mHash == [w \in SeqOf({"A", "B", "X", "L", "E", "0", "7"}, 4) |-> Len(w)]

Escaped(code) ==
  CASE code = 97 -> <<"a">> [] code = 36 -> <<"$">> [] code = 55 -> <<"7">> [] code = 39 -> <<"'">>
    [] code = 34 -> <<"\\", "\"">> [] code = 92 -> <<"\\", "\\">> [] code = 10 -> <<"\\", "n">>
    [] code = 0 -> <<"\\", "0", "0", "0">> [] code = 7 -> <<"\\", "7">>
Contents == SeqOf({97, 34, 92, 10, 36, 0, 39}, 3)
StringFile(codes) ==
  <<"\"">> \o FlattenSeq([i \in DOMAIN codes |-> Escaped(codes[i])]) \o
  <<"\"", "\"", "\\", EOL, "\"", "'">> \o Escaped(7) \o <<"'", "x">>
PlainFiles ==
  SeqOf({"0", "7", "x", "L", ".", "E", "+"}, 4) \union SeqOf({"=", "<", "+", "-", "/", "*"}, 4)
    \union SeqOf({"a", "0", " ", EOL, "/", "*"}, 4) \union SeqOf({"a", "b", EOL, "#", "@", "("}, 3)
mCharFiles == PlainFiles \union {StringFile(codes) : codes \in Contents}

\* Lexemes as sets of strings of characters, after trt.
AllDigits(w) == ToSet(w) \subseteq DecimalDigits
Exponent(w) ==
  \/ w = <<>>
  \/ /\ w[1] = "E"
     /\ \/ AllDigits(Tail(w))
        \/ Len(w) > 1 /\ w[2] \in {"+", "-"} /\ AllDigits(SubSeq(w, 3, Len(w)))
IsFloat(w) ==
  \E i \in 0 .. Len(w) :
    LET a == SubSeq(w, 1, i)
        b == SubSeq(w, i + 1, Len(w))
    IN /\ Exponent(b)
       /\ \/ a # <<>> /\ AllDigits(a) /\ b # <<>>
          \/ Len(a) > 1 /\ \E j \in 1 .. Len(a) :
               a[j] = "." /\ AllDigits(SubSeq(a, 1, j - 1)) /\ AllDigits(SubSeq(a, j + 1, Len(a)))
Short_(w) == IF w # <<>> /\ Last(w) = "L" THEN Front(w) ELSE w
IsHex(w) == Len(w) >= 2 /\ w[1] = "0" /\ w[2] = "X" /\ ToSet(SubSeq(w, 3, Len(w))) \subseteq DecimalDigits \union DOMAIN LetterDigits
IsInteger(w) == LET n == Short_(w) IN (n # <<>> /\ AllDigits(n)) \/ IsHex(n)
IsName(w) == w # <<>> /\ w[1] \in CLetters /\ ToSet(w) \subseteq CLetters \union DecimalDigits
Operators == {<<c>> : c \in _MCOP \union SingleOps \union {"."}} \union op2s
Assignments == EqOps \union {<<"=", "<", "<">>, <<"=", ">", ">">>}
OpensComment(w) == Len(w) >= 2 /\ w[1] = "/" /\ w[2] = "*"
Closes(w) == {j \in 4 .. Len(w) : w[j - 1] = "*" /\ w[j] = "/"}
IsComment(w) == OpensComment(w) /\ Closes(w) = {Len(w)}
KindOf(w) ==
  CASE IsName(w) -> "name" [] IsInteger(w) -> "integer" [] IsFloat(w) -> "float"
    [] w \in Assignments -> "=op" [] w \in Operators -> "operator" [] w = <<"#">> -> "control"
    [] w = <<EOL>> -> "newline" [] w \in {<<" ">>, <<"@">>} -> "blank" [] IsComment(w) -> "comment"
    [] OTHER -> "none"

Numeral(ds, base) == FoldLeft(LAMBDA n, d : n * base + (IF d \in DecimalDigits THEN Digit(d) ELSE LetterDigits[d]), 0, ds)
IntegerOf(w) ==
  LET n == Short_(w) IN
  IF IsHex(n) THEN Numeral(SubSeq(n, 3, Len(n)), 16) ELSE Numeral(n, IF n[1] = "0" THEN 8 ELSE 10)
LexemeOf(w, line) ==
  [tag |-> KindOf(w), line |-> line,
   val |-> CASE KindOf(w) = "integer" -> IntegerOf(w)
             [] KindOf(w) \in {"name", "float", "operator", "=op"} -> w
             [] OTHER -> <<>>]

\* A text is its longest lexeme and the lexemes of what follows; a comment
\* that is not closed ends it, at whatever line.
EndOfFile(line) == <<[tag |-> "eof", val |-> <<>>, line |-> line]>>
RECURSIVE LexemesOf(_, _)
LexemesOf(w, line) ==
  IF w = <<>> THEN EndOfFile(line)
  ELSE IF OpensComment(w) /\ Closes(w) = {} THEN EndOfFile(-1)
  ELSE LET n == CHOOSE i \in 1 .. Len(w) : KindOf(SubSeq(w, 1, i)) # "none"
                                             /\ \A j \in i + 1 .. Len(w) : KindOf(SubSeq(w, 1, j)) = "none"
           first == SubSeq(w, 1, n)
           rest == LexemesOf(SubSeq(w, n + 1, Len(w)), line + Cardinality({i \in 1 .. n : w[i] = EOL}))
       IN IF KindOf(first) \in {"blank", "comment"} THEN rest ELSE <<LexemeOf(first, line)>> \o rest

\* The string file has two bytes for a character $ or NUL, and ends a string
\* with a NUL.
RECURSIVE DecodedStrings(_)
DecodedStrings(bytes) ==
  IF bytes = <<>> THEN <<>>
  ELSE CASE bytes[1] = 36 -> <<IF bytes[2] = 36 THEN 36 ELSE 0>> \o DecodedStrings(SubSeq(bytes, 3, Len(bytes)))
         [] bytes[1] = 0 -> <<-1>> \o DecodedStrings(Tail(bytes))
         [] OTHER -> <<bytes[1]>> \o DecodedStrings(Tail(bytes))

MeantByCharacters(file) ==
  IF file \in PlainFiles
  THEN [plain |-> TRUE, lexemes |-> LexemesOf([i \in DOMAIN file |-> trt(file[i])], 1), codes |-> <<>>]
  ELSE [plain |-> FALSE, lexemes |-> <<>>, codes |-> CHOOSE codes \in Contents : file = StringFile(codes)]

(* The character level makes the lexemes of the text, with their values    *)
(* and, but for newlines, their lines; and the string file has the strings *)
(* that the program has.                                                   *)
SameLexeme(a, b) == a.tag = b.tag /\ a.val = b.val /\ (a.tag = "newline" \/ b.line = -1 \/ a.line = b.line)
LexemesTrue ==
  IF meant.plain
  THEN /\ Len(lexemes) <= Len(meant.lexemes) /\ \A i \in DOMAIN lexemes : SameLexeme(lexemes[i], meant.lexemes[i])
       /\ lx.tag = "eof" => Len(lexemes) = Len(meant.lexemes)
  ELSE lx.tag = "eof" =>
         /\ DecodedStrings(lx.strings) = meant.codes \o <<-1, -1>>
         /\ [i \in DOMAIN lexemes |-> lexemes[i].tag] = <<"string", "string", "integer", "name", "eof">>
         /\ lexemes[3].val = 7 /\ lexemes[4].line = 2
-----------------------------------------------------------------------------
(* Programs of three lines that define, use, undefine and rename manifests *)
(* and macros, nest their calls, skip lines and include a file.            *)
LineKinds ==
  << <<"#", "define", " ", "a", " ", "x", "b">>,
     <<"#", "define", " ", "f", "(", "x", ")", " ", "x", "+", "a", "(", "x", ")">>,
     <<"#", "define", " ", "g", "(", "x", ",", "y", ")", "f", "(", "y", ")", "x">>,
     <<"#", "macro", " ", "a", "(", ")", "newline", "b", "b", "newline", "#", "end">>,
     <<"a">>,
     <<"f", "(", "a", ")">>,
     <<"g", "(", "f", "(", "a", ")", ",", "(", "x", ",", "y", ")", ")", "b">>,
     <<"a", "(", "b", "newline", "#", "undefine", "a", "newline", "a", ")">>,
     <<"#", "undefine", "a">>,
     <<"#", "ifdef", " ", "a">>,
     <<"#", "ifndef", " ", "f">>,
     <<"#", "endif">>,
     <<"#", "include", "s">>,
     <<"#", "rename", " ", "f", "s">>,
     <<"#", "if", " ", "b">> >>
mPrograms == {FlattenSeq([i \in DOMAIN ks |-> Append(LineKinds[ks[i]], "newline")]) : ks \in SeqOf(DOMAIN LineKinds, 3) \ {<<>>}}
mCNames == {"a", "b", "f", "g", "x", "y", "if"} \union Directives
mIncluded == [s \in {"s"} |-> <<"b", "(", "a", "newline", "#", "define", "x", "y", "newline", "a", "newline">>]

\* The lines of a text, without blanks.
RECURSIVE SourceLines(_, _)
SourceLines(text, line) ==
  CASE text = <<>> -> IF line = <<>> THEN <<>> ELSE <<line>>
    [] text # <<>> /\ Head(text) = "newline" -> <<line>> \o SourceLines(Tail(text), <<>>)
    [] text # <<>> /\ Head(text) # "newline" -> SourceLines(Tail(text), IF Head(text) = " " THEN line ELSE Append(line, Head(text)))

Undefined == [class |-> "none", body |-> <<>>]
Manifest(b) == [class |-> "man", body |-> b]
Macro(b) == [class |-> "mac", body |-> b]
Plain_(l) == IF l \in mCNames \ {"if"} THEN Idn(<<l>>) ELSE Token(l, <<>>)

\* The arguments of a call, from after its parenthesis; one that is empty at
\* the end is none.
RECURSIVE CallOf(_, _, _, _)
CallOf(ts, args, arg, level) ==
  IF ts = <<>> THEN [args |-> args, rest |-> <<>>, ok |-> FALSE]
  ELSE LET t == Head(ts).tag IN
       CASE t = ")" /\ level = 0 -> [args |-> IF arg = <<>> THEN args ELSE Append(args, arg), rest |-> Tail(ts), ok |-> TRUE]
         [] t = "," /\ level = 0 -> CallOf(Tail(ts), Append(args, arg), <<>>, 0)
         [] OTHER -> CallOf(Tail(ts), args, Append(arg, Head(ts)),
                            level + (CASE t = "(" -> 1 [] t = ")" -> -1 [] OTHER -> 0))
Substituted(ts, args) ==
  FlattenSeq([i \in DOMAIN ts |->
    CASE ts[i].tag # "marg" -> <<ts[i]>>
      [] ts[i].tag = "marg" /\ ts[i].n < Len(args) -> args[ts[i].n + 1]
      [] OTHER -> <<>>])

\* The tokens of words, each with the definitions and the formal parameters
\* that hold where it is: bodies are expanded where they are defined, and
\* what a call brings is not expanded again.
RECURSIVE Expansion(_)
Expansion(ws) ==
  IF ws = <<>> THEN <<>>
  ELSE LET w == Head(ws)
           d == w.env[w.l]
           rest == Expansion(Tail(ws))
           call == IF rest # <<>> /\ rest[1].tag = "(" THEN CallOf(Tail(rest), <<>>, <<>>, 0)
                   ELSE [args |-> <<>>, rest |-> IF rest = <<>> THEN <<>> ELSE Tail(rest), ok |-> TRUE]
       IN CASE w.l \notin mCNames -> <<Plain_(w.l)>> \o rest
            [] w.l \in DOMAIN w.formals -> <<Margin(w.formals[w.l])>> \o rest
            [] w.l \in mCNames \ DOMAIN w.formals ->
                 CASE d.class = "none" -> <<Plain_(w.l)>> \o rest
                   [] d.class = "man" -> d.body \o rest
                   [] d.class = "mac" -> IF call.ok THEN Substituted(d.body, call.args) \o call.rest
                                                    ELSE <<Token("never", <<>>)>>
Words_(line, env, formals) == [i \in DOMAIN line |-> [l |-> line[i], env |-> env, formals |-> formals]]
NoFormals == [x \in {} |-> 0]

\* The formal parameters in "( x , y ) ...", and what follows them.
Params(l) ==
  LET e == SelectInSeq(l, LAMBDA x : x = ")") IN
  [names |-> SelectSeq(SubSeq(l, 2, e - 1), LAMBDA x : x # ","), rest |-> SubSeq(l, e + 1, Len(l))]
Places(names) == [n \in ToSet(names) |-> SelectInSeq(names, LAMBDA x : x = n) - 1]

\* What lines mean: each is a directive, or words of the program or of the
\* macro that is being defined; st.skip counts the skipped levels.
RECURSIVE MeaningOf(_, _)
MeaningOf(lines, st) ==
  IF lines = <<>> THEN Expansion(st.words)
  ELSE
  LET l == Head(lines)
      directive == IF Len(l) > 1 /\ l[1] = "#" THEN l[2] ELSE ""
      arg == IF Len(l) > 2 THEN l[3] ELSE ""
      Then_(s) == MeaningOf(Tail(lines), s)
      formals == Params(SubSeq(l, 4, Len(l)))
      defined == st.env[arg] # Undefined
  IN
  IF st.skip > 0
  THEN Then_([st EXCEPT !.skip = @ + (CASE directive \in {"if", "ifdef", "ifndef"} -> 1 [] directive = "endif" -> -1 [] OTHER -> 0)])
  ELSE
  CASE directive = "" /\ st.mac = "" -> Then_([st EXCEPT !.words = @ \o Words_(l, st.env, NoFormals)])
    [] directive = "" /\ st.mac # "" -> Then_([st EXCEPT !.body = @ \o Words_(l, st.env, st.formals)])
    [] directive = "define" /\ arg \in {"f", "g"} ->
         Then_([st EXCEPT !.env[arg] = Macro(Expansion(Words_(formals.rest, st.env, Places(formals.names))))])
    [] directive = "define" /\ arg \notin {"f", "g"} ->
         Then_([st EXCEPT !.env[arg] = Manifest(Expansion(Words_(SubSeq(l, 4, Len(l)), st.env, NoFormals)))])
    [] directive = "macro" -> Then_([st EXCEPT !.mac = arg, !.body = <<>>, !.formals = Places(formals.names)])
    [] directive = "end" -> Then_([st EXCEPT !.env[st.mac] = Macro(Expansion(st.body)), !.mac = ""])
    [] directive = "undefine" -> Then_([st EXCEPT !.env[arg] = Undefined])
    [] directive = "rename" -> Then_([st EXCEPT !.env[arg] = Manifest(<<Idn(<<" ", l[4]>>)>>)])
    [] directive = "ifdef" -> Then_([st EXCEPT !.skip = IF defined THEN 0 ELSE 1])
    [] directive = "ifndef" -> Then_([st EXCEPT !.skip = IF defined THEN 1 ELSE 0])
    [] directive = "include" -> MeaningOf(SourceLines(Included[arg], <<>>) \o Tail(lines), st)
    [] OTHER -> Then_(st)
MeantByProgram(text) ==
  Append(MeaningOf(SourceLines(text, <<>>),
                   [words |-> <<>>, env |-> [n \in mCNames |-> Undefined], skip |-> 0, mac |-> "",
                    body |-> <<>>, formals |-> NoFormals]), Eof_)

(* The parser gets the tokens that the program means, all of them unless   *)
(* the phase has stopped, which it does here for nested definitions only.  *)
Expands ==
  /\ IsPrefix(passed, meant) /\ (passed # <<>> /\ Last(passed).tag = "eof" => passed = meant)
  /\ pre.fatal # 0 => pre.fatal = 4017
-----------------------------------------------------------------------------
(* Errors: messages that begin and go on a line, of every conversion, and  *)
(* errors that the tables do not have.                                     *)
mFormats ==
  1001 :> <<"a", Space, "%m", Space, "b">> @@ 1003 :> <<"%t">> @@ 2001 :> <<"%q", ":", Space, "%d">> @@
  2002 :> <<"%s", Space, "%n", Space, "%t">> @@ 4000 :> <<"c", "c", "c">> @@ 6001 :> <<"%d", Space, "%d">>
mTableSizes == 1000 :> 5 @@ 2000 :> 4 @@ 4000 :> 2 @@ 6000 :> 3
mSymbols ==
  [sterm |-> [tag \in {23} |-> <<"+">>], asgnop |-> << <<"=", "+">> >>, nodeop |-> << <<"p">>, <<"q", "q">> >>,
   sq |-> << <<"x", Space, "y">> >>]
mcstore == 0 :> <<"v">> @@ 1 :> <<"n", "a", "m", "e", "s">>
Error_(errno, line, args) == [errno |-> errno, line |-> line, args |-> args]
ErrorKinds ==
  {Error_(1001, line, <<0, 0, 0>>) : line \in {0, 12}}
    \union {Error_(1003, 5, t \o <<0>>) : t \in {<<TIDN, UNDEF_>>, <<TIDN, 1>>, <<TIDN, 11>>, <<TFLOATC, 0>>, <<TINTCON, 120>>,
                                                 <<TSTRING, 0>>, <<TEQOP, 1>>, <<23, 0>>}}
    \union {Error_(2001, 7, <<x, y, 0>>) : x \in {1, 9}, y \in {-41, 0}}
    \union {Error_(2002, 0, <<0, 2, TIDN, 1>>), Error_(1004, 3, <<0, 0, 0>>), Error_(2007, 3, <<0, 0, 0>>),
            Error_(4000, 3, <<0, 0, 0>>), Error_(4001, 0, <<0, 0, 0>>), Error_(6001, 3, <<5, 6, 0>>),
            Error_(6002, 3, <<0, 0, 0>>)}
mErrors == SeqOf(ErrorKinds, 2)

(* Every error up to the first fatal one is told, in order and with all    *)
(* its characters; and no line is longer than it may be, or has a blank    *)
(* where one ends the line.                                                *)
MeantByErrors(errors) ==
  LET fatal == SelectInSeq(errors, LAMBDA e : e.errno >= 4000) IN
  FlattenSeq([i \in 1 .. (IF fatal = 0 THEN Len(errors) ELSE fatal) |-> Message(errors[i])])
Ink(text) == SelectSeq(text, LAMBDA c : c \notin {NL_, Space})
Typed(text) == FoldLeft(LAMBDA ls, c : IF c = NL_ THEN Append(ls, <<>>) ELSE Append(Front(ls), Append(Last(ls), c)), << <<>> >>, text)
ErrorsTold ==
  /\ editing = "done" => Ink(listing) = Ink(meant)
  /\ maxerr >= 4000 => due = <<>>
  /\ \A l \in ToSet(Typed(listing)) : Len(l) <= lastColumn /\ \A i \in DOMAIN l : i > breakColumn => l[i] # Space
=============================================================================
