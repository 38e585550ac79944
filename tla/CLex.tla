---------------------------------- MODULE CLex ----------------------------------
(***************************************************************************)
(* The character level of the C compiler's lexical phase (src/src/c/c1.c): *)
(* names, numbers, strings, character constants and operators are made of  *)
(* the characters of a file, with characters that have been read too far   *)
(* pushed back.  The level above, with the control lines, gets from here   *)
(* also the newlines and number signs.  Included files are left to it.     *)
(***************************************************************************)
EXTENDS Integers, Sequences, SequencesExt

CONSTANTS Code,         \* the characters, and their ASCII codes
          CLetters,      \* those of names
          LetterDigits, \* the letters that are digits of hexadecimal numbers: what they mean
          Upper,        \* the capitals of small letters: the only letters of names
          CharFiles,    \* the files: sequences of characters
          cssiz, hshsize, Hash

Nul == "NUL"   \* what is read at the end of a file
EOL == "EOL"
Tab == "TAB"

DecimalDigits == {"0", "1", "2", "3", "4", "5", "6", "7", "8", "9"}
Digit(c) == CHOOSE d \in 0 .. 9 : <<"0", "1", "2", "3", "4", "5", "6", "7", "8", "9">>[d + 1] = c

\* Characters that may begin an operator of several; pairs that are operators, and
\* =ops; those that are operators alone.
_MCOP == {"!", "&", "+", "-", "/", "<", "=", ">", "|"}
op2s == {<<"+", "+">>, <<"-", "-">>, <<"=", "=">>, <<"!", "=">>, <<"<", "=">>, <<">", "=">>, <<"<", "<">>,
         <<">", ">">>, <<"-", ">">>, <<"&", "&">>, <<"|", "|">>}
EqOps == {<<"=", c>> : c \in {"+", "-", "*", "/", "%", "&", "^", "|"}}
SingleOps == {"%", "(", ")", "*", ",", ":", ";", "?", "[", "]", "^", "{", "}", "~"}

trt(c) == IF c \in DOMAIN Upper THEN Upper[c] ELSE IF c = Tab THEN " " ELSE c
typ(c) ==
  CASE c \in CLetters -> "_LETTER"
    [] c \in DecimalDigits -> "_DIGIT"
    [] c \in _MCOP -> "_MCOP"
    [] c \in SingleOps -> "operator"
    [] c = "\"" -> "_QUOTE"
    [] c = "'" -> "_SQUOTE"
    [] c = "." -> "_PERIOD"
    [] c = "\\" -> "_ESCAPE"
    [] c = "#" -> "_CONTROL"
    [] c = EOL -> "_EOL"
    [] c = " " -> "_BLANK"
    [] OTHER -> "_INVALID"

VARIABLES lx,     \* the state of the character level
          lexemes \* what it has made

lexVars == <<lx, lexemes>>

tt(s) == trt(s.cc)
ttype(s) == typ(tt(s))
Lexed(s, tag, val) == [s EXCEPT !.tag = tag, !.val = val]
errlex(s, n) == [s EXCEPT !.errors = @ \union {n}, !.dead = @ \/ n >= 4000]

\* A character from those pushed back, or from the file, counting its lines.
lgetc(s) ==
  CASE s.back # <<>> -> [s EXCEPT !.cc = Last(s.back), !.back = Front(s.back)]
    [] s.back = <<>> /\ s.file = <<>> -> [s EXCEPT !.cc = Nul]
    [] OTHER -> [s EXCEPT !.cc = Head(s.file), !.file = Tail(@),
                          !.i_line = IF Head(s.file) = EOL THEN @ + 1 ELSE @]
\* Mutant: of two characters put back, the first one comes first.
pbackFirst(s, c) == [s EXCEPT !.back = <<c>> \o @]
pback(s, c) == [s EXCEPT !.back = Append(@, c)]

\* A character is put in the working string, while there is room after cwp.
move(s) ==
  lgetc(IF s.cwp + Len(s.word) < cssiz - 1 THEN [s EXCEPT !.word = Append(@, tt(s))] ELSE [s EXCEPT !.truncate = TRUE])
Truncation(s) == IF s.truncate THEN errlex(s, 4001) ELSE s
-----------------------------------------------------------------------------
RECURSIVE MoveWhile(_, _), Hexadecimal(_, _), Octal(_, _, _), StringChars(_), CharChars(_, _, _), Commented(_),
          AfterStars(_), Probe(_, _, _), Lexeme(_)

MoveWhile(s, types) == IF ttype(s) \in types THEN MoveWhile(move(s), types) ELSE s

\* The entry of a name in the hash table, where it is or where it is put.
Probe(table, n, i) ==
  IF table[i] = <<>> \/ table[i] = n THEN i ELSE Probe(table, n, IF i + 1 >= hshsize THEN 0 ELSE i + 1)
lookup(s, n) ==
  LET i == Probe(s.hshtab, n, Hash[n] % hshsize) IN
  IF s.hshtab[i] = n THEN s
  ELSE IF s.hshused + 1 >= hshsize THEN errlex(s, 4000)
  ELSE [s EXCEPT !.hshtab[i] = n, !.hshused = @ + 1, !.cwp = @ + Len(n) + 1]

NameLexeme(s) ==
  LET r == Truncation(MoveWhile(s, {"_LETTER", "_DIGIT"})) IN
  IF r.dead THEN r ELSE LET e == lookup(r, r.word) IN Lexed(pback(e, e.cc), "name", e.word)

\* Digits 8 and 9 in an octal number only set their bits.
HexDigit(c) == IF c \in DecimalDigits THEN Digit(c) ELSE LetterDigits[c]
Hexadecimal(s, sum) ==
  LET r == lgetc(s) IN
  IF tt(r) \in DecimalDigits \union DOMAIN LetterDigits THEN Hexadecimal(r, sum * 16 + HexDigit(tt(r)))
  ELSE Lexed(IF tt(r) = "L" THEN r ELSE pback(r, r.cc), "integer", sum)
Value8(ds) == FoldLeft(LAMBDA n, d : n * 8 + (IF n % 2 = 1 /\ d >= 8 THEN d - 8 ELSE d), 0, ds)
Value10(ds) == FoldLeft(LAMBDA n, d : n * 10 + d, 0, ds)
Integer(word) == LET ds == [i \in DOMAIN word |-> Digit(word[i])] IN IF ds[1] = 0 THEN Value8(ds) ELSE Value10(ds)

\* `float' when a period has been read already.
number(s, float) ==
  LET first == move(s)
      whole == MoveWhile(first, {"_DIGIT"})
      point == ~float /\ tt(whole) = "."
      r == IF point THEN MoveWhile(move(whole), {"_DIGIT"}) ELSE whole
      exp == tt(r) = "E"
      e == IF exp THEN move(r) ELSE r
      q == IF exp THEN MoveWhile(IF tt(e) \in {"+", "-"} THEN move(e) ELSE e, {"_DIGIT"}) ELSE r
      real == float \/ point \/ exp
      z == IF tt(q) = "L" /\ ~real THEN q ELSE pback(q, q.cc)
  IN CASE ~float /\ tt(first) = "X" /\ first.word = <<"0">> -> Hexadecimal(first, 0)
       [] real /\ ~(tt(first) = "X" /\ first.word = <<"0">> /\ ~float) ->
            Truncation([Lexed(z, "float", z.word) EXCEPT !.cwp = @ + Len(z.word) + 1])
       [] OTHER -> Truncation(Lexed(z, "integer", Integer(z.word)))

period(s) ==
  LET r == move(s) IN
  IF ttype(r) = "_DIGIT" THEN number(r, TRUE) ELSE Lexed(pback(r, r.cc), "operator", <<".">>)

\* The character that an escape sequence stands for; up to three octal digits.
Octal(s, n, count) ==
  LET m == n * 8 + Digit(tt(s))
      r == lgetc(s)
  IN IF tt(r) \in {"0", "1", "2", "3", "4", "5", "6", "7"} /\ count > 1 THEN Octal(r, m, count - 1)
     ELSE [s |-> pback(r, r.cc), c |-> m]
escape(s) ==
  CASE ttype(s) = "_ESCAPE" \/ tt(s) \in {"'", "\""} -> [s |-> s, c |-> Code[tt(s)]]
    [] tt(s) \in {"0", "1", "2", "3", "4", "5", "6", "7"} -> Octal(s, 0, 3)
    [] tt(s) = "N" -> [s |-> s, c |-> 10]
    [] tt(s) = "R" -> [s |-> s, c |-> 13]
    [] tt(s) = "T" -> [s |-> s, c |-> 9]
    [] tt(s) = "B" -> [s |-> s, c |-> 8]
    [] tt(s) = "V" -> [s |-> s, c |-> 11]
    [] tt(s) = "P" -> [s |-> s, c |-> 12]
    [] OTHER -> [s |-> errlex(s, 1004), c |-> 32]

\* On the string file a null is $0 and a dollar sign is doubled.
Dollar == 36
swrite(s, c) ==
  [s EXCEPT !.strings = @ \o (CASE c = 0 -> <<Dollar, Code["0"]>> [] c = Dollar -> <<Dollar, Dollar>> [] OTHER -> <<c>>)]

StringChars(s) ==
  IF tt(s) \in {"\"", Nul, EOL} THEN s
  ELSE LET r == lgetc(s)
           e == escape(r)
       IN CASE ttype(s) = "_ESCAPE" /\ tt(r) = EOL -> StringChars(lgetc(r))
            [] ttype(s) = "_ESCAPE" /\ tt(r) # EOL -> StringChars(lgetc(swrite(e.s, e.c)))
            [] OTHER -> StringChars(lgetc(swrite(s, Code[s.cc])))
string(s) ==
  LET r == StringChars(lgetc(s))
      z == IF tt(r) = "\"" THEN lgetc(r) ELSE errlex(r, 2001)
  IN Lexed([pback(z, z.cc) EXCEPT !.strings = Append(@, 0)], "string", Len(s.strings))

CharChars(s, c, len) ==
  IF tt(s) \in {"'", Nul, EOL} THEN [s |-> s, c |-> c, len |-> len]
  ELSE LET r == lgetc(s)
           e == escape(r)
       IN CASE ttype(s) = "_ESCAPE" /\ tt(r) = EOL -> CharChars(lgetc(r), c, len)
            [] ttype(s) = "_ESCAPE" /\ tt(r) # EOL -> CharChars(lgetc(e.s), e.c, len + 1)
            [] OTHER -> CharChars(lgetc(s), Code[s.cc], len + 1)
charcon(s) ==
  LET r == CharChars(lgetc(s), 0, 0)
      z == CASE tt(r.s) # "'" -> errlex(r.s, 1003)
             [] tt(r.s) = "'" /\ r.len > 1 -> errlex(r.s, 1002)
             [] OTHER -> r.s
  IN Lexed(z, "integer", r.c)

\* After the beginning of a comment: the lexeme that follows it.
AfterStars(s) == IF tt(s) = "*" THEN AfterStars(lgetc(s)) ELSE s
Commented(s) ==
  LET r == lgetc(s)
      next == AfterStars(r)
  IN CASE tt(r) = Nul -> Lexeme(errlex(r, 1001))
       [] tt(r) = "*" /\ tt(next) = "/" -> Lexeme(next)
       [] OTHER -> Commented(next)

mcop(s) ==
  LET r == lgetc(s)
      q == lgetc(r)
      pair == <<tt(s), tt(r)>>
  IN CASE tt(s) = "=" /\ tt(r) \in {"<", ">"} ->
            IF tt(q) = tt(r) THEN Lexed(q, "=op", <<"=", tt(r), tt(r)>>)
                             ELSE Lexed(pback(pback(q, q.cc), r.cc), "operator", <<"=">>)
       [] pair = <<"/", "*">> -> Commented(r)
       [] pair \in EqOps -> Lexed(r, "=op", pair)
       [] pair \in op2s -> Lexed(r, "operator", pair)
       [] OTHER -> Lexed(pback(r, r.cc), "operator", <<tt(s)>>)

(* The next lexeme, with the line it is on.                                *)
Lexeme(s) ==
  LET r == lgetc([s EXCEPT !.word = <<>>, !.truncate = FALSE, !.lexline = s.i_line]) IN
  CASE tt(r) = Nul -> Lexed(r, "eof", <<>>)
    [] ttype(r) = "_LETTER" -> NameLexeme(r)
    [] ttype(r) = "_DIGIT" -> number(r, FALSE)
    [] ttype(r) = "_PERIOD" -> period(r)
    [] ttype(r) = "_QUOTE" -> string(r)
    [] ttype(r) = "_SQUOTE" -> charcon(r)
    [] ttype(r) = "_MCOP" -> mcop(r)
    [] ttype(r) = "_EOL" -> Lexed(r, "newline", <<>>)
    [] ttype(r) = "_BLANK" -> Lexeme(r)
    [] ttype(r) = "_CONTROL" -> Lexed(r, "control", <<>>)
    [] tt(r) # Nul /\ ttype(r) \in {"_ESCAPE", "_INVALID"} -> Lexeme(errlex(r, 1000))
    [] OTHER -> Lexed(r, "operator", <<tt(r)>>)
-----------------------------------------------------------------------------
Unread(f) ==
  [file |-> f, back |-> <<>>, cc |-> Nul, i_line |-> 1, lexline |-> 1,
   word |-> <<>>, truncate |-> FALSE, cwp |-> 0,
   hshtab |-> [i \in 0 .. hshsize - 1 |-> <<>>], hshused |-> 0,
   strings |-> <<>>, errors |-> {}, dead |-> FALSE, tag |-> "none", val |-> <<>>]
LexInit == lexemes = <<>> /\ \E f \in CharFiles : lx = Unread(f)

LexNext ==
  /\ lx.tag # "eof" /\ ~lx.dead
  /\ lx' = Lexeme(lx)
  /\ lexemes' = IF lx'.dead THEN lexemes ELSE Append(lexemes, [tag |-> lx'.tag, val |-> lx'.val, line |-> lx'.lexline])

LexSpec == LexInit /\ [][LexNext]_lexVars
=============================================================================
