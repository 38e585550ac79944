-------------------------------- MODULE MCClib --------------------------------
EXTENDS ClibText, ShellInput, TtyIO, Cio, CharArray, Ipak, RingLife, MCCcTokens, MCCcTrees

VARIABLES machine, \* the part of the library, or of the compiler, that runs
          at        \* text: an input of one of the routines on text

Texts(A, n) == SeqOf(A, n)
TextInputs ==
  [what : {"pattern"}, p : Texts({"a", "*", "?"}, 3) \union Texts({"a", "*", "\\"}, 4),
   s : Texts({"a", "b", "*"}, 2) \union Texts({"a", "b"}, 3)]
    \union [what : {"search"}, p : Texts({"a", "b"}, 3) \ {<<>>}, s : Texts({"a", "b"}, 5)]
    \union [what : {"name"}, s : Texts({"a", ".", "/", ":", ";", " ", "^Q"}, 4) \union Texts({"a", ":", ";", "^Q"}, 5)]
    \union [what : {"path"}, dev : {<<>>, <<"a">>, <<".", "a">>}, dir : {<<>>, <<"a", ".", "b">>},
            fn1 : {<<"a">>, <<".", "a">>, <<"a", ".", "b">>, <<"a", ".">>, <<"^Q", ".", "a">>},
            fn2 : {<<>>, <<"b">>, <<"^Q", "/">>}]
    \union [what : {"mfd"}, v : Texts(0 .. 3, 5)]
    \union [what : {"args"}, args : Texts(Texts({"a", " ", "<"}, 2), 3)]
    \union [what : {"line"}, s : Texts({"a", " ", "\"", "^Q", "CR"}, 5)]
    \union [what : {"number"}, i : -256 .. 255, w : {0}]
    \union [what : {"number"}, i : {-256, -255, -64, -8, -1, 0, 7, 64, 255}, w : {5, 201}]
    \union [what : {"date"}, day : 0 .. 1461 \union 10950 .. 11020, s : {0, 43199, 86399}]
-----------------------------------------------------------------------------
(* A pattern matches the strings of its language, and sindex finds the     *)
(* first occurrence of a string.                                           *)
Language(p, A, n) ==
  LET Short(S) == {t \in S : Len(t) <= n}
      L[i \in 1 .. Len(p) + 2] == Short(
        CASE i > Len(p) -> {<<>>}
          [] i <= Len(p) /\ p[i] = "?" -> {<<c>> \o t : c \in A, t \in L[i + 1]}
          [] i <= Len(p) /\ p[i] = "*" -> {u \o t : u \in Texts(A, n), t \in L[i + 1]}
          [] i <= Len(p) /\ p[i] = "\\" ->
               IF i = Len(p) THEN {} ELSE {<<p[i + 1]>> \o t : t \in L[i + 2]}
          [] OTHER -> {<<p[i]>> \o t : t \in L[i + 1]})
  IN L[1]
PatternsMatch ==
  /\ at.what = "pattern" => smatch(at.p, at.s) = (at.s \in Language(at.p, {"a", "b", "*"}, 3))
  /\ at.what = "search" =>
       sindex(at.p, at.s) =
         Least({i \in 0 .. Len(at.s) - Len(at.p) : SubSeq(at.s, i + 1, i + Len(at.p)) = at.p}, -1)

(* A file name printed from its parts is read back as the same parts, with *)
(* blanks and punctuation inside them; and a part that is set stays set.   *)
Given == [dev |-> "no", dir |-> <<"b">>, fn1 |-> <<"b", "b", "a", "a", "a", "a", "b">>, fn2 |-> "no"]
NamesRoundTrip ==
  at.what = "name" =>
    LET f == fparse(at.s) IN
    /\ f.fn1 # Zero \/ f.fn2 = Zero => fparse(prfile(f)) = f
    /\ f.fn1 # Zero => fparse(fnsdf(at.s, Given)) = [f EXCEPT !.dir = IF @ = Zero THEN csto6(<<"b">>) ELSE @]
    /\ fparse(fnsfd(at.s, Given)) = [f EXCEPT !.dir = csto6(<<"b">>), !.fn1 = csto6(Given.fn1)]

(* A path name that is put together from a device, a directory, and a name *)
(* and a type means those, wherever else there are dots.                   *)
Unquoted(s) == LET ts == Tokens(s) IN Chars(ts, 1, Len(ts))
PathsParse ==
  at.what = "path" =>
    LET s == (IF at.dev # <<>> THEN <<"/">> \o at.dev \o <<"/">> ELSE <<>>) \o
             (IF at.dir # <<>> THEN at.dir \o <<"/">> ELSE <<>>) \o
             at.fn1 \o (IF at.fn2 # <<>> THEN <<".">> \o at.fn2 ELSE <<>>)
    IN IsPath(Tokens(s)) /\ (at.fn2 # <<>> \/ at.fn1 # <<"a", ".", "b">>) =>
         fparse(s) = Spec(csto6(at.dev), csto6(at.dir), csto6(Unquoted(at.fn1)), csto6(Unquoted(at.fn2)))

(* The master directory comes out sorted, with nothing lost or made up.    *)
MfdSorted ==
  at.what = "mfd" =>
    LET r == rdmfd(at.v) IN
    /\ \A i \in 1 .. Len(r) - 1 : r[i] <= r[i + 1]
    /\ \A x \in 1 .. 3 : Cardinality({i \in DOMAIN r : r[i] = x})
                         = Cardinality({i \in DOMAIN at.v : at.v[i] = x})

(* The arguments given to execv are those the program gets, blanks in them *)
(* and empty ones too; and those that begin with a < are taken out of them *)
(* again, although execv has quoted them.                                  *)
ArgsArrive ==
  at.what = "args" =>
    /\ prsarg(execv(at.args)) = at.args
    /\ fxarg(at.args).argv = SelectSeq(at.args, LAMBDA s : s = <<>> \/ s[1] # "<")

(* The shell divides the line for its own commands as a program divides it *)
(* for itself, but for the ^Q that it leaves, when these are used only     *)
(* inside an argument.                                                     *)
ParseAgrees ==
  at.what = "line" =>
    LET s == at.s
        mine == parse(s)
        program == prsarg(s)
    IN (\A i \in DOMAIN s : s[i] # "CR" /\ (s[i] = "^Q" => i < Len(s) /\ i > 1 /\ At(s, i - 1) = "a"))
       => /\ Len(mine) = (IF Len(program) > max_args THEN max_args ELSE Len(program))
          /\ \A i \in DOMAIN mine : Unquoted(mine[i]) = program[i]

(* A number is typed as digits that mean it, in its column: in octal as    *)
(* the bits of the word, in decimal with its sign.  The least number is    *)
(* not among them: prd types it from right to left.                        *)
Value(ds, base) == FoldLeft(LAMBDA n, d : n * base + d, 0, ds)
Unpadded(s) == SelectSeq(s, LAMBDA c : c # Blank)
PrintsNumber ==
  at.what = "number" =>
    LET o == pro(at.i, at.w)
        d == prd(at.i, at.w)
        Wide(s) == Len(s) = IF at.w <= 200 /\ at.w > Len(Unpadded(s)) THEN at.w ELSE Len(Unpadded(s))
    IN /\ Value(Unpadded(o), 8) = at.i % (2 ^ WordBits) /\ Wide(o) /\ Wide(d)
       /\ at.i >= 0 => Value(Unpadded(d), 10) = at.i
       /\ at.i < 0 /\ at.i # Smallest =>
            Unpadded(d)[1] = Minus /\ Value(Tail(Unpadded(d)), 10) = -at.i

(* Dates go to the calendar and back, and the calendar has its days in     *)
(* order, in leap years too.                                               *)
DaysIn(y, m) == CASE m \in {4, 6, 9, 11} -> 30 [] m = 2 -> (IF y % 4 = 0 THEN 29 ELSE 28) [] OTHER -> 31
NextDay(c) == IF c.day < DaysIn(c.year, c.month) THEN [c EXCEPT !.day = @ + 1]
              ELSE IF c.month < 12 THEN [c EXCEPT !.day = 1, !.month = @ + 1]
              ELSE [c EXCEPT !.day = 1, !.month = 1, !.year = @ + 1]
DatesTrue ==
  at.what = "date" =>
    LET t == at.day * 86400 + at.s + ZONE * 3600
        c == u2cal(t)
    IN /\ cal2u(c) = t /\ u2cal(t + 86400) = NextDay(c) /\ f2cal(cal2f(c)) = c
       /\ at.day = 0 => c.year = 1970 /\ c.month = 1 /\ c.day = 1

(* The routines on text agree with their reference definitions.            *)
TextRoutines ==
  /\ PatternsMatch /\ NamesRoundTrip /\ PathsParse /\ MfdSorted /\ ArgsArrive /\ ParseAgrees
  /\ PrintsNumber /\ DatesTrue
-----------------------------------------------------------------------------
(* Each part of the compiler keeps what it is to keep.                     *)
CompilerKept ==
  /\ machine = "characters" => LexemesTrue
  /\ machine = "preprocessor" => Expands /\ BlocksKept
  /\ machine = "parser" => ParserSound
  /\ machine = "errors" => ErrorsTold
  /\ machine = "types" => TypesTrue
  /\ machine = "declarations" => DictionaryTrue
  /\ machine = "statements" => StatementsTrue
-----------------------------------------------------------------------------
(* Each behaviour runs one of the parts; they share no state.              *)
LibraryParts == {"text", "input", "tty", "line", "fcbs", "append", "pages", "arrays", "pack", "ring"}
CompilerParts == {"characters", "preprocessor", "parser", "errors", "types", "declarations", "statements"}
NoText == [what |-> "nothing"]

LibraryInit ==
  /\ InputInit /\ TtyInit /\ CioInit /\ AcInit /\ PakInit /\ RingInit
  /\ IF machine = "text" THEN at \in TextInputs ELSE at = NoText
  /\ machine # "pages" => exists = {0}
  /\ machine # "pack" => ~encrypt

\* A part of the compiler that does not run has no state, or no input.
Idle == <<>>
ErrIdle ==
  /\ errfile = Idle /\ due = Idle /\ maxerr = Idle /\ editing = Idle /\ cColumn = Idle /\ listing = Idle
CompilerInit ==
  /\ IF machine = "characters" THEN LexInit ELSE lx = Idle /\ lexemes = Idle
  /\ IF machine = "preprocessor" THEN PreInit ELSE pre = Idle /\ passed = Idle
  /\ (machine # "parser" => source = <<>>) /\ ParseInit
  /\ IF machine = "errors" THEN ErrInit ELSE ErrIdle
  /\ IF machine = "types" THEN TypesInit ELSE ty = Idle /\ theirs = Idle
  /\ IF machine = "declarations" THEN DictInit ELSE dc = Idle
  /\ IF machine = "statements" THEN tree \in Bodies /\ body = Phrases(tree) /\ st = ainit
                               ELSE tree = Idle /\ body = Idle /\ st = Idle
  /\ meant = CASE machine = "characters" -> MeantByCharacters(lx.file)
               [] machine = "preprocessor" -> MeantByProgram(pre.text)
               [] machine = "errors" -> MeantByErrors(due)
               [] OTHER -> Idle

MCInit == machine \in LibraryParts \union CompilerParts /\ LibraryInit /\ CompilerInit

libraryVars == <<inputVars, ttyVars, cioVars, acVars, pakVars, ringVars>>
tokenVars == <<lexVars, preVars, parseVars, errVars>>
treeVars == <<typeVars, dc, stmtVars>>

fixed == <<machine, at, meant, tree>>
compilerVars == <<tokenVars, treeVars>>

LibraryNext ==
  \/ machine = "input" /\ InputNext
       /\ UNCHANGED <<fixed, ttyVars, cioVars, acVars, pakVars, ringVars, compilerVars>>
  \/ machine = "tty" /\ OutNext
       /\ UNCHANGED <<fixed, inputVars, cioVars, acVars, pakVars, ringVars, compilerVars>>
  \/ machine = "line" /\ LineNext
       /\ UNCHANGED <<fixed, inputVars, cioVars, acVars, pakVars, ringVars, compilerVars>>
  \/ machine = "fcbs" /\ FcbNext
       /\ UNCHANGED <<fixed, inputVars, ttyVars, acVars, pakVars, ringVars, compilerVars>>
  \/ machine = "append" /\ AppendNext
       /\ UNCHANGED <<fixed, inputVars, ttyVars, acVars, pakVars, ringVars, compilerVars>>
  \/ machine = "pages" /\ PageNext
       /\ UNCHANGED <<fixed, inputVars, ttyVars, acVars, pakVars, ringVars, compilerVars>>
  \/ machine = "arrays" /\ AcNext
       /\ UNCHANGED <<fixed, inputVars, ttyVars, cioVars, pakVars, ringVars, compilerVars>>
  \/ machine = "pack" /\ PakNext
       /\ UNCHANGED <<fixed, inputVars, ttyVars, cioVars, acVars, ringVars, compilerVars>>
  \/ machine = "ring" /\ RingNext
       /\ UNCHANGED <<fixed, inputVars, ttyVars, cioVars, acVars, pakVars, compilerVars>>

TokenNext ==
  \/ machine = "characters" /\ LexNext /\ UNCHANGED <<fixed, preVars, parseVars, errVars, libraryVars, treeVars>>
  \/ machine = "preprocessor" /\ PreNext /\ UNCHANGED <<fixed, lexVars, parseVars, errVars, libraryVars, treeVars>>
  \/ machine = "parser" /\ ParseNext /\ UNCHANGED <<fixed, lexVars, preVars, errVars, libraryVars, treeVars>>
  \/ machine = "errors" /\ ErrNext /\ UNCHANGED <<fixed, lexVars, preVars, parseVars, libraryVars, treeVars>>

TreeNext ==
  \/ machine = "types" /\ TypesNext /\ UNCHANGED <<fixed, dc, stmtVars, libraryVars, tokenVars>>
  \/ machine = "declarations" /\ DictNext /\ UNCHANGED <<fixed, typeVars, stmtVars, libraryVars, tokenVars>>
  \/ machine = "statements" /\ StmtNext /\ UNCHANGED <<fixed, typeVars, dc, libraryVars, tokenVars>>

MCNext == LibraryNext \/ TokenNext \/ TreeNext

MCSpec == MCInit /\ [][MCNext]_<<fixed, libraryVars, compilerVars>>
=============================================================================
