---------------------------------- MODULE CErr ----------------------------------
(***************************************************************************)
(* Errors of the C compiler: the phases append records to the error file   *)
(* (src/src/c/c95.c), and the error editor, the last phase, makes messages *)
(* of them (src/src/c/c5.c) and breaks them into lines.  A character is a  *)
(* blank, a newline or any other; a number is typed as its digits.         *)
(***************************************************************************)
EXTENDS Integers, Sequences, SequencesExt

CONSTANTS Formats,    \* the formats: for some numbers of errors, a sequence of characters and
                      \* conversions "%d", "%s", "%t", "%n", "%m", "%q"
          TableSizes, \* the sizes of the tables m1000, m2000, m4000, m6000
          Errors,     \* the errors of a compilation: sequences of [errno, line, args]
          Symbols,    \* the texts of sterm, asgnop, nodeop, and sq with snterm
          cstore,     \* the names, by place
          cssize, breakColumn, lastColumn

NL_ == "newline"
Space == " "
UNDEF_ == -1
TEQOP == 36
TIDN == 75
TINTCON == 76
TFLOATC == 77
TSTRING == 78

VARIABLES errfile,  \* the error file
          due,      \* errors that the compilation has still to make
          maxerr,   \* the greatest number of an error
          editing,  \* the error editor runs; "done" when it has ended
          cColumn,   \* where the line is
          listing      \* what it has written

errVars == <<errfile, due, maxerr, editing, cColumn, listing>>

\* The tables have places of no message; an error of those is printed as a number.
Table(errno) == CASE errno < 2000 -> 1000 [] errno \in 2000 .. 3999 -> 2000 [] errno \in 4000 .. 5999 -> 4000 [] OTHER -> 6000
getfmt(errno) ==
  LET n == errno - Table(errno) IN
  IF n >= 0 /\ n < TableSizes[Table(errno)] /\ errno \in DOMAIN Formats THEN Formats[errno] ELSE <<>>
Word(n) == [i \in 1 .. n |-> "w"]
NumberFormat == Word(5) \o <<Space, "%d">>

eprd(n) ==
  LET D[k \in 0 .. n] == IF k < 10 THEN <<k>> ELSE D[k \div 10] \o <<k % 10>>
      ds == D[n]
  IN [i \in DOMAIN ds |-> <<"0", "1", "2", "3", "4", "5", "6", "7", "8", "9">>[ds[i] + 1]]
Decimal_(x) == IF x < 0 THEN <<"-">> \o eprd(-x) ELSE eprd(x)

\* A name is given by its place in cstore; names of structures are past its end.
dtoken(tag, index) ==
  CASE tag = TIDN /\ index = UNDEF_ -> Word(7)
    [] tag = TIDN /\ index # UNDEF_ -> cstore[IF index >= cssize THEN index - cssize ELSE index]
    [] tag = TFLOATC -> cstore[index]
    [] tag = TINTCON -> Decimal_(index)
    [] tag = TSTRING -> <<"\"", "\"">>
    [] tag = TEQOP -> Symbols["asgnop"][index]
    [] OTHER -> Symbols["sterm"][tag]

\* The text of a format, with the parameters from the i-th on.
Converted(f, args, i) ==
  LET x == args[i] IN
  CASE f = "%d" -> Decimal_(x)
    [] f = "%q" -> IF x \in DOMAIN Symbols["sq"] THEN Symbols["sq"][x] ELSE <<>>
    [] f = "%s" -> cstore[x]
    [] f = "%t" -> dtoken(x, args[i + 1])
    [] f = "%n" -> Symbols["nodeop"][x]
    [] f = "%m" -> cstore[x]
Conversions == {"%d", "%q", "%s", "%t", "%n", "%m"}
Takes(f) == CASE f \notin Conversions -> 0 [] f = "%t" -> 2 [] OTHER -> 1
eprint_(fmt, args) ==
  FoldLeft(LAMBDA p, f : [i |-> p.i + Takes(f),
                          text |-> p.text \o (IF f \in Conversions THEN Converted(f, args, p.i) ELSE <<f>>)],
           [i |-> 1, text |-> <<>>], fmt).text

Message(r) ==
  LET f == getfmt(r.errno) IN
  (IF r.line > 0 THEN <<NL_>> \o Decimal_(r.line) \o <<":", Space, Space>> ELSE <<>>)
  \o (IF r.errno >= 6000 THEN Word(8) \o <<Space>> \o Word(6) \o <<Space, Space>> ELSE <<>>)
  \o (IF f = <<>> THEN eprint_(NumberFormat, <<r.errno>>) ELSE eprint_(f, r.args))

\* Mutant: a line is taken to be full one character late.
eputcLate(w, c) ==
  LET late == w.column >= breakColumn /\ c = Space
      full == w.column > lastColumn /\ c \notin {NL_, Space}
      put == IF late THEN NL_ ELSE c
  IN [text |-> w.text \o (IF full THEN <<NL_, c>> ELSE <<put>>),
      column |-> IF put = NL_ THEN 0 ELSE (IF full THEN 0 ELSE w.column) + 1]

\* A character is written: a blank that comes late ends the line, and so does
\* any other when the line is full.
eputc(w, c) ==
  LET late == w.column >= breakColumn /\ c = Space
      full == w.column >= lastColumn /\ c \notin {NL_, Space}
      put == IF late THEN NL_ ELSE c
  IN [text |-> w.text \o (IF full THEN <<NL_, c>> ELSE <<put>>),
      column |-> IF put = NL_ THEN 0 ELSE (IF full THEN 0 ELSE w.column) + 1]
Written_(cs) == FoldLeft(eputc, [text |-> <<>>, column |-> cColumn], cs)
-----------------------------------------------------------------------------
ErrInit ==
  /\ due \in Errors
  /\ errfile = <<>> /\ maxerr = 0 /\ editing = "no" /\ cColumn = 0 /\ listing = <<>>

\* A phase has an error; it ends with one that is fatal.
error ==
  /\ editing = "no" /\ due # <<>>
  /\ errfile' = Append(errfile, Head(due))
  /\ maxerr' = IF Head(due).errno > maxerr THEN Head(due).errno ELSE maxerr
  /\ due' = IF Head(due).errno >= 4000 THEN <<>> ELSE Tail(due)
  /\ UNCHANGED <<editing, cColumn, listing>>

perror ==
  /\ due = <<>> /\ editing # "done"
  /\ IF errfile = <<>>
     THEN LET w == Written_(IF editing = "yes" THEN <<NL_>> ELSE <<>>) IN
          editing' = "done" /\ cColumn' = w.column /\ listing' = listing \o w.text /\ UNCHANGED errfile
     ELSE LET w == Written_(Message(Head(errfile))) IN
          editing' = "yes" /\ cColumn' = w.column /\ listing' = listing \o w.text /\ errfile' = Tail(errfile)
  /\ UNCHANGED <<due, maxerr>>

ErrNext == error \/ perror

ErrSpec == ErrInit /\ [][ErrNext]_errVars
=============================================================================
