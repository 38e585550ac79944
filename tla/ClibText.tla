------------------------------- MODULE ClibText -------------------------------
(***************************************************************************)
(* The C library's routines on text: patterns (match.c), file names and    *)
(* the components of them (c10io.c, c10fnm.c), directories (c10fd.c), the  *)
(* arguments of a program (c10io.c, c10exc.c, shell.c), numbers (cprint.c) *)
(* and dates (date.c).  A string is a sequence of characters; the end of a *)
(* sequence is the NULL.                                                   *)
(***************************************************************************)
EXTENDS Integers, Sequences, SequencesExt, FiniteSets, FiniteSetsExt

CONSTANTS WordBits,     \* the width of an int
          max_args      \* arguments of a command of the shell

At(s, i) == IF i \in 1 .. Len(s) THEN s[i] ELSE "NULL"
From(s, i) == SubSeq(s, i, Len(s))
Least(S, else) == IF S = {} THEN else ELSE Min(S)
-----------------------------------------------------------------------------
\* Mutant: a star takes at least one character.
StarSome(j, n) == j + 1 .. n

StarFrom(j, n) == j .. n

smatch(p, s) ==
  LET stars(i) == Least({k \in i .. Len(p) : p[k] # "*"}, Len(p) + 1)
      M[i \in 1 .. Len(p) + 1, j \in 1 .. Len(s) + 1] ==
        LET next == j <= Len(s) /\ M[i + 1, j + 1] IN
        CASE i > Len(p) -> j > Len(s)
          [] i <= Len(p) /\ p[i] = "?" -> next
          [] i <= Len(p) /\ p[i] = "*" ->
               stars(i) > Len(p) \/ \E k \in StarFrom(j, Len(s) + 1) : M[stars(i), k]
          [] i <= Len(p) /\ p[i] = "\\" ->
               j <= Len(s) /\ i < Len(p) /\ p[i + 1] = s[j] /\ M[i + 2, j + 1]
          [] OTHER -> At(s, j) = p[i] /\ next
  IN M[1, 1]

(* sindex goes on, after a first character that led nowhere, from the one  *)
(* behind it.                                                              *)
\* Mutant: the search goes on behind what has been compared.
sindexSkipping(p, ds) ==
  LET f[i \in 1 .. Len(ds) + 1] ==
        LET k == Least({x \in i .. Len(ds) : ds[x] = p[1]}, 0)
            wrong == Least({x \in 2 .. Len(p) : At(ds, k + x - 1) # p[x]}, 0) IN
        IF k = 0 THEN -1 ELSE IF wrong = 0 THEN k - 1
        ELSE f[IF k + wrong > Len(ds) + 1 THEN Len(ds) + 1 ELSE k + wrong]
  IN IF p = <<>> THEN -1 ELSE f[1]

sindex(p, ds) ==
  LET f[i \in 1 .. Len(ds) + 1] ==
        LET k == Least({x \in i .. Len(ds) : ds[x] = p[1]}, 0)
            wrong == Least({x \in 2 .. Len(p) : At(ds, k + x - 1) # p[x]}, 0) IN
        IF k = 0 THEN -1 ELSE IF wrong = 0 THEN k - 1 ELSE f[k + 1]
  IN IF p = <<>> THEN -1 ELSE f[1]
-----------------------------------------------------------------------------
(* Sixbit.  A word is six characters, with blanks for those that are zero; *)
(* small letters become capitals, and a control character a sign or digit. *)
ccto6(c) == CASE c = "a" -> "A" [] c = "b" -> "B" [] c = "^Q" -> "1" [] OTHER -> c
csto6(s) == [i \in 1 .. 6 |-> IF i <= Len(s) THEN ccto6(s[i]) ELSE " "]
Zero == csto6(<<>>)
c6tos(w) == SubSeq(w, 1, Least({i \in 1 .. 6 : w[i] = " "}, 7) - 1)

\* Mutant: a blank inside a name is not quoted.
Unquotable == {":", ";"}

Punctuation == {" ", ":", ";"}

c6q2s(w) ==
  LET last == Max({1} \union {i \in 1 .. 6 : w[i] # " "}) IN
  FlattenSeq([i \in 1 .. last |-> IF w[i] \in Punctuation THEN <<"^Q", w[i]>> ELSE <<w[i]>>])

(* A string's characters, and whether each of them was quoted.  A ^Q with  *)
(* nothing behind it stands for itself.                                    *)
Tokens(s) ==
  LET f[i \in 1 .. Len(s) + 2] ==
        IF i > Len(s) THEN <<>>
        ELSE IF s[i] = "^Q" /\ i < Len(s)
             THEN <<[c |-> s[i + 1], quoted |-> TRUE]>> \o f[i + 2]
             ELSE <<[c |-> s[i], quoted |-> FALSE]>> \o f[i + 1]
  IN f[1]
Bare(t, c) == ~t.quoted /\ t.c = c
Count(ts, c, a, b) == Cardinality({i \in a .. b : Bare(ts[i], c)})
Chars(ts, a, b) == [i \in 1 .. b - a + 1 |-> ts[a + i - 1].c]

IsPath(ts) ==
  /\ \A i \in DOMAIN ts : \A c \in Punctuation : ~Bare(ts[i], c)
  /\ \E i \in DOMAIN ts : Bare(ts[i], ".") \/ Bare(ts[i], "/")

(* filscan: up to a slash, or to the last dot of the last component, if    *)
(* it is neither its first character nor its last.                         *)
\* Mutant: a dot at the end of the name separates.
filscanEnd(ts, from, ndot, nslash) ==
  LET ends(i) == \/ Bare(ts[i], "/")
                 \/ /\ Bare(ts[i], ".") /\ i # from
                    /\ ndot = Count(ts, ".", from, i) /\ nslash = 0
      stop == Least({i \in from .. Len(ts) : ends(i)}, Len(ts) + 1)
      end == IF stop > Len(ts) THEN Len(ts) ELSE stop
  IN [name |-> Chars(ts, from, stop - 1), at |-> stop,
      c |-> IF stop > Len(ts) THEN "NULL" ELSE ts[stop].c,
      ndot |-> ndot - Count(ts, ".", from, end),
      nslash |-> IF stop <= Len(ts) /\ Bare(ts[stop], "/") THEN nslash - 1 ELSE nslash]

filscan(ts, from, ndot, nslash) ==
  LET ends(i) == \/ Bare(ts[i], "/")
                 \/ /\ Bare(ts[i], ".") /\ i # from /\ i # Len(ts)
                    /\ ndot = Count(ts, ".", from, i) /\ nslash = 0
      stop == Least({i \in from .. Len(ts) : ends(i)}, Len(ts) + 1)
      end == IF stop > Len(ts) THEN Len(ts) ELSE stop
  IN [name |-> Chars(ts, from, stop - 1), at |-> stop,
      c |-> IF stop > Len(ts) THEN "NULL" ELSE ts[stop].c,
      ndot |-> ndot - Count(ts, ".", from, end),
      nslash |-> IF stop <= Len(ts) /\ Bare(ts[stop], "/") THEN nslash - 1 ELSE nslash]

Spec(dev, dir, fn1, fn2) == [dev |-> dev, dir |-> dir, fn1 |-> fn1, fn2 |-> fn2]

Scans(ts, first) ==
  LET scan[i \in 0 .. 4] ==
        IF i = 0 THEN [at |-> first, c |-> "NULL", name |-> <<>>, ndot |-> Count(ts, ".", 1, Len(ts)),
                       nslash |-> Count(ts, "/", 1, Len(ts)) - first]
        ELSE filscan(ts, scan[i - 1].at + 1, scan[i - 1].ndot, scan[i - 1].nslash)
  IN scan
PartsOf(scan, first) ==
  LET dir == first + 1
      fn1 == IF scan[dir].c = "/" THEN dir + 1 ELSE dir
      fn2 == IF scan[fn1].c = "." THEN fn1 + 1 ELSE fn1
      part(i) == csto6(scan[i].name)
      rest == IF fn2 # fn1 /\ part(fn1) # Zero THEN <<fn1, fn2>> ELSE <<fn2, 0>>
  IN IF first = 1 /\ scan[1].c # "/" THEN Spec(part(1), Zero, Zero, Zero)
     ELSE Spec(part(first), IF fn1 # dir THEN part(dir) ELSE Zero, part(rest[1]), part(rest[2]))
Rooted(ts) == IF Bare(ts[1], "/") THEN 1 ELSE 0
PathName(ts) == PartsOf(Scans(ts, Rooted(ts)), Rooted(ts))

ItsName(ts) ==
  LET Name(st) == IF st.buf = <<>> THEN st
                  ELSE [st EXCEPT !.n = @ + 1, !.buf = <<>>,
                         !.f = CASE st.n = 0 -> [st.f EXCEPT !.fn1 = csto6(st.buf)]
                                 [] st.n = 1 -> [st.f EXCEPT !.fn2 = csto6(st.buf)]
                                 [] OTHER -> st.f]
      step(st, t) ==
        CASE Bare(t, ":") -> [st EXCEPT !.f.dev = csto6(st.buf), !.buf = <<>>]
          [] Bare(t, ";") -> [st EXCEPT !.f.dir = csto6(st.buf), !.buf = <<>>]
          [] Bare(t, " ") -> Name(st)
          [] OTHER -> IF Len(st.buf) < 6 THEN [st EXCEPT !.buf = Append(@, t.c)] ELSE st
  IN Name(FoldLeft(step, [f |-> Spec(Zero, Zero, Zero, Zero), buf |-> <<>>, n |-> 0], ts)).f

fparse(s) == LET ts == Tokens(s) IN IF IsPath(ts) THEN PathName(ts) ELSE ItsName(ts)

prfile(f) ==
  (IF f.dev # Zero THEN c6q2s(f.dev) \o <<":">> ELSE <<>>) \o
  (IF f.dir # Zero THEN c6q2s(f.dir) \o <<";">> ELSE <<>>) \o
  (IF f.fn1 # Zero THEN c6q2s(f.fn1) \o <<" ">> ELSE <<>>) \o
  (IF f.fn2 # Zero THEN c6q2s(f.fn2) ELSE <<>>)

(* fnsdf and fnsfd; a part that is not given is "no".                      *)
Defaulted(f, new) == [k \in DOMAIN f |-> IF new[k] # "no" /\ f[k] = Zero THEN csto6(new[k]) ELSE f[k]]
Replaced(f, new) == [k \in DOMAIN f |-> IF new[k] # "no" THEN csto6(new[k]) ELSE f[k]]
fnsdf(old, new) == prfile(Defaulted(fparse(old), new))
fnsfd(old, new) == prfile(Replaced(fparse(old), new))
AsStrings(f) == [k \in DOMAIN f |-> c6tos(f[k])]
fnparse(s) == AsStrings(fparse(s))
-----------------------------------------------------------------------------
Exchanged(v, i, j) == [v EXCEPT ![i] = v[j], ![j] = v[i]]

\* Mutant: the last entry is left where it is.
rdmfdShort(words) ==
  LET v == SelectSeq(words, LAMBDA x : x # 0)
      pass(w, i) == FoldLeft(LAMBDA x, j : IF x[j] < x[i] THEN Exchanged(x, i, j) ELSE x,
                             w, [k \in 1 .. Len(v) - 1 - i |-> i + k])
  IN FoldLeft(pass, v, [i \in 1 .. Len(v) - 1 |-> i])

(* rdmfd: the names in the master directory, sorted by exchanges.          *)
rdmfd(words) ==
  LET v == SelectSeq(words, LAMBDA x : x # 0)
      pass(w, i) == FoldLeft(LAMBDA x, j : IF x[j] < x[i] THEN Exchanged(x, i, j) ELSE x,
                             w, [k \in 1 .. Len(v) - i |-> i + k])
  IN FoldLeft(pass, v, [i \in 1 .. Len(v) |-> i])
-----------------------------------------------------------------------------
(* execv quotes the arguments of a program into a command line, and prsarg *)
(* takes them out of it in the program.                                    *)
execv(args) == FlattenSeq([i \in DOMAIN args |-> <<"\"">> \o args[i] \o <<"\"", " ">>])

\* Mutant: blanks end an argument that is in quotes.
EndsQuotedAtBlank(c) == c \in {"CR", "\"", " ", "NULL"}

EndsQuoted(c) == c \in {"CR", "\"", "NULL"}
EndsPlain(c) == c \in {"CR", " ", "NULL"}

prsarg(line) ==
  LET scan(i, Ends(_)) ==      \* the characters up to the end of the argument
        LET g[k \in 1 .. Len(line) + 2] ==
              CASE Ends(At(line, k)) -> [out |-> <<>>, at |-> k]
                [] ~Ends(At(line, k)) /\ At(line, k) = "^Q" ->
                     LET r == g[k + 2] IN [r EXCEPT !.out = <<At(line, k + 1)>> \o @]
                [] OTHER -> LET r == g[k + 1] IN [r EXCEPT !.out = <<line[k]>> \o @]
        IN g[i]
      f[i \in 1 .. Len(line) + 3] ==
        CASE At(line, i) \in {"CR", "NULL"} -> <<>>
          [] At(line, i) = " " -> f[i + 1]
          [] At(line, i) = "^Q" ->   \* before an argument: it goes into the next one
               LET r == f[i + 2] IN
               IF r = <<>> THEN r ELSE <<<<At(line, i + 1)>> \o r[1]>> \o Tail(r)
          [] At(line, i) = "\"" ->
               LET r == scan(i + 1, EndsQuoted) IN
               <<r.out>> \o (IF At(line, r.at) = "\"" THEN f[r.at + 1] ELSE <<>>)
          [] OTHER ->
               LET r == scan(i, EndsPlain) IN
               <<r.out>> \o (IF At(line, r.at) = " " THEN f[r.at + 1] ELSE <<>>)
  IN f[1]

(* The shell's own: it leaves the arguments where they are in the line.    *)
parse(line) ==
  LET f[i \in 1 .. Len(line) + 2] ==
        LET a == Least({k \in i .. Len(line) : line[k] # " "}, 0)
            q == line[a] = "\""
            from == IF q THEN a + 1 ELSE a
            g[k \in 1 .. Len(line) + 2] ==
              IF k > Len(line) THEN k
              ELSE IF line[k] = "^Q" /\ k < Len(line) THEN g[k + 2]
              ELSE IF (q /\ line[k] = "\"") \/ (~q /\ line[k] = " ") THEN k
              ELSE g[k + 1]
        IN IF a = 0 THEN <<>>
           ELSE <<SubSeq(line, from, g[from] - 1)>> \o
                (IF g[from] > Len(line) THEN <<>> ELSE f[g[from] + 1])
      all == f[1]
  IN SubSeq(all, 1, IF Len(all) > max_args THEN max_args ELSE Len(all))

(* fxarg takes the redirections out of the arguments; the last one counts. *)
fxarg(argv) ==
  LET opens(s, c) == s # <<>> /\ s[1] = c
      name(s, c) == IF c # "<" /\ Len(s) > 1 /\ s[2] = c THEN From(s, 3) ELSE From(s, 2)
      last(c) == Max({0} \union {i \in DOMAIN argv : opens(argv[i], c) /\ name(argv[i], c) # <<>>})
      to(c) == IF last(c) = 0 THEN [name |-> <<>>, append |-> FALSE]
               ELSE [name |-> name(argv[last(c)], c),
                     append |-> Len(argv[last(c)]) > 1 /\ argv[last(c)][2] = c /\ c # "<"]
  IN [argv |-> SelectSeq(argv, LAMBDA s : ~\E c \in {"<", ">", "%"} : opens(s, c)),
      cin |-> to("<"), cout |-> to(">"), cerr |-> to("%")]
-----------------------------------------------------------------------------
(* Numbers, in a word of WordBits bits; digits are themselves.             *)
Blank == -1
Minus == -2
Padded(s, w) ==
  LET width == IF w < 0 \/ w > 200 THEN 0 ELSE w IN
  [i \in 1 .. (IF width > Len(s) THEN width - Len(s) ELSE 0) |-> Blank] \o s
Digits(n, base) ==
  LET f[k \in 0 .. n] == IF k < base THEN <<k>> ELSE Append(f[k \div base], k % base) IN f[n]

\* Mutant: the sign bit is shifted in.
proSigned(i, w) ==
  LET u == IF i < 0 THEN -i ELSE i
      d == Digits(u, 8) IN
  Padded(IF u = 0 THEN d ELSE <<0>> \o d, w)

pro(i, w) ==
  LET u == IF i < 0 THEN i + 2 ^ WordBits ELSE i
      d == Digits(u, 8) IN
  Padded(IF u = 0 THEN d ELSE <<0>> \o d, w)

(* prd: the digits are stored from the right, with the sign behind them,   *)
(* and typed from the last to the first.  The least number has no          *)
(* opposite: its text is stored as it is read.                             *)
Smallest == -(2 ^ (WordBits - 1))
prd(i, w) ==
  Padded(IF i = Smallest THEN Reverse(<<Minus>> \o Digits(-i, 10))
         ELSE IF i < 0 THEN <<Minus>> \o Digits(-i, 10) ELSE Digits(i, 10), w)
-----------------------------------------------------------------------------
(* Dates.                                                                  *)
ZONE == 5
month_tab1 == <<0, 31, 59, 90, 120, 151, 181, 212, 243, 273, 304, 334>>
month_tab2 == <<0, 31, 60, 91, 121, 152, 182, 213, 244, 274, 305, 335>>
year_tab == <<0, 365, 2 * 365, 3 * 365 + 1>>
four_years == 4 * 365 + 1
month_tab(year) == IF year % 4 = 0 THEN month_tab2 ELSE month_tab1

\* Mutant: the first day of a month is taken for the last of the one before.
srctabLate(tab, n) == Max({1} \union {i \in DOMAIN tab : tab[i] < n})

srctab(tab, n) == Max({1} \union {i \in DOMAIN tab : tab[i] <= n})

u2cal(udate) ==
  LET t == udate - ZONE * 60 * 60
      days == t \div 86400
      rest == days % four_years
      y == srctab(year_tab, rest)
      year == 1970 + 4 * (days \div four_years) + y - 1
      inYear == rest - year_tab[y]
      mo == srctab(month_tab(year), inYear)
  IN [year |-> year, month |-> mo, day |-> inYear - month_tab(year)[mo] + 1,
      hour |-> (t \div 3600) % 24, minute |-> (t \div 60) % 60, second |-> t % 60]

cal2u(cd) ==
  LET year == IF cd.year < 1970 THEN 0 ELSE cd.year - 1970 IN
  cd.second + 60 * (cd.minute + 60 * (cd.hour + 24 * (cd.day - 1)))
  + month_tab(cd.year)[cd.month] * 86400
  + 86400 * (four_years * (year \div 4) + year_tab[(year % 4) + 1])
  + ZONE * 60 * 60

(* The fields of a disk date: a year of eight bits, a month of four, a day *)
(* of five, and eighteen bits that count half seconds.                     *)
cal2f(cd) == [year |-> cd.year - 1900, month |-> cd.month, day |-> cd.day,
              half |-> 2 * (cd.second + 60 * (cd.minute + 60 * cd.hour))]
f2cal(f) == [year |-> 1900 + (f.year % 256), month |-> IF f.month > 12 THEN 0 ELSE f.month,
             day |-> f.day, hour |-> (f.half \div 2) \div 3600,
             minute |-> ((f.half \div 2) \div 60) % 60, second |-> (f.half \div 2) % 60]
=============================================================================
