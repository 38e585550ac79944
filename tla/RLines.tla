------------------------------- MODULE RLines -------------------------------
(***************************************************************************)
(* The lines of R (src/src/r/rline.c, and the reader of text in rreadr.c): *)
(* words, spaces and positions are collected into a line; a line that is   *)
(* full or broken is centred, flushed right and justified, and put out.    *)
(* A word is a sequence of characters of width 1.  A token is              *)
(* <<type, value>>; the value of an offset is biased.                      *)
(***************************************************************************)
EXTENDS Integers, Sequences, FiniteSets, SequencesExt

CONSTANTS line_length, space_width,
          tab_stops,            \* the positions of the tab stops
          OffsetBias,           \* WVMASK+1)/2
          MaxLetters,           \* characters that are read
          MaxLineOps,           \* things that are read
          MaxMarks              \* things other than words, spaces and newlines

VARIABLES e,            \* the environment
          spr,          \* justify_line: whether it spreads from the right
          put,          \* the lines put out: their tokens, and how they were finished
          letters,      \* characters read
          lineOps,      \* things read
          marks,        \* those other than words, spaces and newlines
          old_state     \* the reader: 0 at the beginning of a line

WidthOf(t) ==
  CASE t[1] = "text" -> Len(t[2])
    [] t[1] \in {"space", "nlspace"} -> t[2]
    [] t[1] = "offset" -> t[2] - OffsetBias
    [] OTHER -> 0
length_line(a, i, j) ==
  LET len[k \in i - 1 .. Len(a)] == IF k = i - 1 THEN 0 ELSE len[k - 1] + WidthOf(a[k])
  IN len[IF j < i THEN i - 1 ELSE j]
Lowest(S) == IF S = {} THEN 0 ELSE CHOOSE x \in S : \A y \in S : x <= y
Highest(S) == IF S = {} THEN 0 ELSE CHOOSE x \in S : \A y \in S : x >= y
find_token(a, type, i) == Lowest({k \in i .. Len(a) : a[k][1] = type})
Min2(x, y) == IF x < y THEN x ELSE y
Half(x) == IF x < 0 THEN -((-x) \div 2) ELSE x \div 2

(* hack_line: each ^C and ^R is replaced by the position at which the text *)
(* after it begins.  hp is where the line is, last its latest position.    *)
Righted(hp, pos, len) == IF pos - hp <= len THEN hp + space_width ELSE pos - len

Centered(hp, last, pos, len1, len2) ==
  LET slack == IF pos - len2 - len1 - hp < 0 THEN 0 ELSE (pos - len2 - len1 - hp) \div 2
      fudge == pos - last - len1
  IN last + (IF last + Half(fudge) <= hp THEN hp + Min2(space_width, slack)
             ELSE IF fudge - Half(fudge) <= len2 THEN fudge - (len2 + Min2(space_width, slack))
             ELSE Half(fudge))

Positioned(h, i, p) == [a |-> [h.a EXCEPT ![i] = <<"pos", p>>], hp |-> p, last |-> h.last]
CenterAt(h, i, j, k) ==
  LET right == k # 0 /\ k < j IN
  Positioned(h, i,
    Centered(h.hp, h.last, h.a[j][2], length_line(h.a, i + 1, (IF right THEN k ELSE j) - 1),
             IF right THEN length_line(h.a, k + 1, j - 1) ELSE 0))
Hacked(h, i, rm) ==
  LET t == h.a[i]
      j == find_token(h.a, "pos", i + 1) IN
  CASE t[1] \in {"text", "space", "nlspace", "offset"} -> [h EXCEPT !.hp = @ + WidthOf(t)]
    [] t[1] \in {"pos", "hpos"} -> [h EXCEPT !.hp = t[2], !.last = t[2]]
    [] t[1] = "center" ->
         IF j # 0 THEN CenterAt(h, i, j, find_token(h.a, "right", i + 1))
         ELSE CenterAt([h EXCEPT !.a = Append(@, <<"pos", rm>>)], i, Len(h.a) + 1,
                       find_token(h.a, "right", i + 1))
    [] t[1] = "right" ->
         Positioned(h, i, IF j # 0 THEN Righted(h.hp, h.a[j][2], length_line(h.a, i + 1, j - 1))
                          ELSE Righted(h.hp, rm, length_line(h.a, i + 1, Len(h.a))))
    [] OTHER -> h
hack_line(a, rm) ==
  SubSeq(FoldLeft(LAMBDA h, i : Hacked(h, i, rm), [a |-> a, hp |-> 0, last |-> 0],
                  [i \in 1 .. Len(a) |-> i]).a, 1, Len(a))

(* justify_line: after the last position, and from the first word on, the  *)
(* spaces share the room that is left.                                     *)
IsSpace(t) == t[1] \in {"space", "nlspace"}
Cleared(a, stop, lastText) ==
  [j \in DOMAIN a |-> IF j > stop /\ (a[j][1] = "tabc" \/ (IsSpace(a[j]) /\ j > lastText))
                      THEN <<"null", 0>> ELSE a[j]]

More(k, nspaces, nmore, right) ==
  IF (~right /\ k <= nmore) \/ (right /\ nspaces - k < nmore) THEN 1 ELSE 0

Spread(a, between, nspaces, fudge, right) ==
  IF fudge <= 0 \/ nspaces = 0 THEN [a |-> a, done |-> fudge = 0, right |-> right]
  ELSE [a |-> [j \in DOMAIN a |->
                IF j \notin between THEN a[j]
                ELSE <<"space", a[j][2] + fudge \div nspaces
                        + More(Cardinality(between \intersect 1 .. j), nspaces, fudge % nspaces, right)>>],
        done |-> TRUE, right |-> ~right]
Justified(a, between, fudge, right) == Spread(a, between, Cardinality(between), fudge, right)
JustifyFrom(a, stop, rm, right) ==
  LET first == Lowest({j \in stop + 1 .. Len(a) : a[j][1] = "text"})
      from == IF first = 0 THEN Len(a) + 1 ELSE first
      pos == IF stop = 0 THEN 0 ELSE a[stop][2]
      lead == {j \in stop + 1 .. from - 1 : a[j][1] = "offset"}
      len == length_line(a, stop + 1, Len(a)) IN
  IF len = 0 THEN [a |-> a, done |-> FALSE, right |-> right]
  \* the spaces and the offsets before the first word move pos; the offsets are still in len
  ELSE Justified(a, {j \in from .. Len(a) : IsSpace(a[j])},
         rm - pos - len - FoldSet(LAMBDA j, n : n + WidthOf(a[j]), 0, lead), right)
justify_line(a, rm, right) ==
  LET stop == Highest({j \in DOMAIN a : a[j][1] \in {"pos", "hpos"}})
      lastText == Highest({j \in stop + 1 .. Len(a) : a[j][1] = "text"})
  IN JustifyFrom(Cleared(a, stop, lastText), stop, rm, right)
-----------------------------------------------------------------------------
LineReset(v) ==
  [v EXCEPT !.tn = <<>>, !.text_seen = FALSE, !.hp = IF v.temp_indent >= 0 THEN v.temp_indent ELSE v.indent]
current_adjust_mode(v) == IF v.filling THEN v.adjust_mode ELSE v.nofill_adjust_mode

(* set_line, when the first token of a line comes.                         *)
append_token(v, type, val) == [v EXCEPT !.tn = Append(@, <<type, val>>)]
Margins(v) ==
  LET p == IF v.hp > 0 THEN append_token(v, "pos", v.hp) ELSE v IN
  [(CASE current_adjust_mode(v) = "right" -> append_token(p, "right", 0)
      [] current_adjust_mode(v) = "center" -> append_token(p, "center", 0)
      [] OTHER -> p) EXCEPT !.rm = line_length, !.text_seen = TRUE]
set_line(v) ==
  IF v.text_seen THEN v
  ELSE Margins(IF v.temp_indent >= 0 THEN [v EXCEPT !.hp = v.temp_indent, !.temp_indent = -1]
               ELSE [v EXCEPT !.hp = v.indent])

(* trim_spaces: hp loses the bias of an offset too.                        *)
trim_spaces(v) ==
  LET n == Highest({i \in DOMAIN v.tn : v.tn[i][1] \notin {"space", "nlspace", "offset"}})
      lost == FoldLeft(LAMBDA s, t : s + t[2], 0, SubSeq(v.tn, n + 1, Len(v.tn)))
  IN [v EXCEPT !.tn = SubSeq(@, 1, n), !.hp = @ - lost]

(* The state of the line, justify_line's direction, and what is put out.   *)
State == [e |-> e, spr |-> spr, put |-> put]

(* LineFinish: a line of which nothing is left is not finished; it stays   *)
(* begun, which astray remembers.                                          *)
PutOut(s, v, j) ==
  [e |-> LineReset(v), spr |-> j.right,
   put |-> Append(s.put, [toks |-> j.a, was |-> v.tn, rm |-> v.rm, just |-> j.done,
                          fill |-> v.filling, astray |-> v.astray])]
Finished(s, v, jflag) ==
  IF v.tn = <<>> THEN [s EXCEPT !.e = [v EXCEPT !.astray = TRUE]]
  ELSE LET a == hack_line(v.tn, v.rm) IN
       PutOut(s, v,
              IF current_adjust_mode(v) = "both" /\ (jflag \/ ~v.filling) THEN justify_line(a, v.rm, s.spr)
              ELSE [a |-> a, done |-> FALSE, right |-> s.spr])
LineFinish(s, jflag) ==
  IF ~s.e.text_seen THEN s ELSE Finished(s, IF s.e.filling THEN trim_spaces(s.e) ELSE s.e, jflag)
LineBreak(s) == LineFinish(s, FALSE)

(* Everything that is put on a line ends a word that could go on.          *)
Put(s, type, val, hp) ==
  [s EXCEPT !.e = [append_token(set_line([s.e EXCEPT !.glued = FALSE, !.eatnl = FALSE]), type, val) EXCEPT !.hp = hp]]
Begun(s) == set_line(s.e).hp

Full(v, w) == v.text_seen /\ v.filling /\ Len(w) + v.hp > v.rm
TextOn(s, w) == Put(s, "text", w, Begun(s) + Len(w))
LineText(s, w) == TextOn(IF Full(s.e, w) THEN LineFinish(s, TRUE) ELSE s, w)
LineSpace(s, width) == Put(s, "space", width, Begun(s) + width)
LineNLSpace(s, width) == Put(s, "nlspace", width, Begun(s) + width)
LineOffset(s, width) ==
  LET w == IF width < -Begun(s) THEN -Begun(s) ELSE width IN Put(s, "offset", w + OffsetBias, Begun(s) + w)
LinePos(s, pos) ==
  LET hp == IF pos > Begun(s) + space_width THEN pos ELSE Begun(s) + space_width IN Put(s, "pos", hp, hp)
LineHPos(s, pos) == Put(s, "hpos", pos, pos)
next_tab(hp) ==
  LET stops == {t \in tab_stops : t >= hp + space_width}
  IN IF stops = {} THEN hp + space_width ELSE Lowest(stops)
LineTab(s) == Put(s, "pos", next_tab(Begun(s)), next_tab(Begun(s)))
LineMark(s, type) == Put(s, type, 0, Begun(s))          \* LineCenter, LineRight, LineNull

(* ^G joins words, and takes back the space of a newline before it.        *)
LineGlue(s) ==
  LET v == [s.e EXCEPT !.glued = TRUE, !.eatnl = TRUE] IN
  IF v.text_seen /\ v.tn # <<>> /\ Last(v.tn)[1] = "nlspace"
  THEN [s EXCEPT !.e = [v EXCEPT !.tn = Front(@), !.hp = @ - Last(v.tn)[2]]]
  ELSE [s EXCEPT !.e = v]
-----------------------------------------------------------------------------
(* The reader.                                                             *)
NewEnv(indent, filling, mode) ==
  [tn |-> <<>>, hp |-> indent, text_seen |-> FALSE, temp_indent |-> -1, indent |-> indent, rm |-> line_length,
   filling |-> filling, adjust_mode |-> mode, nofill_adjust_mode |-> "left", glued |-> FALSE, eatnl |-> FALSE,
   astray |-> FALSE]
LineInit ==
  /\ \E indent \in {0, 1}, mode \in {"left", "both", "center", "right"} : e = NewEnv(indent, TRUE, mode)
  /\ spr = FALSE /\ put = <<>> /\ letters = 0 /\ lineOps = 0 /\ marks = 0 /\ old_state = 0

Becomes(s, state, n) ==
  /\ lineOps < MaxLineOps /\ lineOps' = lineOps + 1
  /\ marks + n <= MaxMarks /\ marks' = marks + n
  /\ e' = s.e /\ spr' = s.spr /\ put' = s.put /\ old_state' = state
AtStart(s) == IF old_state = 0 THEN LineBreak(s) ELSE s

(* The word that a glue joins to is taken off the line and grows.          *)
Joined(s, w) ==
  IF s.e.glued /\ s.e.tn # <<>> /\ Last(s.e.tn)[1] = "text"
  THEN LineText([s EXCEPT !.e = [@ EXCEPT !.tn = Front(@), !.hp = @ - Len(Last(s.e.tn)[2])]],
                Last(s.e.tn)[2] \o w)
  ELSE LineText(s, w)
ReadText ==
  \E n \in 1 .. 2 :
    /\ letters + n <= MaxLetters /\ letters' = letters + n
    /\ Becomes(Joined(State, [i \in 1 .. n |-> letters + i]), 1, 0)

ReadNewline ==
  /\ UNCHANGED letters
  /\ IF e.eatnl THEN Becomes([State EXCEPT !.e.eatnl = FALSE], 1, 0)
     ELSE IF old_state = 0 \/ ~e.filling THEN Becomes(LineBreak(State), 0, 0)
     ELSE Becomes(LineNLSpace(State, space_width), 0, 0)

ReadSpace == UNCHANGED letters /\ Becomes(LineSpace(AtStart(State), space_width), 1, 0)
ReadTab == UNCHANGED letters /\ Becomes(LineTab(AtStart(State)), 1, 1)
ReadPos == UNCHANGED letters /\ \E p \in {2, 4} : Becomes(LinePos(AtStart(State), p), 1, 1)
ReadCenter == UNCHANGED letters /\ Becomes(LineMark(AtStart(State), "center"), 1, 1)
ReadRight == UNCHANGED letters /\ Becomes(LineMark(AtStart(State), "right"), 1, 1)
ReadNull == UNCHANGED letters /\ Becomes(LineMark(State, "null"), 1, 1)
ReadTabc == UNCHANGED letters /\ Becomes(LineMark(State, "tabc"), 1, 1)
ReadIGlue == UNCHANGED letters /\ Becomes([State EXCEPT !.e.glued = TRUE], 1, 1)
ReadGlue == UNCHANGED letters /\ Becomes(LineGlue(State), 1, 1)

(* Requests at the beginning of a line.                                    *)
Requests ==
  /\ old_state = 0 /\ UNCHANGED letters
  /\ \/ Becomes(LineBreak(State), 0, 1)                                             \* br
     \/ Becomes([LineBreak(State) EXCEPT !.e.filling = ~@], 0, 1)                     \* fi, nf
     \/ Becomes(IF e.text_seen THEN LineFinish(State, TRUE) ELSE State, 0, 1)          \* bj
     \/ Becomes([LineBreak(State) EXCEPT !.e.temp_indent = 2], 0, 1)                \* ti
     \/ Becomes(LineHPos(State, 1), 0, 1)                                           \* hp
     \/ \E width \in {-2, 1} : Becomes(LineOffset(State, width), 0, 1)               \* hs
LineNext ==
  \/ ReadText \/ ReadNewline \/ ReadSpace \/ ReadTab \/ ReadPos \/ ReadCenter \/ ReadRight \/ ReadNull \/ ReadTabc \/ ReadIGlue
  \/ ReadGlue \/ Requests
-----------------------------------------------------------------------------
(* What the lines are.                                                     *)
WordsOf(a) == FoldLeft(LAMBDA w, t : IF t[1] = "text" THEN w \o t[2] ELSE w, <<>>, a)
Walked(hp, a) == FoldLeft(LAMBDA h, t : IF t[1] \in {"pos", "hpos"} THEN t[2] ELSE h + WidthOf(t), hp, a)
Has(a, types) == \E i \in DOMAIN a : a[i][1] \in types
LastText(a) == Highest({i \in DOMAIN a : a[i][1] = "text"})
EndOfText(a) == Walked(0, SubSeq(a, 1, LastText(a)))

(* Every letter is on one line, where it was read: the lines keep the text *)
(* in order whatever is joined, trimmed, centred or justified.             *)
LettersKept ==
  FoldLeft(LAMBDA w, l : w \o WordsOf(l.toks), <<>>, put) \o WordsOf(e.tn) = [i \in 1 .. letters |-> i]

(* A line that is filled ends within its margin unless it is one word.     *)
Fits(l) ==
  l.fill /\ ~l.astray /\ ~Has(l.was, {"center", "right", "hpos", "offset"})
    => EndOfText(l.was) <= l.rm \/ Cardinality({i \in DOMAIN l.was : l.was[i][1] = "text"}) <= 1

(* A line that is justified ends at the margin, and no two of its spaces   *)
(* have grown by amounts that differ by more than one.                     *)
SpacesBetween(l) ==
  LET stop == Highest({j \in DOMAIN l.was : l.was[j][1] \in {"pos", "hpos", "center", "right"}})
      from == Lowest({j \in stop + 1 .. Len(l.was) : l.was[j][1] = "text"})
  IN {j \in from .. LastText(l.was) : IsSpace(l.was[j])}
Grown(l, i) == l.toks[i][2] - l.was[i][2]
Flush(l) ==
  l.just /\ ~Has(l.was, {"offset"})
    => /\ EndOfText(l.toks) = l.rm
       /\ \A i, j \in SpacesBetween(l) : Grown(l, i) - Grown(l, j) \in -1 .. 1

(* The parts of a line that fit, a space apart, beside each other neither overlap nor run  *)
(* over the position or the margin after them (when no ^C or ^R is what     *)
(* R calls superfluous, and none comes after a position).                  *)
Room(l, i) ==
  LET j == find_token(l.was, "pos", i + 1)
  IN IF j = 0 THEN <<l.rm, Len(l.was)>> ELSE <<l.toks[j][2], j - 1>>
Superfluous(l) ==
  \E i, j \in DOMAIN l.was :
    /\ i < j /\ ~Has(SubSeq(l.was, i, j), {"pos"})
    /\ l.was[j][1] \in {"center", "right"} /\ l.was[i][1] \in {"right", l.was[j][1]}
Apart(l) ==
  ~Superfluous(l) => \A i \in DOMAIN l.was :
    l.was[i][1] \in {"center", "right"} /\ ~Has(SubSeq(l.was, 1, i - 1), {"pos", "hpos"}) =>
      LET hp == Walked(0, SubSeq(l.toks, 1, i - 1))
          rest == length_line(l.was, i + 1, Room(l, i)[2]) IN
      hp + rest + 2 * space_width <= Room(l, i)[1]
        => /\ l.toks[i][2] >= hp
           /\ Walked(0, SubSeq(l.toks, 1, Room(l, i)[2])) <= Room(l, i)[1]

LinesKept == LettersKept /\ \A i \in DOMAIN put : Fits(put[i]) /\ Flush(put[i]) /\ Apart(put[i])
=============================================================================
