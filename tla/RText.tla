--------------------------------- MODULE RText ---------------------------------
(***************************************************************************)
(* The text words of R (src/src/r/rtext.c): one array holds the words of   *)
(* every line that is being collected, the word under construction at its  *)
(* end; when the array is nearly full the words that a line refers to are  *)
(* moved down, and that word after them.  A word is four header cells      *)
(* (width, height above and below, one for the collector) and a sequence   *)
(* of cells that ends with Zero; its place is the number of its first      *)
(* cell, from 0.  The array is the sequence `cells` up to wp.              *)
(***************************************************************************)
EXTENDS Integers, Sequences, FiniteSets

CONSTANTS tcstore_size,         \* cells of the array
          Reserve,              \* gcwp: the collector is called when fewer are left
          gc_tab_size,          \* words that the table of the collector has room for
          Envs,                 \* environments
          Scripts,              \* what is typed for a word: sequences of characters <<kind, value>>
          MaxTokens             \* words of a line: a bound

VARIABLES tc,           \* the array, and the pointers into it
          lines,        \* environment -> its line: the places of its words
          inputs,       \* environment -> ifont, iul, ivoff
          cur,          \* the current environment
          typed,        \* the words of the lines as they were typed (ghost)
          spoilt        \* the storage is no longer what it was meant to be (ghost)

TWHEAD == 4
Zero == <<"zero">>
Over == <<"over">>                      \* -1: a word with overprinting follows
N(k) == <<"n", k>>
appo(voff, ul, f, c) == << <<"o1", voff>>, <<"o2", ul, f, c>> >>

(* Fonts: font 1 is wider and higher than font 0.                          *)
font_width(f, c) == f + (IF c = "b" THEN 2 ELSE 1)
font_ha(f) == f + 2
font_hb(f) == f
Max(x, y) == IF x < y THEN y ELSE x

Cell(cells, p) == cells[p + 1]
EndOfWord(cells, w) ==                  \* the place of its Zero
  CHOOSE z \in w + TWHEAD .. Len(cells) - 1 :
    Cell(cells, z) = Zero /\ \A y \in w + TWHEAD .. z - 1 : Cell(cells, y) # Zero
SizeOf(cells, w) == EndOfWord(cells, w) + 1 - w
Stored(cells, w) == SubSeq(cells, w + TWHEAD + 1, EndOfWord(cells, w))
Whole(cells, w) == SubSeq(cells, w + 1, w + SizeOf(cells, w))
----------------------------------------------------------------------------
(* gc: trcwords goes through the lines of all environments and gcw.  Each  *)
(* word that is found keeps its order; new places are reckoned by the      *)
(* sizes.                                                                  *)
trcwords(ls, gcw) == UNION {{ls[e][i] : i \in DOMAIN ls[e]} : e \in Envs}
                       \union (IF gcw = -1 THEN {} ELSE {gcw})
RECURSIVE Sizes(_, _)
Sizes(cells, ws) ==
  IF ws = {} THEN 0 ELSE LET w == CHOOSE w \in ws : TRUE IN SizeOf(cells, w) + Sizes(cells, ws \ {w})
NewPlace(cells, ws, w) == Sizes(cells, {v \in ws : v < w})
RECURSIVE Compacted(_, _)
Compacted(cells, ws) ==
  IF ws = {} THEN <<>>
  ELSE LET w == CHOOSE w \in ws : \A v \in ws : v <= w
       IN Compacted(cells, ws \ {w}) \o Whole(cells, w)

(* When the table is too small the array is swept, and while it is being   *)
(* compacted the end of a word is looked for where the word was: if it has *)
(* been moved by less than its length the Zero that is found is that of    *)
(* the moved word.                                                         *)
SweepLost(cells, ws) ==
  /\ Cardinality(ws) > gc_tab_size
  /\ \E w \in ws : /\ NewPlace(cells, ws, w) < w
                   /\ NewPlace(cells, ws, w) + SizeOf(cells, w) - 1 >= w + TWHEAD

Traced(ls, gcw) == trcwords(ls, gcw)
(* [tc, lines, gcw, lost] after a collection.                              *)
gc(t, ls, gcw) ==
  LET ws == Traced(ls, gcw)
      At(w) == IF w \in ws THEN NewPlace(t.cells, ws, w) ELSE w
      l == Sizes(t.cells, ws)
      building == t.wsp < Len(t.cells)
      q == t.wsp - TWHEAD               \* the word under construction is moved after the others
  IN [tc |-> [t EXCEPT !.cells = Compacted(t.cells, ws) \o (IF building THEN SubSeq(t.cells, q + 1, Len(t.cells)) ELSE <<>>),
                       !.wsp = IF building THEN l + TWHEAD ELSE @,
                       !.wwval = IF building THEN l ELSE @,
                       !.wcolp = IF building /\ t.overprint THEN @ - (q - l) ELSE @],
      lines |-> [e \in Envs |-> [i \in DOMAIN ls[e] |-> At(ls[e][i])]],
      gcw |-> IF gcw = -1 THEN -1 ELSE At(gcw),
      lost |-> SweepLost(t.cells, ws)]
gcwp == tcstore_size - Reserve
MustCollect(t) == Len(t.cells) >= gcwp
Collect(t, ls, gcw) == IF MustCollect(t) THEN gc(t, ls, gcw) ELSE [tc |-> t, lines |-> ls, gcw |-> gcw, lost |-> FALSE]
(* R stops when the collection did not make room ("word storage overflow").*)
Stopped(t) == MustCollect(t)
----------------------------------------------------------------------------
(* Overprinting.  wcol, wcolp: a column of the word and its place.         *)
Put(t, cs) == [t EXCEPT !.cells = @ \o cs]
NextColumn(cells, p) == p + 2 + 2 * Cell(cells, p)[2]
RECURSIVE ColumnPlaces(_, _)
ColumnPlaces(cells, p) ==
  IF p < Len(cells) THEN <<p>> \o ColumnPlaces(cells, NextColumn(cells, p)) ELSE <<>>

reset_overprint(t) ==
  IF t.wsp = Len(t.cells) \/ Cell(t.cells, t.wsp) # Over THEN t
  ELSE LET ps == ColumnPlaces(t.cells, t.wsp + 1)
       IN [t EXCEPT !.overprint = TRUE, !.ccol = Len(ps), !.maxcol = Len(ps) - 1, !.wcol = Len(ps) - 1,
                    !.wcolp = IF ps = <<>> THEN t.wsp + 1 ELSE ps[Len(ps)]]

(* The characters of a straight word, with the modes that they are in.     *)
RECURSIVE Straight(_, _, _, _)
Straight(cells, f, ul, voff) ==
  IF cells = <<>> THEN <<>>
  ELSE LET v == Head(cells)[2] IN
       CASE Head(cells)[1] = "font" -> Straight(Tail(cells), v, ul, voff)
         [] Head(cells)[1] = "ul" -> Straight(Tail(cells), f, v, voff)
         [] Head(cells)[1] = "voff" -> Straight(Tail(cells), f, ul, v)
         [] OTHER -> << <<ul, f, v, voff>> >> \o Straight(Tail(cells), f, ul, voff)
Column(x) == <<N(1), N(font_width(x[2], x[3]) + 1)>> \o appo(x[4], x[1], x[2], x[3])
RECURSIVE Columns(_)
Columns(xs) == IF xs = <<>> THEN <<>> ELSE Column(Head(xs)) \o Columns(Tail(xs))

(* What was collected of the word is ended and stays behind; the word is   *)
(* made again after it with one column for each character.                 *)
setup_overprint(t) ==
  LET xs == Straight(SubSeq(t.cells, t.wsp + 1, Len(t.cells)), 0, 0, 0)
      w == Len(t.cells) + 1
      copied == t.cells \o <<Zero>> \o SubSeq(t.cells, t.wsp - TWHEAD + 1, t.wsp) \o <<Over>>
  IN [t EXCEPT !.cells = copied \o Columns(xs), !.wwval = w, !.wsp = w + TWHEAD, !.overprint = TRUE,
               !.ccol = Len(xs), !.maxcol = Len(xs) - 1, !.wcol = Len(xs) - 1,
               !.wcolp = IF xs = <<>> THEN @ ELSE Len(copied) + 4 * (Len(xs) - 1)]

Reached(t) ==                           \* wcolp is brought to column ccol
  LET from == IF t.ccol < t.wcol THEN [t EXCEPT !.wcol = 0, !.wcolp = t.wsp + 1] ELSE t
      At[k \in from.wcol .. t.ccol] == IF k = from.wcol THEN from.wcolp ELSE NextColumn(t.cells, At[k - 1])
  IN [t EXCEPT !.wcol = t.ccol, !.wcolp = At[t.ccol]]
Widened(t, delta) ==
  IF delta > 0 THEN [t EXCEPT !.cells[t.wcolp + 2] = N(@[2] + delta), !.width = @ + delta] ELSE t
ocinsert(t, m, c) ==
  LET p == NextColumn(t.cells, t.wcolp)
      grown == [t EXCEPT !.cells = SubSeq([@ EXCEPT ![t.wcolp + 1] = N(@[2] + 1)], 1, p)
                                     \o appo(m.voff, m.ul, m.font, c) \o SubSeq(@, p + 1, Len(@))]
  IN Widened(grown, font_width(m.font, c) + 1 - Cell(t.cells, t.wcolp + 1)[2])
ocappend(t, m, c) ==
  [Put(t, Column(<<m.ul, m.font, c, m.voff>>)) EXCEPT !.width = @ + font_width(m.font, c), !.maxcol = t.ccol]
----------------------------------------------------------------------------
(* build_text_word: the header is left to be filled, then the modes.  With *)
(* a word to append to, its cells are copied.  b: the state of the         *)
(* construction; cols and at are what is typed, column by column.          *)
Modes == inputs[cur]
AllModes(m) == << <<"font", m.font>>, <<"ul", m.ul>>, <<"voff", m.voff>> >>
NewModes(m) == SelectSeq(AllModes(m), LAMBDA x : x[2] # 0)
Header == <<N(0), N(0), N(0), N(0)>>
Opened(t, cs) ==
  [t EXCEPT !.cells = @ \o Header \o cs, !.wwval = Len(t.cells), !.wsp = Len(t.cells) + TWHEAD, !.overprint = FALSE]
AllButLast(q) == SubSeq(q, 1, Len(q) - 1)
Last(q) == q[Len(q)]

New(r) ==
  [tc |-> [Opened(r.tc, NewModes(Modes)) EXCEPT !.width = 0, !.ha = 0, !.hb = 0], lines |-> r.lines,
   m |-> Modes, cols |-> <<>>, at |-> 0, spoilt |-> r.lost \/ Stopped(r.tc)]

Kept(w) == w
Copied(t, w) ==
  LET h(k) == Cell(t.cells, w + k)[2]
      new == [reset_overprint(Opened(t, Stored(t.cells, w))) EXCEPT !.width = h(0), !.ha = h(1), !.hb = h(2)]
  IN IF new.overprint THEN new ELSE Put(new, AllModes(Modes))
(* The place of the word is not read back from gcw after a collection.     *)
Continued(r, w) ==
  LET spoils == r.lost \/ Stopped(r.tc) \/ r.gcw # Kept(w) IN
  [tc |-> IF spoils THEN r.tc ELSE Copied(r.tc, w), lines |-> r.lines,
   m |-> Modes, cols |-> Last(typed[cur]), at |-> Len(Last(typed[cur])), spoilt |-> spoils]

(* A text character.  wcol is -1 when the overprinting began before the    *)
(* first of them: wcolp is then left over from another word.               *)
Inserts(t) == t.overprint /\ t.ccol <= t.maxcol
Added(t, m, c) ==
  LET new == IF Inserts(t) THEN ocinsert(Reached(t), m, c)
             ELSE IF t.overprint THEN ocappend(t, m, c)
             ELSE [Put(t, << <<"char", c>> >>) EXCEPT !.width = @ + font_width(m.font, c)]
  IN [new EXCEPT !.ccol = IF t.overprint THEN @ + 1 ELSE @,
                 !.ha = Max(@, font_ha(m.font) + m.voff), !.hb = Max(@, font_hb(m.font) - m.voff)]
Mark(b, x) ==
  LET k == b.at + 1 IN
  [b EXCEPT !.at = k, !.cols = IF k <= Len(@) THEN [@ EXCEPT ![k] = Append(@, x)] ELSE Append(@, <<x>>)]
After(b, r) == [b EXCEPT !.tc = r.tc, !.lines = r.lines, !.spoilt = @ \/ r.lost \/ Stopped(r.tc)]
TextChar(b, c) ==
  LET first == IF Inserts(b.tc) THEN After(b, Collect(b.tc, b.lines, -1)) ELSE b IN
  IF first.spoilt \/ (Inserts(b.tc) /\ b.tc.wcol = -1) THEN [first EXCEPT !.spoilt = TRUE]
  ELSE After(Mark(first, <<b.m.ul, b.m.font, c, b.m.voff>>),
             Collect(Added(first.tc, b.m, c), first.lines, -1))

(* The control characters of a word: ^f, ^b ^e, ^u ^d ^z, and ^h.  The end *)
(* of the array is not looked at when a word is made again.                *)
SetMode(b, m, cell) == [b EXCEPT !.m = m, !.tc = IF b.tc.overprint THEN @ ELSE Put(@, <<cell>>)]
Backspace(b) ==
  LET t == IF b.tc.overprint THEN b.tc ELSE setup_overprint(b.tc) IN
  [b EXCEPT !.tc = [t EXCEPT !.ccol = Max(@ - 1, 0)], !.at = Max(@ - 1, 0), !.spoilt = Len(t.cells) > tcstore_size]
Taken(b, ch) ==
  CASE ch[1] = "text" -> TextChar(b, ch[2])
    [] ch[1] = "h" -> Backspace(b)
    [] ch[1] = "font" -> SetMode(b, [b.m EXCEPT !.font = ch[2]], ch)
    [] ch[1] = "ul" -> SetMode(b, [b.m EXCEPT !.ul = ch[2]], ch)
    [] ch[1] = "voff" -> SetMode(b, [b.m EXCEPT !.voff = ch[2]], ch)
RECURSIVE Built(_, _)
Built(b, script) ==
  IF script = <<>> \/ b.spoilt THEN b ELSE Built(Taken(b, Head(script)), Tail(script))

(* done, and LineText: the header is filled and the word put on the line.  *)
Filled(t) ==
  [t EXCEPT !.cells = Append([@ EXCEPT ![t.wsp - 3] = N(t.width), ![t.wsp - 2] = N(t.ha), ![t.wsp - 1] = N(t.hb)], Zero),
            !.wsp = Len(t.cells) + 1, !.overprint = FALSE]
Finished(b, before) ==
  /\ spoilt' = b.spoilt
  /\ tc' = IF b.spoilt THEN b.tc ELSE Filled(b.tc)
  /\ lines' = [b.lines EXCEPT ![cur] = Append(@, b.tc.wwval)]
  /\ typed' = [before EXCEPT ![cur] = Append(@, b.cols)]
  /\ inputs' = [inputs EXCEPT ![cur] = b.m]
  /\ UNCHANGED cur
NewWord(script) ==
  /\ Len(lines[cur]) < MaxTokens
  /\ \E b \in {Built(New(Collect(tc, lines, -1)), script)} : Finished(b, typed)
(* After a ^g the reader takes the last word off the line.                 *)
AppendWord(script) ==
  /\ lines[cur] # <<>> /\ Len(Last(typed[cur])) <= 2
  /\ \E w \in {Last(lines[cur])} :
     \E b \in {Built(Continued(Collect(tc, [lines EXCEPT ![cur] = AllButLast(@)], Kept(w)), w), script)} :
       Finished(b, [typed EXCEPT ![cur] = AllButLast(@)])

(* A line is put out; .ev; .es (the copy refers to the same words).        *)
LineOut ==
  /\ lines[cur] # <<>>
  /\ lines' = [lines EXCEPT ![cur] = <<>>] /\ typed' = [typed EXCEPT ![cur] = <<>>]
  /\ UNCHANGED <<tc, inputs, cur, spoilt>>
EnvChange(e) == e # cur /\ cur' = e /\ UNCHANGED <<tc, lines, inputs, typed, spoilt>>
EnvCopy(e) ==
  /\ e # cur
  /\ lines' = [lines EXCEPT ![e] = lines[cur]] /\ typed' = [typed EXCEPT ![e] = typed[cur]]
  /\ inputs' = [inputs EXCEPT ![e] = inputs[cur]]
  /\ UNCHANGED <<tc, cur, spoilt>>

TextInit ==
  /\ tc = [cells |-> <<>>, wsp |-> 0, wwval |-> 0, overprint |-> FALSE, ccol |-> 0, maxcol |-> -1,
           wcol |-> 0, wcolp |-> 0, width |-> 0, ha |-> 0, hb |-> 0]
  /\ lines = [e \in Envs |-> <<>>] /\ typed = lines
  /\ inputs = [e \in Envs |-> [font |-> 0, ul |-> 0, voff |-> 0]]
  /\ cur = CHOOSE e \in Envs : TRUE
  /\ spoilt = FALSE
TextNext ==
  /\ ~spoilt
  /\ \/ \E script \in Scripts : NewWord(script) \/ AppendWord(script)
     \/ LineOut
     \/ \E e \in Envs : EnvChange(e) \/ EnvCopy(e)
----------------------------------------------------------------------------
(* Every word that a line refers to is the word that was typed, with the   *)
(* width and the height of its characters, wherever it has been moved.     *)
RECURSIVE SumOf(_), Drawn(_, _)
SumOf(q) == IF q = <<>> THEN 0 ELSE Head(q) + SumOf(Tail(q))
Drawn(cells, p) ==                      \* ootext: the columns from p on
  IF p = Len(cells) THEN <<>>
  ELSE LET n == cells[p + 1][2]
           One(k) == LET o == p + 2 * k IN
             <<cells[o + 2][2], cells[o + 2][3], cells[o + 2][4], cells[o + 1][2]>>
       IN <<[k \in 1 .. n |-> One(k)]>> \o Drawn(cells, p + 2 + 2 * n)
Shown(cells) ==                         \* output_text
  IF cells # <<>> /\ Head(cells) = Over THEN Drawn(cells, 1)
  ELSE LET xs == Straight(cells, 0, 0, 0) IN [i \in DOMAIN xs |-> <<xs[i]>>]
ReadBack(cells, w) ==
  [cols |-> Shown(Stored(cells, w)), width |-> Cell(cells, w)[2],
   ha |-> Cell(cells, w + 1)[2], hb |-> Cell(cells, w + 2)[2]]
MaxOf(S) == CHOOSE x \in S : \A y \in S : y <= x
Meant(cols) ==
  LET marks == UNION {{cols[i][k] : k \in DOMAIN cols[i]} : i \in DOMAIN cols}
      ColWidth(col) == MaxOf({font_width(col[k][2], col[k][3]) : k \in DOMAIN col})
  IN [cols |-> cols, width |-> SumOf([i \in DOMAIN cols |-> ColWidth(cols[i])]),
      ha |-> MaxOf({0} \union {font_ha(x[2]) + x[4] : x \in marks}),
      hb |-> MaxOf({0} \union {font_hb(x[2]) - x[4] : x \in marks})]
WordsKept ==
  ~spoilt => \A e \in Envs : \A i \in DOMAIN lines[e] : ReadBack(tc.cells, lines[e][i]) = Meant(typed[e][i])
=============================================================================
