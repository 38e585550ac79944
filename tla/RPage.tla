-------------------------------- MODULE RPage --------------------------------
(***************************************************************************)
(* The page of R: the vertical position, the traps on the page and the     *)
(* requests that move about on it (src/src/r/rtrap.c; LineFinish, the      *)
(* reader and the vertical requests).  A trap puts its macro in front of   *)
(* the input, which is read a request at a time; positions are in VU.      *)
(***************************************************************************)
EXTENDS Integers, Sequences, SequencesExt

CONSTANTS Macros,               \* the lines of each macro; a name without one is undefined
          FirstTraps,           \* the traps set to begin with
          Written,              \* the lines that are written at the terminal
          DefaultHeight,
          MaxPages, MaxWritten  \* bounds

VARIABLES page,                 \* the page, its traps and the modes that go with it
          todo,                 \* what is on the input, outermost macro last
          lines,                \* ghost: the lines put on the page since it was last moved back
          written               \* lines written, and whether the file has ended

infinity == 1000
Max2(x, y) == IF x < y THEN y ELSE x

FirstPage ==
  [vp |-> 0, lvpu |-> 0, page_length |-> 6, page_number |-> 1, next_page_number |-> 2,
   page_empty |-> TRUE, page_started |-> FALSE, traps_enabled |-> TRUE, vplost |-> 0, nsmode |-> "n",
   trap_table |-> FirstTraps, ctrap |-> 1,
   even_page_offset |-> 1, odd_page_offset |-> 1, current_page_offset |-> 1,
   old_even |-> 1, old_odd |-> 1, text_seen |-> FALSE,
   taken |-> {}, shifted |-> FALSE]             \* ghosts: the traps done on this page; see TrapsOnce
PageInit ==
  page = FirstPage /\ todo = <<>> /\ lines = <<>> /\ written = 0

(* A state of the machine, on which the handlers work.                     *)
P == [p |-> page, todo |-> todo, lines |-> lines]
Set(s, p) == [s EXCEPT !.p = p]
-----------------------------------------------------------------------------
(* ADD_TRAP.  A trap put below one that is done moves the rest up without  *)
(* moving ctrap, so that one is before ctrap and one that is done is not.  *)
Beyond(t, pos) == Len(SelectSeq(t, LAMBDA x : x[1] <= pos)) + 1
add_trap(p, name, pos) ==
  LET i == Beyond(p.trap_table, pos) IN
  [p EXCEPT !.trap_table = InsertAt(@, i, <<pos, name>>),
            !.ctrap = IF i = @ /\ pos < p.vp THEN @ + 1 ELSE @,
            !.shifted = @ \/ i < p.ctrap \/ <<pos, name>> \in Range(p.trap_table),
            !.taken = IF i < p.ctrap \/ (i = p.ctrap /\ pos < p.vp) THEN @ \union {<<pos, name>>}
                      ELSE @ \ {<<pos, name>>}]
Named(t, name, pos) == {i \in DOMAIN t : t[i][2] = name /\ pos \in {-1, t[i][1]}}
FirstOf(S) == CHOOSE i \in S : \A j \in S : i <= j

rem_trap(p, name, pos) ==
  LET S == Named(p.trap_table, name, pos) IN
  IF S = {} THEN p
  ELSE [p EXCEPT !.trap_table = RemoveAt(@, FirstOf(S)),
                 !.ctrap = IF @ > FirstOf(S) THEN @ - 1 ELSE @,
                 !.taken = @ \ {p.trap_table[FirstOf(S)]}]
find_trap(p, name) ==
  LET S == Named(p.trap_table, name, -1) IN IF S = {} THEN -1 ELSE p.trap_table[FirstOf(S)][1]
Pending(p) == p.ctrap <= Len(p.trap_table) /\ p.trap_table[p.ctrap][1] < p.page_length
next_trap(p) ==
  IF ~p.traps_enabled THEN infinity
  ELSE IF Pending(p) THEN p.trap_table[p.ctrap][1] ELSE p.page_length

(* TRAP: the macro goes in front of the input.                             *)
trap(s, name) == IF name \in DOMAIN Macros THEN [s EXCEPT !.todo = Macros[name] \o @] ELSE s

output_eop(p) ==
  [p EXCEPT !.vp = 0, !.lvpu = 0, !.page_number = p.next_page_number,
            !.next_page_number = @ + 1, !.page_empty = TRUE, !.page_started = FALSE, !.ctrap = 1,
            !.current_page_offset = IF p.next_page_number % 2 = 1 THEN p.odd_page_offset ELSE p.even_page_offset,
            !.taken = {}, !.shifted = FALSE]
NextPage(s) == [s EXCEPT !.p = output_eop(@), !.lines = <<>>]

(* NEW_VP: to the next trap, to the next page, or to pos.                  *)
TrapAt(s, p, pos) ==
  trap([s EXCEPT !.p = [p EXCEPT !.vp = Max2(@, p.trap_table[p.ctrap][1]), !.ctrap = @ + 1,
                                 !.vplost = Max2(0, pos - Max2(p.vp, p.trap_table[p.ctrap][1])),
                                 !.taken = @ \union {p.trap_table[p.ctrap]}]],
       p.trap_table[p.ctrap][2])
MovedTo(s, p, pos) ==
  IF ~p.traps_enabled THEN Set(s, [p EXCEPT !.vp = pos])
  ELSE IF Pending(p) /\ pos >= p.trap_table[p.ctrap][1] THEN TrapAt(s, [p EXCEPT !.page_started = TRUE], pos)
  ELSE IF pos >= p.page_length THEN NextPage(Set(s, [p EXCEPT !.vp = pos]))
  ELSE Set(s, [p EXCEPT !.vp = pos, !.page_started = TRUE])
new_vp(s, pos) ==
  IF pos < s.p.vp THEN MovedTo([s EXCEPT !.lines = <<>>], [s.p EXCEPT !.lvpu = 0], pos) ELSE MovedTo(s, s.p, pos)

(* NEW_PAGE: a page that is not finished is moved to its end; with traps   *)
(* disabled that is not the next page.                                     *)
new_page(s) == IF s.p.vp < s.p.page_length THEN new_vp(s, s.p.page_length) ELSE NextPage(s)

(* LineFinish: a line of ha above its position and hb below it is put out. *)
\* Mutant: a line is put where the one before it reaches.
PlacedOver(p, ha) == p.vp

Placed(p, ha) == IF p.lvpu + ha > p.vp THEN p.lvpu + ha ELSE p.vp
PutLine(s, vp, ha, hb) ==
  new_vp([s EXCEPT !.lines = Append(@, <<vp, ha, hb>>),
                   !.p = [@ EXCEPT !.vp = vp, !.lvpu = vp + hb, !.nsmode = "n", !.page_empty = FALSE,
                                   !.text_seen = FALSE]],
         vp + DefaultHeight)
LineBreak(s, ha, hb) == IF s.p.text_seen THEN PutLine(s, Placed(s.p, ha), ha, hb) ELSE s
-----------------------------------------------------------------------------
(* The requests.                                                           *)
Again(s, it) == [s EXCEPT !.todo = <<it>> \o @]
Offset(p, val, odd) ==
  IF odd THEN [p EXCEPT !.odd_page_offset = val, !.old_odd = p.odd_page_offset,
                        !.current_page_offset = IF p.page_number % 2 = 1 THEN val ELSE @]
  ELSE [p EXCEPT !.even_page_offset = val, !.old_even = p.even_page_offset,
                 !.current_page_offset = IF p.page_number % 2 = 0 THEN val ELSE @]

Plain(s, it) ==
  CASE it[1] = "bp" -> IF s.p.nsmode # "p" THEN new_page(s) ELSE s
    [] it[1] = "bpn" -> new_page([s EXCEPT !.p.next_page_number = it[2]])
    [] it[1] = "pn" -> [s EXCEPT !.p.next_page_number = it[2]]
    [] it[1] = "sp" -> IF s.p.nsmode = "n" THEN new_vp(s, s.p.vp + it[2]) ELSE s
    [] it[1] = "ne" -> IF next_trap(s.p) - s.p.vp < it[2] THEN new_vp(s, s.p.vp + it[2]) ELSE s
    [] it[1] = "vp" -> new_vp(s, it[2])
    [] it[1] = "ns" -> [s EXCEPT !.p.nsmode = IF it[2] = "p" THEN "p" ELSE IF @ # "p" THEN "s" ELSE @]
    [] it[1] = "rs" -> [s EXCEPT !.p.nsmode = "n"]
    [] it[1] = "bj" -> LineBreak(s, 1, 0)
    [] it[1] = "pl" -> [s EXCEPT !.p.page_length = it[2]]
    [] it[1] = "st" -> Set(s, add_trap(s.p, it[2], it[3]))
    [] it[1] = "rt" -> Set(s, rem_trap(s.p, it[2], -1))
    [] it[1] = "ct" -> IF find_trap(s.p, it[2]) < 0 THEN s
                       ELSE Set(s, add_trap(rem_trap(s.p, it[2], find_trap(s.p, it[2])), it[2], it[3]))
    [] it[1] = "eo" -> Set(s, Offset(s.p, IF it[2] = -1 THEN s.p.old_even ELSE it[2], FALSE))
    [] it[1] = "oo" -> Set(s, Offset(s.p, IF it[2] = -1 THEN s.p.old_odd ELSE it[2], TRUE))
    [] it[1] = "enabled" -> [s EXCEPT !.p.traps_enabled = it[2]]
    [] OTHER -> s                                                               \* br

(* perform_request: a request that breaks comes back when the traps at the *)
(* top of the page are done, and when the line is out.                     *)
Breaking == {"bp", "bpn", "br", "sp", "ne", "vp", "rs"}

AwaitsTop(p) == ~p.page_started /\ p.traps_enabled
perform_request(s, it) ==
  IF it[1] \in Breaking /\ AwaitsTop(s.p) THEN new_vp(Again(s, it), s.p.vp)
  ELSE IF it[1] \in Breaking /\ s.p.text_seen THEN LineBreak(Again(s, it), 1, 1)
  ELSE Plain(s, it)

(* The reader: a word (a line is full before it, if it says so), a newline *)
(* at the beginning of a line, and the end of the file.                    *)
Text(s, it) ==
  IF AwaitsTop(s.p) THEN new_vp(Again(s, it), s.p.vp)
  ELSE LET t == IF it[2] = "full" THEN LineBreak(s, 1, 0) ELSE s IN [t EXCEPT !.p.text_seen = TRUE]
Blank(t) == IF t.p.nsmode = "n" THEN new_vp(t, t.p.vp + DefaultHeight) ELSE t
Newline(s, it) ==
  IF AwaitsTop(s.p) THEN new_vp(Again(s, it), s.p.vp) ELSE Blank(LineBreak(s, 2, 1))
Flushed(t) == IF ~t.p.page_empty THEN new_page(t) ELSE t
DoEof(s) == Flushed(LineBreak(s, 1, 0))
ReadItem(s, it) ==
  CASE it[1] = "text" -> Text(s, it)
    [] it[1] = "nl" -> Newline(s, it)
    [] it[1] = "eof" -> DoEof(s)
    [] OTHER -> perform_request(s, it)

Becomes(s) == page' = s.p /\ todo' = s.todo /\ lines' = s.lines
Read ==
  /\ todo # <<>> /\ page.page_number < MaxPages
  /\ Becomes(ReadItem([P EXCEPT !.todo = Tail(todo)], Head(todo))) /\ UNCHANGED written
Write ==
  /\ todo = <<>> /\ written < MaxWritten /\ written' = written + 1
  /\ \E it \in Written : todo' = <<it>>
  /\ UNCHANGED <<page, lines>>
(* The end of the file comes back until nothing is on the page.            *)
EndOfFile ==
  /\ todo = <<>> /\ (page.text_seen \/ ~page.page_empty) /\ page.page_number < MaxPages
  /\ Becomes(DoEof(P)) /\ written' = MaxWritten
PageNext == Read \/ Write \/ EndOfFile
-----------------------------------------------------------------------------
(* Lines on a page are apart, however tall they are and whatever moves     *)
(* down or traps came between.                                             *)
LinesApart ==
  \A i, j \in DOMAIN lines : i < j => lines[i][1] + lines[i][3] <= lines[j][1] - lines[j][2]

(* A trap is taken once on a page (unless one was set below it when it was *)
(* done, or twice), and one that is not waited for was taken or set too late.        *)
TrapsOnce ==
  \A i \in DOMAIN page.trap_table :
    IF i < page.ctrap THEN page.trap_table[i] \in page.taken \/ page.shifted
    ELSE page.trap_table[i] \notin page.taken \/ page.shifted

(* The offset in use is that of the page's parity.                         *)
OffsetOfParity ==
  page.current_page_offset = IF page.page_number % 2 = 1 THEN page.odd_page_offset ELSE page.even_page_offset

(* A line is put on a page after the trap at the top of it (unless it is    *)
(* broken by bj or the traps were changed), and nothing                     *)
(* moves past a trap that is still to be taken.                            *)
TopTrap == page.trap_table = FirstTraps /\ FirstTraps[1][1] <= 0
HeaderFirst ==
  Len(lines') > Len(lines) /\ TopTrap /\ page.traps_enabled /\ todo # <<>> /\ Head(todo)[1] # "bj"
    => FirstTraps[1] \in page.taken
NoTrapPassed ==
  page'.vp > page.vp /\ Len(lines') <= Len(lines) /\ page'.traps_enabled /\ page'.page_number = page.page_number
    => \A i \in page'.ctrap .. Len(page'.trap_table) :
         page'.trap_table[i][1] >= page'.vp \/ page'.trap_table[i][1] >= page'.page_length

PagesKept == LinesApart /\ TrapsOnce /\ OffsetOfParity
=============================================================================
