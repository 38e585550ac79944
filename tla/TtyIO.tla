-------------------------------- MODULE TtyIO --------------------------------
(***************************************************************************)
(* The C library's terminal routines (src/src/clib/c10tty.c): the output   *)
(* buffer of tyo and tyo_flush, with interrupt handlers that type messages *)
(* of their own, through the same buffer, between any two steps of it; the *)
(* line editor get_buf; and tyi, which hands its lines out a character at  *)
(* a time.                                                                 *)
(***************************************************************************)
EXTENDS Integers, Sequences, SequencesExt, FiniteSets

CONSTANTS OutSize,      \* tty_output_buffer_size
          InSize,       \* the size of the caller's input buffer
          MaxOut        \* characters the program types in a behaviour

VARIABLES tty_output_buffer, tty_output_ptr, tty_output_count,
          tpc,          \* where the main program is in tyo and tyo_flush
          arg,          \* tyo_flush: the count it has given to siot
          sent,         \* characters given to tyo so far; each has its number
          screen,       \* what has been typed `since' of them, messages apart
          since,
          broken,       \* a message came inside tyo, and what it left is not flushed
          hit,          \* the characters it found stored and not counted
          line, column, \* get_buf: the line so far, and the columns it shows in
          answer        \* what tyi has still to hand out of the line returned

history == <<since, broken, hit>>
outVars == <<tty_output_buffer, tty_output_ptr, tty_output_count, arg, sent, screen, history>>
inVars == <<line, column, answer>>
ttyVars == <<outVars, tpc, inVars>>

ASSUME TtyAssumption == OutSize \in Nat /\ OutSize >= 5 /\ InSize \in Nat \ {0}

Kinds == {"x", "CR", "^P"}
Stored(kind) == CASE kind = "x" -> "stored" [] kind = "CR" -> "storedCR" [] OTHER -> "half"

TtyInit ==
  /\ tty_output_buffer = [i \in 0 .. OutSize |-> 0]
  /\ tty_output_ptr = 0 /\ tty_output_count = 0 /\ arg = 0
  /\ tpc = "idle" /\ sent = 0 /\ screen = <<>> /\ since = 0 /\ broken = FALSE /\ hit = {}
  /\ line = <<>> /\ column = 0 /\ answer = <<>>

Buffered(n) == [i \in 1 .. n |-> tty_output_buffer[i - 1]]

(* tyo stores a character, or two for ^P, and then counts them.            *)
Stores ==
  /\ tty_output_buffer' = [tty_output_buffer EXCEPT ![tty_output_ptr] = sent + 1]
  /\ tty_output_ptr' = tty_output_ptr + 1
  /\ sent' = sent + 1
  /\ UNCHANGED <<tty_output_count, arg, screen, history, inVars>>

tyo ==
  /\ tpc = "idle" /\ sent < MaxOut /\ Stores
  /\ \E kind \in Kinds : tpc' = Stored(kind)

tyoP == tpc = "half" /\ Stores /\ tpc' = "storedP"

\* Mutant: the room for the two characters of ^P is forgotten.
LineFullLate(count) == count >= OutSize

LineFull(count) == count >= OutSize - 2

tyoCount ==
  /\ tpc \in {"stored", "storedCR", "storedP"}
  /\ tty_output_count' = tty_output_count + (IF tpc = "storedP" THEN 2 ELSE 1)
  /\ tpc' = IF tpc = "storedCR" \/ LineFull(tty_output_count') THEN "flush" ELSE "idle"
  /\ UNCHANGED <<tty_output_buffer, tty_output_ptr, arg, sent, screen, history, inVars>>

\* When a message comes between the test and the reading of the count, that
\* is 0 and nothing is typed.
tyo_flush ==
  /\ tpc = "flush"
  /\ IF tty_output_count > 0 THEN tpc' = "siot" /\ arg' = tty_output_count
                             ELSE tpc' = "idle" /\ UNCHANGED arg
  /\ UNCHANGED <<tty_output_buffer, tty_output_ptr, tty_output_count, sent, screen, history, inVars>>

siot ==
  /\ tpc = "siot" /\ tpc' = "reset"
  /\ screen' = screen \o Buffered(arg)
  /\ UNCHANGED <<tty_output_buffer, tty_output_ptr, tty_output_count, arg, sent, history, inVars>>

resetPtr ==
  /\ tpc = "reset" /\ tty_output_ptr' = 0 /\ tpc' = "recount"
  /\ UNCHANGED <<tty_output_buffer, tty_output_count, arg, sent, screen, history, inVars>>

\* With an empty buffer what a message has broken is over.
Settled == since' = sent /\ screen' = <<>> /\ broken' = FALSE /\ hit' = {}

\* Mutant: the count stays.
resetCountForgets ==
  /\ tpc = "recount" /\ tpc' = "idle"
  /\ IF broken THEN Settled ELSE UNCHANGED <<screen, history>>
  /\ UNCHANGED <<tty_output_buffer, tty_output_ptr, tty_output_count, arg, sent, inVars>>

resetCount ==
  /\ tpc = "recount" /\ tty_output_count' = 0 /\ tpc' = "idle"
  /\ IF broken THEN Settled ELSE UNCHANGED <<screen, history>>
  /\ UNCHANGED <<tty_output_buffer, tty_output_ptr, arg, sent, inVars>>

(* A handler types a message of m characters, three of them BEL and        *)
(* blanks: spctty flushes what is counted; the text is stored behind what  *)
(* is stored and not counted, if nothing was, and flushed too.  A longer   *)
(* one goes out in parts, through the same places.                         *)
message ==
  /\ \E m \in 3 .. OutSize - 2 :
       LET first == IF tty_output_count > 0 THEN 0 ELSE tty_output_ptr IN
       tty_output_buffer' = [i \in 0 .. OutSize |->
         IF i \in first .. first + m - 1 THEN 0 ELSE tty_output_buffer[i]]
  /\ tty_output_ptr' = 0 /\ tty_output_count' = 0
  /\ LET typed == IF tty_output_count > 0 THEN tty_output_count ELSE tty_output_ptr
         between == tpc \in {"idle", "flush"}
     IN IF between /\ broken THEN Settled
        ELSE /\ screen' = screen \o Buffered(typed)
             /\ hit' = hit \union {tty_output_buffer[i] : i \in typed .. tty_output_ptr - 1}
             /\ broken' = (broken \/ ~between) /\ UNCHANGED since
  /\ UNCHANGED <<arg, sent, tpc, inVars>>
-----------------------------------------------------------------------------
(* get_buf, on a display.  Keys that go into the line, by the columns they *)
(* show as, and keys that edit the line or end it.                         *)
Width(key) == CASE key = "a" -> 1 [] key = "^A" -> 2 [] key = "BEL" -> 0
Those(b, key) == {i \in DOMAIN b : b[i] = key}
Shown(b) == Width("a") * Cardinality(Those(b, "a")) + Width("^A") * Cardinality(Those(b, "^A"))

HasRoom(b) == Len(b) <= InSize - 2

\* Mutant: one column is erased for every character.
ErasedOne(key) == 1

Erased(key) == Width(key)

get_buf(key) ==
  CASE key \in {"break", "EOF"} ->
         /\ answer = <<>> /\ line' = <<>> /\ column' = 0
         /\ answer' = IF key = "break" THEN Append(line, "NL") ELSE line
    [] key = "rubout" ->
         /\ IF line = <<>> THEN UNCHANGED <<line, column>>
            ELSE line' = Front(line) /\ column' = column - Erased(Last(line))
         /\ UNCHANGED answer
    [] key = "^L" -> column' = Shown(line) /\ UNCHANGED <<line, answer>>
    [] key = "NL" -> UNCHANGED inVars
    [] OTHER ->
         /\ IF HasRoom(line) THEN line' = Append(line, key) /\ column' = column + Width(key)
                            ELSE UNCHANGED <<line, column>>
         /\ UNCHANGED answer

UserTypes ==
  /\ \E key \in {"a", "^A", "BEL", "rubout", "^L", "NL", "EOF", "break"} : get_buf(key)
  /\ UNCHANGED <<outVars, tpc>>

(* tyi hands the line out a character at a time, and reads another one     *)
(* when it is used up.                                                     *)
tyi ==
  /\ answer # <<>>
  /\ answer' = Tail(answer)
  /\ UNCHANGED <<outVars, tpc, line, column>>

OutNext == tyo \/ tyoP \/ tyoCount \/ tyo_flush \/ siot \/ resetPtr \/ resetCount \/ message
LineNext == UserTypes \/ tyi
TtyNext == OutNext \/ LineNext

TtySpec == TtyInit /\ [][TtyNext]_ttyVars
-----------------------------------------------------------------------------
TtyTypeOK ==
  /\ tty_output_count \in 0 .. OutSize + 2 /\ tty_output_ptr \in 0 .. OutSize
  /\ Len(line) <= InSize - 1 /\ column \in 0 .. 2 * InSize

(* Neither buffer is overrun: not by the two characters of a ^P, nor when  *)
(* a message empties the buffer between a character and its being counted, *)
(* nor by the message, when it is stored behind such a character.          *)
BuffersKept ==
  /\ tty_output_ptr <= OutSize /\ Len(answer) <= InSize
  /\ tty_output_count = 0 => tty_output_ptr + (OutSize - 2) <= OutSize

(* What is typed and what is still in the buffer are the characters given  *)
(* to tyo, each once and in order, also over messages that come between    *)
(* calls; and again from the first flush after one that came inside tyo.   *)
TypedInOrder ==
  ~broken /\ tpc \in {"idle", "flush"} =>
    hit = {} /\ screen \o Buffered(tty_output_count) = [i \in 1 .. sent - since |-> since + i]

(* A message inside tyo loses only the character, or the ^P, that it finds *)
(* stored and not counted behind others that are: what else is given to    *)
(* tyo is typed, or still in front of tty_output_ptr.                      *)
NoneDropped ==
  \A k \in since + 1 .. sent :
    \/ k \in hit \/ \E i \in DOMAIN screen : screen[i] = k
    \/ tpc \notin {"reset", "recount"} /\ \E i \in 0 .. tty_output_ptr - 1 : tty_output_buffer[i] = k

(* The cursor is after the line that is in the buffer, whatever was rubbed *)
(* out of it.                                                              *)
ColumnTrue == column = Shown(line)

(* What is typed comes out whole and in order, and is rubbed out exactly.  *)
TypingKept == TtyTypeOK /\ BuffersKept /\ TypedInOrder /\ NoneDropped /\ ColumnTrue
=============================================================================
