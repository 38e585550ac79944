-------------------------------- MODULE YParse --------------------------------
(***************************************************************************)
(* The parser of the C compiler and of GT (src/src/c/yparse.c): an LR      *)
(* parser over the tables YACC makes, which recovers from a syntax error   *)
(* by trying to skip tokens and to pop states until `must' tokens shift.   *)
(* While it tries, the tokens it reads are kept in tokbuf, the action      *)
(* routines are off, and the stack is put back from a copy before each     *)
(* attempt.  A token is given by its place in the input, and what an       *)
(* action routine makes of a phrase by the places of the tokens it stands  *)
(* for.                                                                    *)
(***************************************************************************)
EXTENDS Integers, Sequences

CONSTANTS Types, Eof,      \* the terminal symbols; what gettok returns at the end
          States, Start,   \* the states, and the one that parse begins in
          Rules, r1, r2,   \* the rules, their left hand sides, the lengths of the right ones
          Act, Goto,       \* the tables: what to do in a state on a token, and after a reduction
          Depth,           \* a path from Start to a state has at least so many steps
          Sentences,      \* the texts: sequences of terminal symbols
          must, tbsize, pssize

Shifts(q) == [do |-> "shift", n |-> q]
Reduces(n) == [do |-> "reduce", n |-> n]
Accepts == [do |-> "accept", n |-> 0]
Fails == [do |-> "error", n |-> 0]

ASSUME TokenAssumption ==
  /\ Eof \in Types
  /\ Sentences \subseteq Seq(Types \ {Eof})
  /\ must \in Nat \ {0} /\ pssize \in Nat \ {0}
  /\ tbsize \in Nat /\ tbsize >= 5 /\ tbsize >= must + 3

\* The steps of the automaton: over a token, or over a phrase.
Edge(p, q) == \/ \E t \in Types : Act[p][t] = Shifts(q)
              \/ \E n \in Rules : <<p, r1[n]>> \in DOMAIN Goto /\ Goto[<<p, r1[n]>>] = q

(* The tables are those of some grammar: a state is reached by paths that  *)
(* are long enough for the reductions it makes, and that begin where the   *)
(* phrase was looked for.                                                  *)
ASSUME TableAssumption ==
  /\ Start \in States
  /\ r2 \in [Rules -> Nat]
  /\ Act \in [States -> [Types -> {Shifts(q) : q \in States} \union {Reduces(n) : n \in Rules}
                                     \union {Accepts, Fails}]]
  /\ \A x \in DOMAIN Goto : Goto[x] \in States
  /\ Depth \in [States -> Nat] /\ Depth[Start] = 0
  /\ \A p, q \in States : Edge(p, q) => Depth[q] <= Depth[p] + 1
  /\ \A p \in States, t \in Types : Act[p][t] = Accepts => t = Eof
  /\ \A p \in States, t \in Types, n \in Rules : Act[p][t] = Reduces(n) =>
       /\ r2[n] <= Depth[p]
       /\ \A w \in [0 .. r2[n] -> States] :
            w[r2[n]] = p /\ (\A i \in 1 .. r2[n] : Edge(w[i - 1], w[i])) =>
            <<w[0], r1[n]>> \in DOMAIN Goto

VARIABLES source,                 \* the input
          stack, saved,                \* the parser stack, and its copy: states, and what they stand for
          buf,                  \* the token cluster: tokbuf, ct, twp, and how many tokens it has read
          errmode, errcount,    \* recovery, and the tokens that have still to shift
          tskip, spop, errn,    \* the attempt: tokens skipped, states popped, the next to pop
          reported,             \* tokens that the messages say were skipped or deleted
          outcome               \* "running", or how parse has returned

parseVars == <<source, stack, saved, buf, errmode, errcount, tskip, spop, errn, reported, outcome>>
tries == <<saved, tskip, spop, errn>>

Type(p) == IF p \in 1 .. Len(source) THEN source[p] ELSE Eof
State == stack[Len(stack)].st
Top(k, n) == SubSeq(k, 1, Len(k) - n)
-----------------------------------------------------------------------------
(* The token cluster.  In error mode (errmode, with which tokmode and the  *)
(* bit 2 of xflag go) the tokens stay in the buffer.                       *)
Fresh(b, slot) ==
  [tokbuf |-> [b.tokbuf EXCEPT ![slot] = b.got + 1], ct |-> slot, twp |-> slot + 1, got |-> b.got + 1]

lex(b) == IF b.ct + 1 < b.twp THEN [b EXCEPT !.ct = b.ct + 1]
                              ELSE Fresh(b, IF errmode THEN b.twp ELSE 0)
Overflows(b) == errmode /\ b.ct + 1 >= b.twp /\ b.twp >= tbsize

\* Slots up to the i-th from the current one have been read.
tok(b, i) ==
  LET n == b.ct + i + 1 - b.twp IN
  IF n <= 0 THEN b
  ELSE [tokbuf |-> [k \in 0 .. tbsize - 1 |->
                      IF k \in b.twp .. b.twp + n - 1 THEN b.got + 1 + k - b.twp ELSE b.tokbuf[k]],
        ct |-> b.ct, twp |-> b.twp + n, got |-> b.got + n]
ctok(b, i) == [tok(b, i) EXCEPT !.ct = b.ct + i]

tkeem(b) ==
  [tokbuf |-> [k \in 0 .. tbsize - 1 |-> IF k < b.twp - b.ct THEN b.tokbuf[k + b.ct] ELSE b.tokbuf[k]],
   ct |-> 0, twp |-> b.twp - b.ct, got |-> b.got]

(* The tokens printed with a syntax error: five, or up to the end.         *)
Printed(b) ==
  LET five == tok(b, 4)
      ends == {i \in 0 .. 4 : Type(five.tokbuf[i]) = Eof}
  IN IF ends = {} THEN five ELSE tok(b, CHOOSE i \in ends : \A j \in ends : i <= j)
-----------------------------------------------------------------------------
ParseInit ==
  /\ source \in Sentences
  /\ stack = <<[st |-> Start, v |-> {}]>> /\ saved = <<>>
  /\ buf = [tokbuf |-> [i \in 0 .. tbsize - 1 |-> IF i = 0 THEN 1 ELSE 0],
            ct |-> 0, twp |-> 1, got |-> 1]
  /\ errmode = FALSE /\ errcount = 0 /\ tskip = 0 /\ spop = 0 /\ errn = 0
  /\ reported = {} /\ outcome = "running"

Does == Act[State][Type(buf.tokbuf[buf.ct])]

Push(k, q, v) ==
  /\ stack' = Append(k, [st |-> q, v |-> v])
  /\ outcome' = IF Len(k) >= pssize THEN "stkovf" ELSE "running"

\* Mutant: what was popped is not in the messages.
dmperrSkipped(b) ==
  /\ reported' = reported \union {b.tokbuf[i] : i \in 0 .. tskip - 1}
  /\ stack' = Top(saved, spop)
  /\ buf' = ctok([b EXCEPT !.ct = 0], tskip)
  /\ errmode' = FALSE /\ errcount' = 0
  /\ UNCHANGED <<source, tries, outcome>>

(* The recovery is over: its messages, and back to where it has led, with  *)
(* the action routines on.                                                 *)
dmperr(b) ==
  /\ reported' = reported \union {b.tokbuf[i] : i \in 0 .. tskip - 1}
                          \union UNION {saved[i].v : i \in Len(saved) - spop + 1 .. Len(saved)}
  /\ stack' = Top(saved, spop)
  /\ buf' = ctok([b EXCEPT !.ct = 0], tskip)
  /\ errmode' = FALSE /\ errcount' = 0
  /\ UNCHANGED <<source, tries, outcome>>

Shift ==
  /\ outcome = "running" /\ Does.do = "shift"
  /\ CASE Overflows(buf) -> outcome' = "tkbovf" /\ UNCHANGED <<source, stack, buf, errmode, errcount, tries, reported>>
       [] ~Overflows(buf) /\ errcount = 1 -> dmperr(lex(buf))
       [] OTHER -> /\ buf' = lex(buf)
                   /\ errcount' = IF errcount > 0 THEN errcount - 1 ELSE 0
                   /\ Push(stack, Does.n, {buf.tokbuf[buf.ct]})
                   /\ UNCHANGED <<source, errmode, tries, reported>>

(* A phrase stands for what its parts stand for; while the action routines *)
(* are off, the stack has what its first part, or else the token, has.     *)
MadeFrom(r) ==
  IF errmode THEN (IF r > 0 THEN stack[Len(stack) - r + 1].v ELSE {buf.tokbuf[buf.ct]})
             ELSE UNION {stack[i].v : i \in Len(stack) - r + 1 .. Len(stack)}

Reduce ==
  /\ outcome = "running" /\ Does.do = "reduce"
  /\ LET n == Does.n
         k == Top(stack, r2[n])
     IN Push(k, Goto[<<k[Len(k)].st, r1[n]>>], MadeFrom(r2[n]))
  /\ UNCHANGED <<source, buf, errmode, errcount, tries, reported>>

Accept ==
  /\ outcome = "running" /\ Does.do = "accept"
  /\ IF errmode THEN dmperr(buf)
                ELSE outcome' = "accept" /\ UNCHANGED <<source, stack, buf, errmode, errcount, tries, reported>>

(* The next attempt, after `k' and `p': tokens are skipped in pairs, one   *)
(* state less is popped for each pair, and when that is used up, or the    *)
(* last attempt has failed at the end of the input, one state more is.     *)
tlimit == tbsize - must - 2
NextTry(k, p, e, atEnd) ==
  LET fewer == IF (k + 1) % 2 = 0 THEN p - 1 ELSE p IN
  IF fewer < 0 \/ atEnd \/ k + 1 > tlimit THEN <<0, e, e + 1>> ELSE <<k + 1, fewer, e>>

Attempt(k, b, try) ==
  /\ tskip' = try[1] /\ spop' = try[2] /\ errn' = try[3]
  /\ saved' = k /\ errmode' = TRUE /\ errcount' = must
  /\ IF spop' < Len(k)
     THEN buf' = ctok([b EXCEPT !.ct = 0], tskip') /\ stack' = Top(k, spop') /\ outcome' = "running"
     ELSE buf' = [b EXCEPT !.ct = 0] /\ stack' = k /\ outcome' = "giveup"
  /\ UNCHANGED <<source, reported>>

(* A new error saves the stack and enters error mode.  Whether the input   *)
(* is at its end is asked of the slot the token had before tkeem.          *)
SyntaxError ==
  /\ outcome = "running" /\ Does.do = "error" /\ ~errmode
  /\ LET b == Printed(tkeem(buf)) IN
     Attempt(stack, b, NextTry(0, 0, 1, Type(b.tokbuf[buf.ct]) = Eof))

TryAgain ==
  /\ outcome = "running" /\ Does.do = "error" /\ errmode
  /\ Attempt(saved, buf, NextTry(tskip, spop, errn, Type(buf.tokbuf[buf.ct]) = Eof))

ParseNext == Shift \/ Reduce \/ Accept \/ SyntaxError \/ TryAgain

ParseSpec == ParseInit /\ [][ParseNext]_parseVars
-----------------------------------------------------------------------------
(* The tokens below the current one, where the parse goes on or would go   *)
(* on from after a failed attempt, are on the stack in the order of the    *)
(* input or have been reported: none is dropped, used twice or reordered.  *)
ShownTokens(k) == UNION {k[i].v : i \in 1 .. Len(k)}
Accounted(k, p) ==
  /\ ShownTokens(k) \union reported = 1 .. p - 1 /\ ShownTokens(k) \intersect reported = {}
  /\ \A i, j \in 1 .. Len(k) : i < j => \A x \in k[i].v, y \in k[j].v : x < y
NoTokenLost ==
  /\ ~errmode => Accounted(stack, buf.tokbuf[buf.ct])
  /\ errmode => Accounted(saved, buf.tokbuf[0])

(* The buffer has the tokens last read, in order, and recovery never asks  *)
(* for more of them than it holds.                                         *)
BufferHolds ==
  /\ buf.ct \in 0 .. buf.twp - 1 /\ buf.twp \in 1 .. tbsize
  /\ \A i \in 0 .. buf.twp - 1 : buf.tokbuf[i] = buf.got - buf.twp + 1 + i
  /\ outcome # "tkbovf"

(* The stack is a path of the automaton, so that no reduction underflows,  *)
(* and grows one place over its size at most, when parse returns.          *)
Path(k) ==
  /\ Len(k) > 0 /\ k[1].st = Start
  /\ \A i \in 1 .. Len(k) : k[i].st \in States /\ Depth[k[i].st] < i
  /\ \A i \in 1 .. Len(k) - 1 : Edge(k[i].st, k[i + 1].st)
StackHolds ==
  /\ Path(stack) /\ (errmode => Path(saved))
  /\ Len(stack) <= pssize + 1 /\ (outcome = "running" => Len(stack) <= pssize)

ParseKept == NoTokenLost /\ BufferHolds /\ StackHolds
=============================================================================
