------------------------------- MODULE RGroups -------------------------------
(***************************************************************************)
(* The control structures of R (src/src/r/rcntrl.c): begin, if, while and  *)
(* for statements, their variables, and the skipping of statement bodies,  *)
(* over a stack of input sources.  A source is a file or a macro, whose    *)
(* text is a sequence of requests.  The value of an expression is any.     *)
(***************************************************************************)
EXTENDS Integers, Sequences, FiniteSets

CONSTANTS FileTexts, MacroTexts,        \* the texts of the file and of the macro
          max_icb,                      \* sources at one time
          ForLimit                      \* the limit of for statements

VARIABLES texts,        \* the text of the file and of the macro, and the registers at first
          rg,           \* the state of R: see GroupInit
          skipping,     \* for skip_until_end: the place of the group it skips to, whether it
                        \* stops at an EF, and where a reader would see it stop
          done          \* main has left all groups

Registers == {"i", "n"}
Undefined == -1
NoSkip == [to |-> 0, ef |-> FALSE, want |-> 0]
ReadFrom(type) == [type |-> type, pos |-> 1, exit |-> FALSE]

(* The input stack, the group stack (without its dummy), the variable      *)
(* stack and the number registers; escaped tells that a begin block has    *)
(* left a macro over a statement of that macro.                            *)
GroupInit ==
  /\ \E f \in FileTexts, t \in MacroTexts, v \in {Undefined, 0} :
       /\ texts = [file |-> f, macro |-> t, regs |-> [r \in Registers |-> v]]
       /\ rg = [icbs |-> <<ReadFrom("file")>>, groups |-> <<>>, vars |-> <<>>,
                regs |-> [r \in Registers |-> v], escaped |-> FALSE]
  /\ skipping = NoSkip /\ done = FALSE

icblev == Len(rg.icbs)
Source == rg.icbs[icblev]
Text == texts[Source.type]
AtEnd == Source.pos > Len(Text)
Stepped(g) == [g EXCEPT !.icbs[icblev].pos = @ + 1]

cgrp(g) == g.groups[Len(g.groups)]
push_group(g, type) ==
  [g EXCEPT !.groups = Append(@, [gtype |-> type, icblev |-> Len(g.icbs), pvar |-> Len(g.vars),
                                  ip |-> g.icbs[Len(g.icbs)].pos])]
set_exit(g) == [g EXCEPT !.icbs[Len(g.icbs)].exit = TRUE]

(* push_var saves the register with its new value to come; pop_var, done   *)
(* until there are p left, gives the old values back, the last one first.  *)
define(g, name, val) ==
  [g EXCEPT !.vars = Append(@, [name |-> name, val |-> g.regs[name]]), !.regs[name] = val]

\* Mutant: the last value is the one that stays.
pop_varsForward(g, p) ==
  LET undo[i \in p .. Len(g.vars)] ==
        IF i = p THEN g.regs ELSE [undo[i - 1] EXCEPT ![g.vars[i].name] = g.vars[i].val]
  IN [g EXCEPT !.vars = SubSeq(@, 1, p), !.regs = undo[Len(g.vars)]]

pop_vars(g, p) ==
  LET undo[i \in p .. Len(g.vars)] ==
        IF i = Len(g.vars) THEN g.regs ELSE [undo[i + 1] EXCEPT ![g.vars[i + 1].name] = g.vars[i + 1].val]
  IN [g EXCEPT !.vars = SubSeq(@, 1, p), !.regs = undo[p]]

(* pop_group, until there are k groups left.                               *)
pop_groups(g, k) ==
  IF k = Len(g.groups) THEN g
  ELSE [pop_vars(g, g.groups[k + 1].pvar) EXCEPT !.groups = SubSeq(@, 1, k)]
pop_group(g) == pop_groups(g, Len(g.groups) - 1)

LeftBy(gr, lev) == gr.icblev >= lev

(* leave_group: a macro ends, or at level 1 the file.  Its groups are      *)
(* popped down to a begin block, which is taken to be of the next macro.   *)
leave_group(g, lev) ==
  LET Stays(i) == ~LeftBy(g.groups[i], lev) \/ (g.groups[i].gtype = "begin" /\ lev > 1)
      k == CHOOSE k \in 0 .. Len(g.groups) :
             /\ k = 0 \/ Stays(k)
             /\ \A i \in k + 1 .. Len(g.groups) : ~Stays(i)
      p == pop_groups(g, k) IN
  IF k = 0 \/ ~LeftBy(g.groups[k], lev) THEN p
  ELSE [p EXCEPT !.groups[k].icblev = lev - 1,
                 !.escaped = @ \/ \E i \in 1 .. k - 1 : g.groups[i].gtype # "begin"
                                                       /\ LeftBy(g.groups[i], lev)]

pop_icb(g) ==
  LET l == IF g.icbs[Len(g.icbs)].exit THEN leave_group(g, Len(g.icbs)) ELSE g
  IN [l EXCEPT !.icbs = SubSeq(@, 1, Len(g.icbs) - 1)]

out_of_scope(g) ==
  g.groups = <<>> \/ (cgrp(g).icblev < Len(g.icbs) /\ cgrp(g).gtype # "begin")
-----------------------------------------------------------------------------
(* Where a reader of the text would find the end of the skipping, that     *)
(* starts at pos inside of depth statements: after the matching EN or EF.  *)
(* 0 if there is none.                                                     *)
Opening == {"be", "wh", "if", "fr"}
Matching(t, pos, depth, ef) ==
  LET deep[k \in pos - 1 .. Len(t)] ==
        IF k = pos - 1 THEN depth
        ELSE deep[k - 1] + (IF t[k] \in Opening THEN 1 ELSE IF t[k] = "en" THEN -1 ELSE 0)
      ends == {k \in pos .. Len(t) : deep[k] = 0 \/ (ef /\ t[k] = "ef" /\ deep[k] = 1)}
  IN IF ends = {} THEN 0 ELSE 1 + CHOOSE k \in ends : \A l \in ends : k <= l

SkipTo(g, p, ef) ==
  [to |-> p, ef |-> ef,
   want |-> Matching(texts[g.icbs[Len(g.icbs)].type], g.icbs[Len(g.icbs)].pos, Len(g.groups) + 1 - p, ef)]
skip_until_end(g, p, ef) == rg' = g /\ skipping' = SkipTo(g, p, ef)
Goes(g) == rg' = g /\ skipping' = NoSkip

(* cond_test: a loop goes back to its expression.                          *)
cond_test(g) ==
  LET c == cgrp(g)
      back == IF c.gtype = "if" THEN g ELSE [g EXCEPT !.icbs[Len(g.icbs)].pos = c.ip] IN
  \/ c.gtype # "for" /\ Goes(back)
  \/ c.gtype = "for" /\ g.regs["i"] <= ForLimit /\ Goes(back)
  \/ /\ c.gtype # "for" \/ g.regs["i"] > ForLimit
     /\ skip_until_end(back, Len(g.groups), c.gtype = "if")

(* A request of the name on top is obeyed; the text is already past it.    *)
be_com(g) == Goes(set_exit(push_group(g, "begin")))

wh_com(g) ==
  IF Source.type # "macro" THEN Goes(g) ELSE cond_test(set_exit(push_group(g, "while")))

fr_com(g) ==
  IF Source.type # "macro" THEN Goes(g)
  ELSE cond_test(define(set_exit(push_group(g, "for")), "i", 1))

if_com(g) == cond_test(set_exit(push_group(g, "if")))

ef_com(g) ==
  IF g.groups = <<>> \/ cgrp(g).gtype # "if" \/ icblev > cgrp(g).icblev THEN Goes(g)
  ELSE skip_until_end(g, Len(g.groups), FALSE)

(* bk_com: the innermost loop, if no statement further in is of a source   *)
(* that called this one.                                                   *)
bk_com(g) ==
  LET loops == {i \in DOMAIN g.groups : g.groups[i].gtype \in {"while", "for"}}
      p == CHOOSE i \in loops : \A k \in loops : k <= i IN
  IF loops = {} \/ \E i \in p + 1 .. Len(g.groups) : icblev > g.groups[i].icblev
  THEN Goes(g) ELSE skip_until_end(g, p, FALSE)

en_com(g) ==
  IF out_of_scope(g) THEN Goes(g)
  ELSE CASE cgrp(g).gtype \in {"begin", "if"} -> Goes(pop_group(g))
         [] cgrp(g).gtype = "while" -> cond_test(pop_vars(g, cgrp(g).pvar))
         [] cgrp(g).gtype = "for" ->
              cond_test([pop_vars(g, cgrp(g).pvar + 1) EXCEPT !.regs["i"] = @ + 1])

nv_define(g, val) == Goes(IF out_of_scope(g) THEN g ELSE define(g, "n", val))

call(g) == /\ Len(g.icbs) < max_icb
           /\ Goes([g EXCEPT !.icbs = Append(@, ReadFrom("macro"))])

(* A while or for at the top whose macro has ended: from here R goes on    *)
(* at a place of a text that it does not read any more.                    *)
Astray == rg.groups # <<>> /\ cgrp(rg).gtype # "begin" /\ cgrp(rg).icblev > icblev

Obeys(name, effect) ==
  /\ icblev > 0 /\ ~AtEnd /\ skipping.to = 0 /\ ~Astray
  /\ Text[Source.pos] = name
  /\ effect
  /\ UNCHANGED <<texts, done>>

Past == Stepped(rg)
Request ==
  \/ Obeys("be", be_com(Past)) \/ Obeys("wh", wh_com(Past)) \/ Obeys("fr", fr_com(Past))
  \/ Obeys("if", if_com(Past)) \/ Obeys("ef", ef_com(Past)) \/ Obeys("bk", bk_com(Past))
  \/ Obeys("en", en_com(Past)) \/ Obeys("nv", nv_define(Past, 0)) \/ Obeys("NV", nv_define(Past, 1))
  \/ Obeys("call", call(Past))

\* Mutant: a begin block in what is skipped is not noticed.
SkippedNoBegin(g, name) ==
  CASE name = "en" -> pop_group(g)
    [] name = "wh" -> push_group(g, "while")
    [] name = "fr" -> push_group(g, "for")
    [] name = "if" -> push_group(g, "if")
    [] OTHER -> g

(* skip_until_end: the statements in what is skipped are put on the group  *)
(* stack and taken off, nothing else is done.                              *)
Skipped(g, name) ==
  CASE name = "en" -> pop_group(g)
    [] name = "be" -> push_group(g, "begin")
    [] name = "wh" -> push_group(g, "while")
    [] name = "fr" -> push_group(g, "for")
    [] name = "if" -> push_group(g, "if")
    [] OTHER -> g

SkipRequest ==
  /\ skipping.to # 0 /\ icblev > 0 /\ ~AtEnd
  /\ LET name == Text[Source.pos]
         g == Skipped(Stepped(rg), name) IN
       IF name = "ef" /\ skipping.ef /\ skipping.to = Len(rg.groups) THEN cond_test(Stepped(rg))
       ELSE rg' = g /\ skipping' = IF Len(g.groups) < skipping.to THEN NoSkip ELSE skipping
  /\ UNCHANGED <<texts, done>>

EndOfSource ==
  /\ icblev > 0 /\ AtEnd
  /\ LET g == pop_icb(rg) IN
       /\ rg' = g
       /\ skipping' = IF Len(g.groups) < skipping.to \/ g.icbs = <<>> THEN NoSkip ELSE skipping
  /\ UNCHANGED <<texts, done>>

Finish ==
  /\ icblev = 0 /\ ~done
  /\ rg' = leave_group(rg, 1) /\ done' = TRUE
  /\ UNCHANGED <<texts, skipping>>

GroupNext == Request \/ SkipRequest \/ EndOfSource \/ Finish
-----------------------------------------------------------------------------
(* An if, while or for on the stack is of a source that is being read, and *)
(* they are of the sources in their order, unless a begin block has gone   *)
(* out over them.                                                          *)
GroupsNested ==
  LET Enclosed(i) == rg.groups[i].gtype # "begin" IN
  ~rg.escaped =>
    /\ \A i \in DOMAIN rg.groups : /\ Enclosed(i) => rg.groups[i].icblev <= icblev
                                   /\ rg.groups[i].pvar <= Len(rg.vars)
    /\ \A i, k \in DOMAIN rg.groups :
         i < k => /\ Enclosed(i) /\ Enclosed(k) => rg.groups[i].icblev <= rg.groups[k].icblev
                  /\ rg.groups[i].pvar <= rg.groups[k].pvar

(* When all is read the registers have the values they had before, in      *)
(* whatever way the statements that defined variables have ended.          *)
VarsRestored == done => rg.groups = <<>> /\ rg.vars = <<>> /\ rg.regs = texts.regs

(* A while or for goes back only in the macro it was found in.             *)
LoopStays ==
  icblev > 0 /\ Len(rg'.icbs) = icblev /\ rg'.icbs[icblev].pos < Source.pos /\ ~rg.escaped
    => cgrp(rg').icblev = icblev

(* What is skipped of a source ends where its reader sees the matching EN, *)
(* or the EF of the same statement.                                        *)
SkipEndsRight ==
  skipping.to # 0 /\ icblev > 0 /\ Len(rg'.icbs) = icblev /\ ~rg.escaped /\ ~AtEnd
    => (skipping' # skipping <=> Source.pos + 1 = skipping.want)
=============================================================================
