-------------------------------- MODULE RStore --------------------------------
(***************************************************************************)
(* Who holds the texts of R: string registers (src/src/r/rreg.c and the    *)
(* requests of rreq3.c), macros (rreq2.c), variables (rcntrl.c) and input  *)
(* sources (rin1.c).  A text is counted, ac_link adds one to its count and *)
(* ac_unlink takes one off and frees it at 0 (CharArray models that        *)
(* package).  A request is one step but for .de, which lets go of the old  *)
(* definition before it reads the new one.                                 *)
(***************************************************************************)
EXTENDS Integers, Sequences, FiniteSets

CONSTANTS Names,                \* names of registers and of macros
          MaxTexts,             \* texts that exist at a time: a bound
          MaxSources,           \* input sources: a bound
          MaxVars               \* variables: a bound

VARIABLES refs,         \* text -> its count, 0 when it is not allocated
          info,         \* name -> the bits of name_info that are on: "SR" "SRB" "RQMACRO"
          s_vals,       \* name -> its text; 0
          comtab,       \* name -> its text; 0: und_com
          sources,      \* the input sources, the last on top: [s, args]; s = 0: none
          vars,         \* the variables: [name, type, val]
          defining,     \* the .de that is being read: [name, s]; s = 0: none
          lost          \* text -> references that nothing can give back (ghost)

Texts == 1 .. MaxTexts
FirstFree(r) == CHOOSE a \in Texts : r[a] = 0 /\ \A b \in 1 .. a - 1 : r[b] # 0
ac_new == FirstFree(refs)
Forgets(a) == lost[a] = 0               \* a bound: once for a text
Room(n) == Cardinality({a \in Texts : refs[a] = 0}) >= n
(* The counts after a text is made, linked, let go.                        *)
Made(r, a) == [r EXCEPT ![a] = 1]
ac_link(r, a) == [r EXCEPT ![a] = @ + 1]
ac_unlink(r, a) == [r EXCEPT ![a] = @ - 1]
Unlinked(r, a) == IF a = 0 THEN r ELSE ac_unlink(r, a)
RECURSIVE UnlinkedAll(_, _)
UnlinkedAll(r, as) == IF as = <<>> THEN r ELSE UnlinkedAll(Unlinked(r, Head(as)), Tail(as))
----------------------------------------------------------------------------
(* Registers: [refs, info, s_vals] after the operation.                    *)
Regs == [refs |-> refs, info |-> info, s_vals |-> s_vals]
sr_undef(g, name) ==
  [refs |-> IF g.info[name] \intersect {"SR", "SRB"} = {"SR"} THEN ac_unlink(g.refs, g.s_vals[name]) ELSE g.refs,
   info |-> [g.info EXCEPT ![name] = @ \ {"SR", "SRB"}],
   s_vals |-> [g.s_vals EXCEPT ![name] = 0]]
(* The reference of the value is moved.  A built-in register (setbsr) is   *)
(* set by the contents of the text, which is let go, or not at all.        *)
\* Mutant: the old value of a register is not let go.
ThrownAwayNot(g, name) == g

ThrownAway(g, name) == sr_undef(g, name)
sr_enter(g, name, val) ==
  IF "SRB" \in g.info[name] THEN [g EXCEPT !.refs = ac_unlink(@, val)]
  ELSE LET u == ThrownAway(g, name) IN
       [u EXCEPT !.info[name] = @ \union {"SR"}, !.s_vals[name] = val]
(* [regs, s]: the value with a reference of its own.  Most of the built-in *)
(* ones are made for the occasion; an undefined register becomes empty.    *)
sr_value(g, name) ==
  IF "SRB" \in g.info[name] THEN [g |-> [g EXCEPT !.refs = Made(@, ac_new)], s |-> ac_new]
  ELSE IF "SR" \in g.info[name] THEN [g |-> [g EXCEPT !.refs = ac_link(@, g.s_vals[name])], s |-> g.s_vals[name]]
  ELSE LET h == sr_enter([g EXCEPT !.refs = Made(@, ac_new)], name, ac_new)
       IN [g |-> [h EXCEPT !.refs = ac_link(@, ac_new)], s |-> ac_new]
sr_find(name) == "SR" \in info[name]

SetRegs(g) == refs' = g.refs /\ info' = g.info /\ s_vals' = g.s_vals
OnlyRegs == UNCHANGED <<comtab, sources, vars, defining, lost>>
Reading == defining.s = 0               \* no definition is being read

(* .sr .rl, .sd, .xs: a text is read and becomes the value of a register.  *)
GotText == [Regs EXCEPT !.refs = Made(@, ac_new)]
sr_com(name) == Reading /\ Room(1) /\ SetRegs(sr_enter(GotText, name, ac_new)) /\ OnlyRegs
sd_com(name) ==
  /\ Reading /\ Room(1)
  /\ SetRegs(IF sr_find(name) THEN [GotText EXCEPT !.refs = ac_unlink(@, ac_new)]
             ELSE sr_enter(GotText, name, ac_new))
  /\ OnlyRegs
xs_com(name) == Reading /\ SetRegs(sr_undef(Regs, name)) /\ OnlyRegs

(* .sb: a part of a register is the new value of a register.               *)
sb_com(dest, source) ==
  /\ Reading /\ Room(2)
  /\ \E v \in {sr_value(Regs, source)} :
     \E d \in {FirstFree(v.g.refs)} :
     \E h \in {sr_enter([v.g EXCEPT !.refs = Made(@, d)], dest, d)} :
       SetRegs([h EXCEPT !.refs = ac_unlink(@, v.s)])
  /\ OnlyRegs
(* .sl .sc .si: registers are read and let go.  .sc and .si let go of the  *)
(* texts before they look at them: of a built-in register it is free then. *)
sl_com(source) ==
  /\ Reading /\ Room(1)
  /\ \E v \in {sr_value(Regs, source)} : SetRegs([v.g EXCEPT !.refs = ac_unlink(@, v.s)])
  /\ OnlyRegs

(* .sv and the end of its group.  Outside of one the text is forgotten.    *)
push_var(g, name) ==
  IF sr_find(name) THEN [g |-> sr_value(g, name).g, var |-> [name |-> name, type |-> "sr", val |-> sr_value(g, name).s]]
  ELSE [g |-> g, var |-> [name |-> name, type |-> "usr", val |-> 0]]
sv_com(name, out_of_scope) ==
  /\ Reading /\ Room(2)
  /\ IF out_of_scope
     THEN Forgets(ac_new) /\ refs' = GotText.refs /\ lost' = [lost EXCEPT ![ac_new] = @ + 1] /\ UNCHANGED <<info, s_vals, vars>>
     ELSE /\ Len(vars) < MaxVars
          /\ \E p \in {push_var(Regs, name)} :
             \E s \in {FirstFree(p.g.refs)} :
               /\ SetRegs(sr_enter([p.g EXCEPT !.refs = Made(@, s)], name, s))
               /\ vars' = Append(vars, p.var)
          /\ UNCHANGED lost
  /\ UNCHANGED <<comtab, sources, defining>>
pop_var ==
  /\ vars # <<>>
  /\ LET v == vars[Len(vars)] IN
     SetRegs(IF v.type = "sr" THEN sr_enter(Regs, v.name, v.val) ELSE sr_undef(Regs, v.name))
  /\ vars' = SubSeq(vars, 1, Len(vars) - 1)
  /\ UNCHANGED <<comtab, sources, defining, lost>>
----------------------------------------------------------------------------
(* Macros.                                                                 *)
IsMacro(name) == "RQMACRO" \in info[name]
Macro(name, s) == comtab' = [comtab EXCEPT ![name] = s] /\ info' = [info EXCEPT ![name] = @ \union {"RQMACRO"}]

(* .de: the old definition is let go at the beginning.  Registers may be   *)
(* referred to, and sources end, while the new one is read.                *)
DeBegin(name) ==
  /\ Reading /\ Room(1)
  /\ LET r == IF IsMacro(name) THEN ac_unlink(refs, comtab[name]) ELSE refs
         s == FirstFree(r)
     IN refs' = Made(r, s) /\ defining' = [name |-> name, s |-> s]
  /\ UNCHANGED <<info, s_vals, comtab, sources, vars, lost>>
DeEnd ==
  /\ ~Reading
  /\ Macro(defining.name, defining.s) /\ defining' = [defining EXCEPT !.s = 0]
  /\ UNCHANGED <<refs, s_vals, sources, vars, lost>>
(* .am: the text of the macro itself is added to.                          *)
am_com(name) ==
  /\ Reading /\ Room(1)
  /\ IF IsMacro(name) THEN Macro(name, comtab[name]) /\ refs' = refs
     ELSE Macro(name, ac_new) /\ refs' = Made(refs, ac_new)
  /\ UNCHANGED <<s_vals, sources, vars, defining, lost>>
rm_com(name) ==
  /\ Reading /\ IsMacro(name)
  /\ refs' = ac_unlink(refs, comtab[name])
  /\ comtab' = [comtab EXCEPT ![name] = 0] /\ info' = [info EXCEPT ![name] = @ \ {"RQMACRO"}]
  /\ UNCHANGED <<s_vals, sources, vars, defining, lost>>
(* .eq does not let go of the definition that the name had.                *)
eq_com(dest, source) ==
  /\ Reading /\ dest # source
  /\ info' = [info EXCEPT ![dest] = (@ \ {"RQMACRO"}) \union (info[source] \intersect {"RQMACRO"})]
  /\ comtab' = [comtab EXCEPT ![dest] = comtab[source]]
  /\ refs' = IF IsMacro(source) THEN ac_link(refs, comtab[source]) ELSE refs
  /\ IsMacro(dest) => Forgets(comtab[dest])
  /\ lost' = IF IsMacro(dest) THEN [lost EXCEPT ![comtab[dest]] = @ + 1] ELSE lost
  /\ UNCHANGED <<s_vals, sources, vars, defining>>
----------------------------------------------------------------------------
(* Input sources.  push_ac links the text; push_macro links the macro and  *)
(* takes over the references of the arguments (of an empty macro it        *)
(* forgets them).                                                          *)
Pushed(s, args) == sources' = Append(sources, [s |-> s, args |-> args])
CanPush == Len(sources) < MaxSources
insert_string(name) ==                  \* ^s: an empty value is not pushed
  /\ CanPush /\ Room(1)
  /\ \E v \in {sr_value(Regs, name)}, empty \in BOOLEAN :
       LET g == [v.g EXCEPT !.refs = ac_unlink(IF empty THEN @ ELSE ac_link(@, v.s), v.s)] IN
       /\ SetRegs(g)
       /\ IF empty THEN UNCHANGED sources ELSE Pushed(v.s, <<>>)
  /\ UNCHANGED <<comtab, vars, defining, lost>>
mac_com(name, empty, n) ==              \* n arguments are made
  /\ Reading /\ CanPush /\ IsMacro(name) /\ Room(n)
  /\ LET args == IF n = 0 THEN <<>> ELSE <<ac_new>>
         r == IF n = 0 THEN refs ELSE Made(refs, ac_new)
     IN IF empty THEN /\ refs' = r /\ UNCHANGED sources
                      /\ n # 0 => Forgets(ac_new)
                      /\ lost' = IF n = 0 THEN lost ELSE [lost EXCEPT ![ac_new] = @ + 1]
        ELSE refs' = ac_link(r, comtab[name]) /\ Pushed(comtab[name], args) /\ UNCHANGED lost
  /\ UNCHANGED <<info, s_vals, comtab, vars, defining>>
Calls == {i \in DOMAIN sources : sources[i].args # <<>>}
insert_argument ==                      \* ^a: of the innermost macro that has one
  /\ CanPush /\ Calls # {}
  /\ LET i == CHOOSE i \in Calls : \A j \in Calls : j <= i
         a == sources[i].args[1]
     IN refs' = ac_link(refs, a) /\ Pushed(a, <<>>)
  /\ UNCHANGED <<info, s_vals, comtab, vars, defining, lost>>
pop_icb ==
  /\ sources # <<>>
  /\ LET top == sources[Len(sources)] IN refs' = UnlinkedAll(Unlinked(refs, top.s), top.args)
  /\ sources' = SubSeq(sources, 1, Len(sources) - 1)
  /\ UNCHANGED <<info, s_vals, comtab, vars, defining, lost>>

StoreInit ==
  /\ refs = [a \in Texts |-> 0]
  /\ info = [n \in Names |-> IF n = "env" THEN {"SR", "SRB"} ELSE {}]
  /\ s_vals = [n \in Names |-> 0] /\ comtab = [n \in Names |-> 0]
  /\ sources = <<>> /\ vars = <<>> /\ defining = [name |-> "env", s |-> 0]
  /\ lost = [a \in Texts |-> 0]
StoreNext ==
  \/ \E n \in Names : sr_com(n) \/ sd_com(n) \/ xs_com(n) \/ sl_com(n) \/ DeBegin(n) \/ am_com(n) \/ rm_com(n)
                      \/ insert_string(n)
  \/ \E n, m \in Names : sb_com(n, m) \/ eq_com(n, m)
  \/ \E n \in Names, out_of_scope \in BOOLEAN : sv_com(n, out_of_scope)
  \/ \E n \in Names, empty \in BOOLEAN, k \in {0, 1} : mac_com(n, empty, k)
  \/ pop_var \/ DeEnd \/ insert_argument \/ pop_icb
----------------------------------------------------------------------------
(* A text is allocated as long as, and no longer than, something holds it, *)
(* and its count says by how many (but for the references that were        *)
(* forgotten).                                                             *)
Holders(a) ==
  LET Of(n) == (IF s_vals[n] = a THEN 1 ELSE 0)
               + (IF IsMacro(n) /\ comtab[n] = a /\ ~(defining.s # 0 /\ defining.name = n) THEN 1 ELSE 0)
      RECURSIVE Named(_)
      Named(S) == IF S = {} THEN 0 ELSE LET n == CHOOSE n \in S : TRUE IN Of(n) + Named(S \ {n})
      In(i) == {k \in 0 .. Len(sources[i].args) : a = IF k = 0 THEN sources[i].s ELSE sources[i].args[k]}
  IN Named(Names)
     + Cardinality({i \in DOMAIN vars : vars[i].val = a})
     + Cardinality(UNION {{<<i, k>> : k \in In(i)} : i \in DOMAIN sources})
     + (IF defining.s = a THEN 1 ELSE 0)
TextsHeld == \A a \in Texts : refs[a] = Holders(a) + lost[a]
===============================================================================
