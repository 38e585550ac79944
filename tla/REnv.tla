--------------------------------- MODULE REnv ---------------------------------
(***************************************************************************)
(* The environments of R (src/src/r/rreq1.c and the requests .ev .xe .es   *)
(* .in .ir .ls .ll .fs of rreq2.c and rreq3.c): a table of environments    *)
(* with a name each, the current one, and the one that .ev goes back to.   *)
(* An environment has a second part (ienv) in the same place of another    *)
(* table, and with it a ring of the fonts that were selected before.       *)
(* e, ie, old_env and oie are places in the tables; 0 is no environment.   *)
(***************************************************************************)
EXTENDS Integers, Sequences, FiniteSets

CONSTANTS max_env, FRSIZE,      \* sizes of the table and of a ring
          EnvNames,             \* names of environments; "text" is the first
          Fonts,                \* the fonts that exist, 0 is one
          Indents               \* values of the parameters

VARIABLES env_tab,      \* place -> the environment, or NoEnv
          e, ie, old_env, oie,
          line_length, old_line_length,
          pushed        \* place -> the fonts that were pushed last and not popped, the last at the end (ghost)

Places == 1 .. max_env
NoEnv == [ename |-> "none"]
Live(i) == env_tab[i] # NoEnv
find_env(name) == {i \in Places : Live(i) /\ env_tab[i].ename = name}
FreePlaces == {i \in Places : ~Live(i)}
FirstFree == CHOOSE i \in FreePlaces : \A j \in FreePlaces : i <= j
Fresh(name) ==
  [ename |-> name, indent |-> 0, old_indent |-> 0, ifont |-> 0, pfont |-> 0, delflag |-> FALSE,
   font_ring |-> [k \in 0 .. FRSIZE - 1 |-> 0], cfont |-> 0]
----------------------------------------------------------------------------
Forgotten(i) == IF old_env = i THEN 0 ELSE old_env
(* get_env: the current environment is changed; the one that was current   *)
(* is expunged if it is flagged.  R stops when the table is full.          *)
get_env(name, old, oldi) ==
  \E i \in IF find_env(name) = {} THEN {i \in FreePlaces : i = FirstFree} ELSE find_env(name) :
    LET gone == e # 0 /\ e # i /\ env_tab[e].delflag
        made == IF Live(i) THEN env_tab ELSE [env_tab EXCEPT ![i] = Fresh(name)]
    IN /\ env_tab' = IF gone THEN [made EXCEPT ![e] = NoEnv] ELSE made
       /\ pushed' = IF Live(i) THEN pushed ELSE [pushed EXCEPT ![i] = <<>>]
       /\ e' = i /\ ie' = i
       /\ old_env' = IF gone /\ old = e THEN 0 ELSE old
       /\ oie' = oldi
SameLines == UNCHANGED <<line_length, old_line_length>>

(* header: the environment "text" is the first.                            *)
Header == e = 0 /\ get_env("text", old_env, oie) /\ SameLines
Selected == e # 0
(* .ev name; .ev; and .sr env name (setbsr).  Going back does not look at  *)
(* the flag of the environment that is left.                               *)
ev_com(name) == Selected /\ get_env(name, e, ie) /\ SameLines
EvBack ==
  /\ Selected /\ old_env # 0
  /\ e' = old_env /\ ie' = oie
  /\ UNCHANGED <<env_tab, old_env, oie, pushed>> /\ SameLines
setbsr_env(name) == Selected /\ get_env(name, old_env, oie) /\ SameLines

xe_com(name) ==
  /\ Selected
  /\ \E i \in find_env(name) :
       IF i = e THEN env_tab' = [env_tab EXCEPT ![i].delflag = TRUE] /\ UNCHANGED old_env
       ELSE env_tab' = [env_tab EXCEPT ![i] = NoEnv] /\ old_env' = Forgotten(i)
  /\ UNCHANGED <<e, ie, oie, pushed>> /\ SameLines

(* .es: a copy of both parts, but for the name (the flag is copied too).   *)
Copy(name) == [env_tab[e] EXCEPT !.ename = name]
es_com(name) ==
  /\ Selected /\ env_tab[e].ename # name
  /\ \E i \in IF find_env(name) = {} THEN {i \in FreePlaces : i = FirstFree} ELSE find_env(name) :
       env_tab' = [env_tab EXCEPT ![i] = Copy(name)] /\ pushed' = [pushed EXCEPT ![i] = pushed[e]]
  /\ UNCHANGED <<e, ie, old_env, oie>> /\ SameLines

(* .in .ir .ls: without an argument the value before the present one.      *)
in_com(d) ==
  /\ Selected
  /\ env_tab' = [env_tab EXCEPT ![ie].old_indent = env_tab[e].indent, ![e].indent = d]
  /\ UNCHANGED <<e, ie, old_env, oie, pushed>> /\ SameLines
InAgain == Selected /\ in_com(env_tab[ie].old_indent)
ll_com(d) == Selected /\ old_line_length' = line_length /\ line_length' = d
             /\ UNCHANGED <<env_tab, e, ie, old_env, oie, pushed>>
LlAgain == ll_com(old_line_length)
----------------------------------------------------------------------------
(* Fonts: pushfont and popfont on the ring of ie, set_cfont on e.          *)
Before(k) == IF k = 0 THEN FRSIZE - 1 ELSE k - 1
After(k) == IF k + 1 >= FRSIZE THEN 0 ELSE k + 1
set_cfont(v, n) == IF n \in Fonts THEN [v EXCEPT !.ifont = n, !.pfont = n] ELSE v
fs_com(n) ==                            \* n may be a font that does not exist
  /\ Selected
  /\ LET v == env_tab[e]
         k == After(env_tab[ie].cfont)
     IN env_tab' = [env_tab EXCEPT ![e] = set_cfont(v, n), ![ie].cfont = k, ![ie].font_ring[k] = v.ifont]
  /\ pushed' = [pushed EXCEPT ![e] = LET s == Append(@, env_tab[e].ifont)
                                     IN IF Len(s) > FRSIZE THEN Tail(s) ELSE s]
  /\ UNCHANGED <<e, ie, old_env, oie>> /\ SameLines
FsBack ==
  /\ Selected
  /\ LET w == env_tab[ie] IN
     env_tab' = [env_tab EXCEPT ![e] = set_cfont(@, w.font_ring[w.cfont]), ![ie].cfont = Before(w.cfont)]
  /\ pushed' = [pushed EXCEPT ![e] = IF @ = <<>> THEN @ ELSE SubSeq(@, 1, Len(@) - 1)]
  /\ UNCHANGED <<e, ie, old_env, oie>> /\ SameLines

EnvInit ==
  /\ env_tab = [i \in Places |-> NoEnv] /\ pushed = [i \in Places |-> <<>>]
  /\ e = 0 /\ ie = 0 /\ old_env = 0 /\ oie = 0
  /\ line_length = 0 /\ old_line_length = 0
EnvNext ==
  \/ Header \/ EvBack \/ InAgain \/ LlAgain \/ FsBack
  \/ \E n \in EnvNames : ev_com(n) \/ setbsr_env(n) \/ xe_com(n) \/ es_com(n)
  \/ \E d \in Indents : in_com(d) \/ ll_com(d)
  \/ \E n \in Fonts \union {9} : fs_com(n)
----------------------------------------------------------------------------
(* The environments that are current and that is gone back to exist, with  *)
(* their two parts; a name stands for one of them.                         *)
EnvsTrue ==
  /\ \A i, j \in Places : Live(i) /\ Live(j) /\ env_tab[i].ename = env_tab[j].ename => i = j
  /\ e # 0 => Live(e) /\ ie = e
  /\ old_env # 0 => Live(old_env) /\ oie = old_env
(* The fonts that were left come back, the last first, up to FRSIZE.       *)
FontsReturn ==
  \A i \in Places : Live(i) =>
    LET v == env_tab[i] IN
    \A k \in 0 .. Len(pushed[i]) - 1 :
      v.font_ring[(v.cfont - k + FRSIZE) % FRSIZE] = pushed[i][Len(pushed[i]) - k]
EnvsKept == EnvsTrue /\ FontsReturn
===============================================================================
