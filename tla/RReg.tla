--------------------------------- MODULE RReg ---------------------------------
(***************************************************************************)
(* The number registers of R (src/src/r/rreg.c, the requests of rreq3.c,   *)
(* the variables of rcntrl.c): named ones hold a number, built-in ones     *)
(* stand for a variable of the formatter, in its own unit, and may refuse  *)
(* a value.  The built-in ones are a few of each kind.                     *)
(***************************************************************************)
EXTENDS Integers, Sequences

CONSTANTS Registers,            \* names: some of Builtin, and others
          Numbers,              \* numbers that are given
          nhui,                 \* horizontal units in an inch
          MaxRegVars            \* variables: a bound

VARIABLES name_info,    \* name -> the bits that are on: "NR" NRDEFINED, "NRB" NRBUILTIN
          n_vals,       \* name -> the number of a named register
          world,        \* the variables of the formatter that registers stand for
          rvars,        \* the variables: [name, type, val]
          popped        \* the variable that has just ended, or NoVar (ghost)

Builtin == {"page", "ll", "fill", "adjust", "lpt"}
(* Conversion of units; a number is made an integer by taking the nearest, *)
(* of two the one nearer zero.                                             *)
Round(a, b) == IF a >= 0 THEN (2 * a + b - 1) \div (2 * b) ELSE -((2 * (-a) + b - 1) \div (2 * b))
mil2hu(val) == Round(val * nhui, 1000)
hu2mil(val) == Round(val * 1000, nhui)
----------------------------------------------------------------------------
(* [world, ok]: the formatter after a built-in register is set; not ok: an *)
(* error message, and no change.                                           *)
Set(w) == [world |-> w, ok |-> TRUE]
Bad(w) == [world |-> w, ok |-> FALSE]
Adjust(w, val) == IF w.filling = 1 THEN [w EXCEPT !.adjust_mode = val] ELSE [w EXCEPT !.nofill_adjust_mode = val]
setbnr(w, name, val) ==
  CASE name = "page" -> Set([w EXCEPT !.page_number = val, !.next_page_number = val + 1])
    [] name = "ll" -> IF val <= 0 THEN Bad(w) ELSE Set([w EXCEPT !.line_length = mil2hu(val)])
    [] name = "fill" -> IF val \in {0, 1} THEN Set([w EXCEPT !.filling = val]) ELSE Bad(w)
    [] name = "adjust" -> IF val \in 0 .. 3 THEN Set(Adjust(w, val)) ELSE Bad(w)
    [] name = "lpt" -> Bad(w)
getbnr(w, name) ==
  CASE name = "page" -> w.page_number
    [] name = "ll" -> hu2mil(w.line_length)
    [] name = "fill" -> w.filling
    [] name = "adjust" -> IF w.filling = 1 THEN w.adjust_mode ELSE w.nofill_adjust_mode
    [] name = "lpt" -> 0

(* Registers: g is [info, vals, world].                                    *)
Now == [info |-> name_info, vals |-> n_vals, world |-> world]
nr_find(g, name) == "NR" \in g.info[name]
nr_enter(g, name, val) ==
  IF "NRB" \in g.info[name] THEN [g EXCEPT !.world = setbnr(@, name, val).world]
  ELSE [g EXCEPT !.info[name] = @ \union {"NR"}, !.vals[name] = val]
nr_undef(g, name) == [g EXCEPT !.info[name] = {}]
Value(g, name) ==
  IF "NRB" \in g.info[name] THEN getbnr(g.world, name) ELSE IF nr_find(g, name) THEN g.vals[name] ELSE 0
(* A register that is referred to is defined by it.                        *)
Referred(g, name) == IF nr_find(g, name) THEN g ELSE nr_enter(g, name, 0)
nr_incr(g, name) == nr_enter(Referred(g, name), name, Value(g, name) + 1)
nr_decr(g, name) == nr_enter(Referred(g, name), name, Value(g, name) - 1)

NoVar == [name |-> "none", type |-> "none", val |-> 0]
Becomes(g) == name_info' = g.info /\ n_vals' = g.vals /\ world' = g.world
Does(g) == Becomes(g) /\ popped' = NoVar /\ UNCHANGED rvars
nr_com(name, n) == Does(nr_enter(Now, name, n))
nd_com(name, n) == ~nr_find(Now, name) /\ Does(nr_enter(Now, name, n))
xn_com(name) == Does(nr_undef(Now, name))
insert_number(name, incr) ==
  Does(CASE incr = "+" -> nr_incr(Now, name) [] incr = "-" -> nr_decr(Now, name) [] OTHER -> Referred(Now, name))
(* Requests that change the same variables of the formatter: .fi .nf.      *)
fi_com == Does([Now EXCEPT !.world.filling = 1])
nf_com == Does([Now EXCEPT !.world.filling = 0])

(* .nv, and the end of its group.                                          *)
push_var(name) ==
  IF nr_find(Now, name) THEN [name |-> name, type |-> "nr", val |-> Value(Now, name)]
  ELSE [name |-> name, type |-> "unr", val |-> 0]
nv_define(name, n) ==
  /\ Len(rvars) < MaxRegVars
  /\ rvars' = Append(rvars, push_var(name))
  /\ Becomes(nr_enter(Now, name, n)) /\ popped' = NoVar
pop_var ==
  /\ rvars # <<>>
  /\ LET v == rvars[Len(rvars)] IN
     /\ Becomes(IF v.type = "nr" THEN nr_enter(Now, v.name, v.val) ELSE nr_undef(Now, v.name))
     /\ popped' = v
  /\ rvars' = SubSeq(rvars, 1, Len(rvars) - 1)

RegInit ==
  /\ name_info = [r \in Registers |-> IF r \in Builtin THEN {"NR", "NRB"} ELSE {}]
  /\ n_vals = [r \in Registers |-> 0]
  /\ world = [page_number |-> 1, next_page_number |-> 2, line_length |-> 3 * nhui, filling |-> 1,
              adjust_mode |-> 3, nofill_adjust_mode |-> 0]
  /\ rvars = <<>> /\ popped = NoVar
Small == world.page_number \in 0 .. 2 /\ \A r \in Registers : n_vals[r] \in 0 .. 1   \* a bound
RegNext ==
  \/ pop_var
  \/ /\ Small
     /\ \/ \E r \in Registers, n \in Numbers : nr_com(r, n) \/ nd_com(r, n) \/ nv_define(r, n)
        \/ \E r \in Registers : xn_com(r)
        \/ \E r \in Registers, i \in {"+", "-", "none"} : insert_number(r, i)
        \/ fi_com \/ nf_com
----------------------------------------------------------------------------
(* When a variable ends its register reads as it did when the variable was *)
(* defined, whatever was done to the register and to the formatter, unless *)
(* the register refuses the value (a line of less than half a unit reads 0).*)
Refuses(name, val) == "NRB" \in name_info[name] /\ ~setbnr(world, name, val).ok
NumbersRestored ==
  /\ popped.type = "nr" =>
       nr_find(Now, popped.name) /\ (Value(Now, popped.name) = popped.val \/ Refuses(popped.name, popped.val))
  /\ popped.type = "unr" => ~nr_find(Now, popped.name)
===============================================================================
