-------------------------------- MODULE RIdn --------------------------------
(***************************************************************************)
(* The identifiers of R (src/src/r/ridn.c): names are put once into a hash *)
(* table that is probed linearly, their letters into blocks of storage     *)
(* from which they are never taken out.  A storage cell is <<block, cell>>. *)
(***************************************************************************)
EXTENDS Integers, Sequences, FiniteSets

CONSTANTS max_idn,              \* size of the table
          BLKSIZE,              \* cells in a block
          Spelled,              \* the names that are written: sequences of characters
          MaxBlocks,            \* blocks of storage: a bound
          Built                 \* those of them that are constants of the program

VARIABLES nametab,      \* identifiers: the place of their first letter, or the constant itself
          hash_tab,     \* from 0: the number of an identifier, or -1
          ccs, ecs,     \* the next cell to use, and the last cell of the block
          cells,        \* what is in the cells
          blocks,       \* the sizes of the blocks
          got           \* the identifier that the last name was made into, and the name

NUL == "NUL"
(* ctab: the lower case of a character; 0 (an x is put for it) if it is not *)
(* one of a name.                                                          *)
ctab == [c \in {"a", "b", "A", "x", "?"} |-> IF c = "A" THEN "a" ELSE IF c = "?" THEN "x" ELSE c]
CodeOf == [c \in {"a", "b", "x"} |-> IF c = "a" THEN 97 ELSE IF c = "b" THEN 98 ELSE 120]
Lowered(s) == [i \in DOMAIN s |-> ctab[s[i]]]

(* The hash code of a name.                                                *)
ihash(s) ==
  LET sum[i \in 0 .. Len(s)] == IF i = 0 THEN 0 ELSE sum[i - 1] + CodeOf[s[i]] * 2 ^ ((i - 1) % 8)
  IN sum[Len(s)]

(* The string at a place: the cells up to a NUL.                           *)
StringAt(at, mem, size) ==
  LET ends == {k \in at[2] .. size[at[1]] : <<at[1], k>> \in DOMAIN mem /\ mem[<<at[1], k>>] = NUL}
      end == CHOOSE k \in ends : \A l \in ends : k <= l
  IN IF ends = {} THEN <<NUL>> ELSE [i \in 1 .. end - at[2] |-> mem[<<at[1], at[2] + i - 1>>]]
idn_string(i) ==
  IF nametab[i].constant THEN nametab[i].name ELSE StringAt(nametab[i].at, cells, blocks)

(* ihshcopy: the letters are put after those of the other names.  A name   *)
(* that does not fit is moved to a block of its own beginning.             *)
LastCell(size) == size
Max(x, y) == IF x < y THEN y ELSE x
Room(m, k) ==                   \* before letter k of the name is stored, k - 1 are
  IF m.ccs[2] + k - 1 < m.ecs THEN m
  ELSE LET size == Max(BLKSIZE, (k - 1) * 2)
           b == Len(m.blocks) + 1 IN
       [m EXCEPT !.blocks = Append(@, size), !.ccs = <<b, 1>>, !.ecs = LastCell(size),
                 !.cells = [c \in DOMAIN @ \union {<<b, i>> : i \in 1 .. k - 1} |->
                              IF c[1] = b THEN m.cells[<<m.ccs[1], m.ccs[2] + c[2] - 1>>] ELSE m.cells[c]]]
Store(m, k, c) ==
  [m EXCEPT !.cells = [x \in DOMAIN @ \union {<<m.ccs[1], m.ccs[2] + k - 1>>} |->
                         IF x = <<m.ccs[1], m.ccs[2] + k - 1>> THEN c ELSE m.cells[x]]]
Memory == [ccs |-> ccs, ecs |-> ecs, cells |-> cells, blocks |-> blocks]
ihshcopy(s) ==
  LET put[k \in 0 .. Len(s)] == IF k = 0 THEN Memory ELSE Store(Room(put[k - 1], k), k, s[k])
  IN Store(put[Len(s)], Len(s) + 1, NUL)

(* The search: from the hash code on, around the end, to the name or to an *)
(* entry that is not used.                                                 *)
Probe(s, h) == (ihash(s) + h) % max_idn
Found(s) ==
  LET Ends(h) == hash_tab[Probe(s, h)] < 0 \/ idn_string(hash_tab[Probe(s, h)]) = s
      h == CHOOSE h \in 0 .. max_idn - 1 : Ends(h) /\ \A g \in 0 .. h - 1 : ~Ends(g)
  IN Probe(s, h)

UsedUp(c, n) == <<c[1], c[2] + n>>
Enter(s, entry) ==
  /\ nametab' = Append(nametab, entry)
  /\ hash_tab' = [hash_tab EXCEPT ![Found(s)] = Len(nametab) + 1]
  /\ got' = [idn |-> Len(nametab) + 1, name |-> s]
Known(s) == hash_tab[Found(s)] >= 0
Old(s) == got' = [idn |-> hash_tab[Found(s)], name |-> s] /\ UNCHANGED <<nametab, hash_tab>>

(* R stops when the last entry has been used.                              *)
Overflowed == Len(nametab) >= max_idn

make_idn(s) ==
  /\ ~Overflowed
  /\ IF Known(s) THEN Old(s) ELSE Enter(s, [constant |-> TRUE, name |-> s, at |-> <<1, 1>>])
  /\ UNCHANGED <<ccs, ecs, cells, blocks>>

make_ac_idn(s) ==
  /\ ~Overflowed /\ Len(blocks) < MaxBlocks
  /\ \E m \in {ihshcopy(Lowered(s))} :
       /\ cells' = m.cells /\ blocks' = m.blocks /\ ecs' = m.ecs
       /\ IF Known(Lowered(s)) THEN Old(Lowered(s)) /\ ccs' = m.ccs
          ELSE /\ Enter(Lowered(s), [constant |-> FALSE, name |-> <<>>, at |-> m.ccs])
               /\ ccs' = UsedUp(m.ccs, Len(s) + 1)

IdnInit ==
  /\ nametab = <<>> /\ hash_tab = [h \in 0 .. max_idn - 1 |-> -1]
  /\ blocks = <<0>> /\ ccs = <<1, 1>> /\ ecs = 0 /\ cells = <<>>
  /\ got = [idn |-> 0, name |-> <<>>]
IdnNext == (\E s \in Built : make_idn(s)) \/ (\E s \in Spelled : make_ac_idn(s))
-----------------------------------------------------------------------------
(* Each name has one identifier, which the search finds, and what is       *)
(* stored lies in its block.                                               *)
NamesOnce ==
  /\ \A i, j \in DOMAIN nametab : idn_string(i) = idn_string(j) => i = j
  /\ ~Overflowed => \A i \in DOMAIN nametab : hash_tab[Found(idn_string(i))] = i
  /\ got.idn # 0 => idn_string(got.idn) = got.name
  /\ \A c \in DOMAIN cells : c[2] <= blocks[c[1]]

(* An identifier stands for the same name as long as R runs.               *)
NameStays == \A i \in DOMAIN nametab : idn_string(i)' = idn_string(i)
=============================================================================
