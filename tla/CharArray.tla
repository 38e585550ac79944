------------------------------- MODULE CharArray -------------------------------
(***************************************************************************)
(* The cluster of arrays of characters of the C library (src/src/clib/     *)
(* ac.c), in which the text formatter keeps its strings: arrays that are   *)
(* shared by links, that grow and are trimmed by moving to a new block of  *)
(* storage.  The program that uses them keeps `refs', the links it has to  *)
(* each, and gives each of them back once.                                 *)
(***************************************************************************)
EXTENDS Integers, Sequences, FiniteSets

CONSTANTS Arrays,       \* the arrays there can be at one time
          Blocks,       \* blocks of storage
          MaxText       \* characters in an array

ASSUME ArrayAssumption == IsFiniteSet(Arrays) /\ MaxText \in Nat

VARIABLES acs,          \* count, s, csize and msize of each array
          blocks,       \* the contents of the blocks that are allocated
          nac,          \* the static count
          refs, text    \* the program: its links, and what each array should hold

acVars == <<acs, blocks, nac, refs, text>>

Letters == {"x", "y"}
NoArray == [count |-> 0, s |-> 0, csize |-> 0, msize |-> 0]
AcInit ==
  /\ acs = [a \in Arrays |-> NoArray] /\ blocks = [b \in {} |-> <<>>] /\ nac = 0
  /\ refs = [a \in Arrays |-> 0] /\ text = [a \in Arrays |-> <<>>]

FreeBlock == CHOOSE b \in Blocks : b \notin DOMAIN blocks
SomeBlock == Blocks # DOMAIN blocks
Block(t, size) == [i \in 1 .. size |-> IF i <= Len(t) THEN t[i] ELSE "NULL"]
Text(a) == SubSeq(blocks[acs[a].s], 1, acs[a].csize)

(* ac_alloc, and ac_create, ac_cat and ac_copy, which fill what it makes.  *)
Made(a, t, size) ==
  /\ SomeBlock
  /\ acs' = [acs EXCEPT ![a] = [count |-> 1, s |-> FreeBlock, csize |-> Len(t), msize |-> size + 1]]
  /\ blocks' = [b \in DOMAIN blocks \union {FreeBlock} |->
                 IF b = FreeBlock THEN Block(t, size + 1) ELSE blocks[b]]
  /\ nac' = nac + 1
  /\ refs' = [refs EXCEPT ![a] = 1] /\ text' = [text EXCEPT ![a] = t]

ac_alloc(a) == \E size \in 0 .. MaxText : Made(a, <<>>, size)
ac_create(a) == \E c \in Letters : Made(a, <<c>>, 1)
ac_cat(a) ==
  \E p, q \in {x \in Arrays : refs[x] > 0} :
    /\ Len(text[p]) + Len(text[q]) <= MaxText
    /\ Made(a, Text(p) \o Text(q), Len(Text(p) \o Text(q)))
ac_copy(a) == \E p \in {x \in Arrays : refs[x] > 0} : Made(a, Text(p), Len(Text(p)))

(* The array moves to a new block of the size given.                       *)
Moved(a, size, t) ==
  /\ SomeBlock
  /\ acs' = [acs EXCEPT ![a] = [count |-> @.count, s |-> FreeBlock, csize |-> Len(t), msize |-> size]]
  /\ blocks' = [b \in (DOMAIN blocks \union {FreeBlock}) \ {acs[a].s} |->
                 IF b = FreeBlock THEN Block(t, size) ELSE blocks[b]]

\* Mutant: the place that the NULL of ac_string needs is used up.
FullLate(a) == acs[a].csize >= acs[a].msize

Full(a) == acs[a].csize >= acs[a].msize - 1

ac_xh(a, c) ==
  /\ Len(text[a]) < MaxText
  /\ IF Full(a) THEN Moved(a, acs[a].msize * 2, Append(Text(a), c))
     ELSE /\ blocks' = [blocks EXCEPT ![acs[a].s][acs[a].csize + 1] = c]
          /\ acs' = [acs EXCEPT ![a].csize = @ + 1]
  /\ text' = [text EXCEPT ![a] = Append(@, c)]
  /\ UNCHANGED <<nac, refs>>

ac_trim(a) ==
  /\ IF Full(a) THEN UNCHANGED <<acs, blocks>> ELSE Moved(a, acs[a].csize + 1, Text(a))
  /\ UNCHANGED <<nac, refs, text>>

ac_link(a) ==
  /\ acs[a].count < 3
  /\ acs' = [acs EXCEPT ![a].count = @ + 1] /\ refs' = [refs EXCEPT ![a] = @ + 1]
  /\ UNCHANGED <<blocks, nac, text>>

\* Mutant: the last link but one frees the array.
LastLinkEarly(a) == acs[a].count <= 2

LastLink(a) == acs[a].count = 1

ac_unlink(a) ==
  /\ IF LastLink(a)
     THEN /\ blocks' = [b \in DOMAIN blocks \ {acs[a].s} |-> blocks[b]]
          /\ nac' = nac - 1 /\ acs' = [acs EXCEPT ![a] = NoArray]
          /\ text' = [text EXCEPT ![a] = <<>>]
     ELSE acs' = [acs EXCEPT ![a].count = @ - 1] /\ UNCHANGED <<blocks, nac, text>>
  /\ refs' = [refs EXCEPT ![a] = @ - 1]

(* ac_string stores a NULL behind the text.                                *)
ac_string(a) ==
  /\ blocks' = [blocks EXCEPT ![acs[a].s][acs[a].csize + 1] = "NULL"]
  /\ UNCHANGED <<acs, nac, refs, text>>

ac_flush(a) ==
  /\ acs' = [acs EXCEPT ![a].csize = 0] /\ text' = [text EXCEPT ![a] = <<>>]
  /\ UNCHANGED <<blocks, nac, refs>>

AcNext ==
  \/ \E a \in {x \in Arrays : refs[x] = 0} : ac_alloc(a) \/ ac_create(a) \/ ac_cat(a) \/ ac_copy(a)
  \/ \E a \in {x \in Arrays : refs[x] > 0} :
       \/ \E c \in Letters : ac_xh(a, c)
       \/ ac_trim(a) \/ ac_link(a) \/ ac_unlink(a) \/ ac_string(a) \/ ac_flush(a)

AcSpec == AcInit /\ [][AcNext]_acVars
-----------------------------------------------------------------------------
(* The storage that is allocated is that of the arrays the program has a   *)
(* link to, each with a block of its own, and the count is theirs.         *)
Live == {a \in Arrays : refs[a] > 0}
StorageExact ==
  /\ \A a \in Arrays : acs[a].count = refs[a]
  /\ DOMAIN blocks = {acs[a].s : a \in Live}
  /\ Cardinality(DOMAIN blocks) = Cardinality(Live) /\ nac = Cardinality(Live)

(* Each array holds the characters put into it, whatever blocks it has     *)
(* moved through, and has room for the NULL of ac_string.                  *)
TextKept ==
  \A a \in Live : /\ Len(blocks[acs[a].s]) = acs[a].msize
                  /\ acs[a].csize < acs[a].msize
                  /\ Text(a) = text[a]

(* Every array keeps its text, and the storage is exactly theirs.          *)
StorageKept == StorageExact /\ TextKept
=============================================================================
