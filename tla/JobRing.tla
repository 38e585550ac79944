------------------------------- MODULE JobRing -------------------------------
(***************************************************************************)
(* The ring of jobs of the shell (src/src/cprog/shell.c): the jobs that    *)
(* have been current, the last one first.  It has one slot more than there *)
(* are jobs; head = tail when it is empty.                                 *)
(***************************************************************************)
EXTENDS Integers, Sequences, FiniteSets

CONSTANT MaxJobs        \* MAXJOBS of c10job.c, max_jobs of shell.c

ASSUME MaxJobsAssumption == MaxJobs \in Nat \ {0}

Jobs == 0 .. MaxJobs - 1
None == -1

Slots == 0 .. MaxJobs
After(p) == IF p = MaxJobs THEN 0 ELSE p + 1
Before(p) == IF p = 0 THEN MaxJobs ELSE p - 1

\* How far a slot is behind the head, and the slot that is so far behind it.
Behind(r, p) == IF p >= r.head THEN p - r.head ELSE p - r.head + MaxJobs + 1
Spot(r, k) == IF r.head + k <= MaxJobs THEN r.head + k ELSE r.head + k - MaxJobs - 1

Length(r) == Behind(r, r.tail)
InRing(r) == [i \in 1 .. Length(r) |-> r.slot[Spot(r, i - 1)]]

NewRing == [slot |-> [p \in Slots |-> None], head |-> 0, tail |-> 0]

AtHead(r) == r.slot[r.head]

\* Mutant: the ones after it do not move up.
WithoutMoving(r, j) ==
  IF \E p \in Slots : Behind(r, p) \in 1 .. Length(r) - 1 /\ r.slot[p] = j
  THEN [r EXCEPT !.tail = Before(@)] ELSE r

(* setjob: the job is taken out of its place behind the head, and the ones *)
(* after it move up.                                                       *)
Without(r, j) ==
  LET places == {Behind(r, p) : p \in {q \in Slots : Behind(r, q) \in 1 .. Length(r) - 1
                                                   /\ r.slot[q] = j}}
      first == CHOOSE i \in places : \A k \in places : i <= k IN
  IF places = {} THEN r
  ELSE [slot |-> [p \in Slots |->
          IF Behind(r, p) \in first .. Length(r) - 2 THEN r.slot[After(p)] ELSE r.slot[p]],
        head |-> r.head, tail |-> Before(r.tail)]

(* Then it is put before the head.  Nothing is done when it is in the slot *)
(* at the head already, even if the ring is empty.                         *)
setjob(r, j) ==
  IF AtHead(r) = j THEN r
  ELSE LET s == Without(r, j)
       IN [slot |-> [s.slot EXCEPT ![Before(s.head)] = j], head |-> Before(s.head), tail |-> s.tail]

\* Mutant: the head is taken off and not put at the end.
RotatedLosing(r) == IF After(r.head) = r.tail THEN r ELSE [r EXCEPT !.head = After(@)]

\* Mutant: the tail runs off the end of the array.
RotatedOff(r) ==
  IF After(r.head) = r.tail THEN r
  ELSE [slot |-> [r.slot EXCEPT ![r.tail] = AtHead(r)], head |-> After(r.head), tail |-> r.tail + 1]

(* next_job: the head goes to the end of the ring unless it is alone.      *)
Rotated(r) ==
  IF After(r.head) = r.tail THEN r
  ELSE [slot |-> [r.slot EXCEPT ![r.tail] = AtHead(r)], head |-> After(r.head), tail |-> After(r.tail)]

(* Then a job that is no longer there is taken off, and next_job is called *)
(* again.                                                                  *)
NextInRing(r, living) ==
  LET s == Rotated(r)
  IN IF AtHead(s) = None \/ AtHead(s) \notin living
     THEN [slot |-> s.slot, head |-> After(s.head), tail |-> s.tail] ELSE s
=============================================================================
