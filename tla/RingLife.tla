------------------------------- MODULE RingLife -------------------------------
(***************************************************************************)
(* The shell's ring of jobs over its life (src/src/cprog/shell.c): jobs    *)
(* come and go, setjob enters them and next_job goes round.                *)
(***************************************************************************)
EXTENDS JobRing

VARIABLES ring,     \* the ring of jobs
          live,     \* the jobs there are
          current   \* those of them that setjob has put in the ring

ringVars == <<ring, live, current>>
RingInit == ring = NewRing /\ live = {} /\ current = {}

made(j) == j \notin live /\ live' = live \union {j} /\ UNCHANGED <<ring, current>>
dies(j) == live' = live \ {j} /\ current' = current \ {j} /\ UNCHANGED ring

enters(j) ==
  /\ ring' = setjob(ring, j)
  /\ current' = IF Length(ring) = 0 /\ AtHead(ring) = j THEN current ELSE current \union {j}
  /\ UNCHANGED live

goesRound ==
  /\ ring.head # ring.tail
  /\ ring' = NextInRing(ring, live)
  /\ UNCHANGED <<live, current>>

RingNext ==
  \/ \E j \in Jobs : made(j)
  \/ \E j \in live : dies(j) \/ enters(j)
  \/ goesRound

RingSpec == RingInit /\ [][RingNext]_ringVars
-----------------------------------------------------------------------------
(* No job is twice in the ring, whatever setjob and next_job have done to  *)
(* it, so that the ring, one slot longer than the table, is never overrun. *)
RingSound ==
  /\ ring.head \in Slots /\ ring.tail \in Slots
  /\ \A i, k \in 1 .. Length(ring) : i # k => InRing(ring)[i] # InRing(ring)[k]

(* A job that setjob has entered stays in the ring as long as it lives:    *)
(* next_job will come to it.  (A setjob that finds the job in the slot at  *)
(* the head of an empty ring enters nothing.)                              *)
RingLosesNone == \A j \in current : \E i \in 1 .. Length(ring) : InRing(ring)[i] = j

(* A job has one place in the ring, and keeps it while it lives.           *)
RingKept == RingSound /\ RingLosesNone
=============================================================================
