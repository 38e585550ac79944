------------------------------- MODULE JobStop -------------------------------
(***************************************************************************)
(* What PC losering promises, without saying how: a job that somebody has   *)
(* stopped is in user mode and stays where it is until all who stopped it   *)
(* have let it go; and a job that is backed out of a system call lets go of *)
(* the jobs it had stopped.  Pclsr implements this specification.           *)
(***************************************************************************)
EXTENDS Integers

CONSTANT NJobs

Job == 1..NJobs

\* Job 1 is the superior of the others.
Superior(j, u) == j = 1 /\ u # 1

VARIABLES
  inside,   \* the jobs that are inside a system call
  stops,    \* <<j, u>> when a call of j keeps u stopped
  down      \* the jobs left stopped for their superiors

vars == <<inside, stops, down>>

TypeOK == /\ inside \subseteq Job
          /\ stops \subseteq Job \X Job
          /\ down \subseteq Job

Init == inside = {} /\ stops = {} /\ down = {}

CanGo(u) == u \notin down /\ \A j \in Job : <<j, u>> \notin stops

\* The stops that end when the call of job u ends.
StopsOf(u) == {u} \X Job

\* The job makes a system call.
Call(u) == /\ CanGo(u)
           /\ inside' = inside \cup {u}
           /\ UNCHANGED <<stops, down>>

\* It returns or is backed out.
Leave(u) == /\ CanGo(u) /\ u \in inside
            /\ inside' = inside \ {u}
            /\ stops' = stops \ StopsOf(u)
            /\ UNCHANGED down

\* A call of job j stops job u, which is out of its own call from then on.
Stop(j, u) == /\ CanGo(j) /\ j \in inside /\ j # u
              /\ inside' = inside \ {u}
              /\ stops' = (stops \ StopsOf(u)) \cup {<<j, u>>}
              /\ UNCHANGED down

\* A call of job j lets job u go; that of its superior may stop it for good,
\* or start it.
Release(j, u) == /\ CanGo(j) /\ <<j, u>> \in stops
                 /\ stops' = stops \ {<<j, u>>}
                 /\ \/ UNCHANGED down
                    \/ /\ Superior(j, u)
                       /\ down' \in {down \cup {u}, down \ {u}}
                 /\ UNCHANGED inside

\* A fatal interrupt: the job stops until its superior starts it.
GoDown(u) == /\ CanGo(u) /\ Superior(1, u)
             /\ inside' = inside \ {u}
             /\ stops' = stops \ StopsOf(u)
             /\ down' = down \cup {u}

Next == \E u \in Job : \/ Call(u) \/ Leave(u) \/ GoDown(u)
                       \/ \E j \in Job : Stop(j, u) \/ Release(j, u)

Spec == Init /\ [][Next]_vars

-----------------------------------------------------------------------------
\* Nobody stops a job whose call keeps another stopped: the jobs that wait to
\* be released wait for one that can go, and never for each other.
NoEmbrace == \A j, u \in Job : <<j, u>> \in stops => CanGo(j) /\ j \in inside

\* A stopped job is outside any call and stays there: it makes none, and
\* takes no step of one, before it has been let go.
StoppedStayPut ==
  [][\A u \in Job : ~CanGo(u) => u \notin inside /\ u \notin inside']_vars
=============================================================================
