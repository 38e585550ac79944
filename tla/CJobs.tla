-------------------------------- MODULE CJobs --------------------------------
(***************************************************************************)
(* The inferior-job package of the C library (src/src/clib/c10job.c) over  *)
(* the part of the system's job calls it uses.  A call is broken where an  *)
(* interrupt can come in: each step is an operation [op, j, x] on a queue, *)
(* and takes the machine m to a new m and to the operations it still has   *)
(* to do.  The shell's command interpreter and the interrupt handler both  *)
(* run such operations (module Shell).                                     *)
(***************************************************************************)
EXTENDS JobRing

(* The job statuses; a positive one is the inferior's interrupt word.      *)
js_attn == -5
js_stopped == -4
js_valret == -3
js_suicide == -2
js_nojob == -1
js_running == 0
WantsTty == 1
NeedsHelp == 2
Statuses == js_attn .. NeedsHelp

(* What stops an inferior: it wants the terminal, ^Z, .VALUE, .BREAK, or a  *)
(* fault nobody handles.                                                   *)
Ints == {"PJTTY", "PICZ", "PIVAL", "PIBRK", "PIILO"}
Cleared == {"PJTTY", "PICZ", "PIVAL"}

Word(w) == IF w = {} THEN js_running ELSE IF "PJTTY" \in w THEN WantsTty ELSE NeedsHelp

(* Interrupts of the inferiors given together go to one handler, which     *)
(* serves the first bit of the word: the highest inferior.                 *)
Served(given) == CHOOSE j \in given : \A k \in given : k <= j

Op(op, j, x) == [op |-> op, j |-> j, x |-> x]
Do(op, j) == <<Op(op, j, 0)>>

Idle ==
  [ inf |-> [j \in Jobs |-> [up |-> FALSE, stop |-> TRUE, pirq |-> {}]],
    ifpir |-> {}, tty |-> None,
    chan |-> [j \in Jobs |-> FALSE], sts |-> [j \in Jobs |-> js_nojob],
    on |-> {},
    jobtty |-> None, jobotty |-> None, jobosts |-> js_running,
    wait |-> None ]

Runs(m, j) == m.inf[j].up /\ ~m.inf[j].stop /\ m.inf[j].pirq = {}

SetSts(m, j, s) == [m EXCEPT !.sts[j] = s]
SetInf(m, j, r) == [m EXCEPT !.inf[j] = r]

(* An inferior stops: its superior gets its bit.                           *)
Interrupts(m, j, w) ==
  [m EXCEPT !.inf[j] = [up |-> TRUE, stop |-> TRUE, pirq |-> w], !.ifpir = @ \union {j}]

(* Each operation below is <<the machine after it, what is left to do>>.   *)
Skip(m) == <<m, <<>>>>

ch_j_start(m, j) ==
  IF m.chan[j] THEN <<[m EXCEPT !.inf[j].stop = FALSE], Do("running", j)>> ELSE Skip(m)

ch_j_stop(m, j) ==
  IF m.chan[j] THEN <<[m EXCEPT !.inf[j].stop = TRUE], Do("stopped", j)>> ELSE Skip(m)

ch_give_tty(m, j) ==
  IF m.chan[j] /\ m.inf[j].up /\ m.tty = None
  THEN <<[m EXCEPT !.tty = j], Do("gave", j)>> ELSE Skip(m)

(* x holds what the caller does after a success and after a failure.       *)
ch_take_tty(m, j, x) ==
  IF m.chan[j] /\ m.tty = j
  THEN <<[m EXCEPT !.tty = None], Do("took", j) \o x.ok>> ELSE <<m, x.fail>>

TakeTty(j, ok, fail) == <<Op("j_take_tty", j, [ok |-> ok, fail |-> fail])>>

Gone(m, j) ==
  [m EXCEPT !.inf[j] = [up |-> FALSE, stop |-> TRUE, pirq |-> {}],
            !.ifpir = @ \ {j}, !.tty = IF @ = j THEN None ELSE @]

ch_kill(m, j) == IF m.chan[j] THEN <<Gone(m, j), Do("flush", j)>> ELSE Skip(m)

(* The system may refuse to disown, and then the job stays.                *)
ch_disown(m, j, ok) ==
  IF m.chan[j] /\ ok THEN <<Gone(m, j), Do("flush", j)>> ELSE Skip(m)

ch_forget(m, j) == IF m.chan[j] THEN <<m, Do("flush", j)>> ELSE Skip(m)

Flushed(m, j) ==
  [m EXCEPT !.chan[j] = FALSE, !.sts[j] = js_nojob, !.on = @ \ {j}]

(* j_create: a new inferior, stopped; j_xxx enters it in the tables, and   *)
(* keeps a status that is already there.                                   *)
Created(m, j) == SetInf(m, j, [up |-> TRUE, stop |-> TRUE, pirq |-> {}])

j_xxx(m, j) ==
  [m EXCEPT !.on = @ \union {j}, !.chan[j] = TRUE,
            !.sts[j] = IF @ = js_nojob THEN js_stopped ELSE @]

(* j_own reads how the job stands and only then sets its status.           *)
OwnStatus(m, j) ==
  LET w == m.inf[j].pirq IN
  CASE ~m.inf[j].stop -> js_running
    [] "PICZ" \in w -> js_attn
    [] "PICZ" \notin w /\ "PIVAL" \in w -> js_valret
    [] OTHER -> IF w = {} THEN js_stopped ELSE Word(w)

OwnRead(m, j) ==
  << IF m.inf[j].stop THEN [m EXCEPT !.inf[j].pirq = @ \ Cleared] ELSE m,
     <<Op("setsts", j, OwnStatus(m, j))>> >>

(* j_grab_tty and j_retn_tty around a message of the interrupt handler.    *)
Grab(m) ==
  LET j == m.jobtty IN
  IF j # None
  THEN << [m EXCEPT !.jobotty = j, !.jobosts = m.sts[j]],
          Do("j_stop", j)
          \o TakeTty(j, Do("type", None),
                     IF m.sts[j] = js_running THEN Do("j_start", j) ELSE <<>>) >>
  ELSE <<[m EXCEPT !.jobotty = None], Do("type", None)>>

\* Mutant: the terminal is not given back.
RetnNot(m) == Skip([m EXCEPT !.jobotty = None, !.jobosts = js_running])

Retn(m) ==
  IF m.jobtty = None /\ m.jobotty # None
  THEN << [m EXCEPT !.jobotty = None, !.jobosts = js_running],
          Do("j_give_tty", m.jobotty)
          \o IF m.jobosts = js_running THEN Do("j_start", m.jobotty) ELSE <<>> >>
  ELSE Skip(m)

(* The interrupt handler; it shouts about a job the shell does not wait    *)
(* for, whose status has changed to anything but running.                  *)
j_handler(m, j) ==
  LET w == m.inf[j].pirq
      m1 == [m EXCEPT !.inf[j].pirq = @ \ Cleared, !.sts[j] = Word(w)] IN
  IF ~m.chan[j] THEN Skip(m)
  ELSE IF "PICZ" \in w THEN Skip(SetSts(m1, j, js_attn))
  ELSE << m1, (IF w \intersect {"PIVAL", "PIBRK"} = {} THEN <<>>
               ELSE <<Op("trap", j, "PIVAL" \in w)>>)
              \o <<Op("tell", j, m.sts[j])>> >>

(* What jdovalue and jdobrk find: a .VALUE of ":KILL" or of a string for   *)
(* the shell; a .LOGOUT, a request that is answered, or one whose asker    *)
(* cannot be opened.                                                       *)
Outcomes(isvalue) == IF isvalue THEN {":KILL", "string"} ELSE {".LOGOUT", "request", "lost"}

trap(m, j, what) ==
  LET m1 == [m EXCEPT !.inf[j].pirq = @ \ {"PIBRK"}] IN
  CASE what = ":KILL" -> Skip(SetSts(m, j, js_suicide))
    [] what = "string" -> Skip(SetSts(m, j, js_valret))
    [] what = ".LOGOUT" -> Skip(SetSts(m1, j, js_suicide))
    [] what = "request" -> <<m1, Do("j_start", j)>>
    [] what = "lost" -> Skip(m1)

Tell(m, j, old) ==
  IF j # m.wait /\ m.sts[j] # old /\ m.sts[j] # js_running
  THEN Grab(m) ELSE Skip(m)

(* j_snarf runs a few instructions in the inferior and puts it back.       *)
Snarf(m, j) ==
  << [m EXCEPT !.inf[j].pirq = {}],
     Do("j_start", j) \o Do("j_wait", j)
     \o <<Op("snarfed", j, [sts |-> m.sts[j], pirq |-> m.inf[j].pirq])>> >>

Snarfed(m, j, was, got) ==
  [m EXCEPT !.sts[j] = was.sts,
            !.inf[j].pirq = (IF got = js_valret THEN @ ELSE {}) \union was.pirq]
=============================================================================
