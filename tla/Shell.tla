-------------------------------- MODULE Shell --------------------------------
(***************************************************************************)
(* The job control of the shell (src/src/cprog/shell.c): its commands, the *)
(* ring of jobs, the wait for a job, and the handlers of job interrupts    *)
(* and of ^G, running over the library of module CJobs.  The system gives  *)
(* pending interrupts before it goes on with the shell's main program, and *)
(* defers them while a handler runs.                                       *)
(***************************************************************************)
EXTENDS CJobs, SequencesExt

CONSTANTS Commands,     \* the commands the user types
          Stopping      \* the interrupts that stop inferiors

VARIABLES m,            \* the inferiors and the library's tables
          todo,         \* what the command being obeyed has still to do
          hand,         \* what the interrupt handler has still to do
          cur_job, ring, g2s,
          ctrlg,        \* a ^G was typed and not yet taken
          restarted     \* a ^G has restarted the main loop

vars == <<m, todo, hand, cur_job, ring, g2s, ctrlg, restarted>>
control == <<cur_job, ring, g2s, ctrlg, restarted>>

Init ==
  /\ m = Idle
  /\ todo = <<>> /\ hand = <<>>
  /\ cur_job = None /\ ring = NewRing
  /\ g2s = 0 /\ ctrlg = FALSE /\ restarted = FALSE

AtPrompt == todo = <<>> /\ hand = <<>>
Given == m.ifpir \intersect m.on

(* The handler runs first; the main program only with nothing to be given. *)
At(op) ==
  IF hand # <<>> THEN Head(hand).op = op
  ELSE Given = {} /\ ~ctrlg /\ todo # <<>> /\ Head(todo).op = op
Now == IF hand # <<>> THEN Head(hand) ELSE Head(todo)

GoesTo(r) ==
  /\ m' = r[1]
  /\ IF hand # <<>> THEN hand' = r[2] \o Tail(hand) /\ UNCHANGED todo
                    ELSE todo' = r[2] \o Tail(todo) /\ UNCHANGED hand

(* The library's operations with a single outcome.                         *)
Lib == {"j_start", "running", "j_stop", "stopped", "j_give_tty", "gave",
        "j_take_tty", "took", "j_kill", "flush", "j_forget", "ownread",
        "setsts", "type", "j_handler", "tell",
        "j_wait", "j_snarf"}

Effect(o) ==
  LET j == o.j IN
  CASE o.op = "j_start" -> ch_j_start(m, j)
    [] o.op = "running" -> Skip(SetSts(m, j, js_running))
    [] o.op = "j_stop" -> ch_j_stop(m, j)
    [] o.op = "stopped" -> Skip(SetSts(m, j, js_stopped))
    [] o.op = "j_give_tty" -> ch_give_tty(m, j)
    [] o.op = "gave" -> Skip([m EXCEPT !.jobtty = j])
    [] o.op = "j_take_tty" -> ch_take_tty(m, j, o.x)
    [] o.op = "took" -> Skip([m EXCEPT !.jobtty = None])
    [] o.op = "j_kill" -> ch_kill(m, j)
    [] o.op = "flush" -> Skip(Flushed(m, j))
    [] o.op = "j_forget" -> ch_forget(m, j)
    [] o.op = "ownread" -> OwnRead(m, j)
    [] o.op = "setsts" -> Skip(SetSts(m, j, o.x))
    [] o.op = "type" -> Retn(m)
    [] o.op = "j_handler" -> j_handler(m, j)
    [] o.op = "tell" -> Tell(m, j, o.x)
    [] o.op = "j_wait" -> <<[m EXCEPT !.wait = j], Do("wfnz", j)>>
    [] o.op = "j_snarf" ->
         IF m.sts[j] = js_running \/ ~m.chan[j] THEN Skip(m) ELSE Snarf(m, j)

Call ==
  /\ \E op \in Lib : At(op)
  /\ GoesTo(Effect(Now))
  /\ UNCHANGED control

(* Those whose outcome is not the shell's to say.                          *)
Chance ==
  /\ \/ /\ At("trap")
        /\ \E what \in Outcomes(Now.x) : GoesTo(trap(m, Now.j, what))
     \/ /\ At("j_disown")
        /\ \E ok \in BOOLEAN : GoesTo(ch_disown(m, Now.j, ok))
  /\ UNCHANGED control

(* wfnz hangs until the status is not zero; its answer goes to whoever     *)
(* called j_wait.                                                          *)
wfnz ==
  /\ At("wfnz") /\ m.sts[Now.j] # js_running
  /\ GoesTo(<<m, <<Op("unwait", Now.j, m.sts[Now.j])>> >>)
  /\ UNCHANGED control

unwait ==
  /\ At("unwait")
  /\ LET next == todo[2] IN
       /\ m' = IF next.op = "snarfed"
               THEN Snarfed([m EXCEPT !.wait = None], Now.j, next.x, Now.x)
               ELSE [m EXCEPT !.wait = None]
       /\ todo' = IF next.op = "snarfed"
                  THEN (IF Now.x = js_valret THEN <<Op("own", None, "snarf")>> ELSE <<>>)
                       \o SubSeq(todo, 3, Len(todo))
                  ELSE TakeTty(Now.j, <<>>, <<>>)
                       \o <<Op("answer", Now.j, [i |-> Now.x, then |-> next.x])>>
                       \o SubSeq(todo, 3, Len(todo))
  /\ UNCHANGED <<hand, control>>

(* wait_job(j); what its caller does on a return of 0 is kept beside it.   *)
wait_job ==
  /\ At("wait_job")
  /\ LET j == Now.j IN
       GoesTo(<<m,
         IF j = None THEN Now.x
         ELSE IF m.sts[j] = js_nojob THEN Now.x
         ELSE (IF m.sts[j] = js_suicide THEN <<>>
               ELSE Do("j_give_tty", j) \o Do("j_start", j))
              \o Do("j_wait", j) \o <<Op("waited", j, Now.x)>> >>)
  /\ UNCHANGED control

answer ==
  /\ At("answer")
  /\ GoesTo(<<m, CASE Now.x.i = js_nojob -> Now.x.then
                   [] Now.x.i = js_suicide -> <<Op("j_kill", Now.j, "finished")>> \o Now.x.then
                   [] OTHER -> <<>> >>)
  /\ UNCHANGED control

NextJob == Do("next_job", None)
WaitFor(j) == <<Op("wait_job", j, NextJob)>>

go_job ==
  /\ At("go_job")
  /\ GoesTo(<<m, IF m.sts[Now.j] = js_suicide THEN WaitFor(Now.j) ELSE <<>> >>)
  /\ UNCHANGED control

next_job ==
  /\ At("next_job")
  /\ LET r == NextInRing(ring, {j \in Jobs : m.sts[j] # js_nojob})
         j == AtHead(Rotated(ring)) IN
       IF ring.head = ring.tail
       THEN cur_job' = None /\ GoesTo(Skip(m)) /\ UNCHANGED ring
       ELSE /\ cur_job' = j /\ ring' = r
            /\ GoesTo(<<m, IF j = None \/ m.sts[j] = js_nojob THEN NextJob ELSE Do("go_job", j)>>)
  /\ UNCHANGED <<g2s, ctrlg, restarted>>

setjobStep ==
  /\ At("setjob")
  /\ cur_job' = Now.j /\ ring' = setjob(ring, Now.j)
  /\ GoesTo(Skip(m))
  /\ UNCHANGED <<g2s, ctrlg, restarted>>

(* _pro and _protty: a finished job is buried, another one goes on.        *)
proceed ==
  /\ At("proceed")
  /\ GoesTo(<<m, IF m.sts[Now.j] = js_suicide THEN Do("go_job", Now.j)
                                              ELSE Do("j_start", Now.j)>>)
  /\ UNCHANGED control

(* run_job: findprog with ^G held off, then the job is given its command   *)
(* line and the terminal, and started; x says whether the shell waits.     *)
run_job ==
  /\ At("run_job")
  /\ GoesTo(<<m, <<Op("j_create", None, Now.x)>> >>)
  /\ g2s' = 1
  /\ UNCHANGED <<cur_job, ring, ctrlg, restarted>>

j_create ==
  /\ At("j_create")
  /\ \/ GoesTo(<<m, Do("found", None)>>)      \* no program file
     \/ /\ \A j \in Jobs : m.inf[j].up        \* no inferior to be had
        /\ GoesTo(<<m, Do("found", None)>>)
     \/ \E j \in Jobs :
          /\ ~m.inf[j].up
          /\ GoesTo(<<j_xxx(Created(m, j), j), <<Op("sysload", j, Now.x)>> >>)
  /\ UNCHANGED control

(* j_cload: when the program cannot be loaded the inferior is closed, and  *)
(* its entries in the tables are left.                                     *)
sysload ==
  /\ At("sysload")
  /\ \/ GoesTo(<<m, <<Op("found", Now.j, Now.x)>> >>)
     \/ GoesTo(<<Gone(m, Now.j), Do("found", None)>>)
  /\ UNCHANGED control

Ran(j, how) ==
  (IF how = "run" \/ how = "lpr" THEN Do("j_give_tty", j) ELSE <<>>)
  \o Do("j_start", j)
  \o CASE how = "run" -> Do("setjob", j) \o WaitFor(j)
       [] how = "run&" -> Do("setjob", j)
       [] how = "lpr" -> <<Op("wait_job", j, <<>>)>>

found ==
  /\ At("found")
  /\ g2s' = 0
  /\ GoesTo(<<m, IF Now.j = None THEN <<>> ELSE Ran(Now.j, Now.x)>>)
  /\ UNCHANGED <<cur_job, ring, ctrlg, restarted>>

(* j_own: a job that is not an inferior, or one that is, opened again.     *)
own ==
  /\ At("own")
  /\ \/ GoesTo(Skip(m))
     \/ \E j \in Jobs, s \in BOOLEAN, w \in {{}} \union {{e} : e \in Stopping} :
          /\ m.inf[j].up => s = m.inf[j].stop /\ w = m.inf[j].pirq
          /\ ~s => w = {}
          /\ GoesTo(<<j_xxx(SetInf(m, j, [up |-> TRUE, stop |-> s, pirq |-> w]), j),
                      Do("ownread", j) \o (IF Now.x = "own" THEN Do("setjob", j) ELSE <<>>)>>)
  /\ UNCHANGED control

(* The commands that name a job, or mean the current one.                  *)
OnJob(c, j) ==
  CASE c = "con" -> Do("setjob", j) \o WaitFor(j)
    [] c = "kill" -> Do("setjob", j) \o Do("j_kill", j) \o NextJob
    [] c = "pro" -> Do("setjob", j) \o Do("proceed", j)
    [] c = "stop" -> Do("setjob", j) \o Do("j_stop", j)
    [] c = "disown" -> Do("setjob", j) \o Do("j_disown", j) \o NextJob
    [] c = "forget" -> Do("setjob", j) \o Do("j_forget", j) \o NextJob
    [] c = "job" -> Do("setjob", j) \o Do("go_job", j)
    [] c = "snarf" -> Do("j_snarf", j)
    [] c = "attach" -> Do("setjob", j)
         \o IF m.sts[j] \in {js_running, WantsTty} THEN Do("j_start", j) ELSE <<>>
JobCommands == {"con", "kill", "pro", "stop", "disown", "forget", "job", "snarf", "attach"}

NoJob(c) ==
  CASE c \in {"run", "run&", "lpr"} -> <<Op("run_job", None, c)>>
    [] c = "own" -> <<Op("own", None, "own")>>
    [] c = "login" -> FlattenSeq([i \in 1 .. MaxJobs |-> Do("j_kill", i - 1)])
    [] c = "next" -> NextJob
Others == {"run", "run&", "lpr", "own", "login", "next"}

Command ==
  /\ AtPrompt /\ Given = {} /\ ~ctrlg /\ ~restarted
  /\ \/ \E c \in JobCommands \intersect Commands, j \in Jobs :
          /\ m.sts[j] # js_nojob \/ j = cur_job
          /\ todo' = OnJob(c, j)
     \/ \E c \in Others \intersect Commands : todo' = NoJob(c)
  /\ UNCHANGED <<m, hand, control>>

(* A running inferior stops; ^Z comes from the terminal it has.  One that  *)
(* is started with a fault still pending stops again.                      *)
Stops(j) ==
  /\ Runs(m, j)
  /\ \E e \in Stopping :
       /\ e = "PICZ" => m.tty = j
       /\ e = "PJTTY" => m.tty # j
       /\ m' = Interrupts(m, j, {e})
  /\ UNCHANGED <<todo, hand, control>>

StopsAgain(j) ==
  /\ m.inf[j].up /\ ~m.inf[j].stop /\ m.inf[j].pirq # {}
  /\ m' = Interrupts(m, j, m.inf[j].pirq)
  /\ UNCHANGED <<todo, hand, control>>

(* TSINT2: all that is pending is given at once, one of them is served.    *)
TSINT2 ==
  /\ hand = <<>> /\ Given # {}
  /\ hand' = Do("j_handler", Served(Given))
  /\ m' = [m EXCEPT !.ifpir = @ \ Given]
  /\ UNCHANGED <<todo, control>>

(* The user types ^G at the shell; ghandler restarts the main loop unless  *)
(* a routine has asked to be told by a flag instead.                       *)
TypesCtrlG ==
  /\ "^G" \in Commands /\ m.tty = None /\ ~ctrlg /\ ~restarted
  /\ ctrlg' = TRUE
  /\ UNCHANGED <<m, todo, hand, cur_job, ring, g2s, restarted>>

ghandler ==
  /\ ctrlg /\ hand = <<>>
  /\ ctrlg' = FALSE
  /\ IF g2s > 0 THEN g2s' = g2s - 1 /\ UNCHANGED <<todo, restarted>>
                ELSE todo' = <<>> /\ restarted' = TRUE /\ UNCHANGED g2s
  /\ UNCHANGED <<m, hand, cur_job, ring>>

Main ==
  \/ Call \/ Chance \/ wfnz \/ unwait \/ wait_job
  \/ answer \/ go_job \/ next_job \/ setjobStep \/ proceed
  \/ run_job \/ j_create \/ sysload \/ found \/ own

Next ==
  \/ Main \/ Command \/ TSINT2 \/ TypesCtrlG \/ ghandler
  \/ \E j \in Jobs : Stops(j) \/ StopsAgain(j)

Spec == Init /\ [][Next]_vars
-----------------------------------------------------------------------------
TypeOK ==
  /\ m.tty \in Jobs \union {None} /\ m.ifpir \subseteq Jobs
  /\ m.sts \in [Jobs -> Statuses]
  /\ m.jobtty \in Jobs \union {None} /\ m.jobotty \in Jobs \union {None}
  /\ cur_job \in Jobs \union {None} /\ g2s \in 0 .. 1
  /\ ring.slot \in [Slots -> Jobs \union {None}]
  /\ ring.head \in Slots /\ ring.tail \in Slots

(* At the prompt the terminal is the shell's and the library knows it,     *)
(* whatever messages about other jobs were typed on the way.  (A ^G that   *)
(* restarts the shell leaves both as they were.)                           *)
TtyHome == AtPrompt /\ ~restarted => m.tty = None /\ m.jobtty = None /\ m.wait = None

(* A job the shell waits for, that has not stopped, has the terminal: a    *)
(* message about another job, typed meanwhile, has given it back.          *)
WaitedHasTty ==
  hand = <<>> /\ At("wfnz") /\ ~restarted /\ todo[2].op = "waited"
  /\ m.sts[Now.j] = js_running /\ m.inf[Now.j].up => m.tty = Now.j

(* c10job.c, j_give_tty, j_grab_tty, j_retn_tty: the terminal is where the *)
(* shell and the library take it to be.                                    *)
TtyKept == TtyHome /\ WaitedHasTty

(* c10job.c:68: status 0 is a running job.  At the prompt, and where the   *)
(* shell waits for the status to change, a job of status 0 is not stopped, *)
(* unless its interrupt is still to be given.                              *)
StatusTrue ==
  \A j \in Jobs :
    (AtPrompt \/ At("wfnz")) /\ Given = {} /\ m.sts[j] = js_running
    /\ m.inf[j].up /\ m.chan[j] => ~m.inf[j].stop
=============================================================================
