-------------------------------- MODULE Pclsr --------------------------------
(***************************************************************************)
(* PC losering: how one ITS job stops another.  A job may be looked at or   *)
(* altered by another job, or be given an interrupt, only when its PC is in *)
(* user mode; a job that is inside a system call is backed out to the call  *)
(* (PCLSR) if it is hung, and otherwise runs until it hangs or returns.     *)
(*                                                                          *)
(* One processor, preemptible in exec mode.  A step of this module is the   *)
(* code between two points where clock breaks are enabled: what runs with   *)
(* CLKOFF is one action.  A job makes steps only while the scheduler may    *)
(* pick it, which is CanRun.  What a system call does is any sequence of    *)
(* switches locked and released, waits, page faults and stops of others.    *)
(***************************************************************************)
EXTENDS Integers, FiniteSets

CONSTANTS NJobs,      \* the jobs are 1..NJobs (user indices past SYS and CORE)
          Switch,     \* AOSE switches: CIRPSW, CASW, TREESW, ...
          NoSwitch,   \* not a switch
          Stepped     \* the jobs that are being one-proceeded

ASSUME PclsrAssumption == NJobs \in Nat /\ NJobs >= 1 /\ NoSwitch \notin Switch

Job == 1..NJobs

\* The job tree: job 1 is a top-level procedure and the others its inferiors.
IsInferior(j) == j # 1

VARIABLES
  pc,       \* where the job is: user mode, or a place in a system call
  suexit,   \* SUEXIT: what the call's exit instruction will do
  flsins,   \* FLSINS: what the job is hung on, "run" when it is zero
  rpcl,     \* RPCL: n while stopping n, -n while being stopped by n, or 0
  ustp,     \* right half of USTP: count of transient reasons to be stopped
  busrc,    \* BUSRC in USTP: stopped by the superior until it says otherwise
  swpcl,    \* %SWPCL in USWST: a page went out while blocked in exec mode
  sw,       \* first word of a switch, TRUE when it is not -1
  held,     \* the switches on the job's LSWPR list
  ust,      \* the SOSSET blocks on that list: jobs whose USTP to SOS
  want,     \* the switch a job in SWTL is after, or NoSwitch
  tgt,      \* the job that a job in RPCLSR is after (itself: nobody)
  halted    \* some BUG or JRST 4 was executed

\* What backing out of a call throws away.
call == <<swpcl, sw, held, ust, want>>
vars == <<pc, suexit, flsins, rpcl, ustp, busrc, call, tgt, halted>>

Places == {"user",      \* %PCUSR is set
           "exec",      \* in the body of a system call
           "swtl",      \* in SWTL, past SKIPL and before AOSE
           "rpclsr",    \* about to call RPCLSR again
           "rpclos",    \* in RPCLOS, waiting for the target to be stopped
           "rpcls2",    \* in RPCLS2, waiting for another to win the target
           "stop"}      \* RPCLSR has returned, USTP of the target is AOSed
Exits == {"uuoh", "onefls", "onepr4"}
Waits == {"run", "event",      \* a page, a device, a clock, a buffer
          "swtl", "rpclos", "rpcls2"}

\* Every variable holds a value of its kind.
TypeOK ==
  /\ pc \in [Job -> Places]
  /\ suexit \in [Job -> Exits]
  /\ flsins \in [Job -> Waits]
  /\ rpcl \in [Job -> -NJobs..NJobs]
  /\ ustp \in [Job -> Int]
  /\ busrc \in [Job -> BOOLEAN]
  /\ swpcl \in [Job -> BOOLEAN]
  /\ sw \in [Switch -> BOOLEAN]
  /\ held \in [Job -> SUBSET Switch]
  /\ ust \in [Job -> SUBSET Job]
  /\ want \in [Job -> Switch \cup {NoSwitch}]
  /\ tgt \in [Job -> Job]
  /\ halted \in BOOLEAN

Init ==
  /\ pc = [j \in Job |-> "user"]
  /\ suexit = [j \in Job |-> "uuoh"]
  /\ flsins = [j \in Job |-> "run"]
  /\ rpcl = [j \in Job |-> 0]
  /\ ustp = [j \in Job |-> 0]
  /\ busrc = [j \in Job |-> FALSE]
  /\ swpcl = [j \in Job |-> FALSE]
  /\ sw = [s \in Switch |-> FALSE]
  /\ held = [j \in Job |-> {}]
  /\ ust = [j \in Job |-> {}]
  /\ want = [j \in Job |-> NoSwitch]
  /\ tgt = [j \in Job |-> j]
  /\ halted = FALSE

-----------------------------------------------------------------------------
\* USTP is not zero, for any of the reasons it holds.
Stopped(u) == ustp[u] # 0 \/ busrc[u]

\* Mutant: the search does not look at USTP.
CanRunStopped(j) == ~halted /\ flsins[j] = "run"

\* The scheduler's search may run the job: SEARL1 and SEARL3.
CanRun(j) == ~halted /\ ~Stopped(j) /\ flsins[j] = "run"

\* LSWPR is not zero.
HasSwitches(j) == held[j] # {} \/ ust[j] # {}

\* The count of USTP when n is stopped once more and the jobs of S are each
\* released once (n may be 0, for nobody).
Counted(n, S) ==
  [k \in Job |-> ustp[k] + (IF k = n THEN 1 ELSE 0)
                         - (IF k \in S THEN 1 ELSE 0)]

\* Mutant: UFL5 without LSWZAP.
ThrownOutHolding(u) ==
  /\ swpcl' = [swpcl EXCEPT ![u] = FALSE]
  /\ want' = [want EXCEPT ![u] = NoSwitch]
  /\ UNCHANGED <<sw, held, ust>>

\* UFL5 and LSWZAP: u is thrown out of its call, and every switch on its list
\* is set to -1 again.  (The SOSSET blocks are counted by the callers.)
ThrownOut(u) ==
  /\ swpcl' = [swpcl EXCEPT ![u] = FALSE]
  /\ sw' = [s \in Switch |-> sw[s] /\ s \notin held[u]]
  /\ held' = [held EXCEPT ![u] = {}]
  /\ ust' = [ust EXCEPT ![u] = {}]
  /\ want' = [want EXCEPT ![u] = NoSwitch]

-----------------------------------------------------------------------------
(* PCLSR, called for job u with the clock off.                              *)

\* Mutant: PCLSR without PCLSR2.
RpclKept(u) == rpcl

\* PCLSR2: a job that is itself stopping somebody gives that up.
RpclAfter(u) ==
  IF ~Stopped(u) /\ rpcl[u] > 0
  THEN [rpcl EXCEPT ![u] = 0, ![rpcl[u]] = 0]
  ELSE rpcl

\* PCLSR6 on a job that is not in exec mode.
PclsrBug(u) == /\ ~Stopped(u) /\ pc[u] = "user"
               /\ suexit[u] # "uuoh" /\ flsins[u] # "run"

PclsrFails(u) == /\ ~Stopped(u) /\ flsins[u] = "run"
                 /\ pc[u] # "user" \/ suexit[u] # "uuoh"

\* The exit of a running call is clobbered unless it already was.
ExitsAfterFailure(u) ==
  IF suexit[u] = "uuoh" THEN [suexit EXCEPT ![u] = "onefls"] ELSE suexit

\* Mutant: a hung job is unblocked and left where it is in its call.
NeverBackOut(u) == FALSE

\* PCLSR has to go through UFL5, because u is hung in exec mode.
MustBackOut(u) == ~Stopped(u) /\ pc[u] # "user"

PcAfter(u) == IF MustBackOut(u) THEN [pc EXCEPT ![u] = "user"] ELSE pc
TgtAfter(u) == IF MustBackOut(u) THEN [tgt EXCEPT ![u] = u] ELSE tgt

\* Mutant: LSWZAP skips the SOSSET blocks.
UstForgotten(u) == {}

\* The stops of other jobs that LSWZAP undoes when u is backed out.
UstAfter(u) == IF MustBackOut(u) THEN ust[u] ELSE {}

\* The skip return of PCLSR: u is in user mode, blocked on nothing, with no
\* switches.  The PCs and the counts of USTP are left to the caller.
PclsrWins(u) ==
  /\ ~PclsrFails(u) /\ ~PclsrBug(u)
  /\ rpcl' = RpclAfter(u)
  /\ IF Stopped(u)
     THEN UNCHANGED <<suexit, flsins>>
     ELSE /\ flsins' = [flsins EXCEPT ![u] = "run"]
          /\ suexit' = [suexit EXCEPT ![u] = "uuoh"]
  /\ IF MustBackOut(u) THEN ThrownOut(u) ELSE UNCHANGED call

\* PCLSR from clock level, by the scheduler or the swapper.
ClockPclsr(u) ==
  /\ \/ /\ PclsrFails(u)
        /\ suexit' = ExitsAfterFailure(u)
        /\ rpcl' = RpclAfter(u)
        /\ UNCHANGED <<pc, flsins, ustp, call, tgt, halted>>
     \/ /\ PclsrBug(u)
        /\ halted' = TRUE
        /\ UNCHANGED <<pc, suexit, flsins, rpcl, ustp, call, tgt>>
     \/ /\ PclsrWins(u)
        /\ pc' = PcAfter(u)
        /\ tgt' = TgtAfter(u)
        /\ ustp' = Counted(0, UstAfter(u))
        /\ UNCHANGED halted
  /\ UNCHANGED busrc

-----------------------------------------------------------------------------
(* UFLS, and the exit of a system call.                                     *)

\* ONEFL2 and ONEPR1: job j, in its own exit or backing itself out, stops
\* itself for the job that waits for it in RPCLOS.
StopSelf(j) ==
  LET t == -rpcl[j]
  IN /\ halted' = (flsins[t] # "rpclos")
     /\ flsins' = [flsins EXCEPT ![t] = "run", ![j] = "run"]
     /\ rpcl' = [rpcl EXCEPT ![j] = 0, ![t] = 0]
     /\ pc' = [pc EXCEPT ![j] = "user", ![t] = "stop"]

\* UFL1: a job that hangs while it is being stopped backs itself out.
Surrender(j, exits) ==
  /\ StopSelf(j)
  /\ suexit' = [exits EXCEPT ![j] = "uuoh"]
  /\ ustp' = Counted(j, ust[j])
  /\ tgt' = [tgt EXCEPT ![j] = j]
  /\ ThrownOut(j)

\* Mutant: UFLS does not look at RPCL.
UflsBlind(j, w, p, s) ==
  /\ flsins' = [flsins EXCEPT ![j] = w]
  /\ pc' = [pc EXCEPT ![j] = p]
  /\ want' = [want EXCEPT ![j] = s]
  /\ UNCHANGED <<suexit, rpcl, ustp, swpcl, sw, held, ust, tgt, halted>>

\* UFLS with blocking instruction w, which tests switch s if it tests any, to
\* go on at place p when it skips.
Ufls(j, w, p, s) ==
  IF rpcl[j] < 0
  THEN Surrender(j, suexit)
  ELSE /\ flsins' = [flsins EXCEPT ![j] = w]
       /\ pc' = [pc EXCEPT ![j] = p]
       /\ want' = [want EXCEPT ![j] = s]
       /\ UNCHANGED <<suexit, rpcl, ustp, swpcl, sw, held, ust, tgt, halted>>

\* A job in user mode makes a system call.  The exit is preset when the job
\* is being single-stepped.
UUOH(j) ==
  /\ CanRun(j) /\ pc[j] = "user"
  /\ IF HasSwitches(j)
     THEN halted' = TRUE /\ UNCHANGED <<pc, suexit>>
     ELSE /\ pc' = [pc EXCEPT ![j] = "exec"]
          /\ \/ UNCHANGED suexit
             \/ j \in Stepped /\ suexit' = [suexit EXCEPT ![j] = "onepr4"]
          /\ UNCHANGED halted
  /\ UNCHANGED <<flsins, rpcl, ustp, busrc, call, tgt>>

\* The call waits for a device, a clock or a buffer.
Hang(j) ==
  /\ CanRun(j) /\ pc[j] = "exec"
  /\ Ufls(j, "event", "exec", NoSwitch)
  /\ UNCHANGED busrc

\* A reference to a page that is not in core, from either mode.
PageFault(j) ==
  /\ CanRun(j) /\ pc[j] \in {"user", "exec"}
  /\ IF rpcl[j] < 0 /\ pc[j] = "user"
     THEN /\ halted' = TRUE
          /\ UNCHANGED <<pc, suexit, flsins, rpcl, ustp, call, tgt>>
     ELSE Ufls(j, "event", pc[j], NoSwitch)
  /\ UNCHANGED busrc

\* Return from the call, which has given up its switches.
Exit(j) ==
  /\ CanRun(j) /\ pc[j] = "exec" /\ ~HasSwitches(j)
  /\ suexit' = [suexit EXCEPT ![j] = "uuoh"]
  /\ IF suexit[j] = "uuoh" \/ rpcl[j] = 0
     THEN /\ pc' = [pc EXCEPT ![j] = "user"]
          /\ UNCHANGED <<flsins, rpcl, ustp, halted>>
     ELSE IF rpcl[j] > 0
          THEN halted' = TRUE /\ UNCHANGED <<pc, flsins, rpcl, ustp>>
          ELSE StopSelf(j) /\ ustp' = Counted(j, {})
  /\ UNCHANGED <<busrc, swpcl, sw, held, ust, want, tgt>>

-----------------------------------------------------------------------------
(* Switches.                                                                *)

\* SWTL up to the test of the switch, with the clock on.
SWTL(j, s) ==
  /\ CanRun(j) /\ pc[j] = "exec" /\ s \notin held[j]
  /\ IF sw[s]
     THEN Ufls(j, "swtl", "swtl", s)
     ELSE /\ pc' = [pc EXCEPT ![j] = "swtl"]
          /\ want' = [want EXCEPT ![j] = s]
          /\ UNCHANGED <<suexit, flsins, rpcl, ustp, swpcl, sw, held, ust, tgt,
                         halted>>
  /\ UNCHANGED busrc

\* Mutant: SWTL1 does not test the switch again.
SWTL1Grab(j) ==
  /\ CanRun(j) /\ pc[j] = "swtl"
  /\ sw' = [sw EXCEPT ![want[j]] = TRUE]
  /\ held' = [held EXCEPT ![j] = @ \cup {want[j]}]
  /\ want' = [want EXCEPT ![j] = NoSwitch]
  /\ pc' = [pc EXCEPT ![j] = "exec"]
  /\ UNCHANGED <<suexit, flsins, rpcl, ustp, swpcl, ust, tgt, halted, busrc>>

\* Mutant: SWTL1 threads the block after its switch has been forgotten.
SWTL1Late(j) ==
  /\ CanRun(j) /\ pc[j] = "swtl" /\ ~sw[want[j]]
  /\ sw' = [sw EXCEPT ![want[j]] = TRUE]
  /\ want' = [want EXCEPT ![j] = NoSwitch]
  /\ held' = [held EXCEPT ![j] = @ \cup {want'[j]}]
  /\ pc' = [pc EXCEPT ![j] = "exec"]
  /\ UNCHANGED <<suexit, flsins, rpcl, ustp, swpcl, ust, tgt, halted, busrc>>

\* SWTL1: AOSE with the clock off, and the block threaded onto LSWPR; if
\* somebody was quicker, hang until the switch is negative.
SWTL1(j) ==
  /\ CanRun(j) /\ pc[j] = "swtl"
  /\ IF sw[want[j]]
     THEN Ufls(j, "swtl", "swtl", want[j])
     ELSE /\ sw' = [sw EXCEPT ![want[j]] = TRUE]
          /\ held' = [held EXCEPT ![j] = @ \cup {want[j]}]
          /\ want' = [want EXCEPT ![j] = NoSwitch]
          /\ pc' = [pc EXCEPT ![j] = "exec"]
          /\ UNCHANGED <<suexit, flsins, rpcl, ustp, swpcl, ust, tgt, halted>>
  /\ UNCHANGED busrc

\* LSWPOP or LSWREM of a switch block.
LSWPOP(j) ==
  /\ CanRun(j) /\ pc[j] = "exec"
  /\ \E s \in held[j] : /\ held' = [held EXCEPT ![j] = @ \ {s}]
                        /\ sw' = [sw EXCEPT ![s] = FALSE]
  /\ UNCHANGED <<pc, suexit, flsins, rpcl, ustp, busrc, swpcl, ust, want,
                 tgt, halted>>

\* LSWPOP or LSWREM of a SOSSET block: the job named there may go on.
LSWPOPStop(j) ==
  /\ CanRun(j) /\ pc[j] = "exec"
  /\ \E b \in ust[j] : /\ ust' = [ust EXCEPT ![j] = @ \ {b}]
                       /\ ustp' = Counted(0, {b})
  /\ UNCHANGED <<pc, suexit, flsins, rpcl, busrc, swpcl, sw, held, want,
                 tgt, halted>>

-----------------------------------------------------------------------------
(* RPCLSR and UPCLSR.                                                       *)

\* PCLSR skipped: stop the target and return.
StopNow(j, b) ==
  /\ PclsrWins(b)
  /\ pc' = [PcAfter(b) EXCEPT ![j] = "stop"]
  /\ tgt' = [TgtAfter(b) EXCEPT ![j] = b]
  /\ ustp' = Counted(b, UstAfter(b))
  /\ UNCHANGED halted

\* RPCLOS: PCLSR failed, and the exit of the target is clobbered.  Wait for
\* the target to stop itself, or for another to stop it (RPCLS2); or give in
\* to whoever is stopping this job.
RPCLOS(j, b) ==
  LET r == RpclAfter(b)
      exits == ExitsAfterFailure(b)
  IN /\ PclsrFails(b)
     /\ \/ /\ rpcl[j] < 0
           /\ Surrender(j, exits)
        \/ /\ r[b] # 0 /\ rpcl[j] >= 0
           /\ flsins' = [flsins EXCEPT ![j] = "rpcls2"]
           /\ pc' = [pc EXCEPT ![j] = "rpcls2"]
           /\ tgt' = [tgt EXCEPT ![j] = b]
           /\ rpcl' = r
           /\ suexit' = exits
           /\ UNCHANGED <<ustp, call, halted>>
        \/ /\ r[b] = 0 /\ r[j] > 0          \* UDELAY would return to nowhere
           /\ halted' = TRUE
           /\ UNCHANGED <<pc, suexit, flsins, rpcl, ustp, call, tgt>>
        \/ /\ r[b] = 0 /\ r[j] = 0
           /\ rpcl' = [r EXCEPT ![b] = -j, ![j] = b]
           /\ flsins' = [flsins EXCEPT ![j] = "rpclos"]
           /\ pc' = [pc EXCEPT ![j] = "rpclos"]
           /\ tgt' = [tgt EXCEPT ![j] = b]
           /\ suexit' = exits
           /\ UNCHANGED <<ustp, call, halted>>

\* RPCLSR: a call stops another job, one that it has not already stopped, or
\* tries again after RPCLS2.
RPCLSR(j, b) ==
  /\ CanRun(j)
  /\ \/ pc[j] = "exec" /\ b # j /\ b \notin ust[j]
     \/ pc[j] = "rpclsr" /\ b = tgt[j]
  /\ \/ StopNow(j, b)
     \/ RPCLOS(j, b)
     \/ /\ PclsrBug(b)
        /\ halted' = TRUE
        /\ UNCHANGED <<pc, suexit, flsins, rpcl, ustp, call, tgt>>
  /\ UNCHANGED busrc

\* UPCLSR right away, as when a job reads or writes a variable of another, or
\* (1USTRT) a superior stops an inferior for good or starts it again.
UPCLSR(j) ==
  /\ CanRun(j) /\ pc[j] = "stop"
  /\ \E x \in BOOLEAN :
       /\ x # busrc[tgt[j]] => ~IsInferior(j)
       /\ busrc' = [busrc EXCEPT ![tgt[j]] = x]
  /\ ustp' = Counted(0, {tgt[j]})
  /\ halted' = (ustp[tgt[j]] <= 0)
  /\ pc' = [pc EXCEPT ![j] = "exec"]
  /\ tgt' = [tgt EXCEPT ![j] = j]
  /\ UNCHANGED <<suexit, flsins, rpcl, call>>

\* SOSSET of the target's USTP, by a call that will hang before UPCLSR.
SOSSET(j) ==
  /\ CanRun(j) /\ pc[j] = "stop"
  /\ ust' = [ust EXCEPT ![j] = @ \cup {tgt[j]}]
  /\ pc' = [pc EXCEPT ![j] = "exec"]
  /\ tgt' = [tgt EXCEPT ![j] = j]
  /\ UNCHANGED <<suexit, flsins, rpcl, ustp, busrc, swpcl, sw, held, want,
                 halted>>

-----------------------------------------------------------------------------
(* The scheduler and the swapper, at clock level.                           *)

\* XCT FLSINS skips.  Pages come in and events happen sooner or later.
Unblocked(j) ==
  \/ flsins[j] = "event"
  \/ flsins[j] = "swtl" /\ ~sw[want[j]]
  \/ flsins[j] = "rpclos" /\ rpcl[j] = 0
  \/ flsins[j] = "rpcls2" /\ rpcl[tgt[j]] = 0

\* Where UFLS returns to: RPCLS1 for one who waited in RPCLOS, the call of
\* RPCLSR again for one who waited in RPCLS2.
Resumed(p) == CASE p = "rpclos" -> "stop"
                [] p = "rpcls2" -> "rpclsr"
                [] OTHER        -> p

\* SEARL4 and SCHED5; SCHED7 when pages were swapped out meanwhile.
SCHED5(j) ==
  /\ ~halted /\ ~Stopped(j) /\ Unblocked(j)
  /\ IF swpcl[j]
     THEN ClockPclsr(j)
     ELSE /\ flsins' = [flsins EXCEPT ![j] = "run"]
          /\ pc' = [pc EXCEPT ![j] = Resumed(@)]
          /\ UNCHANGED <<suexit, rpcl, ustp, busrc, call, tgt, halted>>

\* SEAR2B, SEAR2D, INTWD1: a job with an interrupt pending is PCLSRed.
Interrupt(j) == ~halted /\ ~Stopped(j) /\ ClockPclsr(j)

\* SEAR2D and INTSUP: a fatal interrupt goes to the superior, and the job is
\* left stopped.
FatalInterrupt(j) ==
  /\ ~halted /\ ~Stopped(j) /\ IsInferior(j)
  /\ PclsrWins(j)
  /\ pc' = PcAfter(j)
  /\ tgt' = TgtAfter(j)
  /\ ustp' = Counted(0, UstAfter(j))
  /\ busrc' = [busrc EXCEPT ![j] = TRUE]
  /\ UNCHANGED halted

\* SWPON6, SWOP2: before the pages of a job in exec mode go out it is
\* PCLSRed, or, if it is hung and holds nothing, marked for when it unblocks.
SwapOut(j) ==
  /\ ~halted /\ pc[j] # "user"
  /\ IF ~HasSwitches(j) /\ flsins[j] # "run"
     THEN /\ swpcl' = [swpcl EXCEPT ![j] = TRUE]
          /\ UNCHANGED <<pc, suexit, flsins, rpcl, ustp, busrc, sw, held, ust,
                         want, tgt, halted>>
     ELSE ClockPclsr(j)

-----------------------------------------------------------------------------
JobStep(j) ==
  \/ UUOH(j) \/ Hang(j) \/ PageFault(j) \/ Exit(j)
  \/ \E s \in Switch : SWTL(j, s)
  \/ SWTL1(j) \/ LSWPOP(j) \/ LSWPOPStop(j)
  \/ \E b \in Job : RPCLSR(j, b)
  \/ UPCLSR(j) \/ SOSSET(j)

ClockStep(j) == SCHED5(j) \/ Interrupt(j) \/ FatalInterrupt(j) \/ SwapOut(j)

Next == \E j \in Job : JobStep(j) \/ ClockStep(j)

Spec == Init /\ [][Next]_vars

\* A system call comes to its end or to a wait after finitely many steps.
EndOrWait(j) == JobStep(j) /\ (pc'[j] = "user" \/ flsins'[j] # "run")

\* The scheduler does not pass over a job that can run, or whose blocking
\* condition is true, for ever: priority falls with the time used (SEARC6),
\* and a job being stopped has the best of all (UPRIVL).
FairSpec == /\ Spec
            /\ \A j \in Job : /\ WF_vars(JobStep(j))
                               /\ SF_vars(EndOrWait(j))
                               /\ WF_vars(SCHED5(j))

-----------------------------------------------------------------------------
(* What PC losering promises.                                               *)

\* No BUG and no JRST 4 is reached: the word RPCL, the blocking conditions
\* and the switch lists are always as the code that reads them expects.
NeverHalts == ~halted

\* A stopped job is in user mode, is blocked on nothing and holds nothing, as
\* the comment at PCLSR's first test assumes.
StoppedInUserMode ==
  \A u \in Job : Stopped(u) => /\ pc[u] = "user" /\ flsins[u] = "run"
                               /\ ~HasSwitches(u)

\* The RPCL words of two jobs point to each other; the one that stops hangs
\* on its own RPCL, and the one being stopped can run, in exec mode, and will
\* not leave by the normal exit.
RpclPaired ==
  \A u \in Job :
    /\ rpcl[u] > 0 => /\ rpcl[rpcl[u]] = -u
                      /\ flsins[u] = "rpclos" /\ tgt[u] = rpcl[u]
    /\ rpcl[u] < 0 => /\ rpcl[-rpcl[u]] = u
                      /\ flsins[u] = "run" /\ ~Stopped(u)
                      /\ pc[u] # "user" /\ suexit[u] # "uuoh"

\* A switch that is not -1 is on the list of exactly one job, and one that is
\* -1 is on none.
SwitchesAccounted ==
  \A s \in Switch :
    /\ sw[s] <=> \E j \in Job : s \in held[j]
    /\ \A j, k \in Job : s \in held[j] \cap held[k] => j = k

\* The jobs that will do an UPCLSR or the SOS of a SOSSET for job b.
Stoppers(b) == {j \in Job : b \in ust[j] \/ (pc[j] = "stop" /\ tgt[j] = b)}

\* The right half of USTP counts the jobs that will decrement it: no stop is
\* lost and none is left over.
StopsAccounted == \A b \in Job : ustp[b] = Cardinality(Stoppers(b))

\* In user mode a job holds nothing, stops nobody and will take the normal
\* exit of its next call; in a call, its blocking instruction is the one of the
\* place where it is, and it never stops itself or another a second time.
PlacesConsistent ==
  \A j \in Job :
    /\ pc[j] = "user" => suexit[j] = "uuoh" /\ ~HasSwitches(j)
    /\ pc[j] \in {"user", "exec"} => flsins[j] \in {"run", "event"}
    /\ pc[j] = "swtl" => flsins[j] \in {"run", "swtl"} /\ want[j] \in Switch
    /\ pc[j] = "rpclos" => flsins[j] = "rpclos" /\ rpcl[j] = tgt[j]
    /\ pc[j] = "rpcls2" => flsins[j] = "rpcls2"
    /\ pc[j] \in {"rpclsr", "stop"} => flsins[j] = "run"
    /\ IF pc[j] \in {"rpclsr", "rpclos", "rpcls2", "stop"}
       THEN tgt[j] # j /\ tgt[j] \notin ust[j]
       ELSE tgt[j] = j
    /\ j \notin ust[j]

\* All of these together hold initially and are kept by every step.
Safe == /\ NeverHalts
        /\ StoppedInUserMode
        /\ PlacesConsistent
        /\ RpclPaired
        /\ SwitchesAccounted
        /\ StopsAccounted

Inv == TypeOK /\ Safe

\* The three variables of JobStop: who is in a call, who keeps whom stopped,
\* by a SOSSET block or until its UPCLSR, and who is stopped for good.
inside == {j \in Job : pc[j] # "user"}
stops == {e \in Job \X Job : e[1] \in Stoppers(e[2])}
down == {u \in Job : busrc[u]}

JS == INSTANCE JobStop

\* PC losering keeps the promises of JobStop.
StopsJobs == JS!Spec

\* A job that keeps another stopped, by a switch-list block or until its
\* UPCLSR, is itself in a call and stopped by nobody: jobs that wait to be
\* let go never wait for each other (RPCLSR, LSWZAP).
NoEmbrace == JS!NoEmbrace

\* A job that waits in RPCLOS does not wait for ever: its target hangs or
\* returns and stops, or it is itself backed out.
RpclosEnds == \A j \in Job : (pc[j] = "rpclos") ~> (pc[j] # "rpclos")

\* The comment at %SWPCL: a job whose pages went out while it was blocked in
\* exec mode is PCLSRed when it unblocks, and does not run on in the call.
SwappedOutIsPclsred ==
  \A u \in Job : swpcl[u] => flsins[u] # "run"
=============================================================================
