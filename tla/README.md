# A TLA+ model of ITS

This directory holds a formal model of parts of the Incompatible Timesharing System, the PDP-10
operating system of this repository, and of the larger programs that are written in C for it. It is
checked with TLC and proved with TLAPS. Five parts of the repository are modelled:

* the kernel, `src/src/system`, one assembled program: `its.1652` is the resident core and includes
  the other files;
* the C library, `src/src/clib`;
* the shell and the archiver, `src/src/cprog`, which run over that library;
* the text formatter R, `src/src/r`, which does too;
* the C compiler that they are written for, `src/src/c`, up to its code generator.

## The kernel

One processor runs jobs in user mode and, for their system calls, in exec mode. Device interrupts
run at PI levels above both; the clock interrupt runs the schedulers. Exec-mode code is preemptible
by the clock except between `CLKOFF` and `CLKON`, and by a device except between `NETOFF`,
`CONO PI,...OFF` and the like and the instruction that undoes it. Everything shares one memory, so
the concurrency of the kernel is: jobs inside system calls against each other, against clock level
(scheduler, swapper), and against device interrupts.

| component | source | state | operations | hard behaviour | what makes it correct |
|---|---|---|---|---|---|
| PC losering and locked switches | `its.1652` 6748-6942, 7686-8220, 8586-8790 | per job `UPC`, `SUEXIT`, `FLSINS`, `RPCL`, `USTP`, `LSWPR`; the switches | `PCLSR`, `RPCLSR`, `UPCLSR`, `UFLS`, `SWTL`, `LSWPOP`, call entry and exit | a job backed out of a call at any wait; two jobs stopping each other; swap-outs and interrupts in the middle | a stopped job is in user mode and holds nothing; stops and switches balance; nobody waits for ever |
| schedulers | `its.1652` 4226-5300 | run queues, priorities, `USWST` | search for a job, swap in, swap out | blocking instructions are executed by the scheduler for the job | a runnable job runs |
| page map, core job | `its.1652` 6301, `core.83` | MMP, MEMBLT, circular lists of shared pages, `CIRPSW` | page fault, share, delete, move a page | circular lists threaded through jobs' maps, changed under one switch | each page is on exactly one list; the core job never waits for a job it stopped |
| user interrupts | `its.1652` 6415-6748 | `PIRQC`, `IFPIR`, masks | give, defer, dismiss; fatal ones go to the superior | interrupts arrive while the job is in a call | an enabled interrupt is given once |
| Chaosnet NCP | `chaos.292` | connection tables, packet lists | OPEN, IOT, CLOSE; input at network interrupt level; slow clock | lost, duplicated, reordered packets; main program against interrupt level | a connection delivers a prefix of what was sent, in order; every buffer has one owner |
| TCP/IP | `tcp.276`, `inet.139`, `tcpbuf.58` | TCBs, segment queues | OPEN, IOT, CLOSE, retransmission | as for the Chaosnet | as for the Chaosnet |
| Arpanet NCP | `ncp.9`, `imp.369`, `impold.ncp2` | socket tables | OPEN, IOT, CLOSE, allocate | host goes down | allocation is never exceeded |
| disk | `disk.1228` | directories, TUTs, transfer queues | OPEN, IOT, rename, delete, GC | directory blocks shared by jobs that hang in the middle | no block is in two files |
| clock queue | `its.1652` 1979-2060 | chained requests | `CLQADD`, `CLQREE`, run | entries removed by those that run | a request runs once |
| JOB/BOJ, core link, LOCK device | `its.1652` 14744-17729 | pairs of channels | calls forwarded to another job | either side dies in the middle | the one left is unhung |
| terminals, displays, tapes | `ts3tty.402`, `tv.147`, `nmtape.30`, ... | buffers | device drivers | - | - |
| system job, salvager, kernel DDT | `sysjob.119`, `salv.317`, `ddt.70`, `dskdmp.217` | - | maintenance | - | - |

## The C programs

A C program is one job. It has no threads, but the system gives it interrupts: the shell's handlers of
job interrupts and of ^G run between any two instructions of its main program and call the library
it was in the middle of. R runs without handlers; what is hard there is that its input is a stack of
sources which its own input changes.

| component | source | state | operations | hard behaviour | what makes it correct |
|---|---|---|---|---|---|
| inferior jobs | `clib/c10job.c`, `cprog/shell.c` | job table, ring of jobs, who has the terminal | make, start, stop, wait, disown, own | job interrupts and ^G at any moment; the status is read and set around system calls | the terminal is with the job that is waited for, or at home; the ring has every job once |
| command sources | `cprog/shell.c` | stack of terminal, files, strings | push, pop, read a line, error, ^G | ^G restarts the main loop; the stack is full | every open file and every string is held once and is given back |
| terminal | `clib/c10tty.c` | output buffer, line being edited | type, flush, edit a line | a handler types while the main program is in `tyo` | characters come out once, in order; rubout takes off what was shown |
| channels, pages | `clib/c10io.c`, `c10pag.c`, `c10map.c` | control blocks, ITS channels, page table | open, close, redirect, append, map | each open may fail half way; another job appends to the same file | a channel belongs to one control block; nothing of a file is overwritten |
| character arrays | `clib/ac.c` | counts, blocks | make, link, unlink, append, trim | arrays are shared and move when they grow | a block is allocated as long as somebody has the array |
| text | `clib/match.c`, `c10fnm.c`, `c10fd.c`, `cprint.c`, `date.c`, ... | - | pure functions | quoting, padding, widths | they agree with their definitions |
| IPAK | `cprog/ipak.c` | the pack, the disk | six commands | stopped at any moment | no file is lost that was not deleted |
| R: input | `r/rin1.c`, `rin2.c`, `rreadr.c`, `rexpr.c` | stack of sources, pushed-back character | read, peek, push, names, strings, arguments, expressions | characters peeked from a source below; encoded control characters | what is read is what the text means |
| R: control | `r/rcntrl.c` | statements open in each source, variables | if, while, for, begin, end, break | macros that end inside a statement | statements nest; variables are given back |
| R: lines and pages | `r/rline.c`, `rtext.c`, `rtrap.c` | line, word store, page with traps | fill, justify, collect, space, trap | offsets to both sides, collection in the middle of a word, traps that move the page | the words come out whole and in order, lines within margins and below one another |
| R: tables | `r/ridn.c`, `rreg.c`, `rreq1.c`-`rreq3.c` | names, registers, macros, environments | define, append, remove, switch | definitions replaced while they are read | no text is freed while it is used; a name has one entry |
| C: characters, control lines | `c/c1.c` | pushed-back characters, hash table, token blocks, definitions, files being included | next token; define, rename, include, skip | macro arguments and control lines in the middle of each other; tables that fill | a program means what it says after its macros are expanded; every block is free again |
| C: parser | `c/yparse.c` | stack of states and its copy, token buffer, the attempt | shift, reduce, recover | every attempt of a recovery starts again from the copy; the buffer has a fixed size | no token is dropped without a message; nothing underflows |
| C: declarations | `c/c23.c`, `c24.c` | dictionary that grows from both ends, frame, storage on the macro file | declare, enter, leave a block, use a name, jump | the meaning of a name changes as it is declared, used and defined | variables do not overlap; each jump lands; each variable has storage once |
| C: types | `c/c91.c`, `c23.c`, `c34.c` | table filled from both ends, passed to the next phase | make, size, write, read | types that contain themselves; addresses that become offsets | one descriptor for a type; members have room; the next phase reads the same types |
| C: statements | `c/c22.c`, `c21.c`, `c24.c` | stack of loops and switches, labels, nodes | one routine for each rule | break, continue and case look for their loop or switch past others | the nodes do what the statements mean |
| C: messages | `c/c95.c`, `c5.c` | error file, column | report, print | fatal errors end a phase; lines are broken as they are printed | every error is told, in order |
| code generator, GT, YACC, drawing and utility programs | the rest of `c` and `cprog` | - | - | - | not modelled |

Everything else in the repository (DDT, editors, mailers, Lisp, Macsyma, games) runs on the system
and is not modelled.

## Modules

The kernel:

* `JobStop`: the abstract specification of stopping jobs. Who is inside a call, who keeps whom
  stopped, who is stopped for good.
* `Pclsr`: the stop protocol as coded. A step is the code between two points where clock breaks
  are possible. `pc[j]` is the place of job `j`: user mode, the body of a call, or a place in
  `SWTL`, `RPCLOS`, `RPCLS2`, or after `RPCLSR`. `flsins`, `rpcl`, `ustp`, `suexit` are the
  variables of the same names; `held` and `ust` are the two kinds of block on the `LSWPR` list. A
  system call is any sequence of the operations; nothing is assumed of it but that it unlocks its
  switches before it returns (the normal exit does not check this, `ONEPR1` and `UUOH1` do).
* `MCPclsr`: the instances of `Pclsr`.
* `PktNum`: the sixteen-bit packet numbers of the Chaosnet: successor, order, window arithmetic, as
  the instructions compute them.
* `Chaos`: Chaosnet connections. Both ends run the same code, so one module models all hosts;
  `cb[c]` is the column of index `c` of the per-index tables (`CHSSTA`, `CHSPKN`, ...), with the
  halves of a word as fields of their own. One action per system call, per clock routine and per
  opcode that comes in. A system call is split where an interrupt can come between two of its
  parts and matter: `pc` is "window" in UFLS, "number" before `CHODT1` or `CHOOP1`, "queue" before
  the packet is on the send list, "listen" between the search of the pending queue and the
  queueing of the LSN, "close" between `CHACS1` and `CHACS4`. The network is a set of packets;
  `Lose`, a second delivery (`Rest`) and the free choice of the next packet are its faults. The
  transmit queue of the interface is part of it.
* `ChaosStream`: the abstract specification of one direction of a connection: four counters.
* `MCChaos`: the instances of `Chaos`.
* `JobStop_proofs`, `ChaosStream_proofs`: the theorems on the abstract specifications.
* `Pclsr_proofs`: the invariants of `Pclsr`, and that it implements `JobStop`.
* `Chaos_proofs`: the types of `Chaos`, the shape of a connection's life, listeners, and `PktNum`;
  `ChaosNames_proofs`: whose connection a packet belongs to; `ChaosData_proofs`: numbers, order,
  window and acknowledgements. Each extends the one before.

`Pclsr` and `Chaos` do not share state: of PC losering `Chaos` has only that a job that waits for
window may be backed out of its call (`BackedOut`), and `Pclsr` has Chaosnet calls as it has any
others. `Chaos` EXTENDS `PktNum` and instantiates `ChaosStream` once for every pair of indices.

The C programs:

* `JobRing`, `CJobs`, `Shell`: the ring of jobs as a value; the library's job package as operations
  that an interpreter takes from a queue, broken where an interrupt may come; and the shell over
  them, with `todo` the queue of its main program and `hand` that of the handler.
* `ShellInput`: the stack of command sources. `push` and `pop` are one step for each statement (`mid`
  says how far they are), and ^G may come between any two: it raises `sflag`, or goes back to the
  main loop. `TtyIO`: the terminal's buffers. `tyo` and `tyo_flush` are
  several steps each, and a handler's message may come between any two; a ^G that leaves `tyo` for good is not in it. `Cio`: channels,
  append and pages. An append is three opens, each of which may find no file, while another job
  appends, makes the file and deletes it. `CharArray`: shared arrays. `Ipak`: the archiver, a step for
  each entry; `unopened` are the entries `r` passes over because their file cannot be opened for
  output. The file that `r` finds and opens to compare dates is taken to open. `ClibText`: the
  functions on text. `RingLife`: the shell's ring, with jobs that come and go. `Clib_proofs`: the
  theorems on `ShellInput`, `TtyIO`, `CharArray`, `RingLife` and `Ipak`.
* `YParse`: the parser, over any tables; `YParse_proofs`: its theorem. `CLex`: from characters to
  lexemes. `CPre`: from lexemes, with control lines and macros, to tokens. `CErr`: messages.
  `CTypes`, `CDict`, `CStmt`: types; declarations, where a type is a value; statements. The phases
  meet in `MCClib` only through their inputs, as in the compiler they meet through files.
* `MCCcTokens` and `MCCcTrees` give the compiler its inputs, a small grammar and small programs, and
  say what these mean. Variables of all of these are disjoint; `MCClib` extends the modules of the
  library and the compiler and runs one at a time.
* `RInput`, `RExpr`, `RGroups`: the input stack with macros, arguments and inserted registers; the
  expressions; the control structures. `RLines`, `RText`, `RPage`: lines, the word store and its
  collector, pages and traps. `RIdn`, `RReg`, `RStore`, `REnv`: names, number registers, who holds
  which text, environments. Each takes what it needs of the others as constants, or as a ghost of
  what the others would give it; `MCR` instantiates them and runs one at a time. A register that is
  asked for and does not exist is made by the lookup, with 0 or no text, as in `rreg.c`; numbers are
  shown in arabic only. `Round` is what the compiler's conversion of a float to an integer does, with
  halves towards zero; that halves above 256 go elsewhere, for want of bits in the constant that is
  added, is left out.

## What is run

| run | question | bounds |
|---|---|---|
| `pclsr` | Do the kernel's assertions hold, do stops and switches balance, can a job that keeps another stopped itself go on, does the code implement `JobStop`? | three jobs, one switch, at most one stop more than an exchange needs |
| `pclsr_live` | Does everyone leave `RPCLOS`? | three jobs |
| `pclsr_swap` | Is a job that was swapped out while it waited backed out? (It is not.) | two jobs |
| `chaos` | Do both directions implement `ChaosStream`; is the window kept; does FINISH wait; is only what was read acknowledged? | two hosts, windows 1 and 2, one and two data packets, two packets in the net, duplicates |
| `chaos_early` | Is the receive list right with data out of order; can the next packet due always come, or be sent again? | window 3, three packets, three in the net, duplicates |
| `chaos_unc_receipt` | Is the number of an UNC looked at? (It goes out as a receipt, and a packet is lost.) | window 3, users who number their UNCs 3, two packets in the net |
| `chaos_break` | Does anything go wrong when connections break, and can packets of one connection be taken for another's? | one packet in the net, the other end may fail, two connections of the caller, all kinds of packet that `MCChaos!AllKinds` names |
| `chaos_live` | Does a writer get window, does a send list empty? | window 1, two packets, one in the net |
| `shell` | Is the terminal with the job that is waited for? | two inferiors, one kind of stop, ^G |
| `shell_hang` | Does status 0 mean that a job is running? (It does not.) | one inferior |
| `clib` | Do the functions of the library agree with their definitions, and do the stateful parts of the library and the compiler hold together? | strings of two to five characters over the characters each routine tells apart; nine-bit integers; two or three of each resource; an output buffer of five characters, so that some stay in it between calls; texts of up to six tokens over a grammar of four rules; the programs of `MCCcTokens` and `MCCcTrees`, of five phrases, four of them outside of functions, three levels of statements, two members |
| `r_formatter` | The same for the parts of R. | see the constants in `MCR`: three sources, two environments, a store of 48 cells, a page of six lines |

The bounds of a `Chaos` run are the packets each index numbers (`MaxPkn`), the connections it
makes (`MaxUniq`), and the packets in the network (`MaxNet`); what does not fit is lost, which the
network may do anyway. Two packets in the network are enough for one to overtake another, and with
a window of three and three packets two of them wait on `CHSPBF`, in either order, for one that was
lost. A window of one is the smallest that a lost acknowledgement closes. Two connections of one
index are enough for a packet of the first to arrive in the second. No run can reach
the wraparound of the packet numbers, which is why `Chaos_proofs` has theorems about `PktNum`. Deadlock is not checked
where the bounds or the choice of the jobs let the system stop.

The texts, tables and stores of the C programs are the smallest in which their cases differ: a table
with room for one entry less than is asked for, a string that fills its array, a word that does not
fit a line, a page with two traps at one place, a macro that ends inside what it began. A text
of six tokens has an error, a recovery of three tokens, and another error. Each part
is run alone, since the parts meet only through what the module takes as its inputs.

## Disagreements with the documentation

Three runs are expected to be violated: each shows where a comment of the code says something the
code does not do. PROJECT.json quotes both sides.

* `pclsr_swap`: a job that was swapped out in `RPCLOS` and should be PC losered runs on.
* `shell_hang`: `j_start` stores 0, running, in `job_sts` after it has started the job; when the job
  stops in between, the shell waits for it for ever.
* `chaos_unc_receipt`: a comment says that nothing looks at the number of an UNC. `DPBRCP` sends it as
  a receipt when the user has read the UNC, and the other end frees packets that never arrived. So
  `chaos_early` checks `NothingLost` without UNCs, and in `chaos_break` users number theirs 0, which
  receipts nothing.

Others show in the same models and have no run of their own. In the Chaosnet code:

* `CHOOP1` stores back the state that `CHAIOS` read, for an OPN as for an EOF: a CLS or a LOS that
  came in between is lost, and the connection is open again.
* One RFC, duplicated by the network, is given to two servers that listen.
* The comment at `CHAFIN` says FINISH waits for all buffers "ON SEND LIST TO GET SENT AND
  ACKNOWLEDGED" (`chaos.292` 452). It compares `CHSNOS` with the window, and `CHOEOF` goes through
  `CHOOP1`, which does not count against the window: FINISH may return while an EOF is under way.
  This is why `chaos`, which checks `FinishWaits`, has no EOFs.
* The comment at `CHOOP1` says "NO OTHER LH FLAGS CAN BE ON" (858). For an EOF `%CFSTS` may be, when
  `CHASTO` found no buffer; it is cleared, and the STS that is due is not sent.
* The comment in `CHACLS` says `CHACS1` will "FLUSH ALL BUFFERS OF THIS CONNECTION" (348). The index
  is on `CHQLSN` until `CHACS4`: an RFC in between leaves its buffer on an index nobody uses, and
  `CHASO4` forgets it.
* chaord.57 says a LSN searches the pending RFCs (1463) and an RFC is compared with all listening
  indices (1292). An RFC that comes after `CHOLSN` has searched and before `CHAQPL` meets neither
  and stays pending beside its listener.
* chaord.57 says no data may be sent before the OPN and STS have been exchanged (599). `CHASO4`,
  called by `CHORF1`, leaves the transmit half of `CHSWIN`, so that the first `CHIAK2` of a new
  connection may compute `CHSNOS` from the window of the last. `CHORF1` keeps it too: a server that
  listens a second time numbers its first packets by the window of its earlier caller until a STS
  comes. `WindowKept` is therefore run with one connection for each index.
* Two jobs that both write may wait for window for ever, each not reading (`chaos.292` 927);
  `WriterGoesOn` excludes it.
* A data packet that is 2^15 numbers old is taken for an early one; it does harm only when the window
  is that wide.

In the shell and the library: `setjob` reads the head of the ring also when the ring is empty
(`shell.c` 1237); `prd` cannot print the least integer; `u2cal` takes 2100 for a leap year. Four
more are hazards of which the model has the step, and a ghost that says which states it spoils:

* `push` and `pop` raise or lower `incnt` in one statement and fill or leave the entry in others. A ^G
  in between that nobody has asked to be a flag leaves them so: the top of the stack is a closed
  source, or the one read is not the top (`torn`; `shell.c` 1004-1011, 1017-1019, 148-155).
* A handler that types while the main program is in `tyo` does not type the character it finds stored
  and not counted, and what is typed before the next flush may be out of order (`hit`, `broken`;
  `c10tty.c` 105). `NoneDropped` says that no other character is lost.
* `setappend` that finds no file opens one to write and looks no more: a file that another job has
  made by then is replaced. The same holds when it is deleted and made again between two of its three
  opens: the last word of the old file may be put over that of the new (`fresh`; `c10io.c` 201-205).
* An `m` or `u` of IPAK that is stopped has deleted files that are only in its new pack; the next
  command that writes, writes over it (`halfMoved`, `LostHalfMoved`; `ipak.c`). Nothing else loses
  the last version of a file.

In R:

* `add_trap` below a trap that is passed does not move `ctrap`; with traps disabled `new_page` only
  moves the position; setting `.page` leaves `current_page_offset`; `.bj` and the end of the file can
  put a line before the header trap of its page (`rtrap.c`, `rline.c`).
* `justify_line` counts a leading offset twice; the reader looks at `line_buf[tn-1]` with `tn` 0;
  `LineFinish` returns with `text_seen` set (`rline.c`).
* the collector, called at the start of an append, does not see the word again, and looks at no bound
  of its table (`rtext.c`).
* `si_com`, `sc_com` and `de_com` let go of the old text before they scan the new one; `.am` of a
  macro that is being read, `.eq` over a defined name and a variable outside every group lose
  references (`rreq2.c`, `rreq3.c`, `rcntrl.c`).
* a variable of `.nv ll` or `.nv page` may be given back a value the register then refuses; `copy_env`
  copies the flag that says the environment is to be deleted (`rreg.c`, `rreq1.c`).

In the compiler:

* yparse.c says recovery tries "all possible combinations" of tokens to skip and states to pop
  (192-198). `parse` gives up when there is no state left to pop next; an attempt that fails at the
  end of the text skips no more; and whether the text is at its end is asked of the slot that `ct`
  had before `tkeem`.
* c91.c says types not involving structures are uniquely represented. An array of functions, error
  1005, leaves two descriptors of one type; `TypesTrue` leaves these errors out.
* A `#define` whose last word is a macro's name looks for arguments past the end of its line, and
  one that the file ends in runs until `mcdef` is full. A `#define` inside a `#macro` writes into the
  definition of the outer one. A formal argument given twice leaves its name an argument. `#include`
  of a name that is a constant opens the file called as that name. Strings in text that is
  skipped go to the string file. An argument of no tokens passes the test for a full block.
  A character constant that ends at the end of the line takes the line's end with it (`c1.c`).
  The programs of `MCCcTokens` that are to be expanded rightly do none of this.
* An automatic variable with an initializer, error 1024, a warning, still writes the initial values,
  into the storage of the variable before it. A name that is visible cannot be declared again, in an
  inner block either (`c23.c`).

## Fairness

`pclsr_live` assumes that a job that can run takes a step in the end (`WF` of `JobStep`), and that
the scheduler looks in the end at a job whose blocking condition has become true (`WF` of
`SCHED5`): it serves jobs by time used, so that none is passed over for ever. It also assumes that
a system call ends or waits after finitely many steps (`SF` of `EndOrWait`), since the body of a
call is arbitrary in the model. Nothing is assumed of interrupts or swap-outs.

`chaos_live` assumes that a job goes on with its call and reads its input (`WF`), that the clock
runs (`CHACLK` every half second, `CHA5CL` every five seconds, both re-queue themselves), and of
the network that a packet which is sent for ever gets into it and through it in the end (`SF`, for
each kind of packet and sender). Without the last nothing can be promised; with it the code has to
retransmit and probe. A job that waits for window does not read, so that two jobs that both write
may wait for each other for ever: `WriterGoesOn` says so.

## What is proved

For every number of jobs and switches: the invariants of `Pclsr` that the run `pclsr` checks, and
the properties of `JobStop`, which no run checks by themselves: `JobStop` is there to be implemented.
`NeverEmbrace` carries one of them over to `Pclsr`: a job that keeps another stopped is in a call and
stopped by nobody. The inductive invariant of `Pclsr_proofs` joins all of them, since
none is inductive alone: that a stopped job is in user mode holds because the two RPCL words of a
pending stop agree; that they agree because of where in `RPCLSR` both jobs are; and that USTP
counts the stops because the places of the jobs say which stops are still to be undone. Each action
is one lemma, with one step for each part it can disturb. The assumption is that of the module: the
jobs do not include the value that stands for none.

`Pclsr` implements `JobStop` (`Implements`), for every number of jobs and switches. Its initial
states are initial states of `JobStop`, and each of its actions is a `Call`, `Leave`, `Stop`,
`Release` or `GoDown`, or changes nothing that `JobStop` sees. The argument needs the inductive
invariant twice: a job that takes a step in `Pclsr` is stopped by nobody, and whom a job stops can be
read off its PC, so that a change of PC is a change of the set of stops.

For every window and number of packets: the order of the counters of `ChaosStream`. `Flows` is not
inductive: it bounds what is written by what is read, and the writer knows only what is
acknowledged. The invariant adds that what is written is within a window of that.

For all packet numbers: the arithmetic of `PktNum` agrees with counting (`SuccCounts`,
`BeforeAgrees`, `InUseCounts`, `UnackedCounts`, `OverWindowAgrees`), wraparound included, as long as
the numbers compared are less than 2^15 apart. `ChaosStream` keeps them within one window, at most
64.

For every number of hosts and connections, every window, kind of packet and fault, and any number of
packets in the network:

* `TypeAlways`, `ListenersAlways` (`Chaos_proofs`): the types, and that the indices on `CHQLSN` are
  those that listen. `TypeInv` also gives each list its shape, `ControlInv` says which states go with
  which place of the job (`pc`).
* `CallersAlways` (`ChaosNames_proofs`): when a caller's connection is open, its other end has it as
  its other end too. It needs what every packet in the network says of the connections it was sent
  from and to, those of earlier lives included (`Pending`, `NamesInv` with `LifeInv`, `NameInv`,
  `ToInv`, `CallerInv`): an index's uniquizer only grows, a packet to an index has a name the index
  has had, and an RFC is answered only by the index that took it. It is stated for callers
  that never listen, since an index that does both can be answered by one it is itself answering.
* `FinishAlways`, `OrderAlways`, `ReadAlways`, `WindowAlways`, `EarlyAlways` (`ChaosData_proofs`): FINISH
  waits, received packets are without gaps and in order, only what was read is acknowledged, a
  writer keeps no more data its reader has not read than the largest window any user asked for, and
  packets that come early wait in order within the window. The inductive invariant has one part for
  what each end knows of the other: `NumberInv` (an end's own numbers are in order), `RoomInv`
  (`CHSNOS` is at most what the window leaves), `ReceiveInv` (the receive list is a run of numbers that
  the other end has sent), `AckInv` (what the sender takes as acknowledged, and what packets under
  way say of it, was read), `DataInv` (a data packet is numbered only after `CHSNOS` was seen to be
  more than 0), `WindowInv`, `EarlyInv`. Each routine is summarised once by what it may do to its index
  and which packets it may send (`Effect` and `Moves`, `Counts` and `Steps`), and the invariants are
  proved over the summaries.

The last five assume `Short`: an index numbers fewer than 2^15 packets in one life, so that
numbers never wrap; beyond that the theorems on `PktNum` hold, but the model's invariants
speak of numbers and not of positions in the stream. `EarlyAlways` alone also assumes that no EOFs
are sent, because an EOF goes through `CHOOP1`, which counts it against no window.

`WindowAlways` has both the EOFs and the `CHSWIN` that is left from an earlier life (under
Disagreements), for any windows. Because of them the window that this very reader asked for is not
kept, in the code nor in the model; what is proved is the bound that is left, the largest window any
user asked for, and for data packets only. `WindowKept`, the bound by the reader's own window, is
checked in `chaos`, with one connection for each index and without EOFs.

For any sizes and numbers, of the C programs (`Clib_proofs`, `YParse_proofs`):

* `InputAlways`: the shell has open what is on its stack of sources, and reads each string from its
  own place, whatever errors, ends and ^Gs come; what is read is the top of the stack as long as no
  ^G leaves `push` or `pop` in the middle (`torn`), and what is open is what is on the stack until one
  goes back to the main loop (`restarted`). The invariant (`InputInv`) adds which handles and places
  each entry of the stack owns, and that no two own the same, in each of the steps of `push` and `pop`.
* `StorageAlways`: a character array that is alive has its text and a block of its own (`AcInv`: the
  blocks of different arrays are different, the free ones are nobody's, counts are of live users).
* `TypingAlways`: what is typed comes out once and in order, also when a handler types between calls of
  `tyo`. When it types inside one, at most the character or ^P that it finds stored and not counted is
  lost, and the order is right again from the next flush. The buffers are never overrun.
  The invariant has one part for the types (`OutType`), one for the room that the interrupted `tyo` has
  still to count (`RoomInv`), one for the order of what has come out and what is in the buffer
  (`OrderInv`), and one for the column of the line being edited (`LineInv`).
* `RingAlways`: the ring has each job once, within its table, and loses none that lives (`RingInv`: the
  places between its head and its tail are the ones filled).
* `PacksAlways`: the last version the user wrote of a file is on the disk, in the pack or in the new
  pack, also when a command is stopped, until a command writes over the new pack that a stopped `m`
  or `u` left, and that is the only way to lose one; entries are scrambled once; `r` leaves the newest
  version of those it could open; an update leaves nothing out.
  `PakInv` adds that no copy is newer than what the user wrote (`DatesInv`), which makes a copy as new
  as another good for it, and that the new pack and the disk can do without what the command has
  passed of the old pack (`PassedInv`), which is what its replacement at the end relies on.
* `ParseAlways`: the parser drops no token without a message, recovery never fills the token buffer,
  and no reduction underflows the stack. `ParseInv` says that the buffer is a window of the input that
  contains the current token (`Holds`), that a recovery wants at most `tbsize` tokens of it
  (`Recovering`), and that each state on the stack is a step of the automaton from the one below. Of
  the tables it assumes what `TableAssumption` says, which a table made by YACC from a grammar
  has: a reduction finds as many states as it takes, and a place to go on from. TLC checks the
  assumption of the tables of the run.

The assumptions of these are the ones of their modules: that the constants are numbers, that tables
have a place, that a buffer has room for the least that is put in it.

## What is only model-checked

Liveness (`RpclosEnds`, `WriterGoesOn`, `SendListEmpties`), which the prover cannot treat (the run of
`RpclosEnds` has no switch: that a job which is waited for holds one is in `pclsr` only); that
`Chaos` implements `ChaosStream` (`StreamsFlow`); `WindowKept` and `NothingLost` of `Chaos`; what `shell` checks (`TypeOK`,
`TtyKept`), whose main program and handler are queues of operations of any length; `FilesKept`;
`TextRoutines`, the functions of R and the whole of the compiler but its parser, which are
recursive over the text.

## What is not modelled

Of PC losering: list locks, LOSSET, AOSSET and LSWPRU blocks, calls with UFINAL, the core job's
BSSTP. Of the Chaosnet: the interface drivers, buffer allocation (that there may be none is
`NOMEM`), STY direct connection, foreign protocol, broadcast, STATUS, routing, forwarding,
byte-stream IOT. A clock routine, an interrupt, and `CHPKI` are one step each: interrupts have a
higher level than the clock, but change a connection only in ways the rest of these routines does
not depend on (the halves of `CHSPKN` and `CHSACK` that the job owns are written by it alone, and
flags are set and cleared by single instructions). That `CHPKI` is one step means that the copy to
the user and the acknowledgement are not seen apart. Of the shell: `setjob` and `next_job` are one step
each, and after a ^G has restarted the main loop no further command is given. The components with status `not_modelled` in
PROJECT.json are out for the reasons given there.

## Plan

1. Stopping jobs: `JobStop`, `Pclsr`, and their proofs, the refinement included. Done.
2. Chaosnet connections: `PktNum`, `Chaos`, `ChaosStream`, and their proofs. Done for connections.
   Left: broadcast; foreign protocol.
3. `ChaosBuf`: the ownership of packet buffers (free list, receive lists, send list, transmit queue,
   all threaded through two halves of one word) between job, clock and interrupt level.
   Invariants: a buffer is on one list of each kind, none is freed twice, none is lost.
4. `Switches`: the other kinds of locked switch (`SWTAD`, `LSWTL`, `LSWRC`, `SLUGH`, LOSSET) on top
   of `Pclsr`; the order of unlocking when a job is backed out. `CoreStop`: BSSTP and the core job,
   which must not wait for a job it has stopped.
5. `Pages`: the circular lists of shared pages; each page on one list, changed by one job at a time.
6. `Tcp`: connections as in 2, over the same kind of network, refined to the same stream.
7. `Directory`, `ClockQueue`, `JobDevice`: disk directories and TUTs under crashes of the holder,
   the clock queue, JOB/BOJ.
8. The shell, the C library, IPAK and R. Done.
9. The C compiler, up to its code generator. Left: bit fields, constant expressions, the code
   generator (the choice of registers and locations over the tables of the machine description).
