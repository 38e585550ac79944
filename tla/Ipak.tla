--------------------------------- MODULE Ipak ---------------------------------
(***************************************************************************)
(* IPAK (src/src/cprog/ipak.c), which keeps files in one file, a pack: the *)
(* commands make a pack of files (c, or m, which deletes them), retrieve   *)
(* files of it (r), bring it up to date (b, or u, which deletes what it    *)
(* takes) and delete from it (d).  A pack is written as a new file under   *)
(* another name, which gets the name of the pack when it is complete.  The *)
(* user may write files between commands, and stop a command anywhere.     *)
(***************************************************************************)
EXTENDS Integers, Sequences, FiniteSets

CONSTANTS Names,        \* names of files
          MaxDate,      \* versions written in all
          MaxPak        \* files in a pack

ASSUME PakAssumption == MaxDate \in Nat

NoFile == [date |-> 0, scrambled |-> FALSE]

VARIABLES disk,         \* the file of each name: NoFile, or its date and text
          pakfil,       \* the pack, a sequence of files; <<>> with nothing
          hasPak, out,  \* whether there is a pack; the new one, not yet renamed
          cmd, argv, entry,     \* the command, its names still to do, its place in the pack
          encrypt,      \* the option e, which the user gives always or never
          unopened,     \* the entries the r command could not open the output file of
          latest,       \* the date of the last version the user wrote of each name
          tossed,       \* names whose last version the user deleted from the pack, with d
          halfMoved,    \* an m or u was stopped, and its new pack has been left as it was
          overwritten   \* names whose last version was only there, and was written over

pakPast == <<latest, tossed, halfMoved, overwritten>>
pakVars == <<disk, pakfil, hasPak, out, cmd, argv, entry, encrypt, unopened, pakPast>>

PakInit ==
  /\ disk = [n \in Names |-> NoFile] /\ pakfil = <<>> /\ hasPak = FALSE /\ out = <<>>
  /\ cmd = "idle" /\ argv = {} /\ entry = 0 /\ encrypt \in BOOLEAN
  /\ latest = [n \in Names |-> 0] /\ unopened = {}
  /\ tossed = {} /\ halfMoved = FALSE /\ overwritten = {}

\* Mutant: what is kept of the old pack is scrambled again.
KeptScrambled(e) == [e EXCEPT !.scrambled = @ # encrypt]

(* copyfile: with the option, the text is scrambled or made plain again;   *)
(* without it, it is copied as it stands.                                  *)
Kept(e) == e
Copied(e) == [e EXCEPT !.scrambled = @ # encrypt]
Entry(n) == [name |-> n, date |-> disk[n].date, scrambled |-> disk[n].scrambled]

Writes == {"c", "m", "b", "u", "d"}

Holds(p, n) == \E k \in DOMAIN p : p[k].name = n /\ p[k].date = latest[n]
Safe(n) == disk[n].date = latest[n] \/ Holds(pakfil, n)

(* openwrite makes the new pack, over one that was left incomplete; c and  *)
(* m refuse when there is a pack, the others when there is none.           *)
startPak ==
  /\ cmd = "idle"
  /\ \E c \in Writes \union {"r"}, names \in SUBSET Names :
       /\ Len(pakfil) + Cardinality(names) <= MaxPak
       /\ IF c \in {"c", "m"} THEN ~hasPak ELSE hasPak
       /\ cmd' = c /\ argv' = names
       /\ entry' = IF c \in {"c", "m"} THEN Len(pakfil) + 1 ELSE 1
       /\ tossed' = tossed \union {n \in names : c = "d" /\ disk[n].date # latest[n]}
       /\ IF c \in Writes
          THEN /\ out' = <<>> /\ halfMoved' = FALSE
               /\ overwritten' = overwritten \union {n \in Names : Holds(out, n) /\ ~Safe(n)}
          ELSE UNCHANGED <<out, halfMoved, overwritten>>
  /\ UNCHANGED <<disk, pakfil, hasPak, encrypt, latest, unopened>>

NextEntry == pakfil[entry]
MoreEntries == entry <= Len(pakfil)
pakSame == <<pakfil, hasPak, cmd, encrypt, pakPast>>

(* readc: a file that is to be retrieved replaces only an older one, and   *)
(* gets the date of the entry; when it cannot be opened for output, there  *)
(* is a message and the entry is passed over.                              *)
\* Mutant: a file of the same name is replaced, whatever its date.
IsNewerAny(e) == TRUE

IsNewer(e) == e.date > disk[e.name].date

readfile ==
  /\ cmd = "r" /\ MoreEntries
  /\ IF NextEntry.name \in argv /\ IsNewer(NextEntry)
     THEN \/ /\ disk' = [disk EXCEPT ![NextEntry.name] =
                  [date |-> NextEntry.date, scrambled |-> Copied(NextEntry).scrambled]]
             /\ UNCHANGED unopened
          \/ unopened' = unopened \union {entry} /\ UNCHANGED disk
     ELSE UNCHANGED <<disk, unopened>>
  /\ entry' = entry + 1
  /\ UNCHANGED <<out, argv, pakSame>>

(* deltc: the entries that are not named are copied as they stand.         *)
deltc ==
  /\ cmd = "d" /\ MoreEntries
  /\ out' = IF NextEntry.name \in argv THEN out ELSE Append(out, Kept(NextEntry))
  /\ entry' = entry + 1
  /\ UNCHANGED <<disk, argv, unopened, pakSame>>

Deletes == cmd \in {"m", "u"}
writnfile(n) ==
  /\ out' = Append(out, Copied(Entry(n)))
  /\ disk' = IF Deletes THEN [disk EXCEPT ![n] = NoFile] ELSE disk

\* Mutant: the entry is taken over only when there is no file of that name.
UpToDateSeen(e) == disk[e.name] # NoFile

UpToDate(e) == disk[e.name] # NoFile /\ disk[e.name].date >= e.date

(* updatfile: the file on the disk, if it is as new and can be opened, or  *)
(* else the old entry.                                                     *)
updatfile ==
  /\ cmd \in {"b", "u"} /\ MoreEntries
  /\ \/ UpToDate(NextEntry) /\ writnfile(NextEntry.name)
     \/ out' = Append(out, Kept(NextEntry)) /\ UNCHANGED disk
  /\ entry' = entry + 1
  /\ UNCHANGED <<argv, unopened, pakSame>>

(* writefile: a file that cannot be opened is passed over with a message.  *)
writefile ==
  /\ cmd \in {"c", "m", "b", "u"} /\ ~MoreEntries
  /\ \E n \in argv :
       /\ argv' = argv \ {n}
       /\ \/ disk[n] # NoFile /\ writnfile(n)
          \/ UNCHANGED <<out, disk>>
  /\ UNCHANGED <<entry, unopened, pakSame>>

(* closwrite: the new pack takes the name of the pack.                     *)
closwrite ==
  /\ cmd # "idle" /\ ~MoreEntries /\ (cmd \in {"r", "d"} \/ argv = {})
  /\ IF cmd \in Writes THEN pakfil' = out /\ hasPak' = TRUE /\ out' = <<>>
     ELSE UNCHANGED <<pakfil, hasPak, out>>
  /\ cmd' = "idle" /\ argv' = {} /\ entry' = 0 /\ unopened' = {}
  /\ UNCHANGED <<disk, encrypt, pakPast>>

(* The user stops the command, or it ends in a fatal error: the new pack   *)
(* stays under its other name.                                             *)
stopPak ==
  /\ cmd # "idle"
  /\ cmd' = "idle" /\ argv' = {} /\ entry' = 0 /\ unopened' = {}
  /\ halfMoved' = (halfMoved \/ Deletes)
  /\ UNCHANGED <<disk, pakfil, hasPak, out, encrypt, latest, tossed, overwritten>>

userWrites ==
  /\ cmd = "idle"
  /\ \E n \in Names, date \in 1 .. MaxDate :
       /\ \A x \in Names : latest[x] < date
       /\ date = 1 \/ \E x \in Names : latest[x] = date - 1
       /\ disk' = [disk EXCEPT ![n] = [date |-> date, scrambled |-> FALSE]]
       /\ latest' = [latest EXCEPT ![n] = date]
       /\ tossed' = tossed \ {n} /\ overwritten' = overwritten \ {n}
  /\ UNCHANGED <<pakfil, hasPak, out, cmd, argv, entry, encrypt, unopened, halfMoved>>

PakNext ==
  \/ startPak \/ readfile \/ deltc \/ updatfile \/ writefile \/ closwrite \/ stopPak \/ userWrites

PakSpec == PakInit /\ [][PakNext]_pakVars
-----------------------------------------------------------------------------
(* The last version the user wrote of a file is on the disk, in the pack,  *)
(* or in the new pack, also when a command has been stopped.               *)
NothingLost ==
  \A n \in Names \ (tossed \union overwritten) : latest[n] = 0 \/ Safe(n) \/ Holds(out, n)

(* A command writes its new pack over one that was left incomplete, with   *)
(* what that has; the only one that has what is nowhere else is that of an *)
(* m or u which was stopped, and no command has been writing since.        *)
LostHalfMoved ==
  [][overwritten' \subseteq overwritten \/ (halfMoved /\ cmd = "idle" /\ cmd' \in Writes)]_pakVars

(* With the option e always given, or never, the files on the disk are     *)
(* plain, and every entry of the pack is scrambled exactly once, through   *)
(* whatever updates and deletions of others it has gone.                   *)
ScrambledOnce ==
  /\ \A n \in Names : ~disk[n].scrambled
  /\ \A k \in DOMAIN pakfil : pakfil[k].scrambled = encrypt
  /\ \A k \in DOMAIN out : out[k].scrambled = encrypt

(* Retrieving a file leaves on the disk the newest of its versions that    *)
(* could be opened there, also when the pack has several in any order.     *)
Retrieved(n) ==
  \A k \in DOMAIN pakfil \ unopened : pakfil[k].name = n => disk[n].date >= pakfil[k].date
RetrievesNewest ==
  [][cmd = "r" /\ ~MoreEntries /\ cmd' = "idle" => \A n \in argv : Retrieved(n)]_pakVars

(* Bringing a pack up to date leaves no file out of it, and none older.    *)
UpToDateWith(p, q) ==
  \A k \in DOMAIN q : \E m \in DOMAIN p : p[m].name = q[k].name /\ p[m].date >= q[k].date
UpdateKeepsAll ==
  [][(cmd \in {"b", "u"} /\ pakfil' # pakfil) => UpToDateWith(pakfil', pakfil)]_pakVars

(* What packing, updating, deleting and retrieving do to the versions of a *)
(* file, also when a command is stopped.                                   *)
PacksKept ==
  [](NothingLost /\ ScrambledOnce) /\ LostHalfMoved /\ RetrievesNewest /\ UpdateKeepsAll
=============================================================================
