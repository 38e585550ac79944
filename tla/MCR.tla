---------------------------------- MODULE MCR ----------------------------------
(***************************************************************************)
(* The instances of the modules of R for TLC.  Each behaviour runs one     *)
(* part of the formatter; the variables of the others are idle.            *)
(***************************************************************************)
EXTENDS Integers, Sequences, TLC

VARIABLES machine,                                              \* the part that runs
          inp, heard, taken,                                    \* RInput
          texts, rg, skipping, done,                            \* RGroups
          expr, arg, exprDone,                                  \* RExpr
          nametab, hash_tab, ccs, ecs, cells, blocks, got,      \* RIdn
          page, todo, pageLines, written,                       \* RPage
          line, spr, put, letters, lineOps, marks, old_state,   \* RLines
          tc, wordLines, inputs, cur, typed, spoilt,            \* RText
          refs, info, s_vals, comtab, sources, vars, defining, lost,            \* RStore
          env_tab, e, ie, old_env, oie, line_length, old_line_length, pushed,   \* REnv
          name_info, n_vals, world, rvars, popped               \* RReg

inputsVars == <<inp, heard, taken>>
groupVars == <<texts, rg, skipping, done>>
exprVars == <<expr, arg, exprDone>>
idnVars == <<nametab, hash_tab, ccs, ecs, cells, blocks, got>>
pageVars == <<page, todo, pageLines, written>>
lineVars == <<line, spr, put, letters, lineOps, marks, old_state>>
textVars == <<tc, wordLines, inputs, cur, typed, spoilt>>
storeVars == <<refs, info, s_vals, comtab, sources, vars, defining, lost>>
envVars == <<env_tab, e, ie, old_env, oie, line_length, old_line_length, pushed>>
regVars == <<name_info, n_vals, world, rvars, popped>>

SourceTexts == {<<"a", " ", "b", "nl", ".", "m", " ", "a", "nl">>,
  <<"nl", ".", "b", "nl", "'", " ", "e", " ", "nl", "a">>,
  <<"nl", ".", "e">>,
  <<"m", " ", "\"", "a", " ", "b", "\"", " ", "b", "nl", "^S", "a", "!", "b">>,
  <<"(", "a", " ", "(", "b", ")", ")", "a">>,
  <<"^K", "a", "nl", "\\", "\\", ".", "^Q", ".", "\\", "n", "\\", "^A", "1", "a", "^K", "b", "nl">>,
  <<"^A", "1", "^N", "n", "!", "\\", "^S", "b", "!">>,
  <<"^N", "b", "!", "^N", "?", "b", "!", "^N", "+", "b", "!", "^N", "-", "a", "!", "^S", "?", "b", "!",
    "^S", "b", "!", "^S", "?", "b", "!", "nl">>}
ArrayTexts == << <<"a", "#", "1", "a", "0">>,
                 <<"#", "a", "1", " ", "#", "a", "0", "b", "#", "s", "a", "!">> >>
StringRegs == <<"a">> :> 1
NumberRegs == <<"n">> :> 3
Input == INSTANCE RInput WITH max_icb <- 8, NAcs <- 6, MacroArray <- 2, MaxTaken <- 3

FileTexts == {<<"NV", "call", "call">>, <<"be", "nv", "call", "en", "call">>,
              <<"if", "NV", "call", "ef", "be", "en", "call", "en">>, <<"nv", "be", "call", "NV">>}
MacroTexts == {<<"wh", "nv", "if", "bk", "en", "en">>, <<"fr", "be", "NV", "en", "nv", "en">>,
               <<"if", "wh", "be", "en", "en", "ef", "NV", "en">>, <<"be", "NV", "wh", "nv", "call", "en">>,
               <<"fr", "call", "if", "en", "ef", "bk", "en">>, <<"en", "NV", "if", "be">>, <<"if", "be">>}
Groups == INSTANCE RGroups WITH max_icb <- 3, ForLimit <- 2

Operands == {<<"1", ".", "5", "3">>, <<"~", "2">>, <<"(", "1", "-", "2", ")">>}
FewOperands == {<<"2">>}
SecondArgs == {<<"n">>, <<"1", ".", "2", "5">>}
Operators == {<<"+">>, <<"-">>, <<"*">>, <<"/">>, <<"&">>, <<"|">>, <<"%">>, <<"=", "=">>, <<"<">>,
              <<"<", "=">>}
Units == {<<>>, <<"i">>}
NumberRegisters == [c \in {"n"} |-> 3]
Expressions == INSTANCE RExpr WITH char_width <- 2, nhui <- 10

Spelled == {<<"a">>, <<"A", "b">>, <<"a", "?">>, <<"a", "b", "a", "b", "x">>, <<"x", "A">>, <<"b", "b">>}
Built == {<<"a">>, <<"b", "a">>}
Identifiers == INSTANCE RIdn WITH max_idn <- 6, BLKSIZE <- 6, MaxBlocks <- 3

Macros == ("hd" :> << <<"sp", 1>> >>) @@ ("ft" :> << <<"bp">> >>) @@ ("em" :> <<>>)
FirstTraps == << <<0, "hd">>, <<0, "em">>, <<4, "no">>, <<4, "ft">> >>
Written == {<<"text", "">>, <<"text", "full">>, <<"nl">>, <<"bp">>, <<"bpn", 3>>, <<"pn", 4>>, <<"sp", 1>>,
  <<"sp", 3>>, <<"ne", 3>>, <<"vp", 1>>, <<"ns", "s">>, <<"ns", "p">>, <<"rs">>, <<"bj">>, <<"br">>,
  <<"pl", 5>>, <<"st", "em", 2>>, <<"st", "em", 5>>, <<"rt", "hd">>, <<"rt", "em">>, <<"ct", "em", 3>>,
  <<"ct", "em", 1>>, <<"eo", 0>>, <<"eo", -1>>, <<"oo", 2>>, <<"enabled", TRUE>>, <<"enabled", FALSE>>}
Pages == INSTANCE RPage WITH DefaultHeight <- 1, MaxPages <- 4, MaxWritten <- 4, lines <- pageLines

Lines == INSTANCE RLines WITH line_length <- 8, space_width <- 1, tab_stops <- {4}, OffsetBias <- 100,
  MaxLetters <- 6, MaxLineOps <- 5, MaxMarks <- 2, e <- line

A == <<"text", "a">>
B == <<"text", "b">>
H == <<"h", 0>>
F(n) == <<"font", n>>
Scripts == {<<A>>, <<A, H, B>>, <<F(1), B, A, H, H, F(0), B, A>>, <<H, A, B, H, A>>}
Words == INSTANCE RText WITH tcstore_size <- 48, Reserve <- 22, gc_tab_size <- 2, Envs <- {1, 2},
  MaxTokens <- 2, lines <- wordLines

Store == INSTANCE RStore WITH Names <- {"env", "m"}, MaxTexts <- 3, MaxSources <- 2, MaxVars <- 1
Environments == INSTANCE REnv WITH max_env <- 2, FRSIZE <- 2, EnvNames <- {"text", "a"},
  Fonts <- {0, 1}, Indents <- {0}
NumberVars == INSTANCE RReg WITH Registers <- {"page", "adjust"}, Numbers <- {1, 507}, nhui <- 200,
  MaxRegVars <- 1
-----------------------------------------------------------------------------
Idle == "idle"
InputsIdle == inp = Idle /\ heard = Idle /\ taken = Idle
GroupsIdle == texts = Idle /\ rg = Idle /\ skipping = Idle /\ done = Idle
ExprIdle == expr = Idle /\ arg = Idle /\ exprDone = Idle
IdnIdle == /\ nametab = Idle /\ hash_tab = Idle /\ ccs = Idle /\ ecs = Idle /\ cells = Idle
           /\ blocks = Idle /\ got = Idle
PageIdle == page = Idle /\ todo = Idle /\ pageLines = Idle /\ written = Idle
LineIdle == /\ line = Idle /\ spr = Idle /\ put = Idle /\ letters = Idle /\ lineOps = Idle
            /\ marks = Idle /\ old_state = Idle
TextIdle == /\ tc = Idle /\ wordLines = Idle /\ inputs = Idle /\ cur = Idle /\ typed = Idle
            /\ spoilt = Idle
StoreIdle == /\ refs = Idle /\ info = Idle /\ s_vals = Idle /\ comtab = Idle /\ sources = Idle
             /\ vars = Idle /\ defining = Idle /\ lost = Idle
EnvIdle == /\ env_tab = Idle /\ e = Idle /\ ie = Idle /\ old_env = Idle /\ oie = Idle
           /\ line_length = Idle /\ old_line_length = Idle /\ pushed = Idle
RegIdle == name_info = Idle /\ n_vals = Idle /\ world = Idle /\ rvars = Idle /\ popped = Idle

MCInit ==
  /\ machine \in {"input", "groups", "expr", "idn", "page", "line", "text", "store", "env", "reg"}
  /\ IF machine = "input" THEN Input!InputsInit ELSE InputsIdle
  /\ IF machine = "groups" THEN Groups!GroupInit ELSE GroupsIdle
  /\ IF machine = "expr" THEN Expressions!ExprInit ELSE ExprIdle
  /\ IF machine = "idn" THEN Identifiers!IdnInit ELSE IdnIdle
  /\ IF machine = "page" THEN Pages!PageInit ELSE PageIdle
  /\ IF machine = "line" THEN Lines!LineInit ELSE LineIdle
  /\ IF machine = "text" THEN Words!TextInit ELSE TextIdle
  /\ IF machine = "store" THEN Store!StoreInit ELSE StoreIdle
  /\ IF machine = "env" THEN Environments!EnvInit ELSE EnvIdle
  /\ IF machine = "reg" THEN NumberVars!RegInit ELSE RegIdle

MCNext ==
  /\ UNCHANGED machine
  /\ \/ machine = "input" /\ Input!InputsNext
     \/ machine # "input" /\ UNCHANGED inputsVars
  /\ \/ machine = "groups" /\ Groups!GroupNext
     \/ machine # "groups" /\ UNCHANGED groupVars
  /\ \/ machine = "expr" /\ Expressions!Give
     \/ machine # "expr" /\ UNCHANGED exprVars
  /\ \/ machine = "idn" /\ Identifiers!IdnNext
     \/ machine # "idn" /\ UNCHANGED idnVars
  /\ \/ machine = "page" /\ Pages!PageNext
     \/ machine # "page" /\ UNCHANGED pageVars
  /\ \/ machine = "line" /\ Lines!LineNext
     \/ machine # "line" /\ UNCHANGED lineVars
  /\ \/ machine = "text" /\ Words!TextNext
     \/ machine # "text" /\ UNCHANGED textVars
  /\ \/ machine = "store" /\ Store!StoreNext
     \/ machine # "store" /\ UNCHANGED storeVars
  /\ \/ machine = "env" /\ Environments!EnvNext
     \/ machine # "env" /\ UNCHANGED envVars
  /\ \/ machine = "reg" /\ NumberVars!RegNext
     \/ machine # "reg" /\ UNCHANGED regVars

MCSpec ==
  MCInit /\ [][MCNext]_<<machine, inputsVars, groupVars, exprVars, idnVars, pageVars, lineVars, textVars,
                         storeVars, envVars, regVars>>
-----------------------------------------------------------------------------
(* What is read from the input is what its text means with its macros and  *)
(* registers inserted, and expressions have the value their operators give *)
(* them (rin1.c, rexpr.c).                                                 *)
ReadsTrue ==
  /\ machine = "input" => Input!InputRead
  /\ machine = "expr" => Expressions!NumbersRead

(* Statements nest as the sources do, and when all is read every register  *)
(* has its value back (rcntrl.c).                                          *)
GroupsKept == machine = "groups" => Groups!GroupsNested /\ Groups!VarsRestored

(* Lines come out with their words, within their margins; pages come out   *)
(* with their lines in place, and words of the text store are what was     *)
(* typed (rline.c, rtrap.c, rtext.c).                                      *)
OutputKept ==
  /\ machine = "line" => Lines!LinesKept
  /\ machine = "page" => Pages!PagesKept
  /\ machine = "text" => Words!WordsKept

(* No text is thrown away while something refers to it, no environment is  *)
(* changed by another, an identifier is in the table once, and registers   *)
(* get the values back that their variables saved (rreg.c, ridn.c, rreq1.c). *)
TablesKept ==
  /\ machine = "store" => Store!TextsHeld
  /\ machine = "env" => Environments!EnvsKept
  /\ machine = "idn" => Identifiers!NamesOnce
  /\ machine = "reg" => NumberVars!NumbersRestored

(* A loop goes back in its own macro only, and what is skipped ends where  *)
(* its reader sees it end; no trap is passed on the page (rcntrl.c,        *)
(* rtrap.c).                                                               *)
StepsTrue ==
  [][ /\ machine = "groups" => Groups!LoopStays /\ Groups!SkipEndsRight
      /\ machine = "page" => Pages!HeaderFirst /\ Pages!NoTrapPassed
      /\ machine = "idn" => Identifiers!NameStays ]_<<groupVars, pageVars, idnVars>>
=============================================================================
