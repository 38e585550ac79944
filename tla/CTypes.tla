--------------------------------- MODULE CTypes ---------------------------------
(***************************************************************************)
(* The types of the C compiler (src/src/c/c91.c, c23.c, c34.c).  A type is *)
(* the address of its descriptor in typtab, a table of words that the      *)
(* descriptors fill from the beginning and the lists of structure members  *)
(* from the end.  The parser writes the table, the code generator reads it *)
(* into one of its own at another address.                                 *)
(***************************************************************************)
EXTENDS Integers, Sequences, SequencesExt, FiniteSets

CONSTANTS TTSIZE,          \* the words of the table
          TableP, TableC,  \* its address in the parser and in the code generator
          tsize, talign,   \* sizes and alignment classes of TTCHAR to TTDOUBLE
          calign,          \* the alignment of each class
          tpoint,          \* the kind of pointer to each of them
          Lengths, Members, TypeNames, \* of arrays; of structures; names of structures
          MaxMembers,
          UsedTags         \* the kinds of types that declarations are made of

UNDEFINED == -1
TTCHAR == 0
TTINT == 1
TTFLOAT == 2
TTDOUBLE == 3
TTLONG == 4
TTUNSIGNED == 5
TTUNDEF == 6
TTCFIELD == 7
TTIFIELD == 8
TTPTR == 9
TTFUNC == 10
TTARRAY == 11
TTSTRUCT == 12
TTDUMMY == 13

typnval(tag) == CASE tag \in 0 .. 6 -> 0 [] tag = TTARRAY -> 2 [] OTHER -> 1
typform(tag) == CASE tag \in 0 .. 6 -> "none"
                  [] tag \in {TTCFIELD, TTIFIELD, TTDUMMY} -> "integer"
                  [] tag \in {TTPTR, TTFUNC} -> "type"
                  [] tag = TTARRAY -> "type, integer"
                  [] OTHER -> "members"

VARIABLES ty,     \* the table of the parser: its address, words, the ends of its two parts
          theirs  \* that of the code generator, when it has read what the parser has written

typeVars == <<ty, theirs>>

Word_(s, p) == s.words[p - s.typtab]
Tag(s, t) == Word_(s, t)
Size(s, t) == Word_(s, t + 1)
Align(s, t) == Word_(s, t + 2)
Val(s, t) == Word_(s, t + 3)
Nelem(s, t) == Word_(s, t + 4)
Sets_(s, p, w) == [s EXCEPT !.words[p - s.typtab] = w]
errx(s, n) == [s EXCEPT !.errors = @ \union {n}, !.dead = @ \/ n >= 4000]

\* The table grows by some words, at either end, unless the ends would cross.
typxh(s, ws) ==
  IF s.ctypp + Len(ws) > s.crecp THEN errx(s, 4006)
  ELSE [s EXCEPT !.ctypp = @ + Len(ws),
                 !.words = [i \in DOMAIN @ |-> IF i + s.typtab \in s.ctypp .. s.ctypp + Len(ws) - 1
                                               THEN ws[i + s.typtab - s.ctypp + 1] ELSE @[i]]]
recxl(s, ws) ==
  LET p == s.crecp - Len(ws) IN
  IF p < s.ctypp THEN errx(s, 4006)
  ELSE [s EXCEPT !.crecp = p,
                 !.words = [i \in DOMAIN @ |-> IF i + s.typtab \in p .. s.crecp - 1
                                               THEN ws[i + s.typtab - p + 1] ELSE @[i]]]

\* Mutant: the place before is taken.
alignDown(i, ac) == i - (i % calign[ac])
align(i, ac) == LET a == calign[ac] IN IF i % a = 0 THEN i ELSE (i + a) - (i % a)

\* Descriptors, in the order of the table; members of the list at `p', up to its end mark.
typscan(s, t) == t + 3 + typnval(Tag(s, t))
RECURSIVE From_(_, _), MembersAt(_, _)
From_(s, t) == IF t >= s.ctypp THEN <<>> ELSE <<t>> \o From_(s, typscan(s, t))
Descriptors(s) == From_(s, s.typtab)
MembersAt(s, p) == IF Word_(s, p) = UNDEFINED THEN <<>> ELSE <<p>> \o MembersAt(s, p + 3)

typequal(s, tag, v, t) == Tag(s, t) = tag /\ \A i \in 1 .. typnval(tag) : Word_(s, t + 2 + i) = v[i]
-----------------------------------------------------------------------------
RECURSIVE mktype(_, _, _), fixtype(_, _), FixMembers(_, _), Offsets(_, _, _)

Ptr(s, t) == mktype(s, TTPTR, <<t>>)

\* A structure: first the types of its members, then their offsets.  The size is
\* -2 meanwhile, so that it cannot contain itself.
FixMembers(s, ps) ==
  IF ps = <<>> \/ s.dead THEN s
  ELSE LET f == fixtype(s, Word_(s, Head(ps) + 1)) IN FixMembers(Sets_(f.s, Head(ps) + 1, f.t), Tail(ps))
Offsets(s, ps, offset) ==
  IF ps = <<>> THEN [s |-> s, end |-> offset]
  ELSE LET t == Word_(s, Head(ps) + 1)
           at == align(offset, Align(s, t))
       IN Offsets(Sets_(s, Head(ps) + 2, at), Tail(ps), at + Size(s, t))
LaidOut(m, t, ps) ==
  LET classes == {Align(m, Word_(m, ps[i] + 1)) : i \in DOMAIN ps} \union {0}
      salign == CHOOSE a \in classes : \A b \in classes : b <= a
      o == Offsets(Sets_(m, t + 2, salign), ps, 0)
  IN IF m.dead THEN m ELSE Sets_(o.s, t + 1, align(o.end, salign))
fixstr(s, t) ==
  LET ps == MembersAt(s, Val(s, t)) IN LaidOut(FixMembers(Sets_(s, t + 1, -2), ps), t, ps)

fixbtype(s, t, tag) == [s |-> Sets_(Sets_(s, t + 1, tsize[tag]), t + 2, talign[tag]), t |-> t]

\* An array, when its elements have been fixed.
fixarray(e, t) ==
  IF e.s.dead THEN e.s
  ELSE Sets_(Sets_(Sets_(e.s, t + 3, e.t), t + 1, Nelem(e.s, t) * Size(e.s, e.t)), t + 2, Align(e.s, e.t))

\* The size and alignment of a type; what cannot have any becomes a pointer.
fixtype(s, t) ==
  LET tag == Tag(s, t)
  IN CASE s.dead \/ Size(s, t) >= 0 -> [s |-> s, t |-> t]
       [] ~s.dead /\ Size(s, t) < 0 /\ tag = TTCFIELD -> fixbtype(s, t, TTCHAR)
       [] ~s.dead /\ Size(s, t) < 0 /\ tag \in {TTLONG, TTUNSIGNED, TTIFIELD, TTPTR} -> fixbtype(s, t, TTINT)
       [] ~s.dead /\ Size(s, t) < 0 /\ tag \in TTCHAR .. TTDOUBLE -> fixbtype(s, t, tag)
       [] ~s.dead /\ Size(s, t) < 0 /\ tag = TTUNDEF -> [s |-> Sets_(Sets_(s, t + 1, 0), t + 2, 0), t |-> t]
       [] ~s.dead /\ Size(s, t) < 0 /\ tag = TTARRAY -> [s |-> fixarray(fixtype(s, Val(s, t)), t), t |-> t]
       [] ~s.dead /\ Size(s, t) < 0 /\ tag = TTFUNC -> Ptr(errx(s, 1005), t)
       [] ~s.dead /\ Size(s, t) < 0 /\ tag = TTDUMMY -> Ptr(errx(s, 2040), t)
       [] ~s.dead /\ Size(s, t) = -2 /\ tag = TTSTRUCT -> Ptr(errx(s, 2019), t)
       [] OTHER -> [s |-> fixstr(s, t), t |-> t]

\* A function has no size, and that is not an error before it is used as an object.
Unsized(f) == [s |-> Sets_(f.s, f.t + 1, UNDEFINED), t |-> f.t]
typadd(s, tag, v) ==
  LET a == typxh(s, <<tag, IF tag = TTFUNC THEN 0 ELSE UNDEFINED, 0>> \o v)
  IN CASE a.dead -> [s |-> a, t |-> s.ctypp]
       [] ~a.dead /\ tag = TTFUNC -> Unsized(fixtype(a, s.ctypp))
       [] OTHER -> fixtype(a, s.ctypp)

mktype(s, tag, v) ==
  LET ts == Descriptors(s)
      same == SelectInSeq(ts, LAMBDA t : typequal(s, tag, v, t))
  IN CASE s.dead -> [s |-> s, t |-> s.typtab]
       [] ~s.dead /\ same # 0 -> [s |-> s, t |-> ts[same]]
       [] OTHER -> typadd(s, tag, v)

\* The types known to the compiler: at fixed places, as they are made first.
Basic(s, tag) == s.typtab + 3 * tag
typcinit(s) ==
  LET Known_ == [i \in 1 .. 7 |-> [tag |-> i - 1, v |-> <<>>]]
                  \o <<[tag |-> TTPTR, v |-> <<Basic(s, TTCHAR)>>], [tag |-> TTARRAY, v |-> <<Basic(s, TTCHAR), 1>>],
                       [tag |-> TTFUNC, v |-> <<Basic(s, TTINT)>>]>>
  IN FoldLeft(LAMBDA r, k : mktype(r, k.tag, k.v).s, s, Known_)

Returning(p) == mktype(p.s, TTFUNC, <<p.t>>)
mkfunc(s, t) ==
  Returning(CASE Tag(s, t) = TTCHAR -> [s |-> s, t |-> Basic(s, TTINT)]
              [] Tag(s, t) = TTFLOAT -> [s |-> s, t |-> Basic(s, TTDOUBLE)]
              [] Tag(s, t) \in {TTFUNC, TTARRAY, TTSTRUCT, TTDUMMY} -> Ptr(errx(s, 1004), t)
              [] OTHER -> [s |-> s, t |-> t])

mkdummy(s, n) == [s |-> typxh(s, <<TTDUMMY, UNDEFINED, 1, n>>), t |-> s.ctypp]

\* The members are given as names and types.
fixdummy(s, t, fs) ==
  LET r == recxl(s, FlattenSeq([i \in DOMAIN fs |-> <<fs[i].name, fs[i].type, UNDEFINED>>]) \o <<UNDEFINED>>) IN
  IF r.dead THEN r ELSE fixstr(Sets_(Sets_(r, t, TTSTRUCT), t + 3, r.crecp), t)
mkstruct(s, fs) == LET d == mkdummy(s, 0) IN IF d.s.dead THEN d.s ELSE fixdummy(d.s, d.t, fs)

(* What the generated code can hold: the kind of an object or pointer.     *)
RECURSIVE remarr(_, _)
remarr(s, t) == IF Tag(s, t) = TTARRAY THEN remarr(s, Val(s, t)) ELSE t
ctype(s, t) ==
  LET r == IF Tag(s, t) = TTFUNC THEN Val(s, t) ELSE t
      e == remarr(s, Val(s, r))
      same == {tag \in DOMAIN talign : talign[tag] = Align(s, e)}
  IN CASE Tag(s, r) \in {TTCHAR, TTINT, TTFLOAT, TTDOUBLE, TTSTRUCT} -> <<"object", Tag(s, r)>>
       [] Tag(s, r) # TTPTR /\ Tag(s, r) \notin {TTCHAR, TTINT, TTFLOAT, TTDOUBLE, TTSTRUCT} -> <<"bad", 0>>
       [] Tag(s, r) = TTPTR /\ Tag(s, e) \in {TTCHAR, TTFLOAT, TTDOUBLE} -> <<"pointer", tpoint[Tag(s, e)]>>
       [] Tag(s, r) = TTPTR /\ Tag(s, e) = TTSTRUCT /\ same # {} ->
            <<"pointer", tpoint[CHOOSE tag \in same : \A o \in same : tag <= o]>>
       [] OTHER -> <<"pointer", tpoint[TTINT]>>
-----------------------------------------------------------------------------
(* The file of the table: addresses as offsets, those of members from the  *)
(* end of it.                                                              *)
etypp(s) == s.typtab + TTSIZE
tp2o(s, t) == t - s.typtab
rp2o(s, p) == etypp(s) - p
to2p(s, i) == s.typtab + i
ro2p(s, i) == etypp(s) - i

RECURSIVE Lists(_, _), ReadTypes(_, _, _), ReadLists(_, _, _)
Lists(s, p) ==
  CASE p >= etypp(s) -> <<>>
    [] p < etypp(s) /\ Word_(s, p) = UNDEFINED -> <<UNDEFINED>> \o Lists(s, p + 1)
    [] OTHER -> <<Word_(s, p), tp2o(s, Word_(s, p + 1)), Word_(s, p + 2)>> \o Lists(s, p + 3)
wtyptab(s) ==
  LET Of(t) == <<Tag(s, t), Size(s, t), Align(s, t)>> \o
               (CASE typform(Tag(s, t)) = "integer" -> <<Val(s, t)>>
                  [] typform(Tag(s, t)) = "type" -> <<tp2o(s, Val(s, t))>>
                  [] typform(Tag(s, t)) = "type, integer" -> <<tp2o(s, Val(s, t)), Nelem(s, t)>>
                  [] typform(Tag(s, t)) = "members" -> <<rp2o(s, Val(s, t))>>
                  [] OTHER -> <<>>)
      ts == Descriptors(s)
  IN <<s.ctypp - s.typtab>> \o FlattenSeq([i \in DOMAIN ts |-> Of(ts[i])])
     \o <<etypp(s) - s.crecp>> \o Lists(s, s.crecp)

\* Reading: `f' is what is left of the file, `p' the word that comes next.
ReadTypes(s, f, p) ==
  IF p >= s.ctypp THEN [s |-> s, f |-> f]
  ELSE LET form == typform(f[1])
           v == CASE form = "integer" -> <<f[4]>>
                  [] form = "type" -> <<to2p(s, f[4])>>
                  [] form = "type, integer" -> <<to2p(s, f[4]), f[5]>>
                  [] form = "members" -> <<ro2p(s, f[4])>>
                  [] OTHER -> <<>>
           ws == SubSeq(f, 1, 3) \o v
           r == [s EXCEPT !.words = [i \in DOMAIN @ |-> IF i + s.typtab \in p .. p + Len(ws) - 1
                                                        THEN ws[i + s.typtab - p + 1] ELSE @[i]]]
       IN ReadTypes(r, SubSeq(f, Len(ws) + 1, Len(f)), p + Len(ws))
ReadLists(s, f, p) ==
  CASE p >= etypp(s) -> s
    [] p < etypp(s) /\ f[1] = UNDEFINED -> ReadLists(Sets_(s, p, UNDEFINED), Tail(f), p + 1)
    [] OTHER -> ReadLists(Sets_(Sets_(Sets_(s, p, f[1]), p + 1, to2p(s, f[2])), p + 2, f[3]),
                          SubSeq(f, 4, Len(f)), p + 3)
NoTable(at) ==
  [typtab |-> at, words |-> [i \in 0 .. TTSIZE - 1 |-> 0], ctypp |-> at, crecp |-> at + TTSIZE,
   dead |-> FALSE, errors |-> {}]
ReadRest(r) ==
  LET crecp == ro2p(r.s, r.f[1]) IN ReadLists([r.s EXCEPT !.crecp = crecp], Tail(r.f), crecp)
rtyptab(f) ==
  LET s == NoTable(TableC) IN ReadRest(ReadTypes([s EXCEPT !.ctypp = to2p(s, f[1])], Tail(f), TableC))
-----------------------------------------------------------------------------
TypesInit == ty = typcinit(NoTable(TableP)) /\ theirs = NoTable(TableC)

Known == ToSet(Descriptors(ty))
Used_ == {t \in Known : Tag(ty, t) \in UsedTags}
Goes(s) == ty' = (IF s.dead THEN [ty EXCEPT !.dead = TRUE, !.errors = s.errors] ELSE s) /\ UNCHANGED theirs
Runs_ == ~ty.dead /\ theirs.ctypp = TableC

makePointer == Runs_ /\ \E t \in Used_ : Goes(Ptr(ty, t).s)
makeFunction == Runs_ /\ \E t \in Used_ : Goes(mkfunc(ty, t).s)
makeArray == Runs_ /\ \E t \in Used_, n \in Lengths : Goes(mktype(ty, TTARRAY, <<t, n>>).s)
nameStructure == Runs_ /\ \E n \in TypeNames : Goes(mkdummy(ty, n).s)
MemberLists == UNION {[1 .. k -> {[name |-> n, type |-> t] : n \in Members, t \in Used_}] : k \in 1 .. MaxMembers}
makeStructure == Runs_ /\ \E fs \in MemberLists : Goes(mkstruct(ty, fs))
defineStructure == Runs_ /\ \E t \in Used_, fs \in MemberLists : Tag(ty, t) = TTDUMMY /\ Goes(fixdummy(ty, t, fs))

\* The parser ends, and the code generator begins.
passTable == Runs_ /\ theirs' = rtyptab(wtyptab(ty)) /\ UNCHANGED ty

TypesNext ==
  makePointer \/ makeFunction \/ makeArray \/ nameStructure \/ makeStructure \/ defineStructure \/ passTable
TypesSpec == TypesInit /\ [][TypesNext]_typeVars
=============================================================================
