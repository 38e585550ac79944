------------------------------ MODULE YParse_proofs ----------------------------
(***************************************************************************)
(* The parser loses no token, for every grammar and text.  What carries    *)
(* the proof is Holds: the token buffer is a window of the input, so that  *)
(* what tkeem and the skips of a recovery take out of it is known by       *)
(* number; and StackHolds: each state of the stack is a step of the        *)
(* automaton from the one below, so that a reduction finds what it takes.  *)
(***************************************************************************)
EXTENDS YParse, FiniteSets, SequenceTheorems, TLAPS

Item == [st : States, v : SUBSET Nat]
Cluster == [tokbuf : [0 .. tbsize - 1 -> Nat], ct : Nat, twp : Nat, got : Nat]

\* The buffer as its own operations leave it.
Holds(b) ==
  /\ b \in Cluster
  /\ b.ct < b.twp /\ b.twp <= tbsize /\ b.twp <= b.got
  /\ \A i \in 0 .. b.twp - 1 : b.tokbuf[i] = b.got - b.twp + 1 + i

LEMMA TokHolds ==
  ASSUME NEW b, Holds(b), NEW i \in Nat, b.ct + i < tbsize
  PROVE  /\ Holds(tok(b, i)) /\ tok(b, i).ct = b.ct /\ tok(b, i).twp > b.ct + i
         /\ tok(b, i).twp >= b.twp
         /\ \A k \in 0 .. b.twp - 1 : tok(b, i).tokbuf[k] = b.tokbuf[k]
<1>0. /\ b.ct \in Nat /\ b.twp \in Nat /\ b.got \in Nat
      /\ tbsize \in Nat /\ tbsize >= 5 /\ b.ct < b.twp /\ b.twp <= tbsize /\ b.twp <= b.got
  BY TokenAssumption DEF Holds, Cluster
<1>f. b.tokbuf \in [0 .. tbsize - 1 -> Nat]
  BY DEF Holds, Cluster
<1>q. \A k \in 0 .. b.twp - 1 : b.tokbuf[k] = b.got - b.twp + 1 + k
  BY DEF Holds
<1> DEFINE n == b.ct + i + 1 - b.twp
<1>1. CASE n <= 0
  <2>1. tok(b, i) = b
    BY <1>1 DEF tok
  <2> QED BY <1>0, <1>1, <2>1
<1>2. CASE ~(n <= 0)
  <2> DEFINE f == [k \in 0 .. tbsize - 1 |->
                     IF k \in b.twp .. b.twp + n - 1 THEN b.got + 1 + k - b.twp ELSE b.tokbuf[k]]
  <2>1. tok(b, i) = [tokbuf |-> f, ct |-> b.ct, twp |-> b.twp + n, got |-> b.got + n]
    BY <1>2 DEF tok
  <2> HIDE DEF f
  <2>2. n \in Nat /\ n > 0 /\ b.twp + n <= tbsize /\ b.twp + n = b.ct + i + 1
    BY <1>0, <1>2
  <2> HIDE DEF n
  <2>3. ASSUME NEW k \in 0 .. tbsize - 1
        PROVE  /\ k \in b.twp .. b.twp + n - 1 => f[k] = b.got + 1 + k - b.twp
               /\ k \notin b.twp .. b.twp + n - 1 => f[k] = b.tokbuf[k]
    BY DEF f
  <2>4. f \in [0 .. tbsize - 1 -> Nat]
    <3>1. ASSUME NEW k \in 0 .. tbsize - 1
          PROVE  f[k] \in Nat
      <4>1. k \in b.twp .. b.twp + n - 1 => b.got + 1 + k - b.twp \in Nat
        BY <1>0, <2>2
      <4>2. b.tokbuf[k] \in Nat
        BY <1>f
      <4> QED BY <2>3, <4>1, <4>2
    <3> QED BY <3>1 DEF f
  <2>5. ASSUME NEW k \in 0 .. b.twp - 1
        PROVE  f[k] = b.tokbuf[k]
    <3>1. k \in 0 .. tbsize - 1 /\ k \notin b.twp .. b.twp + n - 1
      BY <1>0, <2>2
    <3> QED BY <2>3, <3>1
  <2>6. ASSUME NEW k \in 0 .. b.twp + n - 1
        PROVE  f[k] = b.got + n - (b.twp + n) + 1 + k
    <3>1. CASE k < b.twp
      <4>1. k \in 0 .. b.twp - 1
        BY <1>0, <2>2, <3>1
      <4>2. f[k] = b.got - b.twp + 1 + k
        BY <1>q, <2>5, <4>1
      <4> QED BY <1>0, <2>2, <4>2
    <3>2. CASE ~(k < b.twp)
      <4>1. k \in 0 .. tbsize - 1 /\ k \in b.twp .. b.twp + n - 1
        BY <1>0, <2>2, <3>2
      <4>2. f[k] = b.got + 1 + k - b.twp
        BY <2>3, <4>1
      <4> QED BY <1>0, <2>2, <4>2
    <3> QED BY <3>1, <3>2
  <2> HIDE DEF f
  <2>7. /\ tok(b, i).tokbuf = f /\ tok(b, i).ct = b.ct /\ tok(b, i).twp = b.twp + n
        /\ tok(b, i).got = b.got + n /\ tok(b, i) \in Cluster
    <3>1. b.twp + n \in Nat /\ b.got + n \in Nat
      BY <1>0, <2>2
    <3> QED BY <1>0, <2>1, <2>4, <3>1 DEF Cluster
  <2>8. Holds(tok(b, i))
    <3>1. b.ct < b.twp + n /\ b.twp + n <= tbsize /\ b.twp + n <= b.got + n
      BY <1>0, <2>2
    <3>2. ASSUME NEW k \in 0 .. tok(b, i).twp - 1
          PROVE  tok(b, i).tokbuf[k] = tok(b, i).got - tok(b, i).twp + 1 + k
      <4>1. tok(b, i).twp = b.twp + n /\ tok(b, i).tokbuf = f /\ tok(b, i).got = b.got + n
        BY <2>7
      <4>2. tok(b, i).twp - 1 = b.twp + n - 1
        BY <1>0, <2>2, <4>1
      <4>3. k \in 0 .. b.twp + n - 1
        BY <4>2
      <4>4. f[k] = b.got + n - (b.twp + n) + 1 + k
        BY <2>6, <4>3
      <4>5. tok(b, i).got - tok(b, i).twp + 1 + k = b.got + n - (b.twp + n) + 1 + k
        BY <1>0, <2>2, <4>1
      <4> QED BY <4>1, <4>4, <4>5
    <3> QED BY <2>7, <3>1, <3>2 DEF Holds
  <2>9. b.twp + n > b.ct + i /\ b.twp + n >= b.twp
    BY <1>0, <2>2
  <2> QED BY <2>5, <2>7, <2>8, <2>9
<1> QED BY <1>1, <1>2

LEMMA CtokHolds ==
  ASSUME NEW b, Holds(b), NEW i \in Nat, b.ct + i < tbsize
  PROVE  /\ Holds(ctok(b, i)) /\ ctok(b, i).ct = b.ct + i
         /\ ctok(b, i).tokbuf[0] = b.tokbuf[0]
<1> DEFINE t == tok(b, i)
<1>1. /\ Holds(t) /\ t.ct = b.ct /\ t.twp > b.ct + i /\ t.tokbuf[0] = b.tokbuf[0]
  <2>1. 0 \in 0 .. b.twp - 1
    BY DEF Holds, Cluster
  <2> QED BY <2>1, TokHolds
<1>2. ctok(b, i) = [t EXCEPT !.ct = b.ct + i]
  BY DEF ctok
<1> HIDE DEF t
<1>3. /\ ctok(b, i) \in Cluster /\ ctok(b, i).ct = b.ct + i /\ ctok(b, i).tokbuf = t.tokbuf
      /\ ctok(b, i).twp = t.twp /\ ctok(b, i).got = t.got
  <2>1. b.ct + i \in Nat
    BY DEF Holds, Cluster
  <2> QED BY <1>1, <1>2, <2>1 DEF Holds, Cluster
<1> QED BY <1>1, <1>3 DEF Holds

\* The cluster begun again from its first token.
LEMMA ResetHolds ==
  ASSUME NEW b, Holds(b)
  PROVE  /\ Holds([b EXCEPT !.ct = 0]) /\ [b EXCEPT !.ct = 0].ct = 0
         /\ [b EXCEPT !.ct = 0].tokbuf = b.tokbuf
<1> DEFINE r == [b EXCEPT !.ct = 0]
<1>1. /\ r \in Cluster /\ r.ct = 0 /\ r.tokbuf = b.tokbuf /\ r.twp = b.twp /\ r.got = b.got
  BY DEF Holds, Cluster
<1> HIDE DEF r
<1>2. Holds(r)
  BY <1>1 DEF Holds, Cluster
<1> QED BY <1>1, <1>2 DEF r

LEMMA LexHolds ==
  ASSUME NEW b, Holds(b), ~Overflows(b), errmode \in BOOLEAN
  PROVE  /\ Holds(lex(b)) /\ lex(b).tokbuf[lex(b).ct] = b.tokbuf[b.ct] + 1
         /\ errmode => lex(b).ct = b.ct + 1 /\ lex(b).tokbuf[0] = b.tokbuf[0]
<1>0. /\ b.ct \in Nat /\ b.twp \in Nat /\ b.got \in Nat
      /\ tbsize \in Nat /\ tbsize >= 5 /\ b.ct < b.twp /\ b.twp <= tbsize /\ b.twp <= b.got
  BY TokenAssumption DEF Holds, Cluster
<1>f. b.tokbuf \in [0 .. tbsize - 1 -> Nat]
  BY DEF Holds, Cluster
<1>q. \A k \in 0 .. b.twp - 1 : b.tokbuf[k] = b.got - b.twp + 1 + k
  BY DEF Holds
<1>1. CASE b.ct + 1 < b.twp
  <2>1. lex(b) = [b EXCEPT !.ct = b.ct + 1]
    BY <1>1 DEF lex
  <2>2. /\ lex(b) \in Cluster /\ lex(b).ct = b.ct + 1 /\ lex(b).tokbuf = b.tokbuf
        /\ lex(b).twp = b.twp /\ lex(b).got = b.got
    BY <1>0, <2>1 DEF Holds, Cluster
  <2>3. Holds(lex(b))
    BY <1>1, <1>q, <2>2 DEF Holds
  <2>4. b.ct \in 0 .. b.twp - 1 /\ b.ct + 1 \in 0 .. b.twp - 1
    BY <1>0, <1>1
  <2>5. b.tokbuf[b.ct] = b.got - b.twp + 1 + b.ct /\ b.tokbuf[b.ct + 1] = b.got - b.twp + 1 + (b.ct + 1)
    BY <1>q, <2>4
  <2>6. b.tokbuf[b.ct + 1] = b.tokbuf[b.ct] + 1
    BY <1>0, <2>5
  <2> QED BY <2>2, <2>3, <2>6
<1>2. CASE ~(b.ct + 1 < b.twp)
  <2> DEFINE k == IF errmode THEN b.twp ELSE 0
             f == [b.tokbuf EXCEPT ![k] = b.got + 1]
  <2> HIDE DEF f
  <2>1. lex(b) = [tokbuf |-> f, ct |-> k, twp |-> k + 1, got |-> b.got + 1]
    BY <1>2 DEF lex, Fresh, f
  <2>2. k \in Nat /\ k < tbsize /\ k <= b.got /\ b.ct + 1 = b.twp
    BY <1>0, <1>2 DEF Overflows
  <2>3. errmode => k = b.twp
    OBVIOUS
  <2>4. ~errmode => k = 0
    OBVIOUS
  <2> HIDE DEF k
  <2>5. /\ f \in [0 .. tbsize - 1 -> Nat] /\ f[k] = b.got + 1
        /\ \A i \in 0 .. tbsize - 1 : i # k => f[i] = b.tokbuf[i]
    <3>1. k \in 0 .. tbsize - 1 /\ b.got + 1 \in Nat
      BY <1>0, <2>2
    <3> QED BY <1>f, <3>1 DEF f
  <2>6. /\ lex(b) \in Cluster /\ lex(b).ct = k /\ lex(b).tokbuf = f
        /\ lex(b).twp = k + 1 /\ lex(b).got = b.got + 1
    <3>1. k + 1 \in Nat /\ b.got + 1 \in Nat
      BY <1>0, <2>2
    <3> QED BY <2>1, <2>2, <2>5, <3>1 DEF Cluster
  <2>7. ASSUME NEW i \in 0 .. k
        PROVE  f[i] = b.got + 1 - (k + 1) + 1 + i
    <3>1. CASE i = k
      <4>1. f[i] = b.got + 1
        BY <2>5, <3>1
      <4> QED BY <1>0, <2>2, <3>1, <4>1
    <3>2. CASE i # k
      <4>1. k = b.twp /\ i \in 0 .. b.twp - 1 /\ i \in 0 .. tbsize - 1
        BY <1>0, <2>2, <2>3, <2>4, <3>2
      <4>2. f[i] = b.got - b.twp + 1 + i
        BY <1>q, <2>5, <3>2, <4>1
      <4> QED BY <1>0, <4>1, <4>2
    <3> QED BY <3>1, <3>2
  <2>8. Holds(lex(b))
    <3>1. ASSUME NEW i \in 0 .. lex(b).twp - 1
          PROVE  lex(b).tokbuf[i] = lex(b).got - lex(b).twp + 1 + i
      <4>1. lex(b).twp = k + 1 /\ lex(b).tokbuf = f /\ lex(b).got = b.got + 1
        BY <2>6
      <4>2. lex(b).twp - 1 = k
        BY <2>2, <4>1
      <4>3. i \in 0 .. k
        BY <4>2
      <4>4. f[i] = b.got + 1 - (k + 1) + 1 + i
        BY <2>7, <4>3
      <4>5. lex(b).got - lex(b).twp + 1 + i = b.got + 1 - (k + 1) + 1 + i
        BY <1>0, <2>2, <4>1
      <4> QED BY <4>1, <4>4, <4>5
    <3>2. k < k + 1 /\ k + 1 <= tbsize /\ k + 1 <= b.got + 1
      BY <1>0, <2>2
    <3> QED BY <2>6, <3>1, <3>2 DEF Holds
  <2>9. b.tokbuf[b.ct] = b.got
    <3>1. b.ct \in 0 .. b.twp - 1
      BY <1>0
    <3>2. b.tokbuf[b.ct] = b.got - b.twp + 1 + b.ct
      BY <1>q, <3>1
    <3> QED BY <1>0, <2>2, <3>2
  <2>10. errmode => k = b.ct + 1 /\ f[0] = b.tokbuf[0]
    <3>1. 0 \in 0 .. tbsize - 1 /\ (errmode => 0 # k)
      BY <1>0, <2>2, <2>3
    <3> QED BY <2>2, <2>3, <2>5, <3>1
  <2> QED BY <2>5, <2>6, <2>8, <2>9, <2>10
<1> QED BY <1>1, <1>2

LEMMA TkeemHolds ==
  ASSUME NEW b, Holds(b)
  PROVE  Holds(tkeem(b)) /\ tkeem(b).ct = 0 /\ tkeem(b).tokbuf[0] = b.tokbuf[b.ct]
<1>0. /\ b.ct \in Nat /\ b.twp \in Nat /\ b.got \in Nat
      /\ tbsize \in Nat /\ tbsize >= 5 /\ b.ct < b.twp /\ b.twp <= tbsize /\ b.twp <= b.got
  BY TokenAssumption DEF Holds, Cluster
<1>f. b.tokbuf \in [0 .. tbsize - 1 -> Nat]
  BY DEF Holds, Cluster
<1>q. \A k \in 0 .. b.twp - 1 : b.tokbuf[k] = b.got - b.twp + 1 + k
  BY DEF Holds
<1> DEFINE f == [k \in 0 .. tbsize - 1 |-> IF k < b.twp - b.ct THEN b.tokbuf[k + b.ct] ELSE b.tokbuf[k]]
<1> HIDE DEF f
<1>1. tkeem(b) = [tokbuf |-> f, ct |-> 0, twp |-> b.twp - b.ct, got |-> b.got]
  BY DEF tkeem, f
<1>2. ASSUME NEW k \in 0 .. tbsize - 1
      PROVE  f[k] = IF k < b.twp - b.ct THEN b.tokbuf[k + b.ct] ELSE b.tokbuf[k]
  BY DEF f
<1>3. f \in [0 .. tbsize - 1 -> Nat]
  <2>1. ASSUME NEW k \in 0 .. tbsize - 1
        PROVE  f[k] \in Nat
    <3>1. k < b.twp - b.ct => k + b.ct \in 0 .. tbsize - 1
      BY <1>0
    <3>2. (k < b.twp - b.ct => b.tokbuf[k + b.ct] \in Nat) /\ b.tokbuf[k] \in Nat
      BY <1>f, <3>1
    <3> QED BY <1>2, <3>2
  <2> QED BY <2>1 DEF f
<1>4. ASSUME NEW k \in 0 .. b.twp - b.ct - 1
      PROVE  f[k] = b.tokbuf[k + b.ct] /\ f[k] = b.got - (b.twp - b.ct) + 1 + k
  <2>1. k \in 0 .. tbsize - 1 /\ k < b.twp - b.ct /\ k + b.ct \in 0 .. b.twp - 1
    BY <1>0
  <2>2. f[k] = b.tokbuf[k + b.ct] /\ b.tokbuf[k + b.ct] = b.got - b.twp + 1 + (k + b.ct)
    BY <1>2, <1>q, <2>1
  <2>3. b.got - b.twp + 1 + (k + b.ct) = b.got - (b.twp - b.ct) + 1 + k
    BY <1>0
  <2> QED BY <2>2, <2>3
<1>5. b.twp - b.ct \in Nat /\ 0 < b.twp - b.ct /\ b.twp - b.ct <= tbsize /\ b.twp - b.ct <= b.got
      /\ 0 \in 0 .. b.twp - b.ct - 1 /\ 0 + b.ct = b.ct
  BY <1>0
<1>6. /\ tkeem(b) \in Cluster /\ tkeem(b).ct = 0 /\ tkeem(b).tokbuf = f
      /\ tkeem(b).twp = b.twp - b.ct /\ tkeem(b).got = b.got
  BY <1>0, <1>1, <1>3, <1>5 DEF Cluster
<1>7. Holds(tkeem(b))
  <2>1. \A k \in 0 .. tkeem(b).twp - 1 : tkeem(b).tokbuf[k] = tkeem(b).got - tkeem(b).twp + 1 + k
    BY <1>4, <1>6
  <2> QED BY <1>5, <1>6, <2>1 DEF Holds
<1> QED BY <1>4, <1>5, <1>6, <1>7

LEMMA PrintedHolds ==
  ASSUME NEW b, Holds(b), b.ct = 0
  PROVE  Holds(Printed(b)) /\ Printed(b).ct = 0 /\ Printed(b).tokbuf[0] = b.tokbuf[0]
<1>1. \E i \in 0 .. 4 : Printed(b) = tok(b, i)
  <2> DEFINE ends == {i \in 0 .. 4 : Type(tok(b, 4).tokbuf[i]) = Eof}
  <2>1. CASE ends = {}
    BY <2>1 DEF Printed
  <2>2. CASE ends # {}
    <3> DEFINE x == CHOOSE i \in ends : \A j \in ends : i <= j
    <3>1. \E i \in ends : \A j \in ends : i <= j
      <4>1. \/ 0 \in ends \/ 1 \in ends \/ 2 \in ends \/ 3 \in ends \/ 4 \in ends
        BY <2>2
      <4>2. \A j \in ends : j \in 0 .. 4
        OBVIOUS
      <4> HIDE DEF ends
      <4>3. \A j \in ends : j = 0 \/ j = 1 \/ j = 2 \/ j = 3 \/ j = 4
        BY <4>2
      <4> QED BY <4>1, <4>3
    <3>2. x \in ends
      BY <3>1
    <3>3. Printed(b) = tok(b, x)
      BY <2>2 DEF Printed
    <3> HIDE DEF x
    <3> QED BY <3>2, <3>3
  <2> QED BY <2>1, <2>2
<1>2. PICK i \in 0 .. 4 : Printed(b) = tok(b, i)
  BY <1>1
<1>3. i \in Nat /\ b.ct + i < tbsize /\ 0 \in 0 .. b.twp - 1
  BY TokenAssumption DEF Holds, Cluster
<1>4. /\ Holds(tok(b, i)) /\ tok(b, i).ct = b.ct
      /\ \A k \in 0 .. b.twp - 1 : tok(b, i).tokbuf[k] = b.tokbuf[k]
  BY <1>3, TokHolds
<1> QED BY <1>2, <1>3, <1>4

-----------------------------------------------------------------------------
\* The stack.
LEMMA TopHas ==
  ASSUME NEW k \in Seq(Item), NEW n \in 0 .. Len(k)
  PROVE  /\ Top(k, n) \in Seq(Item) /\ Len(Top(k, n)) = Len(k) - n
         /\ \A i \in 1 .. Len(k) - n : Top(k, n)[i] = k[i]
<1>1. Len(k) \in Nat /\ Len(k) - n \in 0 .. Len(k)
  OBVIOUS
<1> QED BY <1>1 DEF Top

LEMMA PushHas ==
  ASSUME NEW k \in Seq(Item), NEW x \in Item
  PROVE  /\ Append(k, x) \in Seq(Item) /\ Len(Append(k, x)) = Len(k) + 1
         /\ \A i \in 1 .. Len(k) : Append(k, x)[i] = k[i]
         /\ Append(k, x)[Len(k) + 1] = x
OBVIOUS

LEMMA PathTop ==
  ASSUME NEW k \in Seq(Item), Path(k), NEW n \in 0 .. Len(k) - 1
  PROVE  Path(Top(k, n))
<1> DEFINE t == Top(k, n)
<1>0. Len(k) \in Nat /\ n \in Nat /\ n < Len(k)
  BY DEF Path
<1>1. n \in 0 .. Len(k)
  BY <1>0
<1>2. t \in Seq(Item) /\ Len(t) = Len(k) - n /\ (\A i \in 1 .. Len(k) - n : t[i] = k[i])
  BY <1>1, TopHas
<1> HIDE DEF t
<1>3. Len(t) \in Nat /\ Len(t) > 0 /\ 1 \in 1 .. Len(k) - n
  BY <1>0, <1>2
<1>4. t[1].st = Start
  BY <1>2, <1>3 DEF Path
<1>5. ASSUME NEW i \in 1 .. Len(t)
      PROVE  t[i].st \in States /\ Depth[t[i].st] < i
  <2>1. i \in 1 .. Len(k) /\ i \in 1 .. Len(k) - n
    BY <1>0, <1>2
  <2> QED BY <1>2, <2>1 DEF Path
<1>6. ASSUME NEW i \in 1 .. Len(t) - 1
      PROVE  Edge(t[i].st, t[i + 1].st)
  <2>1. i \in 1 .. Len(k) - 1 /\ i \in 1 .. Len(k) - n /\ i + 1 \in 1 .. Len(k) - n
    BY <1>0, <1>2
  <2>2. t[i] = k[i] /\ t[i + 1] = k[i + 1]
    BY <1>2, <2>1
  <2> QED BY <2>1, <2>2 DEF Path
<1> QED BY <1>3, <1>4, <1>5, <1>6 DEF Path, t

LEMMA PathPush ==
  ASSUME NEW k \in Seq(Item), Path(k), NEW q \in States, NEW v \in SUBSET Nat,
         Edge(k[Len(k)].st, q)
  PROVE  /\ Append(k, [st |-> q, v |-> v]) \in Seq(Item)
         /\ Path(Append(k, [st |-> q, v |-> v]))
<1> DEFINE x == [st |-> q, v |-> v]
           t == Append(k, x)
<1>0. Len(k) \in Nat /\ Len(k) > 0 /\ Len(k) \in 1 .. Len(k)
  BY DEF Path
<1>1. x \in Item /\ x.st = q
  BY DEF Item
<1> HIDE DEF x
<1>2. /\ t \in Seq(Item) /\ Len(t) = Len(k) + 1
      /\ (\A i \in 1 .. Len(k) : t[i] = k[i]) /\ t[Len(k) + 1] = x
  BY <1>1, PushHas
<1> HIDE DEF t
<1>3. k[Len(k)].st \in States /\ Depth[k[Len(k)].st] < Len(k)
  BY <1>0 DEF Path
<1>4. Depth[q] <= Depth[k[Len(k)].st] + 1
  BY <1>3, TableAssumption
<1>5. Depth[q] \in Nat /\ Depth[k[Len(k)].st] \in Nat
  BY <1>3, TableAssumption
<1>6. Depth[q] < Len(k) + 1
  BY <1>0, <1>3, <1>4, <1>5
<1>7. ASSUME NEW i \in 1 .. Len(t)
      PROVE  t[i].st \in States /\ Depth[t[i].st] < i
  <2>1. i \in 1 .. Len(k) \/ i = Len(k) + 1
    BY <1>0, <1>2
  <2>2. CASE i \in 1 .. Len(k)
    BY <1>2, <2>2 DEF Path
  <2>3. CASE i = Len(k) + 1
    BY <1>1, <1>2, <1>6, <2>3
  <2> QED BY <2>1, <2>2, <2>3
<1>8. ASSUME NEW i \in 1 .. Len(t) - 1
      PROVE  Edge(t[i].st, t[i + 1].st)
  <2>1. i \in 1 .. Len(k) /\ (i = Len(k) \/ (i \in 1 .. Len(k) - 1 /\ i + 1 \in 1 .. Len(k)))
    BY <1>0, <1>2
  <2>2. CASE i = Len(k)
    BY <1>1, <1>2, <2>1, <2>2
  <2>3. CASE i \in 1 .. Len(k) - 1 /\ i + 1 \in 1 .. Len(k)
    <3>1. t[i] = k[i] /\ t[i + 1] = k[i + 1]
      BY <1>2, <2>1, <2>3
    <3> QED BY <2>3, <3>1 DEF Path
  <2> QED BY <2>1, <2>2, <2>3
<1>9. t[1].st = Start /\ Len(t) > 0
  <2>1. 1 \in 1 .. Len(k)
    BY <1>0
  <2> QED BY <1>0, <1>2, <2>1 DEF Path
<1> QED BY <1>2, <1>7, <1>8, <1>9 DEF Path, t, x

(* A reduction finds the phrase it makes on the stack.                     *)
LEMMA PathReduces ==
  ASSUME NEW k \in Seq(Item), Path(k), NEW t \in Types, NEW n \in Rules,
         Act[k[Len(k)].st][t] = Reduces(n)
  PROVE  /\ r2[n] \in 0 .. Len(k) - 1
         /\ <<Top(k, r2[n])[Len(Top(k, r2[n]))].st, r1[n]>> \in DOMAIN Goto
<1> DEFINE r == r2[n]
           p == k[Len(k)].st
           w == [i \in 0 .. r |-> k[Len(k) - r + i].st]
<1>0. Len(k) \in Nat /\ Len(k) > 0 /\ Len(k) \in 1 .. Len(k)
  BY DEF Path
<1>1. p \in States /\ Depth[p] < Len(k) /\ r \in Nat /\ r <= Depth[p]
  BY <1>0, TableAssumption DEF Path
<1>2. Depth[p] \in Nat
  BY <1>1, TableAssumption
<1>3. \A ww \in [0 .. r -> States] :
         ww[r] = p /\ (\A i \in 1 .. r : Edge(ww[i - 1], ww[i])) => <<ww[0], r1[n]>> \in DOMAIN Goto
  BY <1>1, TableAssumption
<1>4. r <= Len(k) - 1
  BY <1>0, <1>1, <1>2
<1> HIDE DEF r, p
<1>5. w \in [0 .. r -> States]
  <2>1. ASSUME NEW i \in 0 .. r
        PROVE  k[Len(k) - r + i].st \in States
    <3>1. Len(k) - r + i \in 1 .. Len(k)
      BY <1>0, <1>1, <1>4
    <3> QED BY <3>1 DEF Path
  <2> QED BY <2>1
<1>6. w[r] = p /\ w[0] = k[Len(k) - r].st
  <2>1. r \in 0 .. r /\ 0 \in 0 .. r /\ Len(k) - r + r = Len(k) /\ Len(k) - r + 0 = Len(k) - r
    BY <1>0, <1>1
  <2>2. w[r] = k[Len(k) - r + r].st /\ w[0] = k[Len(k) - r + 0].st
    BY <2>1
  <2> QED BY <2>1, <2>2 DEF p
<1>7. ASSUME NEW i \in 1 .. r
      PROVE  Edge(w[i - 1], w[i])
  <2>1. /\ i - 1 \in 0 .. r /\ i \in 0 .. r /\ Len(k) - r + (i - 1) \in 1 .. Len(k) - 1
        /\ Len(k) - r + i = Len(k) - r + (i - 1) + 1
    BY <1>0, <1>1, <1>4
  <2>2. w[i - 1] = k[Len(k) - r + (i - 1)].st /\ w[i] = k[Len(k) - r + i].st
    BY <2>1
  <2> HIDE DEF w
  <2>3. Edge(k[Len(k) - r + (i - 1)].st, k[Len(k) - r + (i - 1) + 1].st)
    BY <2>1 DEF Path
  <2> QED BY <2>1, <2>2, <2>3
<1> HIDE DEF w
<1>8. <<w[0], r1[n]>> \in DOMAIN Goto
  BY <1>3, <1>5, <1>6, <1>7
<1>9. Top(k, r)[Len(Top(k, r))] = k[Len(k) - r]
  <2>1. r \in 0 .. Len(k) /\ Len(k) - r \in 1 .. Len(k) - r
    BY <1>0, <1>1, <1>4
  <2> QED BY <2>1, TopHas
<1>10. r \in 0 .. Len(k) - 1
  BY <1>0, <1>1, <1>4
<1> QED BY <1>6, <1>8, <1>9, <1>10 DEF r
-----------------------------------------------------------------------------
\* The tokens a stack stands for.
AccountedBy(k, rep, p) ==
  /\ ShownTokens(k) \union rep = 1 .. p - 1 /\ ShownTokens(k) \intersect rep = {}
  /\ \A i, j \in 1 .. Len(k) : i < j => \A x \in k[i].v, y \in k[j].v : x < y

LEMMA ShownHas ==
  ASSUME NEW k, NEW x
  PROVE  x \in ShownTokens(k) <=> \E i \in 1 .. Len(k) : x \in k[i].v
BY DEF ShownTokens

LEMMA AccountedShift ==
  ASSUME NEW k \in Seq(Item), NEW rep, NEW p \in Nat \ {0}, NEW q \in States, AccountedBy(k, rep, p)
  PROVE  AccountedBy(Append(k, [st |-> q, v |-> {p}]), rep, p + 1)
<1> DEFINE x == [st |-> q, v |-> {p}]
           t == Append(k, x)
<1>0. Len(k) \in Nat
  OBVIOUS
<1>1. x \in Item /\ x.v = {p}
  BY DEF Item
<1> HIDE DEF x
<1>2. /\ Len(t) = Len(k) + 1 /\ (\A i \in 1 .. Len(k) : t[i] = k[i]) /\ t[Len(k) + 1] = x
  BY <1>1, PushHas
<1> HIDE DEF t
<1>3. \A i \in 1 .. Len(t) : i \in 1 .. Len(k) \/ i = Len(k) + 1
  BY <1>0, <1>2
<1>4. Len(k) + 1 \in 1 .. Len(t) /\ \A i \in 1 .. Len(k) : i \in 1 .. Len(t)
  BY <1>0, <1>2
<1>5. ASSUME NEW y
      PROVE  y \in ShownTokens(t) <=> y \in ShownTokens(k) \/ y = p
  <2>1. y \in ShownTokens(t) => y \in ShownTokens(k) \/ y = p
    <3> SUFFICES ASSUME y \in ShownTokens(t) PROVE y \in ShownTokens(k) \/ y = p
      OBVIOUS
    <3>1. PICK i \in 1 .. Len(t) : y \in t[i].v
      BY ShownHas
    <3>2. CASE i \in 1 .. Len(k)
      BY <1>2, <3>1, <3>2, ShownHas
    <3>3. CASE i = Len(k) + 1
      BY <1>1, <1>2, <3>1, <3>3
    <3> QED BY <1>3, <3>2, <3>3
  <2>2. y \in ShownTokens(k) => y \in ShownTokens(t)
    <3> SUFFICES ASSUME y \in ShownTokens(k) PROVE y \in ShownTokens(t)
      OBVIOUS
    <3>1. PICK i \in 1 .. Len(k) : y \in k[i].v
      BY ShownHas
    <3>2. i \in 1 .. Len(t) /\ t[i] = k[i]
      BY <1>2, <1>4
    <3> QED BY <3>1, <3>2, ShownHas
  <2>3. y = p => y \in ShownTokens(t)
    <3>1. p \in t[Len(k) + 1].v
      BY <1>1, <1>2
    <3> QED BY <1>4, <3>1, ShownHas
  <2> QED BY <2>1, <2>2, <2>3
<1>6. \A y \in ShownTokens(k) : y \in 1 .. p - 1
  BY DEF AccountedBy
<1>7. \A y \in rep : y \in 1 .. p - 1
  BY DEF AccountedBy
<1>8. \A y : y \in 1 .. p + 1 - 1 <=> y \in 1 .. p - 1 \/ y = p
  OBVIOUS
<1>9. ShownTokens(t) \union rep = 1 .. p + 1 - 1
  <2>1. ShownTokens(k) \union rep = 1 .. p - 1
    BY DEF AccountedBy
  <2> HIDE DEF ShownTokens
  <2> QED BY <1>5, <1>8, <2>1
<1>10. ShownTokens(t) \intersect rep = {}
  <2>1. p \notin 1 .. p - 1
    OBVIOUS
  <2>2. p \notin rep
    BY <1>7, <2>1
  <2> QED BY <1>5, <2>2 DEF AccountedBy
<1>11. ASSUME NEW i \in 1 .. Len(t), NEW j \in 1 .. Len(t), i < j, NEW a \in t[i].v, NEW b \in t[j].v
       PROVE  a < b
  <2>1. i \in 1 .. Len(k)
    BY <1>0, <1>2, <1>11
  <2>2. CASE j \in 1 .. Len(k)
    BY <1>2, <1>11, <2>1, <2>2 DEF AccountedBy
  <2>3. CASE j = Len(k) + 1
    <3>1. a \in ShownTokens(k)
      BY <1>2, <2>1, ShownHas
    <3>2. a \in 1 .. p - 1 /\ b = p
      BY <1>1, <1>2, <1>6, <2>3, <3>1
    <3> QED BY <3>2
  <2> QED BY <1>3, <2>2, <2>3
<1>12. AccountedBy(t, rep, p + 1)
  BY <1>9, <1>10, <1>11 DEF AccountedBy
<1> QED BY <1>12 DEF t, x

LEMMA AccountedReduce ==
  ASSUME NEW k \in Seq(Item), NEW rep, NEW p, NEW q \in States, NEW n \in 0 .. Len(k),
         AccountedBy(k, rep, p)
  PROVE  AccountedBy(Append(Top(k, n),
                            [st |-> q, v |-> UNION {k[i].v : i \in Len(k) - n + 1 .. Len(k)}]), rep, p)
<1> DEFINE u == UNION {k[i].v : i \in Len(k) - n + 1 .. Len(k)}
           x == [st |-> q, v |-> u]
           h == Top(k, n)
           t == Append(h, x)
           m == Len(k) - n
<1>0. Len(k) \in Nat /\ n \in Nat /\ m \in Nat /\ m <= Len(k)
  OBVIOUS
<1>1. h \in Seq(Item) /\ Len(h) = m /\ (\A i \in 1 .. m : h[i] = k[i])
  BY TopHas
<1>u. \A y : y \in u <=> \E i \in m + 1 .. Len(k) : y \in k[i].v
  OBVIOUS
<1>2. x \in Item /\ x.v = u
  <2>1. \A i \in m + 1 .. Len(k) : i \in 1 .. Len(k)
    BY <1>0
  <2>2. ASSUME NEW i \in 1 .. Len(k)
        PROVE  k[i].v \in SUBSET Nat
    <3>1. k[i] \in Item
      OBVIOUS
    <3> QED BY <3>1 DEF Item
  <2>3. u \in SUBSET Nat
    BY <1>u, <2>1, <2>2
  <2> HIDE DEF u
  <2> QED BY <2>3 DEF Item
<1> HIDE DEF x, h, u
<1>3. /\ Len(t) = m + 1 /\ (\A i \in 1 .. m : t[i] = h[i]) /\ t[m + 1] = x
  BY <1>1, <1>2, PushHas
<1>4. (\A i \in 1 .. m : t[i] = k[i]) /\ t[m + 1].v = u
  BY <1>1, <1>2, <1>3
<1> HIDE DEF t, m
<1>5. \A i \in 1 .. Len(t) : i \in 1 .. m \/ i = m + 1
  BY <1>0, <1>3
<1>6. /\ m + 1 \in 1 .. Len(t) /\ \A i \in 1 .. m : i \in 1 .. Len(t) /\ i \in 1 .. Len(k)
      /\ \A i \in m + 1 .. Len(k) : i \in 1 .. Len(k) /\ i \notin 1 .. m
      /\ \A i \in 1 .. Len(k) : i \in 1 .. m \/ i \in m + 1 .. Len(k)
  BY <1>0, <1>3
<1>7. ASSUME NEW y
      PROVE  y \in ShownTokens(t) <=> y \in ShownTokens(k)
  <2>1. ASSUME y \in ShownTokens(t) PROVE y \in ShownTokens(k)
    <3>1. PICK i \in 1 .. Len(t) : y \in t[i].v
      BY <2>1, ShownHas
    <3>2. CASE i \in 1 .. m
      <4>1. i \in 1 .. Len(k) /\ y \in k[i].v
        BY <1>4, <1>6, <3>1, <3>2
      <4> QED BY <4>1, ShownHas
    <3>3. CASE i = m + 1
      <4>1. PICK j \in m + 1 .. Len(k) : y \in k[j].v
        BY <1>4, <1>u, <3>1, <3>3
      <4> QED BY <1>6, <4>1, ShownHas
    <3> QED BY <1>5, <3>2, <3>3
  <2>2. ASSUME y \in ShownTokens(k) PROVE y \in ShownTokens(t)
    <3>1. PICK i \in 1 .. Len(k) : y \in k[i].v
      BY <2>2, ShownHas
    <3>2. CASE i \in 1 .. m
      <4>1. i \in 1 .. Len(t) /\ y \in t[i].v
        BY <1>4, <1>6, <3>1, <3>2
      <4> QED BY <4>1, ShownHas
    <3>3. CASE i \in m + 1 .. Len(k)
      <4>1. y \in t[m + 1].v
        BY <1>4, <1>u, <3>1, <3>3
      <4> QED BY <1>6, <4>1, ShownHas
    <3> QED BY <1>6, <3>2, <3>3
  <2> QED BY <2>1, <2>2
<1>8. ShownTokens(t) = ShownTokens(k)
  BY <1>7
<1>9. ASSUME NEW i \in 1 .. Len(t), NEW j \in 1 .. Len(t), i < j, NEW a \in t[i].v, NEW b \in t[j].v
      PROVE  a < b
  <2>1. i \in 1 .. m
    BY <1>0, <1>3, <1>9
  <2>2. CASE j \in 1 .. m
    <3>1. i \in 1 .. Len(k) /\ j \in 1 .. Len(k) /\ a \in k[i].v /\ b \in k[j].v
      BY <1>4, <1>6, <2>1, <2>2
    <3> QED BY <1>9, <3>1 DEF AccountedBy
  <2>3. CASE j = m + 1
    <3>1. PICK y \in m + 1 .. Len(k) : b \in k[y].v
      BY <1>4, <1>u, <2>3
    <3>2. i \in 1 .. Len(k) /\ y \in 1 .. Len(k) /\ i < y
      BY <1>0, <2>1
    <3>3. a \in k[i].v
      BY <1>4, <2>1
    <3> QED BY <3>1, <3>2, <3>3 DEF AccountedBy
  <2> QED BY <1>5, <2>2, <2>3
<1>10. AccountedBy(t, rep, p)
  BY <1>8, <1>9 DEF AccountedBy
<1> QED BY <1>10 DEF t, h, x, u, m

LEMMA AccountedDrop ==
  ASSUME NEW k \in Seq(Item), NEW rep, NEW p \in Nat \ {0}, NEW n \in 0 .. Len(k), NEW s \in Nat,
         NEW drop, \A y : y \in drop <=> (\E i \in 0 .. s - 1 : y = p + i)
                                         \/ (\E i \in Len(k) - n + 1 .. Len(k) : y \in k[i].v),
         AccountedBy(k, rep, p)
  PROVE  AccountedBy(Top(k, n), rep \union drop, p + s)
<1> DEFINE h == Top(k, n)
           m == Len(k) - n
<1>0. Len(k) \in Nat /\ n \in Nat /\ m \in Nat /\ m <= Len(k)
  OBVIOUS
<1>1. h \in Seq(Item) /\ Len(h) = m /\ (\A i \in 1 .. m : h[i] = k[i])
  BY TopHas
<1>d. \A y : y \in drop <=> (\E i \in 0 .. s - 1 : y = p + i) \/ (\E i \in m + 1 .. Len(k) : y \in k[i].v)
  OBVIOUS
<1> HIDE DEF h, m
<1>2. /\ \A i \in 1 .. m : i \in 1 .. Len(k)
      /\ \A i \in m + 1 .. Len(k) : i \in 1 .. Len(k)
      /\ \A i \in 1 .. Len(k) : i \in 1 .. m \/ i \in m + 1 .. Len(k)
      /\ \A i \in 1 .. m, j \in m + 1 .. Len(k) : i < j
  BY <1>0
<1>3. \A y : y \in ShownTokens(h) <=> \E i \in 1 .. m : y \in k[i].v
  BY <1>1, ShownHas
<1>4. \A y : y \in ShownTokens(k) <=> y \in ShownTokens(h) \/ \E i \in m + 1 .. Len(k) : y \in k[i].v
  BY <1>2, <1>3, ShownHas
<1>5. \A y : y \in 1 .. p + s - 1 <=> y \in 1 .. p - 1 \/ (\E i \in 0 .. s - 1 : y = p + i)
  <2>1. ASSUME NEW y \in 1 .. p + s - 1, ~(y \in 1 .. p - 1)
        PROVE  \E i \in 0 .. s - 1 : y = p + i
    <3>1. y - p \in 0 .. s - 1 /\ y = p + (y - p)
      BY <2>1
    <3> QED BY <3>1
  <2>2. \A i \in 0 .. s - 1 : p + i \in 1 .. p + s - 1
    OBVIOUS
  <2>3. \A y \in 1 .. p - 1 : y \in 1 .. p + s - 1
    OBVIOUS
  <2> QED BY <2>1, <2>2, <2>3
<1>6. ShownTokens(h) \union (rep \union drop) = 1 .. p + s - 1
  <2>1. \A y : y \in 1 .. p - 1 <=> y \in ShownTokens(k) \/ y \in rep
    BY DEF AccountedBy
  <2> QED BY <1>d, <1>4, <1>5, <2>1
<1>7. \A y : ~(y \in ShownTokens(h) /\ y \in rep \union drop)
  <2> SUFFICES ASSUME NEW y, y \in ShownTokens(h), y \in rep \union drop PROVE FALSE
    OBVIOUS
  <2>1. y \in ShownTokens(k) /\ y \in 1 .. p - 1 /\ y \notin rep
    BY <1>4 DEF AccountedBy
  <2>2. ~(\E i \in 0 .. s - 1 : y = p + i)
    BY <2>1
  <2>3. PICK j \in m + 1 .. Len(k) : y \in k[j].v
    BY <1>d, <2>1, <2>2
  <2>4. PICK i \in 1 .. m : y \in k[i].v
    BY <1>3
  <2>5. y < y
    BY <1>2, <2>3, <2>4 DEF AccountedBy
  <2> QED BY <2>1, <2>5
<1>8. ASSUME NEW i \in 1 .. Len(h), NEW j \in 1 .. Len(h), i < j, NEW a \in h[i].v, NEW b \in h[j].v
      PROVE  a < b
  BY <1>1, <1>2, <1>8 DEF AccountedBy
<1> QED BY <1>6, <1>7, <1>8 DEF AccountedBy, h
-----------------------------------------------------------------------------
(* The inductive invariant.  While it recovers, parse has gone at most     *)
(* must tokens beyond those it skips, which is what keeps it within the    *)
(* buffer, and has no more states to pop than it saved.                    *)
ParseType ==
  /\ source \in Seq(Types \ {Eof}) /\ stack \in Seq(Item) /\ saved \in Seq(Item)
  /\ errmode \in BOOLEAN /\ errcount \in Nat /\ tskip \in Nat /\ spop \in Nat /\ errn \in Nat
Recovering ==
  /\ tskip <= tlimit /\ Len(saved) <= pssize
  /\ outcome = "running" => /\ spop < Len(saved) /\ errcount \in 1 .. must
                            /\ buf.ct = tskip + must - errcount
ParseInv ==
  /\ ParseType /\ Holds(buf) /\ outcome # "tkbovf"
  /\ ~errmode => errcount = 0
  /\ errmode => Recovering
  /\ NoTokenLost /\ StackHolds

LEMMA Limits == tlimit \in Nat /\ must \in Nat /\ must > 0 /\ tbsize \in Nat /\ tbsize >= 5
                /\ tlimit = tbsize - must - 2 /\ pssize \in Nat /\ pssize > 0
BY TokenAssumption DEF tlimit

LEMMA HoldsHas ==
  ASSUME NEW b, Holds(b)
  PROVE  /\ b.ct \in Nat /\ b.twp \in Nat /\ b.got \in Nat /\ b.ct < b.twp
         /\ b.twp <= tbsize /\ b.twp <= b.got
         /\ \A i \in 0 .. b.twp - 1 : /\ b.tokbuf[i] \in Nat \ {0} /\ b.tokbuf[0] \in Nat \ {0}
                                      /\ b.tokbuf[i] = b.tokbuf[0] + i
<1>0. /\ b.ct \in Nat /\ b.twp \in Nat /\ b.got \in Nat /\ b.ct < b.twp
      /\ b.twp <= tbsize /\ b.twp <= b.got /\ tbsize \in Nat
  BY TokenAssumption DEF Holds, Cluster
<1>1. ASSUME NEW i \in 0 .. b.twp - 1
      PROVE  /\ b.tokbuf[i] \in Nat \ {0} /\ b.tokbuf[0] \in Nat \ {0}
             /\ b.tokbuf[i] = b.tokbuf[0] + i
  <2>1. 0 \in 0 .. b.twp - 1
    BY <1>0
  <2>2. b.tokbuf[i] = b.got - b.twp + 1 + i /\ b.tokbuf[0] = b.got - b.twp + 1 + 0
    BY <2>1 DEF Holds
  <2> QED BY <1>0, <2>2
<1> QED BY <1>0, <1>1

LEMMA ParseInvInit == ParseInit => ParseInv
<1> SUFFICES ASSUME ParseInit PROVE ParseInv
  OBVIOUS
<1>1. source \in Seq(Types \ {Eof})
  BY TokenAssumption DEF ParseInit
<1> DEFINE x == [st |-> Start, v |-> {}]
           f == [i \in 0 .. tbsize - 1 |-> IF i = 0 THEN 1 ELSE 0]
<1>2. x \in Item /\ x.st = Start /\ x.v = {} /\ Start \in States
  BY TableAssumption DEF Item
<1>3. stack = <<x>> /\ saved = <<>> /\ buf = [tokbuf |-> f, ct |-> 0, twp |-> 1, got |-> 1]
  BY DEF ParseInit
<1>4. f \in [0 .. tbsize - 1 -> Nat] /\ f[0] = 1
  BY Limits
<1> HIDE DEF x, f
<1>5. stack \in Seq(Item) /\ saved \in Seq(Item) /\ Len(stack) = 1 /\ stack[1] = x
  BY <1>2, <1>3
<1>6. ParseType
  BY <1>1, <1>5 DEF ParseType, ParseInit
<1>7. buf \in Cluster /\ buf.ct = 0 /\ buf.twp = 1 /\ buf.got = 1 /\ buf.tokbuf = f
  BY <1>3, <1>4 DEF Cluster
<1>8. Holds(buf)
  <2>1. ASSUME NEW i \in 0 .. buf.twp - 1
        PROVE  buf.tokbuf[i] = buf.got - buf.twp + 1 + i
    <3>1. i = 0
      BY <1>7
    <3> QED BY <1>4, <1>7, <3>1
  <2> QED BY <1>7, <2>1, Limits DEF Holds
<1>9. Path(stack)
  <2>1. Depth[Start] = 0
    BY TableAssumption
  <2>2. \A i \in 1 .. Len(stack) : i = 1
    BY <1>5
  <2> QED BY <1>2, <1>5, <2>1, <2>2 DEF Path
<1>10. Accounted(stack, buf.tokbuf[buf.ct])
  <2>1. \A i \in 1 .. Len(stack) : i = 1
    BY <1>5
  <2>2. ShownTokens(stack) = {}
    BY <1>2, <1>5, <2>1, ShownHas
  <2>3. reported = {} /\ buf.tokbuf[buf.ct] = 1
    BY <1>4, <1>7 DEF ParseInit
  <2>4. 1 .. 1 - 1 = {}
    OBVIOUS
  <2> QED BY <2>1, <2>2, <2>3, <2>4 DEF Accounted
<1> QED BY <1>5, <1>6, <1>8, <1>9, <1>10, Limits DEF ParseInv, NoTokenLost, StackHolds, ParseInit

LEMMA DoesTyped ==
  ASSUME ParseInv
  PROVE  /\ State \in States /\ Type(buf.tokbuf[buf.ct]) \in Types
         /\ Does.do = "shift" => Does = Shifts(Does.n) /\ Does.n \in States
         /\ Does.do = "reduce" => Does = Reduces(Does.n) /\ Does.n \in Rules
<1>1. Len(stack) \in 1 .. Len(stack)
  BY DEF ParseInv, ParseType, StackHolds, Path
<1>2. State \in States
  BY <1>1 DEF ParseInv, StackHolds, Path, State
<1>3. Type(buf.tokbuf[buf.ct]) \in Types
  BY TokenAssumption DEF ParseInv, ParseType, Type
<1>4. Does \in {Shifts(q) : q \in States} \union {Reduces(n) : n \in Rules} \union {Accepts, Fails}
  BY <1>2, <1>3, TableAssumption DEF Does
<1>5. \A q : Shifts(q).do = "shift" /\ Shifts(q).n = q /\ Shifts(q).do # "reduce"
  BY DEF Shifts
<1>6. \A q : Reduces(q).do = "reduce" /\ Reduces(q).n = q /\ Reduces(q).do # "shift"
  BY DEF Reduces
<1>7. /\ Accepts.do # "shift" /\ Accepts.do # "reduce"
      /\ Fails.do # "shift" /\ Fails.do # "reduce"
  BY DEF Accepts, Fails
<1> QED BY <1>2, <1>3, <1>4, <1>5, <1>6, <1>7

LEMMA DumpKeeps ==
  ASSUME ParseInv, errmode, outcome = "running", NEW b, Holds(b), b.ct >= tskip,
         b.tokbuf[0] = buf.tokbuf[0], dmperr(b)
  PROVE  ParseInv'
<1>0. /\ source \in Seq(Types \ {Eof}) /\ saved \in Seq(Item) /\ tskip \in Nat /\ spop \in Nat /\ errn \in Nat
      /\ tskip <= tlimit /\ Len(saved) <= pssize /\ spop < Len(saved) /\ Len(saved) \in Nat
  BY DEF ParseInv, ParseType, Recovering
<1>s. AccountedBy(saved, reported, b.tokbuf[0]) /\ Path(saved)
  BY DEF ParseInv, NoTokenLost, Accounted, AccountedBy, StackHolds
<1>b. /\ b.ct \in Nat /\ b.twp \in Nat /\ b.ct < b.twp
      /\ \A i \in 0 .. b.twp - 1 : b.tokbuf[i] = b.tokbuf[0] + i
      /\ b.tokbuf[0] \in Nat \ {0}
  <2>1. 0 \in 0 .. b.twp - 1
    BY HoldsHas
  <2> QED BY <2>1, HoldsHas
<1>u. UNCHANGED <<source, saved, tskip, spop, errn, outcome>> /\ errmode' = FALSE /\ errcount' = 0
  BY DEF dmperr, tries
<1> DEFINE z == [b EXCEPT !.ct = 0]
<1>1. Holds(z) /\ z.ct = 0 /\ z.tokbuf = b.tokbuf
  BY ResetHolds
<1>2. buf' = ctok(z, tskip)
  BY DEF dmperr
<1> HIDE DEF z
<1>3. z.ct + tskip < tbsize /\ z.ct + tskip = tskip
  BY <1>0, <1>1, Limits
<1>4. Holds(buf') /\ buf'.ct = tskip /\ buf'.tokbuf[0] = b.tokbuf[0]
  BY <1>0, <1>1, <1>2, <1>3, CtokHolds
<1>5. buf'.tokbuf[buf'.ct] = b.tokbuf[0] + tskip
  <2>1. buf'.ct \in 0 .. buf'.twp - 1
    BY <1>0, <1>4, HoldsHas
  <2> QED BY <1>4, <2>1, HoldsHas
<1>6. stack' = Top(saved, spop) /\ spop \in 0 .. Len(saved) - 1 /\ spop \in 0 .. Len(saved)
  BY <1>0 DEF dmperr
<1>7. /\ stack' \in Seq(Item) /\ Len(stack') = Len(saved) - spop /\ Path(stack')
  BY <1>0, <1>6, <1>s, TopHas, PathTop
<1>8. AccountedBy(stack', reported', buf'.tokbuf[buf'.ct])
  <2> DEFINE drop == {b.tokbuf[i] : i \in 0 .. tskip - 1}
                     \union (UNION {saved[i].v : i \in Len(saved) - spop + 1 .. Len(saved)})
  <2>1. reported' = reported \union drop
    BY DEF dmperr
  <2>2. ASSUME NEW i \in 0 .. tskip - 1
        PROVE  b.tokbuf[i] = b.tokbuf[0] + i
    <3>1. i \in 0 .. b.twp - 1
      BY <1>0, <1>b
    <3> QED BY <1>b, <3>1
  <2>3. ASSUME NEW y
        PROVE  y \in drop <=> \/ \E i \in 0 .. tskip - 1 : y = b.tokbuf[0] + i
                              \/ \E i \in Len(saved) - spop + 1 .. Len(saved) : y \in saved[i].v
    BY <2>2
  <2> HIDE DEF drop
  <2>4. AccountedBy(Top(saved, spop), reported \union drop, b.tokbuf[0] + tskip)
    BY <1>0, <1>6, <1>b, <1>s, <2>3, AccountedDrop
  <2> QED BY <1>5, <1>6, <2>1, <2>4
<1>9. ParseType'
  BY <1>0, <1>7, <1>u DEF ParseType
<1>10. NoTokenLost'
  BY <1>8, <1>u DEF NoTokenLost, Accounted, AccountedBy
<1>11. StackHolds'
  BY <1>0, <1>7, <1>u, Limits DEF StackHolds
<1> QED BY <1>4, <1>9, <1>10, <1>11, <1>u DEF ParseInv

LEMMA AttemptKeeps ==
  ASSUME ParseInv, outcome = "running", NEW k \in Seq(Item), Path(k), Len(k) <= pssize,
         NEW b, Holds(b), Accounted(k, b.tokbuf[0]),
         NEW try, try[1] \in Nat, try[1] <= tlimit, try[2] \in Nat, try[3] \in Nat,
         Attempt(k, b, try)
  PROVE  ParseInv'
<1>0. source \in Seq(Types \ {Eof}) /\ Len(k) \in Nat /\ Len(k) > 0
  BY DEF ParseInv, ParseType, Path
<1>u. /\ tskip' = try[1] /\ spop' = try[2] /\ errn' = try[3] /\ saved' = k /\ errmode' = TRUE
      /\ errcount' = must /\ source' = source /\ reported' = reported
  BY DEF Attempt
<1> DEFINE z == [b EXCEPT !.ct = 0]
<1>1. Holds(z) /\ z.ct = 0 /\ z.tokbuf = b.tokbuf
  BY ResetHolds
<1>2. IF spop' < Len(k) THEN buf' = ctok(z, tskip') /\ stack' = Top(k, spop') /\ outcome' = "running"
                        ELSE buf' = z /\ stack' = k /\ outcome' = "giveup"
  BY DEF Attempt
<1> HIDE DEF z
<1>3. z.ct + tskip' < tbsize /\ z.ct + tskip' = tskip'
  BY <1>1, <1>u, Limits
<1>4. tskip' \in Nat
  BY <1>u
<1>5. Holds(buf') /\ buf'.tokbuf[0] = b.tokbuf[0]
  <2>1. CASE spop' < Len(k)
    BY <1>1, <1>2, <1>3, <1>4, <2>1, CtokHolds
  <2>2. CASE ~(spop' < Len(k))
    BY <1>1, <1>2, <2>2
  <2> QED BY <2>1, <2>2
<1>6. outcome' = "running" => spop' < Len(k) /\ buf'.ct = tskip'
  <2> SUFFICES ASSUME outcome' = "running" PROVE spop' < Len(k) /\ buf'.ct = tskip'
    OBVIOUS
  <2>1. spop' < Len(k) /\ buf' = ctok(z, tskip')
    BY <1>2
  <2> QED BY <1>1, <1>3, <1>4, <2>1, CtokHolds
<1>7. stack' \in Seq(Item) /\ Path(stack') /\ Len(stack') <= pssize
  <2>1. CASE spop' < Len(k)
    <3>1. spop' \in 0 .. Len(k) - 1 /\ spop' \in 0 .. Len(k) /\ stack' = Top(k, spop')
      BY <1>0, <1>2, <1>u, <2>1
    <3>2. stack' \in Seq(Item) /\ Len(stack') = Len(k) - spop' /\ Path(stack')
      BY <3>1, TopHas, PathTop
    <3> QED BY <1>0, <3>1, <3>2, Limits
  <2>2. CASE ~(spop' < Len(k))
    BY <1>2, <2>2
  <2> QED BY <2>1, <2>2
<1>8. outcome' \in {"running", "giveup"}
  BY <1>2
<1>9. ParseType'
  BY <1>0, <1>7, <1>u, Limits DEF ParseType
<1>10. errmode' => Recovering'
  <2>0. \A n \in Nat : n + must - must = n
    BY Limits
  <2>1. must \in 1 .. must
    BY Limits
  <2>3. tskip' + must - must = tskip'
    BY <1>4, <2>0
  <2>2. tskip' <= tlimit' /\ Len(saved') <= pssize
    BY <1>u DEF tlimit
  <2> QED BY <1>6, <1>u, <2>1, <2>2, <2>3 DEF Recovering
<1>11. NoTokenLost'
  BY <1>5, <1>u DEF NoTokenLost, Accounted
<1>12. StackHolds'
  <2>0. Len(stack') \in Nat /\ Len(stack') <= pssize
    BY <1>7
  <2>1. Len(stack') <= pssize + 1
    BY <2>0, Limits
  <2> QED BY <1>7, <1>u, <2>1 DEF StackHolds
<1> QED BY <1>5, <1>8, <1>9, <1>10, <1>11, <1>12, <1>u DEF ParseInv

LEMMA ShiftKeeps ==
  ASSUME ParseInv, Shift
  PROVE  ParseInv'
<1>0. /\ source \in Seq(Types \ {Eof}) /\ stack \in Seq(Item) /\ saved \in Seq(Item)
      /\ errmode \in BOOLEAN /\ errcount \in Nat /\ tskip \in Nat /\ spop \in Nat /\ errn \in Nat
      /\ outcome = "running" /\ Len(stack) \in Nat /\ Len(stack) <= pssize /\ Path(stack)
  BY DEF ParseInv, ParseType, Shift, StackHolds
<1>1. Does = Shifts(Does.n) /\ Does.n \in States /\ State \in States /\ Type(buf.tokbuf[buf.ct]) \in Types
  BY DoesTyped DEF Shift
<1>2. Edge(stack[Len(stack)].st, Does.n)
  BY <1>1 DEF Edge, Does, State
<1>3. /\ buf.ct \in Nat /\ buf.twp \in Nat /\ buf.ct < buf.twp /\ buf.twp <= tbsize
      /\ \A i \in 0 .. buf.twp - 1 : buf.tokbuf[i] \in Nat \ {0}
  BY HoldsHas DEF ParseInv
<1>4. errmode => /\ tskip <= tlimit /\ spop < Len(saved) /\ errcount \in 1 .. must
                 /\ buf.ct = tskip + must - errcount
  BY <1>0 DEF ParseInv, Recovering
<1>5. ~Overflows(buf)
  <2>1. errmode => buf.ct + 1 < tbsize
    BY <1>0, <1>4, Limits
  <2> QED BY <1>3, <2>1, Limits DEF Overflows
<1>6. /\ Holds(lex(buf)) /\ lex(buf).tokbuf[lex(buf).ct] = buf.tokbuf[buf.ct] + 1
      /\ errmode => lex(buf).ct = buf.ct + 1 /\ lex(buf).tokbuf[0] = buf.tokbuf[0]
  BY <1>0, <1>5, LexHolds DEF ParseInv
<1>7. CASE errcount = 1
  <2>1. errmode /\ dmperr(lex(buf))
    BY <1>5, <1>7 DEF ParseInv, Shift
  <2>2. lex(buf).ct >= tskip
    BY <1>0, <1>4, <1>6, <2>1, Limits
  <2> QED BY <1>0, <1>6, <2>1, <2>2, DumpKeeps
<1>8. CASE errcount # 1
  <2> DEFINE p == buf.tokbuf[buf.ct]
  <2>1. /\ buf' = lex(buf) /\ errcount' = (IF errcount > 0 THEN errcount - 1 ELSE 0)
        /\ Push(stack, Does.n, {p})
        /\ UNCHANGED <<source, errmode, tskip, spop, errn, saved, reported>>
    BY <1>5, <1>8 DEF Shift, tries
  <2>2. p \in Nat \ {0}
    <3>1. buf.ct \in 0 .. buf.twp - 1
      BY <1>3
    <3> QED BY <1>3, <3>1
  <2> HIDE DEF p
  <2>3. /\ stack' = Append(stack, [st |-> Does.n, v |-> {p}])
        /\ outcome' = IF Len(stack) >= pssize THEN "stkovf" ELSE "running"
    BY <2>1 DEF Push
  <2>4. stack' \in Seq(Item) /\ Path(stack') /\ Len(stack') = Len(stack) + 1
    <3>1. {p} \in SUBSET Nat
      BY <2>2
    <3>2. [st |-> Does.n, v |-> {p}] \in Item
      BY <1>1, <3>1 DEF Item
    <3> QED BY <1>0, <1>1, <1>2, <2>3, <3>1, <3>2, PathPush, PushHas
  <2>5. ParseType'
    <3>1. errcount' \in Nat
      BY <1>0, <2>1
    <3> QED BY <1>0, <2>1, <2>4, <3>1 DEF ParseType
  <2>6. (~errmode' => errcount' = 0) /\ (errmode' => Recovering')
    <3>1. CASE ~errmode
      BY <2>1, <3>1 DEF ParseInv
    <3>2. CASE errmode
      <4>1. errcount \in 1 .. must /\ errcount > 0 /\ errcount' = errcount - 1 /\ errcount' \in 1 .. must
        BY <1>0, <1>4, <1>8, <2>1, <3>2, Limits
      <4>2. buf'.ct = tskip' + must - errcount'
        BY <1>0, <1>3, <1>4, <1>6, <2>1, <3>2, <4>1, Limits
      <4>3. tskip' <= tlimit' /\ spop' < Len(saved') /\ Len(saved') <= pssize
        BY <1>4, <2>1, <3>2 DEF ParseInv, Recovering, tlimit
      <4> QED BY <2>1, <3>2, <4>1, <4>2, <4>3 DEF Recovering
    <3> QED BY <1>0, <3>1, <3>2
  <2>7. NoTokenLost'
    <3>1. CASE ~errmode
      <4>1. AccountedBy(stack, reported, p)
        BY <3>1 DEF ParseInv, NoTokenLost, Accounted, AccountedBy, p
      <4>2. AccountedBy(stack', reported', p + 1)
        BY <1>0, <1>1, <2>1, <2>2, <2>3, <4>1, AccountedShift
      <4>3. buf'.tokbuf[buf'.ct] = p + 1
        BY <1>6, <2>1 DEF p
      <4> QED BY <2>1, <3>1, <4>2, <4>3 DEF NoTokenLost, Accounted, AccountedBy
    <3>2. CASE errmode
      BY <1>6, <2>1, <3>2 DEF ParseInv, NoTokenLost, Accounted
    <3> QED BY <1>0, <3>1, <3>2
  <2>8. StackHolds'
    <3>1. errmode' => Path(saved')
      BY <2>1 DEF ParseInv, StackHolds
    <3>2. Len(stack') <= pssize + 1 /\ (outcome' = "running" => Len(stack') <= pssize)
      BY <1>0, <2>3, <2>4, Limits
    <3> QED BY <2>4, <3>1, <3>2 DEF StackHolds
  <2>9. outcome' # "tkbovf"
    BY <2>3
  <2> QED BY <1>6, <2>1, <2>5, <2>6, <2>7, <2>8, <2>9 DEF ParseInv
<1> QED BY <1>7, <1>8

LEMMA ReduceKeeps ==
  ASSUME ParseInv, Reduce
  PROVE  ParseInv'
<1>0. /\ source \in Seq(Types \ {Eof}) /\ stack \in Seq(Item) /\ saved \in Seq(Item)
      /\ errmode \in BOOLEAN /\ errcount \in Nat /\ tskip \in Nat /\ spop \in Nat /\ errn \in Nat
      /\ outcome = "running" /\ Len(stack) \in Nat /\ Len(stack) <= pssize /\ Path(stack)
  BY DEF ParseInv, ParseType, Reduce, StackHolds
<1> DEFINE n == Does.n
           r == r2[n]
           k == Top(stack, r)
           q == Goto[<<k[Len(k)].st, r1[n]>>]
<1>1. n \in Rules /\ State \in States /\ Type(buf.tokbuf[buf.ct]) \in Types
      /\ Act[stack[Len(stack)].st][Type(buf.tokbuf[buf.ct])] = Reduces(n)
  BY DoesTyped DEF Reduce, Does, State
<1>u. Push(k, q, MadeFrom(r)) /\ UNCHANGED <<source, buf, errmode, errcount, tskip, spop, errn, saved, reported>>
  BY DEF Reduce, tries
<1> HIDE DEF n
<1>2. r \in 0 .. Len(stack) - 1 /\ <<k[Len(k)].st, r1[n]>> \in DOMAIN Goto
  BY <1>0, <1>1, PathReduces
<1>3. q \in States
  BY <1>2, TableAssumption
<1> HIDE DEF r
<1>4. r \in Nat /\ r \in 0 .. Len(stack) /\ r < Len(stack)
  BY <1>0, <1>2
<1>5. k \in Seq(Item) /\ Len(k) = Len(stack) - r /\ Path(k)
  BY <1>0, <1>2, <1>4, TopHas, PathTop
<1>6. Edge(k[Len(k)].st, q)
  BY <1>1, <1>2 DEF Edge
<1>7. MadeFrom(r) \in SUBSET Nat
  <2>1. ASSUME NEW i \in 1 .. Len(stack)
        PROVE  stack[i].v \in SUBSET Nat
    <3>1. stack[i] \in Item
      BY <1>0
    <3> QED BY <3>1 DEF Item
  <2>2. CASE errmode
    <3>1. buf.tokbuf[buf.ct] \in Nat
      <4>1. buf.ct \in 0 .. buf.twp - 1
        BY HoldsHas DEF ParseInv
      <4> QED BY <4>1, HoldsHas DEF ParseInv
    <3>2. r > 0 => Len(stack) - r + 1 \in 1 .. Len(stack)
      BY <1>0, <1>4
    <3> QED BY <2>1, <2>2, <3>1, <3>2 DEF MadeFrom
  <2>3. CASE ~errmode
    <3>1. \A i \in Len(stack) - r + 1 .. Len(stack) : i \in 1 .. Len(stack)
      BY <1>0, <1>4
    <3>2. MadeFrom(r) = UNION {stack[i].v : i \in Len(stack) - r + 1 .. Len(stack)}
      BY <2>3 DEF MadeFrom
    <3> QED BY <2>1, <3>1, <3>2
  <2> QED BY <2>2, <2>3
<1>8. /\ stack' = Append(k, [st |-> q, v |-> MadeFrom(r)])
      /\ outcome' = IF Len(k) >= pssize THEN "stkovf" ELSE "running"
  BY <1>u DEF Push
<1>m. ~errmode => MadeFrom(r) = UNION {stack[i].v : i \in Len(stack) - r + 1 .. Len(stack)}
  BY DEF MadeFrom
<1> DEFINE made == MadeFrom(r)
<1> HIDE DEF q, made
<1>9. stack' \in Seq(Item) /\ Path(stack') /\ Len(stack') = Len(k) + 1
  <2>1. made \in SUBSET Nat
    BY <1>7 DEF made
  <2>2. [st |-> q, v |-> made] \in Item
    BY <1>3, <2>1 DEF Item
  <2>3. stack' = Append(k, [st |-> q, v |-> made])
    BY <1>8 DEF made
  <2> HIDE DEF k
  <2> QED BY <1>3, <1>5, <1>6, <2>1, <2>2, <2>3, PathPush, PushHas
<1>10. ParseType'
  BY <1>0, <1>9, <1>u DEF ParseType
<1>11. (~errmode' => errcount' = 0) /\ (errmode' => Recovering')
  BY <1>0, <1>u DEF ParseInv, Recovering, tlimit
<1>12. NoTokenLost'
  <2>1. CASE ~errmode
    <3>1. AccountedBy(stack, reported, buf.tokbuf[buf.ct])
      BY <2>1 DEF ParseInv, NoTokenLost, Accounted, AccountedBy
    <3>2. AccountedBy(stack', reported, buf.tokbuf[buf.ct])
      BY <1>0, <1>3, <1>4, <1>8, <1>m, <2>1, <3>1, AccountedReduce
    <3> QED BY <1>u, <2>1, <3>2 DEF NoTokenLost, Accounted, AccountedBy
  <2>2. CASE errmode
    BY <1>u, <2>2 DEF ParseInv, NoTokenLost, Accounted
  <2> QED BY <1>0, <2>1, <2>2
<1>13. StackHolds'
  <2>1. errmode' => Path(saved')
    BY <1>u DEF ParseInv, StackHolds
  <2>2. Len(stack') <= pssize + 1 /\ (outcome' = "running" => Len(stack') <= pssize)
    <3> HIDE DEF k
    <3> QED BY <1>0, <1>4, <1>5, <1>8, <1>9, Limits
  <2> QED BY <1>9, <2>1, <2>2 DEF StackHolds
<1>14. outcome' # "tkbovf"
  BY <1>8
<1> QED BY <1>10, <1>11, <1>12, <1>13, <1>14, <1>u DEF ParseInv

LEMMA AcceptKeeps ==
  ASSUME ParseInv, Accept
  PROVE  ParseInv'
<1>1. CASE errmode
  <2>1. dmperr(buf) /\ outcome = "running" /\ Holds(buf)
    BY <1>1 DEF Accept, ParseInv
  <2>2. buf.ct >= tskip
    <3>1. /\ errcount \in 1 .. must /\ buf.ct = tskip + must - errcount /\ tskip \in Nat
      BY <1>1, <2>1 DEF ParseInv, Recovering, ParseType
    <3> QED BY <3>1, Limits
  <2> QED BY <1>1, <2>1, <2>2, DumpKeeps
<1>2. CASE ~errmode
  <2>1. outcome' = "accept" /\ outcome = "running"
        /\ UNCHANGED <<source, stack, buf, errmode, errcount, tskip, spop, errn, saved, reported>>
    BY <1>2 DEF Accept, tries
  <2>2. ParseType'
    BY <2>1 DEF ParseInv, ParseType
  <2>3. NoTokenLost'
    BY <2>1 DEF ParseInv, NoTokenLost, Accounted
  <2>4. StackHolds'
    BY <2>1 DEF ParseInv, StackHolds
  <2> QED BY <1>2, <2>1, <2>2, <2>3, <2>4 DEF ParseInv
<1> QED BY <1>1, <1>2

LEMMA NextTryTyped ==
  ASSUME NEW k \in Nat, NEW p \in Nat, NEW e \in Nat, NEW atEnd \in BOOLEAN
  PROVE  /\ NextTry(k, p, e, atEnd)[1] \in Nat /\ NextTry(k, p, e, atEnd)[1] <= tlimit
         /\ NextTry(k, p, e, atEnd)[2] \in Nat /\ NextTry(k, p, e, atEnd)[3] \in Nat
<1> DEFINE fewer == IF (k + 1) % 2 = 0 THEN p - 1 ELSE p
<1>1. fewer \in Int
  OBVIOUS
<1>2. NextTry(k, p, e, atEnd) = IF fewer < 0 \/ atEnd \/ k + 1 > tlimit THEN <<0, e, e + 1>> ELSE <<k + 1, fewer, e>>
  BY DEF NextTry
<1> HIDE DEF fewer
<1>3. CASE fewer < 0 \/ atEnd \/ k + 1 > tlimit
  <2>1. NextTry(k, p, e, atEnd) = <<0, e, e + 1>>
    BY <1>2, <1>3
  <2> QED BY <2>1, Limits
<1>4. CASE ~(fewer < 0 \/ atEnd \/ k + 1 > tlimit)
  <2>1. NextTry(k, p, e, atEnd) = <<k + 1, fewer, e>> /\ fewer \in Nat /\ k + 1 <= tlimit /\ k + 1 \in Nat
    BY <1>1, <1>2, <1>4, Limits
  <2> QED BY <2>1
<1> QED BY <1>3, <1>4

LEMMA SyntaxErrorKeeps ==
  ASSUME ParseInv, SyntaxError
  PROVE  ParseInv'
<1> DEFINE b == Printed(tkeem(buf))
           try == NextTry(0, 0, 1, Type(b.tokbuf[buf.ct]) = Eof)
<1>1. /\ outcome = "running" /\ ~errmode /\ Attempt(stack, b, try)
      /\ stack \in Seq(Item) /\ Path(stack) /\ Len(stack) <= pssize
  BY DEF SyntaxError, ParseInv, ParseType, StackHolds
<1>2. Holds(b) /\ b.tokbuf[0] = buf.tokbuf[buf.ct]
  <2>1. Holds(tkeem(buf)) /\ tkeem(buf).ct = 0 /\ tkeem(buf).tokbuf[0] = buf.tokbuf[buf.ct]
    BY TkeemHolds DEF ParseInv
  <2> QED BY <2>1, PrintedHolds
<1>3. Accounted(stack, b.tokbuf[0])
  BY <1>1, <1>2 DEF ParseInv, NoTokenLost
<1>4. try[1] \in Nat /\ try[1] <= tlimit /\ try[2] \in Nat /\ try[3] \in Nat
  <2>1. (Type(b.tokbuf[buf.ct]) = Eof) \in BOOLEAN
    OBVIOUS
  <2> QED BY <2>1, NextTryTyped
<1> HIDE DEF b, try
<1> QED BY <1>1, <1>2, <1>3, <1>4, AttemptKeeps

LEMMA TryAgainKeeps ==
  ASSUME ParseInv, TryAgain
  PROVE  ParseInv'
<1> DEFINE try == NextTry(tskip, spop, errn, Type(buf.tokbuf[buf.ct]) = Eof)
<1>1. /\ outcome = "running" /\ Attempt(saved, buf, try) /\ Holds(buf)
      /\ saved \in Seq(Item) /\ Path(saved) /\ Len(saved) <= pssize
      /\ Accounted(saved, buf.tokbuf[0])
      /\ tskip \in Nat /\ spop \in Nat /\ errn \in Nat
  BY DEF TryAgain, ParseInv, ParseType, StackHolds, Recovering, NoTokenLost
<1>2. try[1] \in Nat /\ try[1] <= tlimit /\ try[2] \in Nat /\ try[3] \in Nat
  <2>1. (Type(buf.tokbuf[buf.ct]) = Eof) \in BOOLEAN
    OBVIOUS
  <2> QED BY <1>1, <2>1, NextTryTyped
<1> HIDE DEF try
<1> QED BY <1>1, <1>2, AttemptKeeps

LEMMA ParseInvStep == ParseInv /\ [ParseNext]_parseVars => ParseInv'
<1> SUFFICES ASSUME ParseInv, [ParseNext]_parseVars PROVE ParseInv'
  OBVIOUS
<1>1. CASE Shift
  BY <1>1, ShiftKeeps
<1>2. CASE Reduce
  BY <1>2, ReduceKeeps
<1>3. CASE Accept
  BY <1>3, AcceptKeeps
<1>4. CASE SyntaxError
  BY <1>4, SyntaxErrorKeeps
<1>5. CASE TryAgain
  BY <1>5, TryAgainKeeps
<1>6. CASE UNCHANGED parseVars
  <2>1. UNCHANGED <<source, stack, saved, buf, errmode, errcount, tskip, spop, errn, reported, outcome>>
    BY <1>6 DEF parseVars
  <2>2. ParseType'
    BY <2>1 DEF ParseInv, ParseType
  <2>3. NoTokenLost'
    BY <2>1 DEF ParseInv, NoTokenLost, Accounted
  <2>4. StackHolds'
    BY <2>1 DEF ParseInv, StackHolds
  <2>5. errmode' => Recovering'
    BY <2>1 DEF ParseInv, Recovering, tlimit
  <2> QED BY <2>1, <2>2, <2>3, <2>4, <2>5 DEF ParseInv
<1> QED BY <1>1, <1>2, <1>3, <1>4, <1>5, <1>6 DEF ParseNext

LEMMA ParseInvKept == ParseInv => ParseKept
<1> SUFFICES ASSUME ParseInv PROVE ParseKept
  OBVIOUS
<1>1. /\ buf.ct \in Nat /\ buf.twp \in Nat /\ buf.ct < buf.twp /\ buf.twp <= tbsize
  BY HoldsHas DEF ParseInv
<1>2. buf.ct \in 0 .. buf.twp - 1 /\ buf.twp \in 1 .. tbsize
  BY <1>1, Limits
<1>3. BufferHolds
  BY <1>2 DEF ParseInv, Holds, BufferHolds
<1> QED BY <1>3 DEF ParseInv, ParseKept

(* yparse.c: whatever the grammar and the text, the parser drops no token  *)
(* without a message, recovery stays within the token buffer, no reduction *)
(* underflows the stack, and it overflows only to return.                  *)
THEOREM ParseAlways == ParseSpec => []ParseKept
<1>1. ParseInit => ParseInv
  BY ParseInvInit
<1>2. ParseInv /\ [ParseNext]_parseVars => ParseInv'
  BY ParseInvStep
<1>3. ParseInv => ParseKept
  BY ParseInvKept
<1> QED BY <1>1, <1>2, <1>3, PTL DEF ParseSpec
=============================================================================
