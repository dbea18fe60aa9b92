----------------------------- MODULE UplinkProofs ----------------------------
(***************************************************************************)
(* Proofs about Uplink, for every filter, number of packets per fetch and  *)
(* bound of the model: type correctness, that every packet is forwarded    *)
(* once, that the counters neither lose an event nor count one twice, that *)
(* acknowledgements are real, that the reports arrive in order, and that   *)
(* the figures of a report belong together.                                *)
(*                                                                         *)
(* The packets sent and the totals of the counters are folds over the      *)
(* datagrams and the reports.  Their recursion is followed with induction  *)
(* in the form of a least counterexample: SumAppend and JoinAppend say     *)
(* what one more report or datagram adds, and are all that the steps need. *)
(*                                                                         *)
(* A report is a copy of the counters, so they must be consistent whenever *)
(* main may copy them.  The acknowledgements are the delicate part: an     *)
(* acknowledgement is counted after its datagram, and the counters are not *)
(* reset in between, because thread_up holds the mutex (Counts).           *)
(***************************************************************************)
EXTENDS Uplink, SequenceTheorems, FiniteSetTheorems, WellFoundedInduction, TLAPS

\* What ReportConsistent says of one report.
Consistent(r) ==
  /\ r["ok"] + r["bad"] + r["nocrc"] <= r["rcv"]
  /\ r["fwd"] <= r["rcv"]
  /\ r["ack"] <= r["dgram"]

FetchTypes ==
  /\ upc \in {"fetch", "flag", "filter", "send", "count", "ack", "done"}
  /\ status \in Seq(Statuses) /\ Len(status) <= MaxPkt
  /\ todo \in Seq(1 .. Len(status)) /\ Len(todo) <= NbPktMax
  /\ tries \in 0 .. 2 /\ cycles \in 0 .. 2
  /\ upc = "ack" => tries \in 1 .. 2
  /\ quit \in BOOLEAN

DgramTypes ==
  /\ sendReport \in BOOLEAN /\ reportReady \in BOOLEAN
  /\ statusReport \in 0 .. MaxReport
  /\ dgram \in Dgram
  /\ dgrams \in Seq(Dgram) /\ atServer \subseteq DOMAIN dgrams

MainTypes ==
  /\ mpc \in {"wait", "report", "join", "done"}
  /\ reports \in Seq([Counters -> Nat]) /\ Len(reports) <= MaxReport
  /\ mpc = "report" => Len(reports) < MaxReport

\* The counters, their copy and the reports are consistent, and the
\* acknowledgement waited for has not been counted.
Counts ==
  /\ meas \in [Counters -> Nat] /\ cp \in [Counters -> Nat]
  /\ Consistent(meas) /\ Consistent(cp)
  /\ upc = "ack" => meas["ack"] + 1 <= meas["dgram"]
  /\ \A i \in DOMAIN reports : Consistent(reports[i])

IInv == FetchTypes /\ DgramTypes /\ MainTypes /\ Counts

-----------------------------------------------------------------------------
(* Sums and concatenations *)

\* Induction up to n, for a set.
LEMMA Induction ==
  ASSUME NEW n \in Nat, NEW T, 0 \in T,
         \A k \in 0 .. n - 1 : k \in T => k + 1 \in T
  PROVE  0 .. n \subseteq T
<1> DEFINE R == {k \in 0 .. n : k \notin T}
<1> SUFFICES ASSUME R # {} PROVE FALSE
  OBVIOUS
<1>1. R \subseteq Nat
  OBVIOUS
<1> HIDE DEF R
<1>2. \E x \in R : \A y \in R : <<y, x>> \notin OpToRel(<, Nat)
  BY <1>1, WFMin, NatLessThanWellFounded, Zenon
<1>3. PICK x \in R : \A y \in R : ~(y < x)
  BY <1>1, <1>2 DEF OpToRel
<1>4. x \in 1 .. n /\ x \notin T
  BY <1>3 DEF R
<1>5. x - 1 \notin R
  BY <1>3, <1>4
<1>6. x - 1 \in 0 .. n - 1 /\ x - 1 \in T
  BY <1>4, <1>5 DEF R
<1>7. QED
  BY <1>4, <1>6

\* A nonempty set of indices contains its maximum.
LEMMA MaxIn ==
  ASSUME NEW n \in Nat, NEW t \in SUBSET (1 .. n), t # {}
  PROVE  Max(t) \in t
<1> DEFINE T == {k \in 0 .. n : \A y \in t : n - k >= y}
<1> SUFFICES ASSUME \A x \in t : \E y \in t : ~(x >= y) PROVE FALSE
  BY DEF Max
<1>1. 0 \in T
  OBVIOUS
<1>2. ASSUME NEW k \in 0 .. n - 1, k \in T
      PROVE  k + 1 \in T
  <2>1. n - k \notin t
    BY <1>2
  <2>2. \A y \in t : n - k >= y /\ y # n - k /\ y \in Int
    BY <1>2, <2>1
  <2>3. QED
    BY <2>2
<1> HIDE DEF T
<1>3. 0 .. n \subseteq T
  BY <1>1, <1>2, Induction
<1>4. n \in T
  BY <1>3
<1>5. \A y \in t : n - n >= y
  BY <1>4 DEF T
<1>6. PICK y \in t : TRUE
  OBVIOUS
<1>7. y \in Nat /\ y >= 1 /\ n - n >= y
  BY <1>5, <1>6
<1>8. QED
  BY <1>7

\* The recursion of FoldLeft over n elements, as a function on the sets of their
\* indices: steps[a][i] is the result a after the i-th element.
IsFold(f, n, base, steps) ==
  f = [t \in SUBSET (1 .. n) |->
         IF t = {} THEN base ELSE steps[f[t \ {Max(t)}]][Max(t)]]

\* There is such a function.
LEMMA FoldExists ==
  ASSUME NEW n \in Nat, NEW A, NEW base \in A, NEW steps \in [A -> [1 .. n -> A]]
  PROVE  \E f \in [SUBSET (1 .. n) -> A] : IsFold(f, n, base, steps)
<1> DEFINE T == {k \in 0 .. n :
                   \E f \in [SUBSET (1 .. k) -> A] : IsFold(f, k, base, steps)}
<1>1. 0 \in T
  <2> DEFINE f == [t \in SUBSET (1 .. 0) |-> base]
  <2>1. \A t \in SUBSET (1 .. 0) : t = {}
    OBVIOUS
  <2>2. f \in [SUBSET (1 .. 0) -> A] /\ IsFold(f, 0, base, steps)
    BY <2>1 DEF IsFold
  <2>3. QED
    BY <2>2
<1>2. ASSUME NEW k \in 0 .. n - 1, k \in T
      PROVE  k + 1 \in T
  <2>1. PICK f \in [SUBSET (1 .. k) -> A] : IsFold(f, k, base, steps)
    BY <1>2
  <2> DEFINE g == [t \in SUBSET (1 .. k + 1) |->
                     IF k + 1 \in t THEN steps[f[t \ {k + 1}]][k + 1] ELSE f[t]]
  <2>2. \A t \in SUBSET (1 .. k + 1) :
          (k + 1 \notin t => t \in SUBSET (1 .. k)) /\ t \ {k + 1} \in SUBSET (1 .. k)
    <3>1. 1 .. k + 1 = (1 .. k) \cup {k + 1} /\ k + 1 \notin 1 .. k
      OBVIOUS
    <3>2. QED
      BY <3>1
  <2>3. g \in [SUBSET (1 .. k + 1) -> A]
    <3>1. ASSUME NEW t \in SUBSET (1 .. k + 1), k + 1 \in t
          PROVE  steps[f[t \ {k + 1}]][k + 1] \in A
      <4>1. t \ {k + 1} \in SUBSET (1 .. k)
        BY <2>2
      <4>2. f[t \ {k + 1}] \in A /\ k + 1 \in 1 .. n
        BY <4>1
      <4>3. QED
        BY <4>2
    <3>2. QED
      BY <2>2, <3>1
  <2>4. ASSUME NEW t \in SUBSET (1 .. k + 1)
        PROVE  g[t] = IF t = {} THEN base ELSE steps[g[t \ {Max(t)}]][Max(t)]
    <3>1. CASE k + 1 \in t
      <4>1. /\ k + 1 \in t
            /\ \A y \in t : k + 1 >= y
            /\ \A x \in t : (\A y \in t : x >= y) => x = k + 1
        BY <3>1
      <4>2. Max(t) = k + 1
        BY <4>1 DEF Max
      <4>3. t \ {k + 1} \in SUBSET (1 .. k + 1) /\ k + 1 \notin t \ {k + 1}
        OBVIOUS
      <4>4. g[t \ {k + 1}] = f[t \ {k + 1}]
        BY <4>3
      <4>5. QED
        BY <3>1, <4>2, <4>4
    <3>2. CASE k + 1 \notin t
      <4> DEFINE u == t \ {Max(t)}
      <4>1. t \in SUBSET (1 .. k) /\ g[t] = f[t]
        BY <2>2, <3>2
      <4>2. u \subseteq t
        OBVIOUS
      <4> HIDE DEF u
      <4>3. u \in SUBSET (1 .. k + 1) /\ k + 1 \notin u
        BY <3>2, <4>2
      <4>4. g[u] = f[u]
        BY <4>3
      <4> HIDE DEF g
      <4>5. f[t] = IF t = {} THEN base ELSE steps[f[u]][Max(t)]
        BY <2>1, <4>1 DEF IsFold, u
      <4>6. QED
        BY <4>1, <4>4, <4>5 DEF u
    <3>3. QED
      BY <3>1, <3>2
  <2>5. IsFold(g, k + 1, base, steps)
    BY <2>4 DEF IsFold
  <2> HIDE DEF g
  <2>6. QED
    BY <2>3, <2>5
<1> HIDE DEF T
<1>3. 0 .. n \subseteq T
  BY <1>1, <1>2, Induction
<1>5. n \in T
  BY <1>3
<1>6. QED
  BY <1>5 DEF T

\* The sets of the first indices, along which FoldLeft goes.
LEMMA FirstIndices ==
  ASSUME NEW n \in Nat, NEW k \in 1 .. n
  PROVE  /\ 1 .. k \in SUBSET (1 .. n) /\ 1 .. k # {}
         /\ (1 .. k) \ {k} = 1 .. k - 1
         /\ Max(1 .. k) = k
<1>1. k \in Nat /\ 1 <= k /\ k <= n
  OBVIOUS
<1>2. \A x : x \in 1 .. k <=> x \in 1 .. k - 1 \/ x = k
  BY <1>1
<1>3. k \in 1 .. k /\ k \notin 1 .. k - 1 /\ 1 .. k \in SUBSET (1 .. n)
  BY <1>1
<1>4. 1 .. k # {} /\ (1 .. k) \ {k} = 1 .. k - 1
  BY <1>2, <1>3
<1>5. (\A y \in 1 .. k : k >= y) /\ \A x \in 1 .. k : x >= k => x = k
  BY <1>1
<1>6. Max(1 .. k) = k
  BY <1>3, <1>5 DEF Max
<1>7. QED
  BY <1>3, <1>4, <1>6

-----------------------------------------------------------------------------
(* Sums over the reports *)

SumOf(rs, c) == FoldLeft(LAMBDA n, r : n + r[c], 0, rs)

\* The recursion that defines it.
IsSum(f, rs, c) ==
  f = [t \in SUBSET (1 .. Len(rs)) |->
         IF t = {} THEN 0 ELSE f[t \ {Max(t)}] + rs[Max(t)][c]]

\* A sum is reached by adding one report after the other.
LEMMA SumChain ==
  ASSUME NEW rs \in Seq([Counters -> Nat]), NEW c \in Counters
  PROVE  \E a \in [0 .. Len(rs) -> Nat] :
           /\ a[0] = 0
           /\ \A k \in 1 .. Len(rs) : a[k] = a[k - 1] + rs[k][c]
           /\ SumOf(rs, c) = a[Len(rs)]
<1> DEFINE n == Len(rs)
<1>1. n \in Nat /\ DOMAIN rs = 1 .. n /\ \A i \in 1 .. n : rs[i][c] \in Nat
  <2>1. n \in Nat /\ DOMAIN rs = 1 .. n /\ \A i \in 1 .. n : rs[i] \in [Counters -> Nat]
    BY LenProperties, ElementOfSeq
  <2>2. QED
    BY <2>1
<1> HIDE DEF n
<1> DEFINE steps == [a \in Nat |-> [i \in 1 .. n |-> a + rs[i][c]]]
<1>2. /\ steps \in [Nat -> [1 .. n -> Nat]]
      /\ 0 \in Nat
  BY <1>1
<1>3. PICK f \in [SUBSET (1 .. n) -> Nat] : IsFold(f, n, 0, steps)
  BY <1>1, <1>2, FoldExists
<1>4. IsSum(f, rs, c)
  <2>1. ASSUME NEW t \in SUBSET (1 .. n), t # {}
        PROVE  steps[f[t \ {Max(t)}]][Max(t)] = f[t \ {Max(t)}] + rs[Max(t)][c]
    <3>1. Max(t) \in 1 .. n
      BY <1>1, <2>1, MaxIn
    <3>2. t \ {Max(t)} \in SUBSET (1 .. n)
      OBVIOUS
    <3>3. f[t \ {Max(t)}] \in Nat
      BY <3>2
    <3>4. QED
      BY <3>1, <3>3
  <2> HIDE DEF steps
  <2>2. QED
    BY <1>3, <2>1 DEF IsFold, IsSum, n
<1> DEFINE g == CHOOSE h : IsSum(h, rs, c)
<1>5. SumOf(rs, c) = g[1 .. n] /\ IsSum(g, rs, c)
  BY <1>1, <1>4 DEF SumOf, IsSum, FoldLeft, MapThenFoldSet, n
<1> HIDE DEF g
<1> DEFINE a == [k \in 0 .. n |-> g[1 .. k]]
<1>6. a[0] = 0
  BY <1>1, <1>5 DEF IsSum, n
<1>7. ASSUME NEW k \in 1 .. n
      PROVE  a[k] = a[k - 1] + rs[k][c]
  <2>1. g[1 .. k] = g[1 .. k - 1] + rs[k][c]
    <3>1. /\ 1 .. k \in SUBSET (1 .. n) /\ 1 .. k # {}
          /\ Max(1 .. k) = k /\ (1 .. k) \ {k} = 1 .. k - 1
      BY <1>1, FirstIndices
    <3>2. g[1 .. k] = g[(1 .. k) \ {Max(1 .. k)}] + rs[Max(1 .. k)][c]
      BY <1>5, <3>1 DEF IsSum, n
    <3>3. QED
      BY <3>1, <3>2
  <2>2. a[k] = g[1 .. k] /\ a[k - 1] = g[1 .. k - 1]
    BY <1>1
  <2> HIDE DEF a
  <2>3. QED
    BY <2>1, <2>2
<1>8. a \in [0 .. n -> Nat]
  <2> HIDE DEF a
  <2> DEFINE T == {k \in 0 .. n : a[k] \in Nat}
  <2> HIDE DEF steps
  <2>1. 0 \in T
    <3>1. a[0] \in Nat
      BY <1>2, <1>6
    <3>2. QED
      BY <1>1, <3>1
  <2>2. ASSUME NEW k \in 0 .. n - 1, a[k] \in Nat
        PROVE  a[k + 1] \in Nat
    <3>1. k + 1 \in 1 .. n /\ (k + 1) - 1 = k
      BY <1>1
    <3>2. a[k + 1] = a[k] + rs[k + 1][c]
      BY <1>7, <3>1
    <3>3. QED
      BY <1>1, <2>2, <3>1, <3>2
  <2>3. \A k \in 0 .. n - 1 : k \in T => k + 1 \in T
    BY <1>1, <2>2
  <2> HIDE DEF T
  <2>4. 0 .. n \subseteq T
    BY <1>1, <2>1, <2>3, Induction
  <2>5. QED
    BY <2>4 DEF T, a
<1>9. n \in 0 .. n
  BY <1>1
<1>10. QED
  BY <1>1, <1>5, <1>6, <1>7, <1>8, <1>9 DEF n

\* One more report adds its counter to the sum.
LEMMA SumAppend ==
  ASSUME NEW rs \in Seq([Counters -> Nat]), NEW c \in Counters, NEW r \in [Counters -> Nat]
  PROVE  /\ SumOf(rs, c) \in Nat
         /\ SumOf(Append(rs, r), c) = SumOf(rs, c) + r[c]
<1> DEFINE n == Len(rs)
           z == Append(rs, r)
<1>1. /\ z \in Seq([Counters -> Nat]) /\ Len(z) = n + 1 /\ n \in Nat
      /\ \A k \in 1 .. n : z[k] = rs[k]
      /\ z[n + 1] = r
  BY AppendProperties, LenProperties
<1> HIDE DEF z, n
<1>2. PICK a \in [0 .. n -> Nat] :
        /\ a[0] = 0
        /\ \A k \in 1 .. n : a[k] = a[k - 1] + rs[k][c]
        /\ SumOf(rs, c) = a[n]
  BY SumChain DEF n
<1>3. PICK b \in [0 .. Len(z) -> Nat] :
        /\ b[0] = 0
        /\ \A k \in 1 .. Len(z) : b[k] = b[k - 1] + z[k][c]
        /\ SumOf(z, c) = b[Len(z)]
  BY <1>1, SumChain
<1>4. a[0] = b[0]
  BY <1>2, <1>3
<1>5. ASSUME NEW k \in 0 .. n - 1, b[k] = a[k]
      PROVE  b[k + 1] = a[k + 1]
  <2>1. k + 1 \in 1 .. n /\ k + 1 \in 1 .. Len(z) /\ (k + 1) - 1 = k
    BY <1>1
  <2>2. a[k + 1] = a[k] + rs[k + 1][c]
    BY <1>2, <2>1
  <2>3. b[k + 1] = b[k] + z[k + 1][c]
    BY <1>3, <2>1
  <2>4. z[k + 1] = rs[k + 1]
    BY <1>1, <2>1
  <2>5. QED
    BY <1>5, <2>2, <2>3, <2>4
<1> DEFINE T == {k \in 0 .. n : b[k] = a[k]}
<1>6. 0 \in T
  BY <1>1, <1>4
<1>7. ASSUME NEW k \in 0 .. n - 1, k \in T
       PROVE  k + 1 \in T
  <2>1. k + 1 \in 0 .. n
    BY <1>1
  <2>2. QED
    BY <1>5, <1>7, <2>1
<1> HIDE DEF T
<1>8. 0 .. n \subseteq T
  BY <1>1, <1>6, <1>7, Induction
<1>9. n \in T /\ n \in 0 .. n
  BY <1>1, <1>8
<1>10. b[n] = a[n] /\ a[n] \in Nat
  BY <1>2, <1>9 DEF T
<1>11. n + 1 \in 1 .. Len(z) /\ (n + 1) - 1 = n
  BY <1>1
<1>12. b[n + 1] = b[n] + z[n + 1][c]
  BY <1>3, <1>11
<1>13. SumOf(z, c) = b[n] + r[c]
  BY <1>1, <1>3, <1>12
<1>14. QED
  BY <1>2, <1>10, <1>13 DEF z

-----------------------------------------------------------------------------
(* The packets of a sequence of datagrams *)

Joined(ds) == FoldLeft(LAMBDA s, d : s \o d.rxpk, <<>>, ds)

\* The recursion that defines it.
IsJoin(f, ds) ==
  f = [t \in SUBSET (1 .. Len(ds)) |->
         IF t = {} THEN <<>> ELSE f[t \ {Max(t)}] \o ds[Max(t)].rxpk]

\* The packets are reached by joining those of one datagram after the other.
LEMMA JoinChain ==
  ASSUME NEW ds \in Seq(Dgram)
  PROVE  \E a \in [0 .. Len(ds) -> Seq(1 .. MaxPkt)] :
           /\ a[0] = <<>>
           /\ \A k \in 1 .. Len(ds) : a[k] = a[k - 1] \o ds[k].rxpk
           /\ Joined(ds) = a[Len(ds)]
<1> DEFINE n == Len(ds)
<1>1. n \in Nat /\ DOMAIN ds = 1 .. n /\ \A i \in 1 .. n : ds[i].rxpk \in Seq(1 .. MaxPkt)
  <2>1. n \in Nat /\ DOMAIN ds = 1 .. n /\ \A i \in 1 .. n : ds[i] \in Dgram
    BY LenProperties, ElementOfSeq
  <2>2. QED
    BY <2>1 DEF Dgram
<1> HIDE DEF n
<1> DEFINE steps == [a \in Seq(1 .. MaxPkt) |-> [i \in 1 .. n |-> a \o ds[i].rxpk]]
<1>2. /\ steps \in [Seq(1 .. MaxPkt) -> [1 .. n -> Seq(1 .. MaxPkt)]]
      /\ <<>> \in Seq(1 .. MaxPkt)
  BY <1>1, ConcatProperties, EmptySeq
<1>3. PICK f \in [SUBSET (1 .. n) -> Seq(1 .. MaxPkt)] : IsFold(f, n, <<>>, steps)
  BY <1>1, <1>2, FoldExists
<1>4. IsJoin(f, ds)
  <2>1. ASSUME NEW t \in SUBSET (1 .. n), t # {}
        PROVE  steps[f[t \ {Max(t)}]][Max(t)] = f[t \ {Max(t)}] \o ds[Max(t)].rxpk
    <3>1. Max(t) \in 1 .. n
      BY <1>1, <2>1, MaxIn
    <3>2. t \ {Max(t)} \in SUBSET (1 .. n)
      OBVIOUS
    <3>3. f[t \ {Max(t)}] \in Seq(1 .. MaxPkt)
      BY <3>2
    <3>4. QED
      BY <3>1, <3>3
  <2> HIDE DEF steps
  <2>2. QED
    BY <1>3, <2>1 DEF IsFold, IsJoin, n
<1> DEFINE g == CHOOSE h : IsJoin(h, ds)
<1>5. Joined(ds) = g[1 .. n] /\ IsJoin(g, ds)
  BY <1>1, <1>4 DEF Joined, IsJoin, FoldLeft, MapThenFoldSet, n
<1> HIDE DEF g
<1> DEFINE a == [k \in 0 .. n |-> g[1 .. k]]
<1>6. a[0] = <<>>
  BY <1>1, <1>5 DEF IsJoin, n
<1>7. ASSUME NEW k \in 1 .. n
      PROVE  a[k] = a[k - 1] \o ds[k].rxpk
  <2>1. g[1 .. k] = g[1 .. k - 1] \o ds[k].rxpk
    <3>1. /\ 1 .. k \in SUBSET (1 .. n) /\ 1 .. k # {}
          /\ Max(1 .. k) = k /\ (1 .. k) \ {k} = 1 .. k - 1
      BY <1>1, FirstIndices
    <3>2. g[1 .. k] = g[(1 .. k) \ {Max(1 .. k)}] \o ds[Max(1 .. k)].rxpk
      BY <1>5, <3>1 DEF IsJoin, n
    <3>3. QED
      BY <3>1, <3>2
  <2>2. a[k] = g[1 .. k] /\ a[k - 1] = g[1 .. k - 1]
    BY <1>1
  <2> HIDE DEF a
  <2>3. QED
    BY <2>1, <2>2
<1>8. a \in [0 .. n -> Seq(1 .. MaxPkt)]
  <2> HIDE DEF a
  <2> DEFINE T == {k \in 0 .. n : a[k] \in Seq(1 .. MaxPkt)}
  <2> HIDE DEF steps
  <2>1. 0 \in T
    <3>1. a[0] \in Seq(1 .. MaxPkt)
      BY <1>2, <1>6
    <3>2. QED
      BY <1>1, <3>1
  <2>2. ASSUME NEW k \in 0 .. n - 1, a[k] \in Seq(1 .. MaxPkt)
        PROVE  a[k + 1] \in Seq(1 .. MaxPkt)
    <3>1. k + 1 \in 1 .. n /\ (k + 1) - 1 = k
      BY <1>1
    <3>2. a[k + 1] = a[k] \o ds[k + 1].rxpk
      BY <1>7, <3>1
    <3>3. QED
      BY <1>1, <2>2, <3>1, <3>2, ConcatProperties, EmptySeq
  <2>3. \A k \in 0 .. n - 1 : k \in T => k + 1 \in T
    BY <1>1, <2>2
  <2> HIDE DEF T
  <2>4. 0 .. n \subseteq T
    BY <1>1, <2>1, <2>3, Induction
  <2>5. QED
    BY <2>4 DEF T, a
<1>9. n \in 0 .. n
  BY <1>1
<1>10. QED
  BY <1>1, <1>5, <1>6, <1>7, <1>8, <1>9 DEF n

\* One more datagram adds its packets.
LEMMA JoinAppend ==
  ASSUME NEW ds \in Seq(Dgram), NEW d \in Dgram
  PROVE  /\ Joined(ds) \in Seq(1 .. MaxPkt)
         /\ Joined(Append(ds, d)) = Joined(ds) \o d.rxpk
<1> DEFINE n == Len(ds)
           z == Append(ds, d)
<1>1. /\ z \in Seq(Dgram) /\ Len(z) = n + 1 /\ n \in Nat
      /\ \A k \in 1 .. n : z[k] = ds[k]
      /\ z[n + 1] = d
  BY AppendProperties, LenProperties
<1> HIDE DEF z, n
<1>2. PICK a \in [0 .. n -> Seq(1 .. MaxPkt)] :
        /\ a[0] = <<>>
        /\ \A k \in 1 .. n : a[k] = a[k - 1] \o ds[k].rxpk
        /\ Joined(ds) = a[n]
  BY JoinChain DEF n
<1>3. PICK b \in [0 .. Len(z) -> Seq(1 .. MaxPkt)] :
        /\ b[0] = <<>>
        /\ \A k \in 1 .. Len(z) : b[k] = b[k - 1] \o z[k].rxpk
        /\ Joined(z) = b[Len(z)]
  BY <1>1, JoinChain
<1>4. a[0] = b[0]
  BY <1>2, <1>3
<1>5. ASSUME NEW k \in 0 .. n - 1, b[k] = a[k]
      PROVE  b[k + 1] = a[k + 1]
  <2>1. k + 1 \in 1 .. n /\ k + 1 \in 1 .. Len(z) /\ (k + 1) - 1 = k
    BY <1>1
  <2>2. a[k + 1] = a[k] \o ds[k + 1].rxpk
    BY <1>2, <2>1
  <2>3. b[k + 1] = b[k] \o z[k + 1].rxpk
    BY <1>3, <2>1
  <2>4. z[k + 1] = ds[k + 1]
    BY <1>1, <2>1
  <2>5. QED
    BY <1>5, <2>2, <2>3, <2>4
<1> DEFINE T == {k \in 0 .. n : b[k] = a[k]}
<1>6. 0 \in T
  BY <1>1, <1>4
<1>7. ASSUME NEW k \in 0 .. n - 1, k \in T
       PROVE  k + 1 \in T
  <2>1. k + 1 \in 0 .. n
    BY <1>1
  <2>2. QED
    BY <1>5, <1>7, <2>1
<1> HIDE DEF T
<1>8. 0 .. n \subseteq T
  BY <1>1, <1>6, <1>7, Induction
<1>9. n \in T /\ n \in 0 .. n
  BY <1>1, <1>8
<1>10. b[n] = a[n] /\ a[n] \in Seq(1 .. MaxPkt)
  BY <1>2, <1>9 DEF T
<1>11. n + 1 \in 1 .. Len(z) /\ (n + 1) - 1 = n
  BY <1>1
<1>12. b[n + 1] = b[n] \o z[n + 1].rxpk
  BY <1>3, <1>11
<1>13. Joined(z) = b[n] \o d.rxpk
  BY <1>1, <1>3, <1>12
<1>14. QED
  BY <1>2, <1>10, <1>13 DEF z

-----------------------------------------------------------------------------
(* The data *)

\* A counter counts one event at a time.
LEMMA CountValues ==
  ASSUME NEW m \in [Counters -> Nat], NEW cs
  PROVE  /\ Count(m, cs) \in [Counters -> Nat]
         /\ \A c \in Counters :
              Count(m, cs)[c] = m[c] + (IF c \in cs THEN 1 ELSE 0)
BY DEF Count

\* The counters after a reset are consistent.
LEMMA ZeroFacts == Zero \in [Counters -> Nat] /\ Consistent(Zero)
BY DEF Zero, Counters, Consistent

\* A packet is counted as received with what else is counted for it, and with
\* one status at most.
LEMMA CountedFacts ==
  ASSUME NEW m \in [Counters -> Nat], Consistent(m), NEW s \in Statuses
  PROVE  /\ Consistent(Count(m, Counted(s)))
         /\ Count(m, Counted(s))["ack"] = m["ack"]
         /\ Count(m, Counted(s))["dgram"] = m["dgram"]
<1>1. s \in {"ok", "bad", "nocrc", "other"}
  BY UplinkAssumption
<1>2. Counters = {"rcv", "ok", "bad", "nocrc", "fwd", "dgram", "ack"}
  BY DEF Counters
<1>3. /\ "rcv" \in Counted(s)
      /\ "dgram" \notin Counted(s) /\ "ack" \notin Counted(s)
      /\ \A x \in {"ok", "bad", "nocrc"} : x \in Counted(s) => x = s
  BY <1>1 DEF Counted, Counters
<1> DEFINE n == Count(m, Counted(s))
<1>4. /\ n["rcv"] = m["rcv"] + 1
      /\ n["ok"] = m["ok"] + (IF "ok" \in Counted(s) THEN 1 ELSE 0)
      /\ n["bad"] = m["bad"] + (IF "bad" \in Counted(s) THEN 1 ELSE 0)
      /\ n["nocrc"] = m["nocrc"] + (IF "nocrc" \in Counted(s) THEN 1 ELSE 0)
      /\ n["fwd"] = m["fwd"] + (IF "fwd" \in Counted(s) THEN 1 ELSE 0)
      /\ n["dgram"] = m["dgram"] /\ n["ack"] = m["ack"]
  BY <1>2, <1>3, CountValues
<1>5. \A c \in Counters : m[c] \in Nat
  OBVIOUS
<1> HIDE DEF n
<1>6. Consistent(n)
  BY <1>2, <1>3, <1>4, <1>5 DEF Consistent
<1>7. QED
  BY <1>4, <1>6 DEF n

\* A datagram that is being composed, or none, is one.
LEMMA DgramFacts ==
  ASSUME NEW t \in Tokens \cup {NoToken}
  PROVE  [token |-> t, rxpk |-> <<>>, stat |-> 0] \in Dgram
<1>1. <<>> \in Seq(1 .. MaxPkt) /\ 0 \in 0 .. MaxReport
  BY UplinkAssumption
<1>2. QED
  BY <1>1 DEF Dgram

-----------------------------------------------------------------------------
(* The invariant *)

\* Nothing has been fetched, counted or sent.
LEMMA InitInv == Init => IInv
<1> SUFFICES ASSUME Init PROVE IInv
  OBVIOUS
<1>1. FetchTypes
  <2>1. /\ upc = "fetch" /\ status = <<>> /\ todo = <<>>
        /\ tries = 0 /\ cycles = 0 /\ quit \in BOOLEAN
    BY DEF Init
  <2>2. /\ status \in Seq(Statuses) /\ Len(status) = 0
        /\ todo \in Seq(1 .. Len(status)) /\ Len(todo) = 0
    BY <2>1, EmptySeq
  <2>3. Len(status) <= MaxPkt /\ Len(todo) <= NbPktMax
    BY <2>2, UplinkAssumption
  <2>4. QED
    BY <2>1, <2>2, <2>3 DEF FetchTypes
<1>2. DgramTypes
  <2>1. NoDgram \in Dgram /\ <<>> \in Seq(Dgram) /\ 0 \in 0 .. MaxReport
    BY UplinkAssumption, DgramFacts, EmptySeq DEF NoDgram
  <2> HIDE DEF NoDgram
  <2>2. QED
    BY <2>1 DEF Init, DgramTypes
<1>3. MainTypes
  BY UplinkAssumption, EmptySeq DEF Init, MainTypes
<1>4. Counts
  BY ZeroFacts DEF Init, Counts
<1>5. QED
  BY <1>1, <1>2, <1>3, <1>4 DEF IInv

\* The packets fetched, and the place of thread_up.
LEMMA FetchStep ==
  ASSUME IInv, [Next]_vars
  PROVE  FetchTypes'
<1> USE DEF IInv, FetchTypes
<1>1. CASE UpFetch
  <2>0. PICK n \in 0 .. NbPktMax :
          /\ Len(status) + n <= MaxPkt
          /\ \E s \in [1 .. n -> Statuses] :
               /\ status' = status \o s
               /\ todo' = [i \in 1 .. n |-> Len(status) + i]
    BY <1>1 DEF UpFetch
  <2>1. PICK s \in [1 .. n -> Statuses] :
          /\ status' = status \o s
          /\ todo' = [i \in 1 .. n |-> Len(status) + i]
    BY <2>0
  <2>2. n \in Nat /\ NbPktMax \in Nat /\ Len(status) \in Nat /\ n <= NbPktMax
    BY UplinkAssumption, LenProperties
  <2>3. s \in Seq(Statuses) /\ Len(s) = n
    BY <2>2, IsASeq, LenProperties
  <2>4. status' \in Seq(Statuses) /\ Len(status') = Len(status) + n
    BY <2>1, <2>3, ConcatProperties
  <2>5. todo' \in [1 .. n -> 1 .. Len(status')]
    BY <2>0, <2>1, <2>2, <2>4
  <2>6. todo' \in Seq(1 .. Len(status')) /\ Len(todo') = n
    BY <2>2, <2>5, IsASeq, LenProperties
  <2>7. /\ upc' = "flag" /\ tries' = tries /\ quit' = quit
        /\ cycles' \in {2, cycles + 1} /\ (cycles' = cycles + 1 => cycles < 2)
    BY <1>1 DEF UpFetch
  <2>8. QED
    BY <2>0, <2>2, <2>4, <2>6, <2>7
<1>2. CASE UpFilter
  <2>1. todo # <<>> /\ todo' = Tail(todo)
        /\ UNCHANGED <<upc, status, tries, cycles, quit>>
    BY <1>2 DEF UpFilter
  <2>2. /\ todo' \in Seq(1 .. Len(status))
        /\ Len(todo') = Len(todo) - 1
    BY <2>1, HeadTailProperties
  <2>3. QED
    BY <2>1, <2>2, UplinkAssumption, LenProperties
<1>3. CASE UpNoAck
  <2>1. /\ UNCHANGED <<status, todo, cycles, quit>>
        /\ \/ upc' = "fetch" /\ tries' = 0
           \/ upc' = upc /\ tries' = tries - 1 /\ tries' # 0
    BY <1>3 DEF UpNoAck
  <2>2. QED
    BY <2>1, <1>3 DEF UpNoAck
<1>4. CASE UpFlag \/ UpSkip \/ UpReport \/ UpSend \/ UpCount \/ UpAck \/ UpQuit
  <2>1. /\ UNCHANGED <<status, todo, cycles, quit>>
        /\ \/ upc' \in {"fetch", "filter", "send", "count", "done"}
              /\ tries' \in {tries, 0}
           \/ upc' = "ack" /\ tries' = 2
    BY <1>4 DEF UpFlag, UpSkip, UpReport, UpSend, UpCount, UpAck, UpQuit
  <2>2. QED
    BY <2>1
<1>5. CASE MainReport
  <2>1. UNCHANGED <<upc, status, todo, tries, quit>> /\ cycles' = 0
    BY <1>5 DEF MainReport, thread_up
  <2>2. QED
    BY <2>1
<1>6. CASE Signal
  <2>1. UNCHANGED <<upc, status, todo, tries, cycles>> /\ quit' = TRUE
    BY <1>6 DEF Signal, thread_up
  <2>2. QED
    BY <2>1
<1>7. CASE MainCopy \/ MainJoin \/ UNCHANGED vars
  <2>1. UNCHANGED <<upc, status, todo, tries, cycles, quit>>
    BY <1>7 DEF MainCopy, MainJoin, thread_up, vars
  <2>2. QED
    BY <2>1
<1>8. QED
  BY <1>1, <1>2, <1>3, <1>4, <1>5, <1>6, <1>7 DEF Next, UpNext, Ended

\* The datagram, and the report it takes along.
LEMMA DgramStep ==
  ASSUME IInv, [Next]_vars
  PROVE  DgramTypes'
<1> USE DEF IInv, DgramTypes
<1>1. CASE UpFlag
  <2>1. /\ UNCHANGED <<dgrams, atServer, reportReady, statusReport>>
        /\ sendReport' = reportReady
        /\ \/ dgram' = dgram
           \/ \E t \in Tokens : dgram' = [token |-> t, rxpk |-> <<>>, stat |-> 0]
    BY <1>1 DEF UpFlag
  <2>2. dgram' \in Dgram
    BY <2>1, DgramFacts
  <2>3. QED
    BY <2>1, <2>2
<1>2. CASE UpFilter
  <2>1. /\ UNCHANGED <<sendReport, reportReady, statusReport, dgrams, atServer>>
        /\ \/ dgram' = dgram
           \/ dgram' = [dgram EXCEPT !.rxpk = Append(@, Head(todo))]
    BY <1>2 DEF UpFilter
  <2>2. Head(todo) \in 1 .. MaxPkt
    <3>1. Head(todo) \in 1 .. Len(status) /\ Len(status) \in Nat
      BY <1>2, HeadTailProperties, LenProperties DEF UpFilter, FetchTypes
    <3>2. QED
      BY <3>1, UplinkAssumption DEF FetchTypes
  <2>3. Append(dgram.rxpk, Head(todo)) \in Seq(1 .. MaxPkt)
    BY <2>2, AppendProperties DEF Dgram
  <2>4. dgram' \in Dgram
    BY <2>1, <2>3 DEF Dgram
  <2>5. QED
    BY <2>1, <2>4
<1>3. CASE UpReport
  <2>1. /\ UNCHANGED <<sendReport, statusReport, dgrams, atServer>>
        /\ \/ dgram' = [dgram EXCEPT !.stat = statusReport] /\ reportReady' = FALSE
           \/ UNCHANGED <<dgram, reportReady>>
    BY <1>3 DEF UpReport
  <2>2. dgram' \in Dgram
    BY <2>1 DEF Dgram
  <2>3. reportReady' \in BOOLEAN
    BY <2>1
  <2>4. QED
    BY <2>1, <2>2, <2>3
<1>4. CASE UpSend
  <2>1. /\ UNCHANGED <<sendReport, reportReady, statusReport, dgram>>
        /\ dgrams' = Append(dgrams, dgram)
        /\ atServer' \subseteq atServer \cup {Len(dgrams) + 1}
    BY <1>4 DEF UpSend
  <2>2. /\ dgrams' \in Seq(Dgram) /\ Len(dgrams') = Len(dgrams) + 1
        /\ DOMAIN dgrams = 1 .. Len(dgrams) /\ DOMAIN dgrams' = 1 .. Len(dgrams')
        /\ Len(dgrams) \in Nat
    BY <2>1, AppendProperties, LenProperties
  <2>3. QED
    BY <2>1, <2>2
<1>5. CASE MainReport
  <2>1. /\ UNCHANGED <<sendReport, dgram, dgrams, atServer>>
        /\ statusReport' = Len(reports) + 1 /\ reportReady' = TRUE
        /\ Len(reports) < MaxReport /\ Len(reports) \in Nat
    BY <1>5, LenProperties DEF MainReport, thread_up, MainTypes
  <2>2. QED
    BY <2>1, UplinkAssumption
<1>6. CASE UpSkip \/ UpAck \/ UpNoAck
  <2>1. /\ UNCHANGED <<sendReport, reportReady, statusReport, dgrams, atServer>>
        /\ dgram' \in {dgram, NoDgram}
    BY <1>6 DEF UpSkip, UpAck, UpNoAck
  <2>2. NoDgram \in Dgram
    BY DgramFacts DEF NoDgram
  <2>3. QED
    BY <2>1, <2>2
<1>7. CASE UpFetch \/ UpCount \/ UpQuit \/ MainCopy \/ MainJoin \/ Signal
           \/ UNCHANGED vars
  <2>1. UNCHANGED <<sendReport, reportReady, statusReport, dgram, dgrams, atServer>>
    BY <1>7 DEF UpFetch, UpCount, UpQuit, MainCopy, MainJoin, Signal, thread_up, vars
  <2>2. QED
    BY <2>1
<1>8. QED
  BY <1>1, <1>2, <1>3, <1>4, <1>5, <1>6, <1>7 DEF Next, UpNext, Ended

\* The reports of main.
LEMMA MainStep ==
  ASSUME IInv, [Next]_vars
  PROVE  MainTypes'
<1> USE DEF IInv, MainTypes
<1>1. CASE MainCopy
  BY <1>1 DEF MainCopy
<1>2. CASE MainReport
  <2>1. /\ reports' = Append(reports, cp) /\ cp \in [Counters -> Nat]
        /\ mpc' \in {"join", "wait"} /\ Len(reports) < MaxReport
    BY <1>2 DEF MainReport, Counts
  <2>2. /\ reports' \in Seq([Counters -> Nat])
        /\ Len(reports') = Len(reports) + 1 /\ Len(reports) \in Nat
    BY <2>1, AppendProperties, LenProperties
  <2>3. QED
    BY <2>1, <2>2, UplinkAssumption
<1>3. CASE MainJoin
  BY <1>3 DEF MainJoin
<1>4. CASE UNCHANGED <<mpc, reports>>
  BY <1>4
<1>5. QED
  BY <1>1, <1>2, <1>3, <1>4
  DEF Next, UpNext, UpFetch, UpFlag, UpFilter, UpSkip, UpReport, UpSend, UpCount,
      UpAck, UpNoAck, UpQuit, Signal, Ended, main, vars

\* The counters belong together, wherever thread_up is.
LEMMA CountsStep ==
  ASSUME IInv, [Next]_vars
  PROVE  Counts'
<1> USE DEF IInv, Counts
<1>1. CASE UpFilter
  <2>1. /\ meas' = Count(meas, Counted(status[Head(todo)]))
        /\ UNCHANGED <<upc, cp, reports>>
    BY <1>1 DEF UpFilter, main
  <2>2. status[Head(todo)] \in Statuses
    <3>1. Head(todo) \in 1 .. Len(status)
      BY <1>1, HeadTailProperties DEF UpFilter, FetchTypes
    <3>2. QED
      BY <3>1, ElementOfSeq DEF FetchTypes
  <2>3. QED
    BY <2>1, <2>2, CountValues, CountedFacts
<1>2. CASE UpCount
  <2>1. meas' = Count(meas, {"dgram"}) /\ UNCHANGED <<cp, reports>>
    BY <1>2 DEF UpCount, main
  <2>2. /\ meas' \in [Counters -> Nat]
        /\ \A c \in Counters : meas'[c] = meas[c] + (IF c = "dgram" THEN 1 ELSE 0)
    BY <2>1, CountValues
  <2>3. Consistent(meas') /\ meas'["ack"] + 1 <= meas'["dgram"]
    BY <2>2 DEF Consistent, Counters
  <2>4. QED
    BY <2>1, <2>2, <2>3
<1>3. CASE UpAck
  <2>1. /\ meas' = Count(meas, {"ack"}) /\ UNCHANGED <<cp, reports>>
        /\ upc = "ack" /\ upc' = "fetch"
    BY <1>3 DEF UpAck, main
  <2>2. /\ meas' \in [Counters -> Nat]
        /\ \A c \in Counters : meas'[c] = meas[c] + (IF c = "ack" THEN 1 ELSE 0)
    BY <2>1, CountValues
  <2>3. Consistent(meas')
    BY <2>1, <2>2 DEF Consistent, Counters
  <2>4. QED
    BY <2>1, <2>2, <2>3
<1>4. CASE MainCopy
  <2>1. cp' = meas /\ meas' = Zero /\ UNCHANGED <<upc, reports>> /\ upc # "ack"
    BY <1>4 DEF MainCopy, Locked, thread_up
  <2>2. QED
    BY <2>1, ZeroFacts
<1>5. CASE MainReport
  <2>1. reports' = Append(reports, cp) /\ UNCHANGED <<upc, cp, meas>>
    BY <1>5 DEF MainReport, thread_up
  <2>2. /\ Len(reports') = Len(reports) + 1 /\ Len(reports) \in Nat
        /\ \A i \in 1 .. Len(reports) : reports'[i] = reports[i]
        /\ reports'[Len(reports) + 1] = cp
        /\ DOMAIN reports = 1 .. Len(reports) /\ DOMAIN reports' = 1 .. Len(reports')
    BY <2>1, AppendProperties, LenProperties DEF MainTypes
  <2>3. \A i \in DOMAIN reports' : Consistent(reports'[i])
    BY <2>2
  <2>4. QED
    BY <2>1, <2>3
<1>6. CASE UpFetch \/ UpFlag \/ UpSkip \/ UpReport \/ UpSend \/ UpNoAck \/ UpQuit
  <2>1. UNCHANGED <<meas, cp, reports>> /\ upc' \in {upc, "fetch", "flag", "filter",
                                                     "send", "count", "done"}
    BY <1>6 DEF UpFetch, UpFlag, UpSkip, UpReport, UpSend, UpNoAck, UpQuit, main
  <2>2. QED
    BY <2>1
<1>7. CASE MainJoin \/ Signal \/ UNCHANGED vars
  <2>1. UNCHANGED <<meas, cp, reports, upc>>
    BY <1>7 DEF MainJoin, Signal, main, thread_up, vars
  <2>2. QED
    BY <2>1
<1>8. QED
  BY <1>1, <1>2, <1>3, <1>4, <1>5, <1>6, <1>7 DEF Next, UpNext, Ended

-----------------------------------------------------------------------------
(* What has been sent *)

\* The number of packets that have been counted.
Done == Len(status) - Len(todo)

\* The packets in the datagram being composed.
Composed == IF upc \in {"filter", "send"} THEN dgram.rxpk ELSE <<>>

\* What is sent is what has been joined from the datagrams, and what is composed.
LEMMA SentParts ==
  ASSUME IInv
  PROVE  /\ Sent = Joined(dgrams) \o Composed
         /\ Joined(dgrams) \in Seq(1 .. MaxPkt)
         /\ dgram.rxpk \in Seq(1 .. MaxPkt) /\ Composed \in Seq(1 .. MaxPkt)
         /\ Sent \in Seq(1 .. MaxPkt)
<1>1. Sent = Joined(dgrams) \o Composed
  BY DEF Sent, Joined, Composed
<1>2. dgrams \in Seq(Dgram) /\ dgram \in Dgram
  BY DEF IInv, DgramTypes
<1>3. dgram.rxpk \in Seq(1 .. MaxPkt)
  BY <1>2 DEF Dgram
<1>4. Joined(dgrams) \in Seq(1 .. MaxPkt)
  BY <1>2, JoinAppend
<1>5. <<>> \in Seq(1 .. MaxPkt)
  BY EmptySeq
<1>6. Composed \in Seq(1 .. MaxPkt)
  BY <1>3, <1>5 DEF Composed
<1>7. Sent \in Seq(1 .. MaxPkt)
  BY <1>1, <1>4, <1>6, ConcatProperties
<1>8. QED
  BY <1>1, <1>3, <1>4, <1>6, <1>7

\* Appending to the second part of a concatenation.
LEMMA ConcatAppend ==
  ASSUME NEW S, NEW s \in Seq(S), NEW t \in Seq(S), NEW x \in S
  PROVE  s \o Append(t, x) = Append(s \o t, x)
<1>1. <<x>> \in Seq(S)
  OBVIOUS
<1>2. s \o t \in Seq(S)
  BY ConcatProperties
<1>3. Append(t, x) = t \o <<x>> /\ Append(s \o t, x) = (s \o t) \o <<x>>
  BY <1>2, AppendIsConcat
<1>4. s \o (t \o <<x>>) = (s \o t) \o <<x>>
  BY <1>1, ConcatAssociative
<1>5. QED
  BY <1>3, <1>4

\* A packet that passes the filter is added, and nothing else changes what has
\* been sent: handing the datagram over does not.
LEMMA SentStep ==
  ASSUME IInv, [Next]_vars
  PROVE  /\ UpFilter =>
              Sent' = IF status[Head(todo)] \in Forwarded
                      THEN Append(Sent, Head(todo)) ELSE Sent
         /\ ~UpFilter => Sent' = Sent
<1> DEFINE S == Seq(1 .. MaxPkt)
<1>1. /\ Sent = Joined(dgrams) \o Composed
      /\ Joined(dgrams) \in S /\ dgram.rxpk \in S /\ Composed \in S
  BY SentParts
<1>2. Sent' = Joined(dgrams)' \o Composed'
  BY DEF Sent, Joined, Composed
<1>3. Joined(dgrams)' = Joined(dgrams')
  OBVIOUS
<1>4. dgrams \in Seq(Dgram) /\ dgram \in Dgram
  BY DEF IInv, DgramTypes
<1>5. CASE UpFilter
  <2>1. dgrams' = dgrams /\ upc = "filter" /\ upc' = "filter"
    BY <1>5 DEF UpFilter
  <2>2. Head(todo) \in 1 .. MaxPkt
    <3>1. Head(todo) \in 1 .. Len(status) /\ Len(status) \in Nat
      BY <1>5, HeadTailProperties, LenProperties DEF UpFilter, IInv, FetchTypes
    <3>2. QED
      BY <3>1, UplinkAssumption DEF IInv, FetchTypes
  <2>3. CASE status[Head(todo)] \in Forwarded
    <3>1. dgram' = [dgram EXCEPT !.rxpk = Append(@, Head(todo))]
      BY <1>5, <2>3 DEF UpFilter
    <3>2. Composed = dgram.rxpk /\ Composed' = Append(dgram.rxpk, Head(todo))
      BY <1>4, <2>1, <3>1 DEF Composed, Dgram
    <3>3. Sent' = Joined(dgrams) \o Append(dgram.rxpk, Head(todo))
      BY <1>2, <1>3, <2>1, <3>2
    <3>4. Sent' = Append(Joined(dgrams) \o dgram.rxpk, Head(todo))
      BY <1>1, <2>2, <3>3, ConcatAppend
    <3>5. QED
      BY <1>1, <1>5, <2>3, <3>2, <3>4
  <2>4. CASE status[Head(todo)] \notin Forwarded
    <3>1. dgram' = dgram
      BY <1>5, <2>4 DEF UpFilter
    <3>2. Composed' = Composed
      BY <2>1, <3>1 DEF Composed
    <3>3. QED
      BY <1>1, <1>2, <1>3, <1>5, <2>1, <2>4, <3>2
  <2>5. QED
    BY <2>3, <2>4
<1>6. CASE UpSend
  <2>1. dgrams' = Append(dgrams, dgram) /\ upc = "send" /\ upc' = "count"
    BY <1>6 DEF UpSend
  <2>2. Joined(dgrams') = Joined(dgrams) \o dgram.rxpk
    BY <1>4, <2>1, JoinAppend
  <2>3. Composed = dgram.rxpk /\ Composed' = <<>>
    BY <2>1 DEF Composed
  <2>4. Joined(dgrams) \o dgram.rxpk \in S
    BY <1>1, ConcatProperties
  <2>5. Sent' = Sent
    BY <1>1, <1>2, <1>3, <2>2, <2>3, <2>4, ConcatEmptySeq
  <2>6. QED
    BY <2>1, <2>5 DEF UpFilter
<1>7. ASSUME dgrams' = dgrams, Composed' = Composed
      PROVE  Sent' = Sent
  BY <1>1, <1>2, <1>3, <1>7
<1>8. CASE UpFlag \/ UpSkip
  <2>1. dgrams' = dgrams
    BY <1>8 DEF UpFlag, UpSkip
  <2>2. Composed = <<>> /\ Composed' = <<>>
    BY <1>8 DEF UpFlag, UpSkip, Composed
  <2>3. QED
    BY <1>7, <1>8, <2>1, <2>2 DEF UpFlag, UpSkip, UpFilter
<1>9. CASE UpReport
  <2>1. dgrams' = dgrams /\ dgram'.rxpk = dgram.rxpk
    BY <1>4, <1>9 DEF UpReport, Dgram
  <2>2. Composed' = Composed
    BY <1>9, <2>1 DEF UpReport, Composed
  <2>3. QED
    BY <1>7, <1>9, <2>1, <2>2 DEF UpReport, UpFilter
<1>10. CASE UpFetch \/ UpCount \/ UpAck \/ UpNoAck \/ UpQuit
  <2>1. dgrams' = dgrams /\ Composed = <<>> /\ Composed' = <<>>
    BY <1>10 DEF UpFetch, UpCount, UpAck, UpNoAck, UpQuit, Composed
  <2>2. QED
    BY <1>7, <1>10, <2>1 DEF UpFetch, UpCount, UpAck, UpNoAck, UpQuit, UpFilter
<1>11. CASE MainCopy \/ MainReport \/ MainJoin \/ Signal \/ UNCHANGED vars
  <2>1. UNCHANGED <<dgrams, dgram, upc, todo>>
    BY <1>11 DEF MainCopy, MainReport, MainJoin, Signal, thread_up, vars
  <2>2. Sent' = Sent
    BY <1>7, <2>1 DEF Composed
  <2>3. ~UpFilter
    <3>1. todo # <<>> => Tail(todo) # todo
      BY HeadTailProperties, LenProperties DEF IInv, FetchTypes
    <3>2. QED
      BY <2>1, <3>1 DEF UpFilter
  <2>4. QED
    BY <2>2, <2>3
<1>12. QED
  BY <1>5, <1>6, <1>8, <1>9, <1>10, <1>11 DEF Next, UpNext, Ended

\* The packets to be counted follow those that have been, and there are some only
\* between the fetch and the end of the filter.
TodoNext ==
  /\ \A i \in 1 .. Len(todo) : todo[i] = Done + i
  /\ upc \in {"flag", "filter"} \/ todo = <<>>

LEMMA TodoInit == Init => TodoNext
BY EmptySeq DEF Init, TodoNext

\* One packet is counted at a time, in the order of the fetch.
LEMMA TodoStep ==
  ASSUME IInv, TodoNext, [Next]_vars
  PROVE  /\ TodoNext'
         /\ Done \in Nat /\ Done + Len(todo) = Len(status)
         /\ UpFilter => Head(todo) = Done + 1 /\ Done' = Done + 1 /\ status' = status
         /\ ~UpFilter => Done' = Done /\ Len(status) <= Len(status')
                         /\ \A k \in 1 .. Len(status) : status'[k] = status[k]
<1> USE DEF TodoNext
<1>1. /\ status \in Seq(Statuses) /\ todo \in Seq(1 .. Len(status))
      /\ Len(status) \in Nat /\ Len(todo) \in Nat
  BY LenProperties DEF IInv, FetchTypes
<1>2. Done \in Nat
  <2>1. CASE todo = <<>>
    BY <1>1, <2>1 DEF Done
  <2>2. CASE todo # <<>>
    <3>1. 1 \in 1 .. Len(todo) /\ todo[1] \in 1 .. Len(status)
      BY <1>1, <2>2, EmptySeq, ElementOfSeq
    <3>2. todo[1] = Len(status) - Len(todo) + 1
      BY <3>1 DEF Done
    <3>3. QED
      BY <1>1, <3>1, <3>2 DEF Done
  <2>3. QED
    BY <2>1, <2>2
<1>3. Done + Len(todo) = Len(status)
  BY <1>1 DEF Done
<1>4. CASE UpFetch
  <2>1. PICK n \in 0 .. NbPktMax :
          \E s \in [1 .. n -> Statuses] :
            /\ status' = status \o s
            /\ todo' = [i \in 1 .. n |-> Len(status) + i]
    BY <1>4 DEF UpFetch
  <2>2. PICK s \in [1 .. n -> Statuses] :
            /\ status' = status \o s
            /\ todo' = [i \in 1 .. n |-> Len(status) + i]
    BY <2>1
  <2>3. n \in Nat
    BY UplinkAssumption
  <2>4. s \in Seq(Statuses) /\ Len(s) = n
    BY <2>3, IsASeq, LenProperties
  <2>5. /\ Len(status') = Len(status) + n
        /\ \A k \in 1 .. Len(status) : status'[k] = status[k]
    <3>1. /\ Len(status \o s) = Len(status) + Len(s)
          /\ \A k \in 1 .. Len(status) + Len(s) :
               (status \o s)[k] = IF k <= Len(status) THEN status[k]
                                                     ELSE s[k - Len(status)]
      BY <1>1, <2>4, ConcatProperties
    <3>2. \A k \in 1 .. Len(status) : k \in 1 .. Len(status) + n /\ k <= Len(status)
      BY <1>1, <2>3
    <3>3. QED
      BY <2>2, <2>4, <3>1, <3>2
  <2>6. Len(todo') = n
    BY <2>2, <2>3
  <2>7. todo = <<>> /\ Len(todo) = 0 /\ upc' = "flag"
    BY <1>4 DEF UpFetch
  <2>8. Done' = Len(status) /\ Done = Len(status)
    BY <1>1, <2>3, <2>5, <2>6, <2>7 DEF Done
  <2>9. ~UpFilter
    BY <1>4 DEF UpFetch, UpFilter
  <2>10. \A i \in 1 .. Len(todo') : todo'[i] = Done' + i
    BY <2>2, <2>6, <2>8
  <2>11. Len(status) <= Len(status')
    BY <1>1, <2>3, <2>5
  <2>12. TodoNext'
    BY <2>7, <2>10
  <2>13. QED
    BY <1>2, <1>3, <2>5, <2>8, <2>9, <2>11, <2>12
<1>5. CASE UpFilter
  <2>1. /\ todo # <<>> /\ todo' = Tail(todo) /\ status' = status
        /\ upc = "filter" /\ upc' = "filter"
    BY <1>5 DEF UpFilter
  <2>2. /\ Len(todo') = Len(todo) - 1
        /\ \A i \in 1 .. Len(todo') : todo'[i] = todo[i + 1]
        /\ Len(todo) \in Nat \ {0}
    BY <1>1, <2>1, HeadTailProperties, EmptySeq
  <2>3. Head(todo) = todo[1]
    BY <1>1, <2>1
  <2>4. Head(todo) = Done + 1
    BY <2>2, <2>3
  <2>5. Done' = Done + 1
    BY <1>1, <2>1, <2>2 DEF Done
  <2>6. ASSUME NEW i \in 1 .. Len(todo')
        PROVE  todo'[i] = Done' + i
    <3>1. i + 1 \in 1 .. Len(todo) /\ todo'[i] = todo[i + 1] /\ i \in Nat
      BY <2>2
    <3>2. todo[i + 1] = Done + (i + 1)
      BY <3>1
    <3>3. QED
      BY <1>2, <2>5, <3>1, <3>2
  <2>7. QED
    BY <1>2, <1>3, <1>5, <2>1, <2>4, <2>5, <2>6
<1>6. CASE /\ UNCHANGED <<todo, status>>
           /\ upc' = upc \/ upc' \in {"flag", "filter"} \/ todo = <<>>
           /\ ~UpFilter
  <2>1. Done' = Done
    BY <1>6 DEF Done
  <2>2. \A i \in 1 .. Len(todo') : todo'[i] = Done' + i
    BY <1>6, <2>1
  <2>3. upc' \in {"flag", "filter"} \/ todo' = <<>>
    BY <1>6
  <2>4. QED
    BY <1>1, <1>2, <1>3, <1>6, <2>1, <2>2, <2>3
<1>7. CASE UpFlag \/ UpSkip \/ UpReport \/ UpSend \/ UpCount \/ UpAck \/ UpNoAck \/ UpQuit
  <2>1. UNCHANGED <<todo, status>>
    BY <1>7 DEF UpFlag, UpSkip, UpReport, UpSend, UpCount, UpAck, UpNoAck, UpQuit
  <2>2. upc' \in {"flag", "filter"} \/ todo = <<>>
    BY <1>7 DEF UpFlag, UpSkip, UpReport, UpSend, UpCount, UpAck, UpNoAck, UpQuit
  <2>3. CASE UpFilter
    BY <1>5, <2>3
  <2>4. CASE ~UpFilter
    BY <1>6, <2>1, <2>2, <2>4
  <2>5. QED
    BY <2>3, <2>4
<1>8. CASE MainCopy \/ MainReport \/ MainJoin \/ Signal \/ UNCHANGED vars
  <2>1. UNCHANGED <<todo, status, upc>>
    BY <1>8 DEF MainCopy, MainReport, MainJoin, Signal, thread_up, vars
  <2>2. QED
    BY <1>5, <1>6, <2>1
<1>9. QED
  BY <1>4, <1>5, <1>7, <1>8 DEF Next, UpNext, Ended

\* What has been sent are the packets counted that pass the filter, in order.
LEMMA ForwardStep ==
  ASSUME IInv, TodoNext, ForwardedOnce, [Next]_vars
  PROVE  ForwardedOnce'
<1>1. /\ Done \in Nat /\ Done + Len(todo) = Len(status) /\ Len(todo) \in Nat
      /\ Len(status) \in Nat
  BY TodoStep, LenProperties DEF IInv, FetchTypes
<1>2. Sent \in Seq(1 .. MaxPkt) /\ Len(Sent) \in Nat /\ DOMAIN Sent = 1 .. Len(Sent)
  BY SentParts, LenProperties
<1>3. Range(Sent) = {k \in 1 .. Done : status[k] \in Forwarded}
  BY DEF ForwardedOnce, Done
<1>4. CASE ~UpFilter
  <2>1. Sent' = Sent
    BY <1>4, SentStep
  <2>2. /\ Done' = Done
        /\ \A k \in 1 .. Len(status) : status'[k] = status[k]
    BY <1>4, TodoStep
  <2>3. \A k \in 1 .. Done : status'[k] = status[k]
    BY <1>1, <2>2
  <2>4. Range(Sent') = {k \in 1 .. Done' : status'[k] \in Forwarded}
    BY <1>3, <2>1, <2>2, <2>3
  <2>5. QED
    BY <2>1, <2>4 DEF ForwardedOnce, Done
<1>5. CASE UpFilter
  <2> DEFINE h == Done + 1
  <2>1. Head(todo) = h /\ Done' = h /\ status' = status
    BY <1>5, TodoStep
  <2>2. h \in 1 .. MaxPkt
    <3>1. Head(todo) \in 1 .. Len(status)
      BY <1>5, HeadTailProperties DEF UpFilter, IInv, FetchTypes
    <3>2. QED
      BY <1>1, <2>1, <3>1, UplinkAssumption DEF IInv, FetchTypes
  <2>3. CASE status[h] \in Forwarded
    <3>1. Sent' = Append(Sent, h)
      BY <1>5, <2>1, <2>3, SentStep
    <3>2. /\ Len(Sent') = Len(Sent) + 1 /\ DOMAIN Sent' = 1 .. Len(Sent')
          /\ \A i \in 1 .. Len(Sent) : Sent'[i] = Sent[i]
          /\ Sent'[Len(Sent) + 1] = h
      BY <1>2, <2>2, <3>1, AppendProperties, LenProperties
    <3>3. \A i \in 1 .. Len(Sent) : Sent[i] \in 1 .. Done
      BY <1>2, <1>3 DEF Range
    <3>4. \A i, j \in DOMAIN Sent' : i < j => Sent'[i] < Sent'[j]
      <4>1. ASSUME NEW i \in 1 .. Len(Sent'), NEW j \in 1 .. Len(Sent'), i < j
            PROVE  Sent'[i] < Sent'[j]
        <5>1. i \in 1 .. Len(Sent)
          BY <1>2, <3>2, <4>1
        <5>2. CASE j \in 1 .. Len(Sent)
          BY <1>2, <3>2, <4>1, <5>1, <5>2 DEF ForwardedOnce
        <5>3. CASE j = Len(Sent) + 1
          BY <1>1, <3>2, <3>3, <5>1, <5>3
        <5>4. QED
          BY <1>2, <3>2, <5>2, <5>3
      <4>2. QED
        BY <3>2, <4>1
    <3>5. Range(Sent') = Range(Sent) \cup {h}
      <4>1. \A i \in DOMAIN Sent' : i \in DOMAIN Sent \/ i = Len(Sent) + 1
        BY <1>2, <3>2
      <4>2. Len(Sent) + 1 \in DOMAIN Sent' /\ DOMAIN Sent \subseteq DOMAIN Sent'
        BY <1>2, <3>2
      <4>3. QED
        BY <1>2, <3>2, <4>1, <4>2 DEF Range
    <3>6. \A k : k \in 1 .. h <=> k \in 1 .. Done \/ k = h
      BY <1>1
    <3>7. Range(Sent') = {k \in 1 .. Done' : status'[k] \in Forwarded}
      BY <1>3, <2>1, <2>3, <3>5, <3>6
    <3>8. QED
      BY <3>4, <3>7 DEF ForwardedOnce, Done
  <2>4. CASE status[h] \notin Forwarded
    <3>1. Sent' = Sent
      BY <1>5, <2>1, <2>4, SentStep
    <3>2. \A k : k \in 1 .. h <=> k \in 1 .. Done \/ k = h
      BY <1>1
    <3>3. Range(Sent') = {k \in 1 .. Done' : status'[k] \in Forwarded}
      BY <1>3, <2>1, <2>4, <3>1, <3>2
    <3>4. QED
      BY <3>1, <3>3 DEF ForwardedOnce, Done
  <2>5. QED
    BY <2>3, <2>4
<1>6. QED
  BY <1>4, <1>5

-----------------------------------------------------------------------------
(* What has been counted *)

\* The total of a counter, with the sum over the reports named.
LEMMA TotalSum ==
  ASSUME IInv, NEW c \in Counters
  PROVE  /\ Total(c) = SumOf(reports, c) + (IF mpc = "report" THEN cp[c] ELSE 0) + meas[c]
         /\ SumOf(reports, c) \in Nat /\ meas[c] \in Nat /\ cp[c] \in Nat
         /\ Total(c) \in Nat
<1>1. Total(c) = SumOf(reports, c) + (IF mpc = "report" THEN cp[c] ELSE 0) + meas[c]
  BY DEF Total, SumOf
<1>2. SumOf(reports, c) \in Nat /\ meas[c] \in Nat /\ cp[c] \in Nat
  BY SumAppend DEF IInv, MainTypes, Counts
<1>3. QED
  BY <1>1, <1>2

\* What a step of thread_up counts.
Events ==
  {e \in Counters :
     \/ UpFilter /\ e \in Counted(status[Head(todo)])
     \/ UpCount /\ e = "dgram"
     \/ UpAck /\ e = "ack"}

\* A total grows by what is counted: copying the counters and writing the report
\* leave it as it is.
LEMMA TotalStep ==
  ASSUME IInv, [Next]_vars, NEW c \in Counters
  PROVE  Total(c)' = Total(c) + (IF c \in Events THEN 1 ELSE 0)
<1> DEFINE Middle == IF mpc = "report" THEN cp[c] ELSE 0
<1>1. /\ Total(c) = SumOf(reports, c) + Middle + meas[c]
      /\ SumOf(reports, c) \in Nat /\ Middle \in Nat /\ meas[c] \in Nat
  BY TotalSum
<1>2. Total(c)' = SumOf(reports', c) + Middle' + meas'[c]
  <2>1. Total(c)' = SumOf(reports, c)' + Middle' + meas'[c]
    BY DEF Total, SumOf
  <2>2. SumOf(reports, c)' = SumOf(reports', c)
    OBVIOUS
  <2>3. QED
    BY <2>1, <2>2
<1>3. ASSUME NEW cs, meas' = Count(meas, cs), UNCHANGED <<mpc, cp, reports>>,
             c \in Events <=> c \in cs
      PROVE  Total(c)' = Total(c) + (IF c \in Events THEN 1 ELSE 0)
  <2>1. meas'[c] = meas[c] + (IF c \in cs THEN 1 ELSE 0)
    BY <1>3, CountValues DEF IInv, Counts
  <2>2. SumOf(reports', c) = SumOf(reports, c) /\ Middle' = Middle
    BY <1>3
  <2> HIDE DEF Middle
  <2>3. QED
    BY <1>1, <1>2, <1>3, <2>1, <2>2
<1>4. ASSUME UNCHANGED <<meas, cp, reports>>, mpc' = mpc \/ {mpc', mpc} \cap {"report"} = {},
             c \notin Events
      PROVE  Total(c)' = Total(c) + (IF c \in Events THEN 1 ELSE 0)
  <2>1. SumOf(reports', c) = SumOf(reports, c) /\ Middle' = Middle /\ meas'[c] = meas[c]
    BY <1>4
  <2> HIDE DEF Middle
  <2>2. QED
    BY <1>1, <1>2, <1>4, <2>1
<1>5. CASE UpFilter
  <2>1. /\ meas' = Count(meas, Counted(status[Head(todo)]))
        /\ UNCHANGED <<mpc, cp, reports>> /\ upc = "filter"
    BY <1>5 DEF UpFilter, main
  <2>2. c \in Events <=> c \in Counted(status[Head(todo)])
    BY <1>5, <2>1 DEF Events, UpCount, UpAck
  <2>3. QED
    BY <1>3, <2>1, <2>2
<1>6. CASE UpCount
  <2>1. meas' = Count(meas, {"dgram"}) /\ UNCHANGED <<mpc, cp, reports>> /\ upc = "count"
    BY <1>6 DEF UpCount, main
  <2>2. c \in Events <=> c \in {"dgram"}
    BY <1>6, <2>1 DEF Events, UpFilter, UpAck
  <2>3. QED
    BY <1>3, <2>1, <2>2
<1>7. CASE UpAck
  <2>1. meas' = Count(meas, {"ack"}) /\ UNCHANGED <<mpc, cp, reports>> /\ upc = "ack"
    BY <1>7 DEF UpAck, main
  <2>2. c \in Events <=> c \in {"ack"}
    BY <1>7, <2>1 DEF Events, UpFilter, UpCount
  <2>3. QED
    BY <1>3, <2>1, <2>2
<1>8. CASE UpFetch \/ UpFlag \/ UpSkip \/ UpReport \/ UpSend \/ UpNoAck \/ UpQuit
  <2>1. UNCHANGED <<meas, mpc, cp, reports>>
    BY <1>8 DEF UpFetch, UpFlag, UpSkip, UpReport, UpSend, UpNoAck, UpQuit, main
  <2>2. CASE c \in Events
    BY <1>5, <1>6, <1>7, <2>2 DEF Events
  <2>3. CASE c \notin Events
    BY <1>4, <2>1, <2>3
  <2>4. QED
    BY <2>2, <2>3
<1>9. CASE MainCopy \/ MainReport \/ MainJoin \/ Signal \/ UNCHANGED vars
  <2>1. UNCHANGED <<todo, upc>>
    BY <1>9 DEF MainCopy, MainReport, MainJoin, Signal, thread_up, vars
  <2>2. ~UpFilter
    <3>1. todo # <<>> => Tail(todo) # todo
      BY HeadTailProperties, LenProperties DEF IInv, FetchTypes
    <3>2. QED
      BY <2>1, <3>1 DEF UpFilter
  <2>3. c \notin Events
    BY <2>1, <2>2 DEF Events, UpCount, UpAck
  <2>4. CASE MainCopy
    <3>1. mpc = "wait" /\ mpc' = "report" /\ cp' = meas /\ meas' = Zero /\ reports' = reports
      BY <2>4 DEF MainCopy
    <3>2. Middle = 0 /\ Middle' = meas[c] /\ meas'[c] = 0
      BY <3>1 DEF Zero
    <3>3. SumOf(reports', c) = SumOf(reports, c)
      BY <3>1
    <3> HIDE DEF Middle
    <3>4. QED
      BY <1>1, <1>2, <2>3, <3>2, <3>3
  <2>5. CASE MainReport
    <3>1. /\ mpc = "report" /\ mpc' # "report" /\ meas' = meas
          /\ reports' = Append(reports, cp)
      BY <2>5 DEF MainReport
    <3>2. SumOf(reports', c) = SumOf(reports, c) + cp[c] /\ cp[c] \in Nat
      BY <3>1, SumAppend DEF IInv, MainTypes, Counts
    <3>3. Middle = cp[c] /\ Middle' = 0
      BY <3>1
    <3> HIDE DEF Middle
    <3>4. QED
      BY <1>1, <1>2, <2>3, <3>1, <3>2, <3>3
  <2>6. CASE MainJoin \/ Signal \/ UNCHANGED vars
    <3>1. UNCHANGED <<meas, cp, reports>> 
          /\ (mpc' = mpc \/ (mpc = "join" /\ mpc' = "done"))
      BY <2>6 DEF MainJoin, Signal, main, vars
    <3>2. QED
      BY <1>4, <2>3, <3>1
  <2>7. QED
    BY <1>9, <2>4, <2>5, <2>6
<1>10. QED
  BY <1>5, <1>6, <1>7, <1>8, <1>9 DEF Next, UpNext, Ended

LEMMA TotalInit ==
  ASSUME Init, NEW c \in Counters
  PROVE  Total(c) = 0
<1>1. IInv
  BY InitInv
<1>2. reports = <<>> /\ mpc = "wait" /\ meas[c] = 0
  BY DEF Init, Zero
<1>3. SumOf(<<>>, c) = 0
  <2>1. <<>> \in Seq([Counters -> Nat]) /\ Len(<<>>) = 0
    BY EmptySeq
  <2>2. PICK a \in [0 .. Len(<<>>) -> Nat] : a[0] = 0 /\ SumOf(<<>>, c) = a[Len(<<>>)]
    BY <2>1, SumChain
  <2>3. QED
    BY <2>1, <2>2
<1>4. SumOf(reports, c) = 0 /\ mpc # "report"
  BY <1>2, <1>3
<1>5. Total(c) = SumOf(reports, c) + (IF mpc = "report" THEN cp[c] ELSE 0) + meas[c]
  BY <1>1, TotalSum
<1>6. Total(c) = 0 + 0 + 0
  BY <1>2, <1>4, <1>5
<1>7. QED
  BY <1>6

\* Every packet counted and every datagram sent is in the totals.
LEMMA UncountedStep ==
  ASSUME IInv, TodoNext, NothingUncounted, [Next]_vars
  PROVE  NothingUncounted'
<1>1. {"rcv", "fwd", "dgram"} \subseteq Counters
  BY DEF Counters
<1>2. /\ Total("rcv")' = Total("rcv") + (IF "rcv" \in Events THEN 1 ELSE 0)
      /\ Total("fwd")' = Total("fwd") + (IF "fwd" \in Events THEN 1 ELSE 0)
      /\ Total("dgram")' = Total("dgram") + (IF "dgram" \in Events THEN 1 ELSE 0)
  BY <1>1, TotalStep
<1>3. /\ Done \in Nat /\ (UpFilter => Head(todo) = Done + 1 /\ Done' = Done + 1)
      /\ (~UpFilter => Done' = Done)
  BY TodoStep
<1>4. Total("rcv") = Done /\ Total("fwd") = Len(Sent)
  BY DEF NothingUncounted, Done
<1>5. "rcv" \in Events <=> UpFilter
  BY <1>1 DEF Events, Counted
<1>6. Total("rcv")' = Done'
  BY <1>2, <1>3, <1>4, <1>5
<1>7. "fwd" \in Events <=> UpFilter /\ status[Head(todo)] \in Forwarded
  <2>1. UpFilter => status[Head(todo)] \in Statuses
    <3>1. UpFilter => Head(todo) \in 1 .. Len(status)
      BY HeadTailProperties DEF UpFilter, IInv, FetchTypes
    <3>2. QED
      BY <3>1, ElementOfSeq DEF IInv, FetchTypes
  <2>2. \A s \in Statuses : "fwd" \in Counted(s) <=> s \in Forwarded
    BY UplinkAssumption DEF Counted
  <2>3. QED
    BY <1>1, <2>1, <2>2 DEF Events
<1>8. Total("fwd")' = Len(Sent')
  <2>1. Sent \in Seq(1 .. MaxPkt) /\ Len(Sent) \in Nat
    BY SentParts, LenProperties
  <2>2. CASE UpFilter /\ status[Head(todo)] \in Forwarded
    <3>1. Sent' = Append(Sent, Head(todo))
      BY <2>2, SentStep
    <3>2. Len(Sent') = Len(Sent) + 1
      BY <2>1, <3>1
    <3>3. QED
      BY <1>2, <1>4, <1>7, <2>2, <3>2
  <2>3. CASE ~(UpFilter /\ status[Head(todo)] \in Forwarded)
    <3>1. Sent' = Sent
      BY <2>3, SentStep
    <3>2. QED
      BY <1>2, <1>4, <1>7, <2>1, <2>3, <3>1
  <2>4. QED
    BY <2>2, <2>3
<1>9. "dgram" \in Events <=> UpCount
  <2>1. "dgram" \in Events => ~UpFilter
    <3>1. UpFilter => status[Head(todo)] \in Statuses
      <4>1. UpFilter => Head(todo) \in 1 .. Len(status)
        BY HeadTailProperties DEF UpFilter, IInv, FetchTypes
      <4>2. QED
        BY <4>1, ElementOfSeq DEF IInv, FetchTypes
    <3>2. \A s \in Statuses : "dgram" \notin Counted(s)
      BY UplinkAssumption DEF Counted
    <3>3. QED
      BY <3>1, <3>2 DEF Events, UpFilter, UpCount, UpAck
  <2>2. QED
    BY <1>1, <2>1 DEF Events
<1>10. Total("dgram")' = Len(dgrams') - (IF upc' = "count" THEN 1 ELSE 0)
  <2>1. Total("dgram") = Len(dgrams) - (IF upc = "count" THEN 1 ELSE 0)
    BY DEF NothingUncounted
  <2>2. Len(dgrams) \in Nat /\ Total("dgram") \in Nat
    BY <1>1, LenProperties, TotalSum DEF IInv, DgramTypes
  <2>3. CASE UpCount
    <3>1. upc = "count" /\ upc' = "ack" /\ dgrams' = dgrams
      BY <2>3 DEF UpCount
    <3>2. QED
      BY <1>2, <1>9, <2>1, <2>2, <2>3, <3>1
  <2>4. CASE UpSend
    <3>1. upc = "send" /\ upc' = "count" /\ dgrams' = Append(dgrams, dgram)
      BY <2>4 DEF UpSend
    <3>2. Len(dgrams') = Len(dgrams) + 1
      BY <3>1, AppendProperties DEF IInv, DgramTypes
    <3>3. ~UpCount
      BY <3>1 DEF UpCount
    <3>4. QED
      BY <1>2, <1>9, <2>1, <2>2, <3>1, <3>2, <3>3
  <2>5. CASE ~UpCount /\ dgrams' = dgrams /\ (upc' = "count" <=> upc = "count")
    <3>1. Total("dgram")' = Total("dgram")
      BY <1>2, <1>9, <2>2, <2>5
    <3>2. QED
      BY <2>1, <2>5, <3>1
  <2>6. CASE UpFetch \/ UpFlag \/ UpFilter \/ UpSkip \/ UpReport \/ UpAck \/ UpNoAck \/ UpQuit
    <3>1. dgrams' = dgrams /\ upc # "count" /\ upc' # "count"
      BY <2>6 DEF UpFetch, UpFlag, UpFilter, UpSkip, UpReport, UpAck, UpNoAck, UpQuit
    <3>2. QED
      BY <2>5, <3>1 DEF UpCount
  <2>7. CASE MainCopy \/ MainReport \/ MainJoin \/ Signal \/ UNCHANGED vars
    <3>1. UNCHANGED <<dgrams, upc>>
      BY <2>7 DEF MainCopy, MainReport, MainJoin, Signal, thread_up, vars
    <3>2. QED
      BY <2>5, <3>1 DEF UpCount
  <2>8. QED
    BY <2>3, <2>4, <2>6, <2>7 DEF Next, UpNext, Ended
<1>11. QED
  BY <1>6, <1>8, <1>10 DEF NothingUncounted, Done

-----------------------------------------------------------------------------
(* The acknowledgements *)

\* A datagram has been sent and its acknowledgement not been counted yet.
Pending == upc \in {"count", "ack"}

\* The datagrams at the server, without the one whose acknowledgement is due.
Heard == IF Pending THEN atServer \ {Len(dgrams)} ELSE atServer

\* No token has been used twice.
Distinct == \A j, k \in DOMAIN dgrams : j # k => dgrams[j].token # dgrams[k].token

\* The acknowledgement awaited is the one of the last datagram, and what has been
\* counted is accounted for without it.
AckInv ==
  /\ Pending => Len(dgrams) # 0 /\ dgrams[Len(dgrams)].token = dgram.token
  /\ Distinct => Total("ack") <= Cardinality(Heard)

\* The datagrams at the server can be counted.
LEMMA HeardFacts ==
  ASSUME IInv
  PROVE  /\ IsFiniteSet(atServer) /\ Cardinality(atServer) \in Nat
         /\ IsFiniteSet(Heard) /\ Cardinality(Heard) \in Nat
         /\ Cardinality(Heard) <= Cardinality(atServer)
         /\ Len(dgrams) \in Nat /\ DOMAIN dgrams = 1 .. Len(dgrams)
         /\ Total("ack") \in Nat
<1>1. Len(dgrams) \in Nat /\ DOMAIN dgrams = 1 .. Len(dgrams)
  BY LenProperties DEF IInv, DgramTypes
<1>2. IsFiniteSet(1 .. Len(dgrams))
  BY <1>1, FS_Interval
<1>3. atServer \subseteq 1 .. Len(dgrams) /\ Heard \subseteq atServer
  BY <1>1 DEF IInv, DgramTypes, Heard
<1>4. IsFiniteSet(atServer)
  BY <1>2, <1>3, FS_Subset
<1>5. IsFiniteSet(Heard) /\ Cardinality(Heard) <= Cardinality(atServer)
  BY <1>3, <1>4, FS_Subset
<1>6. Cardinality(atServer) \in Nat /\ Cardinality(Heard) \in Nat
  BY <1>4, <1>5, FS_CardinalityType
<1>7. Total("ack") \in Nat
  BY TotalSum DEF Counters
<1>8. QED
  BY <1>1, <1>4, <1>5, <1>6, <1>7

LEMMA AckInit == Init => AckInv
<1> SUFFICES ASSUME Init PROVE AckInv
  OBVIOUS
<1>1. Total("ack") = 0
  BY TotalInit DEF Counters
<1>2. IInv /\ ~Pending
  BY InitInv DEF Init, Pending
<1>3. Cardinality(Heard) \in Nat
  BY <1>2, HeardFacts
<1>4. QED
  BY <1>1, <1>2, <1>3 DEF AckInv

\* An acknowledgement is counted only when its datagram has reached the server,
\* and once.
LEMMA AckStep ==
  ASSUME IInv, AckInv, [Next]_vars
  PROVE  AckInv'
<1>1. /\ Len(dgrams) \in Nat /\ DOMAIN dgrams = 1 .. Len(dgrams)
      /\ IsFiniteSet(atServer) /\ atServer \subseteq 1 .. Len(dgrams)
      /\ IsFiniteSet(Heard) /\ Cardinality(Heard) \in Nat
      /\ Cardinality(Heard) <= Cardinality(atServer)
      /\ Cardinality(atServer) \in Nat /\ Total("ack") \in Nat
  BY HeardFacts DEF IInv, DgramTypes
<1>2. Total("ack")' = Total("ack") + (IF "ack" \in Events THEN 1 ELSE 0)
  BY TotalStep DEF Counters
<1>3. "ack" \in Events <=> UpAck
  <2>1. UpFilter => status[Head(todo)] \in Statuses
    <3>1. UpFilter => Head(todo) \in 1 .. Len(status)
      BY HeadTailProperties DEF UpFilter, IInv, FetchTypes
    <3>2. QED
      BY <3>1, ElementOfSeq DEF IInv, FetchTypes
  <2>2. \A s \in Statuses : "ack" \notin Counted(s)
    BY UplinkAssumption DEF Counted
  <2>3. "ack" \in Counters
    BY DEF Counters
  <2>4. QED
    BY <2>1, <2>2, <2>3 DEF Events
<1>4. ASSUME ~UpAck, UNCHANGED <<dgrams, atServer, dgram>>, Pending' = Pending
      PROVE  AckInv'
  <2>1. Total("ack")' = Total("ack")
    BY <1>1, <1>2, <1>3, <1>4
  <2>2. Heard' = Heard /\ Distinct' = Distinct
    BY <1>4 DEF Heard, Distinct
  <2>3. QED
    BY <1>4, <2>1, <2>2 DEF AckInv
<1>5. ASSUME ~UpAck, UNCHANGED <<dgrams, atServer>>, ~Pending'
      PROVE  AckInv'
  <2>1. Total("ack")' = Total("ack")
    BY <1>1, <1>2, <1>3, <1>5
  <2>2. Heard' = atServer /\ Distinct' = Distinct
    BY <1>5 DEF Heard, Distinct
  <2>3. QED
    BY <1>1, <1>5, <2>1, <2>2 DEF AckInv
<1>6. CASE UpAck
  <2>1. /\ Pending /\ ~Pending' /\ UNCHANGED <<dgrams, atServer>>
        /\ \E k \in atServer : dgrams[k].token = dgram.token
    BY <1>6 DEF UpAck, Pending
  <2>2. PICK k \in atServer : dgrams[k].token = dgram.token
    BY <2>1
  <2>3. Distinct' = Distinct /\ Heard' = atServer /\ Heard = atServer \ {Len(dgrams)}
    BY <2>1 DEF Distinct, Heard
  <2>4. ASSUME Distinct
        PROVE  Total("ack") + 1 <= Cardinality(atServer)
    <3>1. k = Len(dgrams)
      <4>1. k \in DOMAIN dgrams /\ Len(dgrams) \in DOMAIN dgrams
        BY <1>1, <2>1 DEF AckInv
      <4>2. dgrams[k].token = dgrams[Len(dgrams)].token
        BY <2>1, <2>2 DEF AckInv
      <4>3. QED
        BY <2>4, <4>1, <4>2 DEF Distinct
    <3>2. Heard \cup {k} = atServer /\ k \notin Heard
      BY <2>3, <3>1
    <3>3. Cardinality(atServer) = Cardinality(Heard) + 1
      BY <1>1, <3>2, FS_AddElement
    <3>4. QED
      BY <1>1, <2>4, <3>3 DEF AckInv
  <2>5. Total("ack")' = Total("ack") + 1
    BY <1>2, <1>3, <1>6
  <2>6. QED
    BY <2>1, <2>3, <2>4, <2>5 DEF AckInv
<1>7. CASE UpSend
  <2>1. /\ upc = "send" /\ upc' = "count" /\ dgram' = dgram
        /\ dgrams' = Append(dgrams, dgram)
        /\ atServer' \in {atServer, atServer \cup {Len(dgrams) + 1}}
    BY <1>7 DEF UpSend
  <2>2. /\ Len(dgrams') = Len(dgrams) + 1 /\ DOMAIN dgrams' = 1 .. Len(dgrams')
        /\ \A i \in 1 .. Len(dgrams) : dgrams'[i] = dgrams[i]
        /\ dgrams'[Len(dgrams) + 1] = dgram
    BY <2>1, AppendProperties, LenProperties DEF IInv, DgramTypes
  <2>3. ~Pending /\ Pending'
    BY <2>1 DEF Pending
  <2>4. Heard = atServer /\ Heard' = atServer
    BY <1>1, <2>1, <2>2, <2>3 DEF Heard
  <2>5. Distinct' => Distinct
    <3>1. DOMAIN dgrams \subseteq DOMAIN dgrams'
      BY <1>1, <2>2
    <3>2. QED
      BY <1>1, <2>2, <3>1 DEF Distinct
  <2>6. Total("ack")' = Total("ack")
    BY <1>1, <1>2, <1>3, <2>1 DEF UpAck
  <2>7. Len(dgrams') # 0 /\ dgrams'[Len(dgrams')].token = dgram'.token
    BY <1>1, <2>1, <2>2
  <2>8. QED
    BY <2>4, <2>5, <2>6, <2>7 DEF AckInv
<1>8. CASE UpFetch \/ UpFlag \/ UpFilter \/ UpSkip \/ UpReport \/ UpQuit
  <2>1. UNCHANGED <<dgrams, atServer>> /\ ~Pending' /\ upc # "ack"
    BY <1>8 DEF UpFetch, UpFlag, UpFilter, UpSkip, UpReport, UpQuit, Pending
  <2>2. QED
    BY <1>5, <2>1 DEF UpAck
<1>9. CASE UpCount
  BY <1>4, <1>9 DEF UpCount, UpAck, Pending
<1>10. CASE UpNoAck
  <2>1. /\ UNCHANGED <<dgrams, atServer>> /\ Pending
        /\ ~Pending' \/ (dgram' = dgram /\ Pending')
    BY <1>10 DEF UpNoAck, Pending
  <2>2. QED
    BY <1>4, <1>5, <1>6, <2>1
<1>11. CASE MainCopy \/ MainReport \/ MainJoin \/ Signal \/ UNCHANGED vars
  <2>1. UNCHANGED <<dgrams, atServer, dgram, upc>>
    BY <1>11 DEF MainCopy, MainReport, MainJoin, Signal, thread_up, vars
  <2>2. QED
    BY <1>4, <2>1 DEF Pending, UpAck
<1>12. QED
  BY <1>6, <1>7, <1>8, <1>9, <1>10, <1>11 DEF Next, UpNext, Ended

\* With the acknowledgement due or without it, no more are counted than datagrams
\* have reached the server.
LEMMA AckFacts == IInv /\ AckInv => AcksAreReal
<1> SUFFICES ASSUME IInv, AckInv PROVE AcksAreReal
  OBVIOUS
<1>1. /\ Cardinality(Heard) <= Cardinality(atServer) /\ Total("ack") \in Nat
      /\ Cardinality(Heard) \in Nat /\ Cardinality(atServer) \in Nat
  BY HeardFacts
<1>2. Distinct => Total("ack") <= Cardinality(Heard)
  BY DEF AckInv
<1>3. Distinct => Total("ack") <= Cardinality(atServer)
  BY <1>1, <1>2
<1>4. QED
  BY <1>3 DEF AcksAreReal, Distinct

-----------------------------------------------------------------------------
(* The reports *)

\* The reports in the first k datagrams.
ReportsOf(ds, k) == Cardinality({j \in 1 .. k : ds[j].stat # 0})

\* Sending another datagram adds the report it takes along.
LEMMA ReportsAppend ==
  ASSUME NEW ds \in Seq(Dgram), NEW d \in Dgram
  PROVE  /\ \A k \in 0 .. Len(ds) : /\ ReportsOf(ds, k) \in Nat
                                    /\ ReportsOf(Append(ds, d), k) = ReportsOf(ds, k)
         /\ ReportsOf(Append(ds, d), Len(ds) + 1)
              = ReportsOf(ds, Len(ds)) + (IF d.stat # 0 THEN 1 ELSE 0)
<1> DEFINE n == Len(ds)
           z == Append(ds, d)
           R(k) == {j \in 1 .. k : ds[j].stat # 0}
<1>1. /\ n \in Nat /\ z[n + 1] = d /\ \A i \in 1 .. n : z[i] = ds[i]
  BY AppendProperties, LenProperties
<1>2. ASSUME NEW k \in 0 .. n
      PROVE  /\ IsFiniteSet(R(k)) /\ Cardinality(R(k)) \in Nat
             /\ {j \in 1 .. k : z[j].stat # 0} = R(k)
  <2>1. 1 .. k \subseteq 1 .. n /\ k \in Nat
    BY <1>1
  <2>2. IsFiniteSet(1 .. k) /\ R(k) \subseteq 1 .. k
    BY <2>1, FS_Interval
  <2>3. IsFiniteSet(R(k)) /\ Cardinality(R(k)) \in Nat
    BY <2>2, FS_Subset, FS_CardinalityType
  <2>4. \A j \in 1 .. k : z[j] = ds[j]
    BY <1>1, <2>1
  <2>5. QED
    BY <2>3, <2>4
<1>3. \A k \in 0 .. n : ReportsOf(ds, k) \in Nat /\ ReportsOf(z, k) = ReportsOf(ds, k)
  BY <1>2 DEF ReportsOf
<1>4. n \in 0 .. n
  BY <1>1
<1>5. {j \in 1 .. n + 1 : z[j].stat # 0} = R(n) \cup (IF d.stat # 0 THEN {n + 1} ELSE {})
  <2>1. \A j : j \in 1 .. n + 1 <=> j \in 1 .. n \/ j = n + 1
    BY <1>1
  <2>2. \A j \in 1 .. n + 1 : z[j] = IF j = n + 1 THEN d ELSE ds[j]
    BY <1>1, <2>1
  <2>3. n + 1 \notin 1 .. n
    BY <1>1
  <2> HIDE DEF n, z
  <2>4. QED
    BY <2>1, <2>2, <2>3
<1>6. n + 1 \notin R(n)
  BY <1>1
<1>7. ReportsOf(z, n + 1) = ReportsOf(ds, n) + (IF d.stat # 0 THEN 1 ELSE 0)
  <2>1. IsFiniteSet(R(n)) /\ ReportsOf(ds, n) = Cardinality(R(n))
    BY <1>2, <1>4 DEF ReportsOf
  <2>2. Cardinality(R(n) \cup {n + 1}) = Cardinality(R(n)) + 1
    BY <1>6, <2>1, FS_AddElement
  <2>3. CASE d.stat # 0
    BY <1>5, <2>1, <2>2, <2>3 DEF ReportsOf
  <2>4. CASE d.stat = 0
    <3>1. ReportsOf(z, n + 1) = Cardinality(R(n))
      BY <1>5, <2>4 DEF ReportsOf
    <3>2. Cardinality(R(n)) \in Nat
      BY <1>2, <1>4
    <3>3. QED
      BY <2>1, <2>4, <3>1, <3>2
  <2>5. QED
    BY <2>3, <2>4
<1>8. QED
  BY <1>3, <1>7

\* The reports taken along by the datagrams sent and by the one to be sent.
Taken == ReportsUpTo(Len(dgrams)) + (IF upc = "send" /\ dgram.stat # 0 THEN 1 ELSE 0)

\* Until thread_up ends, every report but the last has been taken along, and the
\* last one unless report_ready is set; it is taken along in the first whole turn
\* of thread_up after main has written it, so it is gone when main copies the
\* counters for the next one.
ReportInv ==
  /\ ReportsInOrder
  /\ upc = "filter" => dgram.stat = 0 /\ (sendReport => reportReady)
  /\ upc = "send" /\ dgram.stat # 0 => dgram.stat = Taken
  /\ upc # "done" =>
       /\ statusReport = Len(reports)
       /\ Taken + (IF reportReady THEN 1 ELSE 0) = Len(reports)
       /\ cycles = 2 \/ mpc = "report" => ~reportReady
       /\ cycles = 1 /\ reportReady =>
            upc = "flag" \/ (upc = "filter" /\ sendReport)

LEMMA ReportInit == Init => ReportInv
<1> SUFFICES ASSUME Init PROVE ReportInv
  OBVIOUS
<1>1. dgrams = <<>> /\ Len(dgrams) = 0 /\ DOMAIN dgrams = {}
  BY DEF Init
<1>2. ReportsUpTo(0) = 0
  <2>1. {j \in 1 .. 0 : dgrams[j].stat # 0} = {}
    OBVIOUS
  <2>2. QED
    BY <2>1, FS_EmptySet DEF ReportsUpTo
<1>3. upc = "fetch" /\ mpc = "wait" /\ cycles = 0 /\ reportReady = FALSE
      /\ statusReport = 0 /\ reports = <<>>
  BY DEF Init
<1>4. Taken = 0
  BY <1>1, <1>2, <1>3 DEF Taken
<1>5. QED
  BY <1>1, <1>3, <1>4 DEF ReportInv, ReportsInOrder

\* A step of main or thread_up loses no report and sends none twice.
LEMMA ReportStep ==
  ASSUME IInv, ReportInv, [Next]_vars
  PROVE  ReportInv'
<1> DEFINE Up == ReportsUpTo(Len(dgrams))
<1>1. /\ dgrams \in Seq(Dgram) /\ dgram \in Dgram /\ Len(dgrams) \in Nat
      /\ DOMAIN dgrams = 1 .. Len(dgrams) /\ Len(reports) \in Nat
      /\ reportReady \in BOOLEAN /\ sendReport \in BOOLEAN /\ statusReport \in Nat
      /\ dgram.stat \in Nat /\ cycles \in 0 .. 2
  BY LenProperties DEF IInv, DgramTypes, FetchTypes, MainTypes, Dgram
<1>2. Up \in Nat /\ \A k \in 0 .. Len(dgrams) : ReportsUpTo(k) = ReportsOf(dgrams, k)
  <2>1. \A k : ReportsUpTo(k) = ReportsOf(dgrams, k)
    BY DEF ReportsUpTo, ReportsOf
  <2>2. QED
    BY <1>1, <2>1, ReportsAppend
<1>3. ASSUME dgrams' = dgrams
      PROVE  ReportsInOrder' /\ ReportsUpTo(Len(dgrams))' = Up
  BY <1>3 DEF ReportInv, ReportsInOrder, ReportsUpTo
<1>4. ASSUME UNCHANGED <<dgrams, reports, reportReady, statusReport>>,
             upc' # "filter", upc # "send", upc' # "send", upc' # "done" => upc # "done",
             cycles' = cycles /\ mpc' = mpc,
             cycles = 1 /\ reportReady => upc # "flag" /\ upc # "filter"
      PROVE  ReportInv'
  <2>1. Taken' = Taken
    BY <1>3, <1>4 DEF Taken
  <2>2. QED
    BY <1>3, <1>4, <2>1 DEF ReportInv
<1>5. CASE UpFetch
  <2>1. /\ UNCHANGED <<dgrams, reports, reportReady, statusReport, mpc>>
        /\ upc = "fetch" /\ upc' = "flag"
        /\ cycles' = IF cycles < 2 THEN cycles + 1 ELSE 2
    BY <1>5 DEF UpFetch, main
  <2>2. Taken' = Taken
    BY <1>3, <2>1 DEF Taken
  <2>3. cycles' = 2 => cycles \in {1, 2}
    BY <1>1, <2>1
  <2>4. QED
    BY <1>3, <2>1, <2>2, <2>3 DEF ReportInv
<1>6. CASE UpFlag
  <2>1. /\ UNCHANGED <<dgrams, reports, reportReady, statusReport, mpc, cycles>>
        /\ upc = "flag" /\ sendReport' = reportReady
        /\ \/ upc' = "fetch" /\ ~reportReady
           \/ upc' = "filter" /\ dgram'.stat = 0
    BY <1>6 DEF UpFlag, main
  <2>2. Taken' = Taken
    BY <1>3, <2>1 DEF Taken
  <2>3. QED
    BY <1>3, <2>1, <2>2 DEF ReportInv
<1>7. CASE UpFilter
  <2>1. /\ UNCHANGED <<dgrams, reports, reportReady, sendReport, statusReport, mpc, cycles>>
        /\ upc = "filter" /\ upc' = "filter"
        /\ dgram'.stat = dgram.stat
    BY <1>1, <1>7 DEF UpFilter, main, Dgram
  <2>2. Taken' = Taken
    BY <1>3, <2>1 DEF Taken
  <2>3. QED
    BY <1>3, <2>1, <2>2 DEF ReportInv
<1>8. CASE UpSkip
  <2>1. /\ UNCHANGED <<dgrams, reports, reportReady, statusReport, mpc, cycles>>
        /\ upc = "filter" /\ upc' = "fetch" /\ ~sendReport
    BY <1>8 DEF UpSkip, main
  <2>2. Taken' = Taken
    BY <1>3, <2>1 DEF Taken
  <2>3. QED
    BY <1>3, <2>1, <2>2 DEF ReportInv
<1>9. CASE UpReport
  <2>1. /\ UNCHANGED <<dgrams, reports, statusReport, mpc, cycles>>
        /\ upc = "filter" /\ upc' = "send"
    BY <1>9 DEF UpReport, main
  <2>2. Taken = Up /\ Taken' = Up + (IF dgram'.stat # 0 THEN 1 ELSE 0)
    BY <1>2, <1>3, <2>1 DEF Taken
  <2>3. CASE sendReport
    <3>1. dgram'.stat = statusReport /\ reportReady' = FALSE
      BY <1>1, <1>9, <2>3 DEF UpReport, Dgram
    <3>2. reportReady /\ Up + 1 = Len(reports) /\ statusReport = Len(reports)
      BY <1>2, <2>1, <2>2, <2>3 DEF ReportInv
    <3>3. Taken' = Len(reports) /\ dgram'.stat = Len(reports)
      BY <1>1, <1>2, <2>2, <3>1, <3>2
    <3>4. QED
      BY <1>1, <1>3, <2>1, <3>1, <3>2, <3>3 DEF ReportInv
  <2>4. CASE ~sendReport
    <3>1. dgram' = dgram /\ reportReady' = reportReady /\ dgram.stat = 0
      BY <1>9, <2>1, <2>4 DEF UpReport, ReportInv
    <3>2. Taken' = Taken
      BY <1>2, <2>2, <3>1
    <3>3. cycles = 1 => ~reportReady
      BY <2>1, <2>4 DEF ReportInv
    <3>4. QED
      BY <1>3, <2>1, <3>1, <3>2, <3>3 DEF ReportInv
  <2>5. QED
    BY <2>3, <2>4
<1>10. CASE UpSend
  <2>1. /\ UNCHANGED <<reports, reportReady, statusReport, dgram, mpc, cycles>>
        /\ upc = "send" /\ upc' = "count" /\ dgrams' = Append(dgrams, dgram)
    BY <1>10 DEF UpSend, main
  <2> DEFINE n == Len(dgrams)
  <2>2. /\ Len(dgrams') = n + 1 /\ DOMAIN dgrams' = 1 .. n + 1
        /\ \A i \in 1 .. n : dgrams'[i] = dgrams[i]
        /\ dgrams'[n + 1] = dgram
    BY <1>1, <2>1, AppendProperties, LenProperties
  <2>3. \A k : ReportsUpTo(k)' = ReportsOf(dgrams', k)
    BY DEF ReportsUpTo, ReportsOf
  <2>4. /\ \A k \in 0 .. n : ReportsOf(dgrams', k) = ReportsUpTo(k)
        /\ ReportsOf(dgrams', n + 1) = Up + (IF dgram.stat # 0 THEN 1 ELSE 0)
    <3>1. n \in 0 .. n
      BY <1>1
    <3>2. QED
      BY <1>1, <1>2, <2>1, <3>1, ReportsAppend
  <2>5. Taken = Up + (IF dgram.stat # 0 THEN 1 ELSE 0) /\ Taken' = Taken
    <3>1. Taken = Up + (IF dgram.stat # 0 THEN 1 ELSE 0)
      BY <2>1 DEF Taken
    <3>2. Taken' = ReportsUpTo(Len(dgrams))' + 0
      BY <2>1 DEF Taken
    <3>3. ReportsUpTo(Len(dgrams))' = ReportsOf(dgrams', n + 1)
      BY <2>2 DEF ReportsUpTo, ReportsOf
    <3>4. QED
      BY <1>2, <2>4, <3>1, <3>2, <3>3
  <2>6. ReportsInOrder'
    <3> SUFFICES ASSUME NEW k \in 1 .. n + 1, dgrams'[k].stat # 0
                 PROVE  dgrams'[k].stat = ReportsOf(dgrams', k)
      BY <2>2, <2>3 DEF ReportsInOrder
    <3>1. CASE k \in 1 .. n
      <4>1. dgrams'[k] = dgrams[k] /\ k \in 0 .. n
        BY <1>1, <2>2, <3>1
      <4>2. dgrams[k].stat = ReportsUpTo(k)
        BY <1>1, <3>1, <4>1 DEF ReportInv, ReportsInOrder
      <4>3. QED
        BY <2>4, <4>1, <4>2
    <3>2. CASE k = n + 1
      BY <2>1, <2>2, <2>4, <2>5, <3>2 DEF ReportInv
    <3>3. QED
      BY <1>1, <3>1, <3>2
  <2>7. QED
    BY <2>1, <2>5, <2>6 DEF ReportInv
<1>11. CASE UpCount \/ UpAck \/ UpNoAck \/ UpQuit
  <2>1. /\ UNCHANGED <<dgrams, reports, reportReady, statusReport, mpc, cycles>>
        /\ upc \in {"count", "ack", "fetch"} /\ upc' \in {"ack", "fetch", "done"}
    BY <1>11 DEF UpCount, UpAck, UpNoAck, UpQuit, main
  <2>2. QED
    BY <1>4, <2>1
<1>12. CASE MainCopy
  <2>1. /\ UNCHANGED <<dgrams, dgram, upc, sendReport, reports, reportReady,
                       statusReport, cycles>>
        /\ cycles = 2 \/ upc = "done"
    BY <1>12 DEF MainCopy, thread_up
  <2>2. Taken' = Taken
    BY <1>3, <2>1 DEF Taken
  <2>3. QED
    BY <1>3, <2>1, <2>2 DEF ReportInv
<1>13. CASE MainReport
  <2>1. /\ UNCHANGED <<dgrams, dgram, upc, sendReport>>
        /\ reports' = Append(reports, cp) /\ cp \in [Counters -> Nat]
        /\ statusReport' = Len(reports) + 1 /\ reportReady' = TRUE
        /\ mpc = "report" /\ mpc' # "report" /\ cycles' = 0
    BY <1>13 DEF MainReport, thread_up, IInv, Counts
  <2>2. Taken' = Taken
    BY <1>3, <2>1 DEF Taken
  <2>3. Len(reports') = Len(reports) + 1
    BY <2>1, AppendProperties DEF IInv, MainTypes
  <2>4. upc # "done" => Taken = Len(reports)
    <3>1. Taken \in Nat
      BY <1>2 DEF Taken
    <3>2. QED
      BY <2>1, <3>1 DEF ReportInv
  <2>5. QED
    BY <1>1, <1>3, <2>1, <2>2, <2>3, <2>4 DEF ReportInv
<1>14. CASE MainJoin \/ Signal \/ UNCHANGED vars
  <2>1. /\ UNCHANGED <<dgrams, dgram, upc, sendReport, reports, reportReady,
                       statusReport, cycles>>
        /\ mpc' = "report" => mpc = "report"
    BY <1>14 DEF MainJoin, Signal, thread_up, main, vars
  <2>2. Taken' = Taken
    BY <1>3, <2>1 DEF Taken
  <2>3. QED
    BY <1>3, <2>1, <2>2 DEF ReportInv
<1>15. QED
  BY <1>5, <1>6, <1>7, <1>8, <1>9, <1>10, <1>11, <1>12, <1>13, <1>14
  DEF Next, UpNext, Ended

\* Nothing has been sent yet.
LEMMA SentInit == Init => ForwardedOnce /\ NothingUncounted
<1> SUFFICES ASSUME Init PROVE ForwardedOnce /\ NothingUncounted
  OBVIOUS
<1>1. IInv
  BY InitInv
<1>2. /\ dgrams = <<>> /\ status = <<>> /\ todo = <<>> /\ upc = "fetch"
      /\ Len(<<>>) = 0 /\ <<>> \in Seq(Dgram)
  BY EmptySeq DEF Init
<1>3. Joined(<<>>) = <<>>
  <2>1. PICK a \in [0 .. 0 -> Seq(1 .. MaxPkt)] : a[0] = <<>> /\ Joined(<<>>) = a[0]
    BY <1>2, JoinChain
  <2>2. QED
    BY <2>1
<1>4. Sent = <<>>
  <2>1. Sent = Joined(dgrams) \o Composed
    BY <1>1, SentParts
  <2>2. Joined(dgrams) = <<>> /\ Composed = <<>>
    BY <1>2, <1>3 DEF Composed
  <2>3. <<>> \o <<>> = <<>>
    OBVIOUS
  <2>4. QED
    BY <2>1, <2>2, <2>3
<1>5. /\ DOMAIN Sent = {} /\ Len(Sent) = 0
      /\ 1 .. Len(status) - Len(todo) = {} /\ Len(status) - Len(todo) = 0
  BY <1>2, <1>4
<1>6. ForwardedOnce
  BY <1>5 DEF ForwardedOnce, Range
<1>7. Total("rcv") = 0 /\ Total("fwd") = 0 /\ Total("dgram") = 0
  BY TotalInit DEF Counters
<1>8. NothingUncounted
  BY <1>2, <1>5, <1>7 DEF NothingUncounted
<1>9. QED
  BY <1>6, <1>8

-----------------------------------------------------------------------------
(* The theorems *)

\* The invariant is one of the forwarder's uplink.
THEOREM Invariant == Spec => []IInv
<1>1. IInv /\ [Next]_vars => IInv'
  BY FetchStep, DgramStep, MainStep, CountsStep DEF IInv
<1>2. QED
  BY <1>1, InitInv, PTL DEF Spec

\* Every variable keeps its type: no fetch exceeds the array of thread_up, and
\* no datagram reports what has not been measured.
THEOREM TypeCorrect == Spec => []TypeOK
<1>1. IInv => TypeOK
  <2> SUFFICES ASSUME IInv PROVE TypeOK
    OBVIOUS
  <2>1. todo \in Seq(1 .. MaxPkt)
    <3>1. 1 .. Len(status) \subseteq 1 .. MaxPkt
      BY UplinkAssumption, LenProperties DEF IInv, FetchTypes
    <3>2. QED
      BY <3>1, SeqMonotonic DEF IInv, FetchTypes
  <2>2. QED
    BY <2>1 DEF IInv, TypeOK, FetchTypes, DgramTypes, MainTypes, Counts
<1>2. QED
  BY <1>1, Invariant, PTL

\* The figures of one report belong together, wherever thread_up is when main
\* copies the counters.
THEOREM ReportsConsistent == Spec => []ReportConsistent
<1>1. IInv => ReportConsistent
  BY DEF IInv, Counts, Consistent, ReportConsistent
<1>2. QED
  BY <1>1, Invariant, PTL

\* Every packet fetched and not filtered out goes into one datagram, in order.
THEOREM PacketsForwardedOnce == Spec => []ForwardedOnce
<1>1. Init => TodoNext /\ ForwardedOnce
  BY TodoInit, SentInit
<1>2. IInv /\ TodoNext /\ ForwardedOnce /\ [Next]_vars => TodoNext' /\ ForwardedOnce'
  BY TodoStep, ForwardStep
<1>3. Spec => [](TodoNext /\ ForwardedOnce)
  BY <1>1, <1>2, Invariant, PTL DEF Spec
<1>4. QED
  BY <1>3, PTL

\* Copying and resetting the counters while thread_up counts loses no event and
\* reports none twice.
THEOREM AllCounted == Spec => []NothingUncounted
<1>1. Init => TodoNext /\ NothingUncounted
  BY TodoInit, SentInit
<1>2. IInv /\ TodoNext /\ NothingUncounted /\ [Next]_vars
        => TodoNext' /\ NothingUncounted'
  BY TodoStep, UncountedStep
<1>3. Spec => [](TodoNext /\ NothingUncounted)
  BY <1>1, <1>2, Invariant, PTL DEF Spec
<1>4. QED
  BY <1>3, PTL

\* Without a token used twice, no more datagrams are counted as acknowledged than
\* have reached the server.
THEOREM AcknowledgementsReal == Spec => []AcksAreReal
<1>1. IInv /\ AckInv /\ [Next]_vars => AckInv'
  BY AckStep
<1>2. Spec => []AckInv
  BY <1>1, AckInit, Invariant, PTL DEF Spec
<1>3. QED
  BY <1>2, AckFacts, Invariant, PTL

\* The reports arrive in the datagrams one after the other, none twice and none
\* left out, although report_ready is read without the mutex.
THEOREM ReportsOrdered == Spec => []ReportsInOrder
<1>1. IInv /\ ReportInv /\ [Next]_vars => ReportInv'
  BY ReportStep
<1>2. Spec => []ReportInv
  BY <1>1, ReportInit, Invariant, PTL DEF Spec
<1>3. ReportInv => ReportsInOrder
  BY DEF ReportInv
<1>4. QED
  BY <1>2, <1>3, PTL
=============================================================================
