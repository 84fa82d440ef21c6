----------------------------- MODULE WireProofs -----------------------------
(***************************************************************************)
(* Proofs about Wire, a part of MCPlatform, for all names, answers, lists  *)
(* of options, requests and blocks of bytes that it allows.                *)
(*                                                                         *)
(* WireInv says what came out of the call made last; the work is in what   *)
(* the readers and writers compute.  A function defined by recursion       *)
(* exists, as far as the prover is concerned, only when a number decreases *)
(* on the way (Recursion); what it computes is then found by following the *)
(* labels, options or records to the first one where it stops (Follow),    *)
(* by the places at which they stand in the message (Starts).  Statements  *)
(* about all of them are proved by the least that would be an exception    *)
(* (LeastNat).                                                             *)
(***************************************************************************)
EXTENDS MCPlatform, SequenceTheorems, WellFoundedInduction, TLAPS

\* A set of naturals that is not empty has a least element.
LEMMA LeastNat ==
  ASSUME NEW S \in SUBSET Nat, S # {}
  PROVE  \E x \in S : \A y \in S : x <= y
<1> DEFINE Less == {ss \in Nat \X Nat : ss[1] < ss[2]}
<1>1. IsWellFoundedOn(Less, Nat)
  BY NatLessThanWellFounded DEF OpToRel
<1>. HIDE DEF Less
<1>2. PICK x \in S : \A y \in S : ~ (<<y, x>> \in Less)
  BY <1>1, WFMin, Zenon
<1>3. \A y \in S : ~ (y < x)
  BY <1>2 DEF Less
<1>. QED BY <1>3

-----------------------------------------------------------------------------
(* Functions defined by recursion, and concatenations.                     *)

\* F is defined by recursion along next, from val at the ends.
Recursive(F, D, V, ends, val, next, step) ==
  /\ F \in [D -> V]
  /\ \A x \in D : F[x] = IF x \in ends THEN val[x] ELSE step[<<x, F[next[x]]>>]

\* A function defined by recursion along next, on which rank decreases, exists.
LEMMA Recursion ==
  ASSUME NEW D, NEW V, NEW ends, NEW rank \in [D -> Nat], NEW val \in [D -> V],
         NEW next \in [D -> D], NEW step \in [D \X V -> V],
         \A x \in D : x \notin ends => rank[next[x]] < rank[x]
  PROVE  \E F : Recursive(F, D, V, ends, val, next, step)
<1> DEFINE Eq(f, x) == f[x] = IF x \in ends THEN val[x] ELSE step[<<x, f[next[x]]>>]
           Upto(k) == {f \in [D -> V] : \A x \in D : rank[x] < k => Eq(f, x)}
           Missing == {k \in Nat : Upto(k) = {}}
<1>1. Missing = {}
  <2>1. SUFFICES ASSUME Missing # {} PROVE FALSE
    OBVIOUS
  <2>2. PICK k \in Missing : \A j \in Missing : k <= j
    BY <2>1, LeastNat
  <2>3. k # 0
    <3>1. val \in Upto(0)
      OBVIOUS
    <3>. QED BY <2>2, <3>1
  <2>4. k - 1 \in Nat /\ k - 1 \notin Missing
    BY <2>2, <2>3
  <2>5. PICK f : f \in Upto(k - 1)
    BY <2>4
  <2> DEFINE g == [x \in D |-> IF x \in ends THEN val[x] ELSE step[<<x, f[next[x]]>>]]
  <2>6. g \in [D -> V]
    BY <2>5
  <2>7. ASSUME NEW x \in D, rank[x] < k PROVE Eq(g, x)
    <3>1. CASE x \in ends
      BY <3>1
    <3>2. CASE x \notin ends
      <4>1. next[x] \in D /\ rank[next[x]] < k - 1
        BY <2>2, <2>7, <3>2
      <4>2. Eq(f, next[x])
        BY <2>5, <4>1
      <4>3. g[next[x]] = f[next[x]]
        BY <4>1, <4>2
      <4>. QED BY <3>2, <4>3
    <3>. QED BY <3>1, <3>2
  <2>8. g \in Upto(k)
    <3>. HIDE DEF g
    <3>. QED BY <2>6, <2>7
  <2>. QED BY <2>2, <2>8
<1>2. \A k \in Nat : Upto(k) # {}
  BY <1>1
<1>3. ASSUME NEW j \in Nat, NEW k \in Nat, NEW f \in Upto(j), NEW g \in Upto(k), NEW x \in D,
             rank[x] < j, rank[x] < k
      PROVE  f[x] = g[x]
  <2> DEFINE Differ == {r \in Nat : \E y \in D : rank[y] = r /\ r < j /\ r < k /\ f[y] # g[y]}
  <2>1. SUFFICES ASSUME f[x] # g[x] PROVE FALSE
    OBVIOUS
  <2>2. Differ # {}
    BY <1>3, <2>1
  <2>3. PICK r \in Differ : \A s \in Differ : r <= s
    BY <2>2, LeastNat
  <2>4. PICK y \in D : rank[y] = r /\ r < j /\ r < k /\ f[y] # g[y]
    BY <2>3
  <2>5. Eq(f, y) /\ Eq(g, y)
    BY <1>3, <2>4
  <2>6. CASE y \in ends
    BY <2>4, <2>5, <2>6
  <2>7. CASE y \notin ends
    <3>1. next[y] \in D /\ rank[next[y]] \in Nat /\ rank[next[y]] < r
      BY <2>4, <2>7
    <3>2. f[next[y]] # g[next[y]]
      BY <2>4, <2>5, <2>7
    <3>3. rank[next[y]] \in Differ
      BY <2>4, <3>1, <3>2
    <3>. QED BY <2>3, <3>1, <3>3
  <2>. QED BY <2>6, <2>7
<1> DEFINE At(x) == CHOOSE f : f \in Upto(rank[x] + 1)
           F == [x \in D |-> At(x)[x]]
<1>4. \A x \in D : At(x) \in Upto(rank[x] + 1) /\ At(x) \in [D -> V]
  <2>1. ASSUME NEW x \in D PROVE At(x) \in Upto(rank[x] + 1)
    <3>1. rank[x] + 1 \in Nat
      OBVIOUS
    <3>. HIDE DEF Upto
    <3>2. Upto(rank[x] + 1) # {}
      BY <1>2, <3>1
    <3>. QED BY <3>2
  <2>. QED BY <2>1
<1>. HIDE DEF At
<1>5. F \in [D -> V]
  BY <1>4
<1>6. ASSUME NEW x \in D PROVE Eq(F, x)
  <2>1. Eq(At(x), x)
    BY <1>4
  <2>2. CASE x \in ends
    BY <2>1, <2>2
  <2>3. CASE x \notin ends
    <3> DEFINE y == next[x]
    <3>1. y \in D /\ rank[y] < rank[x]
      BY <2>3
    <3>2. At(y)[y] = At(x)[y]
      <4>1. /\ rank[y] + 1 \in Nat /\ rank[x] + 1 \in Nat
            /\ rank[y] < rank[y] + 1 /\ rank[y] < rank[x] + 1
        BY <3>1
      <4>. HIDE DEF y, Upto
      <4>. QED BY <1>3, <1>4, <3>1, <4>1
    <3>. QED BY <2>1, <2>3, <3>1, <3>2
  <2>. QED BY <2>2, <2>3
<1>7. \A x \in D : Eq(F, x)
  BY <1>6
<1>. HIDE DEF F
<1>. QED BY <1>5, <1>7 DEF Recursive

\* The value at 1 is that at the first stop.
Followed(G, stop) == \E e \in stop : G[1] = G[e] /\ \A k \in 1 .. e - 1 : k \notin stop

\* Values that are the same as long as nothing stops lead to the first stop.
LEMMA Follow ==
  ASSUME NEW N \in Nat, NEW G, NEW stop \in SUBSET (1 .. N + 1), N + 1 \in stop,
         \A k \in 1 .. N : k \notin stop => G[k] = G[k + 1]
  PROVE  Followed(G, stop)
<1>1. PICK e \in stop : \A k \in stop : e <= k
  <2>1. stop \in SUBSET Nat /\ stop # {}
    OBVIOUS
  <2>. QED BY <2>1, LeastNat
<1>2. e \in 1 .. N + 1 /\ \A k \in 1 .. e - 1 : k \in 1 .. N /\ k \notin stop
  BY <1>1
<1> DEFINE Off == {k \in Nat : k \in 1 .. e /\ G[k] # G[1]}
<1>3. Off = {}
  <2>1. SUFFICES ASSUME Off # {} PROVE FALSE
    OBVIOUS
  <2>2. PICK k \in Off : \A j \in Off : k <= j
    BY <2>1, LeastNat
  <2>3. k # 1 /\ k - 1 \in 1 .. e - 1 /\ k - 1 \in Nat /\ k - 1 \in 1 .. e
    BY <1>2, <2>2
  <2>4. G[k - 1] = G[1]
    BY <2>2, <2>3
  <2>5. G[k - 1] = G[(k - 1) + 1]
    BY <1>2, <2>3
  <2>6. (k - 1) + 1 = k
    BY <2>2
  <2>. QED BY <2>2, <2>4, <2>5, <2>6
<1>4. e \in Nat /\ e \in 1 .. e
  BY <1>2
<1>5. e \in stop /\ G[1] = G[e] /\ \A k \in 1 .. e - 1 : k \notin stop
  BY <1>1, <1>2, <1>3, <1>4
<1>. QED BY <1>5 DEF Followed

\* The bytes of a concatenation.
LEMMA Concat ==
  ASSUME NEW S, NEW a \in Seq(S), NEW b \in Seq(S)
  PROVE  /\ a \o b \in Seq(S) /\ Len(a) \in Nat /\ Len(b) \in Nat
         /\ Len(a \o b) = Len(a) + Len(b)
         /\ \A j \in 1 .. Len(a) : (a \o b)[j] = a[j]
         /\ \A j \in 1 .. Len(b) : (a \o b)[Len(a) + j] = b[j]
<1>1. /\ a \o b \in Seq(S) /\ Len(a \o b) = Len(a) + Len(b)
      /\ \A j \in 1 .. Len(a) + Len(b) :
           (a \o b)[j] = IF j <= Len(a) THEN a[j] ELSE b[j - Len(a)]
  BY ConcatProperties
<1>2. Len(a) \in Nat /\ Len(b) \in Nat
  BY LenProperties
<1>3. ASSUME NEW j \in 1 .. Len(a) PROVE (a \o b)[j] = a[j]
  BY <1>1, <1>2
<1>4. ASSUME NEW j \in 1 .. Len(b) PROVE (a \o b)[Len(a) + j] = b[j]
  <2>1. /\ Len(a) + j \in 1 .. Len(a) + Len(b) /\ ~ (Len(a) + j <= Len(a))
        /\ (Len(a) + j) - Len(a) = j
    BY <1>2
  <2>. QED BY <1>1, <2>1
<1>. QED BY <1>1, <1>2, <1>3, <1>4

IsConcat(t, a, b, S) ==
  /\ t \in Seq(S) /\ Len(a) \in Nat /\ Len(b) \in Nat /\ Len(t) = Len(a) + Len(b)
  /\ \A j \in 1 .. Len(a) : t[j] = a[j]
  /\ \A j \in 1 .. Len(b) : t[Len(a) + j] = b[j]

LEMMA ConcatIs ==
  ASSUME NEW S, NEW a \in Seq(S), NEW b \in Seq(S)
  PROVE  IsConcat(a \o b, a, b, S)
<1>1. /\ a \o b \in Seq(S) /\ Len(a) \in Nat /\ Len(b) \in Nat
      /\ Len(a \o b) = Len(a) + Len(b)
  BY Concat, Zenon
<1>2. \A j \in 1 .. Len(a) : (a \o b)[j] = a[j]
  BY Concat, Zenon
<1>3. \A j \in 1 .. Len(b) : (a \o b)[Len(a) + j] = b[j]
  BY Concat, SMTT(30)
<1>. QED BY <1>1, <1>2, <1>3 DEF IsConcat

\* A piece that stands in two sequences at different places.
LEMMA MovedPiece ==
  ASSUME NEW v, NEW w, NEW a \in Int, NEW b \in Int, NEW l \in Nat,
         \A j \in 1 .. l : v[a + j - 1] = w[b + j - 1]
  PROVE  SubSeq(v, a, a + l - 1) = SubSeq(w, b, b + l - 1)
<1>1. SubSeq(v, a, a + l - 1) = [j \in 1 .. l |-> v[a + j - 1]]
  OBVIOUS
<1>2. SubSeq(w, b, b + l - 1) = [j \in 1 .. l |-> w[b + j - 1]]
  OBVIOUS
<1>. QED BY <1>1, <1>2

\* The sequences of seqs stand in their concatenation one behind the other:
\* the k-th ends before place starts[k + 1].
Starts(starts, seqs, whole) ==
  /\ starts \in [1 .. Len(seqs) + 1 -> Nat \ {0}]
  /\ starts[1] = 1 /\ starts[Len(seqs) + 1] = Len(whole) + 1
  /\ \A k \in 1 .. Len(seqs) :
       /\ starts[k + 1] = starts[k] + Len(seqs[k]) /\ starts[k + 1] <= Len(whole) + 1
       /\ \A j \in 1 .. Len(seqs[k]) : whole[starts[k] - 1 + j] = seqs[k][j]

LEMMA Flattened ==
  ASSUME NEW S, NEW seqs \in Seq(Seq(S))
  PROVE  /\ Wr!FlattenSeq(seqs) \in Seq(S)
         /\ \E starts : Starts(starts, seqs, Wr!FlattenSeq(seqs))
<1> DEFINE N == Len(seqs)
           whole == Wr!FlattenSeq(seqs)
<1>1. N \in Nat
  BY LenProperties
<1>4. \A k \in 1 .. N : seqs[k] \in Seq(S)
  BY ElementOfSeq
<1>5. \A k \in 1 .. N : Len(seqs[k]) \in Nat
  BY <1>4, LenProperties
<1>2. CASE N = 0
  <2>1. seqs = <<>>
    BY <1>2, EmptySeq
  <2>2. whole = <<>>
    BY <2>1, <1>2 DEF Wr!FlattenSeq
  <2>3. Len(<<>>) = 0
    OBVIOUS
  <2> DEFINE starts == [k \in {1} |-> 1]
  <2>4. Starts(starts, seqs, <<>>)
    BY <2>3, <2>1 DEF Starts
  <2>. QED BY <2>2, <2>4
<1>3. CASE N # 0
  <2> DEFINE D == 1 .. N
             V == Seq(S)
             rank == [k \in D |-> k]
             ends == {1}
             next == [k \in D |-> IF k = 1 THEN 1 ELSE k - 1]
             step == [x \in D \X V |-> x[2] \o seqs[x[1]]]
             val == [k \in D |-> seqs[k]]
  <2>1. \E P : Recursive(P, D, V, ends, val, next, step)
    <3>1. /\ rank \in [D -> Nat] /\ val \in [D -> V] /\ next \in [D -> D]
          /\ \A x \in D : x \notin ends => rank[next[x]] < rank[x]
      BY <1>1, <1>3
    <3>2. step \in [D \X V -> V]
      <4>1. ASSUME NEW x \in D, NEW y \in V PROVE y \o seqs[x] \in V
        BY <1>4, ConcatProperties
      <4>. HIDE DEF V
      <4>. QED BY <4>1
    <3>. HIDE DEF D, V, rank, ends, next, step, val
    <3>. QED BY <3>1, <3>2, Recursion, Zenon
  <2>2. PICK P : /\ P \in [D -> V]
                 /\ \A x \in D : P[x] = IF x \in ends THEN val[x] ELSE step[<<x, P[next[x]]>>]
    <3>. HIDE DEF D, V, rank, ends, next, step, val
    <3>. QED BY <2>1, Zenon DEF Recursive
  <2>3. P = [i \in 1 .. N |-> IF i = 1 THEN seqs[i] ELSE P[i - 1] \o seqs[i]]
    <3>1. ASSUME NEW i \in D PROVE P[i] = IF i = 1 THEN seqs[i] ELSE P[i - 1] \o seqs[i]
      <4>1. CASE i = 1
        BY <2>2, <4>1
      <4>2. CASE i # 1
        <5>0. i - 1 \in D /\ next[i] = i - 1
          BY <4>2, <1>1
        <5>1. i - 1 \in D /\ P[i - 1] \in V /\ next[i] = i - 1
          <6>. HIDE DEF D, V, next
          <6>. QED BY <5>0, <2>2
        <5>2. P[i] = step[<<i, P[i - 1]>>]
          BY <2>2, <4>2, <5>1
        <5>. QED BY <5>1, <5>2, <4>2
      <4>. QED BY <4>1, <4>2
    <3>. HIDE DEF V, rank, ends, next, step, val
    <3>. QED BY <2>2, <3>1
  <2> DEFINE IsFlat(f) == f = [i \in 1 .. N |-> IF i = 1 THEN seqs[i] ELSE f[i - 1] \o seqs[i]]
             T == CHOOSE f : IsFlat(f)
  <2>4. IsFlat(T)
    BY <2>3, Zenon
  <2>5. whole = T[N]
    BY <1>3 DEF Wr!FlattenSeq
  <2>. HIDE DEF T, whole
  <2> DEFINE starts == [k \in 1 .. N + 1 |-> IF k = 1 THEN 1 ELSE Len(T[k - 1]) + 1]
             Good(k) == /\ T[k] \in Seq(S)
                        /\ starts[k + 1] = starts[k] + Len(seqs[k])
                        /\ \A j \in 1 .. Len(seqs[k]) : T[k][starts[k] - 1 + j] = seqs[k][j]
  <2>6. T[1] = seqs[1] /\ \A k \in 2 .. N : T[k] = T[k - 1] \o seqs[k]
    <3>1. \A i \in 1 .. N : T[i] = IF i = 1 THEN seqs[i] ELSE T[i - 1] \o seqs[i]
      BY <2>4
    <3>2. 1 \in 1 .. N /\ \A k \in 2 .. N : k \in 1 .. N /\ k # 1
      BY <1>1, <1>3
    <3>. QED BY <3>1, <3>2
  <2>. HIDE DEF IsFlat
  <2>16. /\ starts \in [1 .. N + 1 -> Int \cup {Len(T[k]) + 1 : k \in 1 .. N}]
         /\ starts[1] = 1 /\ \A k \in 1 .. N : starts[k + 1] = Len(T[k]) + 1
    BY <1>1
  <2>17. \A k \in 1 .. N : k # 1 => starts[k] = Len(T[k - 1]) + 1
    BY <1>1
  <2>. HIDE DEF starts
  <2>7. ASSUME NEW k \in 1 .. N, k # 1 => T[k - 1] \in Seq(S)
        PROVE  Good(k)
    <3>1. CASE k = 1
      <4>1. T[k] = seqs[k]
        BY <3>1, <2>6
      <4>2. starts[k] = 1 /\ starts[k + 1] = Len(seqs[k]) + 1
        BY <3>1, <2>16, <4>1
      <4>3. T[k] \in Seq(S) /\ Len(seqs[k]) \in Nat
        BY <4>1, <1>4, <1>5
      <4>4. \A j \in 1 .. Len(seqs[k]) : starts[k] - 1 + j = j
        BY <4>2
      <4>5. starts[k + 1] = starts[k] + Len(seqs[k])
        BY <4>2, <4>3
      <4>. QED BY <4>1, <4>3, <4>4, <4>5
    <3>2. CASE k # 1
      <4>1. T[k] = T[k - 1] \o seqs[k]
        <5>1. k \in 2 .. N
          BY <3>2, <1>1
        <5>. QED BY <5>1, <2>6
      <4>2. T[k - 1] \in Seq(S) /\ seqs[k] \in Seq(S)
        BY <3>2, <2>7, <1>4
      <4> DEFINE a == T[k - 1]
                 b == seqs[k]
                 t == a \o b
      <4>10. a \in Seq(S) /\ b \in Seq(S)
        BY <4>2
      <4>6. T[k] = t
        BY <4>1
      <4>11. starts[k] = Len(a) + 1 /\ starts[k + 1] = Len(t) + 1
        <5>. HIDE DEF t
        <5>. QED BY <3>2, <2>16, <2>17, <4>6
      <4>. HIDE DEF a, b
      <4>3. t \in Seq(S) /\ Len(t) = Len(a) + Len(b) /\ Len(a) \in Nat /\ Len(b) \in Nat
        BY <4>10, Concat, Zenon
      <4>4. \A j \in 1 .. Len(b) : t[Len(a) + j] = b[j]
        BY <4>10, Concat, SMTT(30)
      <4>. HIDE DEF t
      <4>8. starts[k + 1] = starts[k] + Len(b)
        BY <4>3, <4>11
      <4>9. ASSUME NEW j \in 1 .. Len(b) PROVE t[starts[k] - 1 + j] = b[j]
        <5>1. starts[k] - 1 + j = Len(a) + j
          BY <4>3, <4>11
        <5>. QED BY <4>4, <5>1
      <4>. QED BY <4>3, <4>6, <4>8, <4>9 DEF b
    <3>. QED BY <3>1, <3>2
  <2>8. \A k \in 1 .. N : Good(k)
    <3> DEFINE Bad == {k \in Nat : k \in 1 .. N /\ ~ Good(k)}
    <3>. HIDE DEF Good
    <3>1. SUFFICES ASSUME Bad # {} PROVE FALSE
      BY <1>1
    <3>2. PICK k \in Bad : \A j \in Bad : k <= j
      BY <3>1, LeastNat
    <3>3. ASSUME k # 1 PROVE T[k - 1] \in Seq(S)
      <4>1. k - 1 \in Nat /\ k - 1 \in 1 .. N /\ ~ (k <= k - 1)
        BY <3>2, <3>3, <1>1
      <4>2. Good(k - 1)
        BY <4>1, <3>2
      <4>. QED BY <4>2 DEF Good
    <3>. QED BY <3>2, <3>3, <2>7
  <2>9. ASSUME NEW k \in 1 .. N
        PROVE  /\ Len(T[k]) <= Len(T[N])
               /\ \A j \in 1 .. Len(T[k]) : T[N][j] = T[k][j]
    <3> DEFINE Keeps(i) == /\ Len(T[k]) <= Len(T[i])
                           /\ \A j \in 1 .. Len(T[k]) : T[i][j] = T[k][j]
               Bad == {i \in Nat : i \in k .. N /\ ~ Keeps(i)}
    <3>1. SUFFICES ASSUME Bad # {} PROVE FALSE
      <4>1. N \in k .. N /\ N \in Nat
        BY <1>1
      <4>2. ASSUME Bad = {} PROVE Keeps(N)
        <5>. HIDE DEF Keeps
        <5>. QED BY <4>1, <4>2
      <4>. HIDE DEF Bad
      <4>. QED BY <4>2
    <3>2. PICK i \in Bad : \A j \in Bad : i <= j
      BY <3>1, LeastNat
    <3>3. T[k] \in Seq(S) /\ Len(T[k]) \in Nat /\ \A j \in 1 .. Len(T[k]) : T[k][j] = T[k][j]
      BY <2>8, LenProperties
    <3>4. i # k
      BY <3>2, <3>3
    <3>5. i \in 2 .. N /\ i - 1 \in k .. N /\ i - 1 \in 1 .. N /\ i \in 1 .. N /\ ~ (i <= i - 1) /\ i - 1 \in Nat
      BY <3>2, <3>4, <1>1
    <3>6. Keeps(i - 1)
      BY <3>2, <3>5
    <3>7. T[i] = T[i - 1] \o seqs[i] /\ T[i - 1] \in Seq(S) /\ seqs[i] \in Seq(S)
      BY <3>5, <2>6, <2>8, <1>4
    <3> DEFINE a == T[i - 1]
               b == seqs[i]
               t == a \o b
    <3>20. a \in Seq(S) /\ b \in Seq(S)
      BY <3>7
    <3>10. T[i] = t
      BY <3>7
    <3>11. Len(T[k]) <= Len(a)
      BY <3>6
    <3>16. \A j \in 1 .. Len(T[k]) : a[j] = T[k][j]
      BY <3>6
    <3>. HIDE DEF a, b, Keeps
    <3>8. Len(t) = Len(a) + Len(b) /\ Len(a) \in Nat /\ Len(b) \in Nat
      BY <3>20, Concat, Zenon
    <3>17. \A j \in 1 .. Len(a) : t[j] = a[j]
      BY <3>20, Concat, Zenon
    <3>. HIDE DEF t
    <3>12. Len(T[k]) \in Nat
      BY <3>3
    <3>13. Len(T[k]) <= Len(t)
      BY <3>8, <3>11, <3>12
    <3>14. \A j \in 1 .. Len(T[k]) : j \in 1 .. Len(a)
      BY <3>11, <3>12, <3>8
    <3>15. \A j \in 1 .. Len(T[k]) : t[j] = T[k][j]
      BY <3>17, <3>16, <3>14
    <3>9. Keeps(i)
      BY <3>10, <3>13, <3>15 DEF Keeps
    <3>. QED BY <3>2, <3>9
  <2>10. N \in 1 .. N /\ T[N] \in Seq(S)
    <3>1. N \in 1 .. N
      BY <1>1, <1>3
    <3>. QED BY <2>8, <3>1
  <2>11. \A k \in 1 .. N : T[k] \in Seq(S) /\ Len(T[k]) \in Nat
    BY <2>8, LenProperties
  <2>12. starts \in [1 .. N + 1 -> Nat \ {0}] /\ starts[1] = 1 /\ starts[N + 1] = Len(T[N]) + 1
    <3>1. N \in 1 .. N /\ \A k \in 1 .. N : Len(T[k]) + 1 \in Nat \ {0}
      BY <1>1, <1>3, <2>11
    <3>2. ASSUME NEW k \in 1 .. N + 1 PROVE starts[k] \in Nat \ {0}
      <4>1. CASE k = 1
        BY <4>1, <2>16
      <4>2. CASE k # 1
        <5>1. k - 1 \in 1 .. N /\ (k - 1) + 1 = k
          BY <4>2, <1>1
        <5>. QED BY <5>1, <3>1, <2>16
      <4>. QED BY <4>1, <4>2
    <3>. QED BY <2>16, <3>1, <3>2
  <2>13. ASSUME NEW k \in 1 .. N
         PROVE  /\ starts[k + 1] = starts[k] + Len(seqs[k]) /\ starts[k + 1] <= Len(T[N]) + 1
                /\ \A j \in 1 .. Len(seqs[k]) : T[N][starts[k] - 1 + j] = seqs[k][j]
    <3>1. /\ starts[k + 1] = starts[k] + Len(seqs[k])
          /\ \A j \in 1 .. Len(seqs[k]) : T[k][starts[k] - 1 + j] = seqs[k][j]
      BY <2>8
    <3>2. starts[k + 1] = Len(T[k]) + 1
      BY <2>16
    <3>3. starts[k] \in Nat \ {0} /\ Len(T[k]) \in Nat /\ Len(seqs[k]) \in Nat /\ Len(T[N]) \in Nat
      <4>1. k \in 1 .. N + 1 /\ N \in 1 .. N
        BY <1>1
      <4>. QED BY <4>1, <1>5, <2>11, <2>12
    <3>4. Len(T[k]) <= Len(T[N]) /\ \A j \in 1 .. Len(T[k]) : T[N][j] = T[k][j]
      BY <2>9
    <3>. HIDE DEF Good
    <3>5. ASSUME NEW j \in 1 .. Len(seqs[k]) PROVE T[N][starts[k] - 1 + j] = seqs[k][j]
      <4> DEFINE u == starts[k]
                 v == Len(seqs[k])
                 x == Len(T[k])
      <4>1. u - 1 + j \in 1 .. x
        <5>1. u \in Nat \ {0} /\ v \in Nat /\ x \in Nat /\ u + v = x + 1 /\ j \in 1 .. v
          BY <3>1, <3>2, <3>3
        <5>. HIDE DEF u, v, x
        <5>. QED BY <5>1
      <4>. QED BY <3>1, <3>4, <4>1
    <3>. QED BY <3>1, <3>2, <3>3, <3>4, <3>5
  <2>14. Starts(starts, seqs, T[N])
    BY <2>12, <2>13 DEF Starts
  <2>15. whole \in Seq(S) /\ Starts(starts, seqs, whole)
    BY <2>5, <2>10, <2>14
  <2>. QED BY <2>15 DEF whole
<1>. QED BY <1>2, <1>3

-----------------------------------------------------------------------------
(* The options of DHCP messages.                                           *)

Opt == [tag : Wr!Byte, value : Wr!Value]

\* The options of list stand in the bytes o at the places starts.
OptionsLie(starts, list, o) ==
  /\ starts \in [1 .. Len(list) + 1 -> Nat \ {0}]
  /\ starts[1] = 1 /\ starts[Len(list) + 1] = Len(o) + 1
  /\ \A k \in 1 .. Len(list) :
       /\ starts[k] <= Len(o) /\ o[starts[k]] = list[k].tag
       /\ list[k].tag \in {0, 255} => starts[k + 1] = starts[k] + 1
       /\ list[k].tag \notin {0, 255} =>
            /\ starts[k + 1] = starts[k] + 2 + Len(list[k].value)
            /\ starts[k + 1] <= Len(o) + 1
            /\ o[starts[k] + 1] = Len(list[k].value)
            /\ \A j \in 1 .. Len(list[k].value) : o[starts[k] + 1 + j] = list[k].value[j]

\* The recursion of Find.
FindRuns(F, o, tag, least) ==
  /\ Wr!Find(o, tag, least) = F[1]
  /\ \A i \in Nat \ {0} :
       F[i] = IF i > Len(o) \/ o[i] = 255 \/ (o[i] # 0 /\ i = Len(o)) THEN <<>>
              ELSE IF o[i] = tag /\ o[i + 1] >= least THEN SubSeq(o, i + 2, i + 1 + least)
              ELSE F[IF o[i] = 0 THEN i + 1 ELSE i + 2 + o[i + 1]]

LEMMA FindRecursion ==
  ASSUME NEW o \in Seq(Wr!Byte), NEW tag, NEW least \in Nat
  PROVE  \E F : FindRuns(F, o, tag, least)
<1> DEFINE D == Nat \ {0}
           Stops(i) == i > Len(o) \/ o[i] = 255 \/ (o[i] # 0 /\ i = Len(o))
           Hits(i) == o[i] = tag /\ o[i + 1] >= least
           V == {<<>>} \cup {SubSeq(o, i + 2, i + 1 + least) : i \in D}
           ends == {i \in D : Stops(i) \/ Hits(i)}
           rank == [i \in D |-> IF i <= Len(o) THEN Len(o) + 1 - i ELSE 0]
           val == [i \in D |-> IF Stops(i) THEN <<>> ELSE SubSeq(o, i + 2, i + 1 + least)]
           After(i) == IF o[i] = 0 THEN i + 1 ELSE i + 2 + o[i + 1]
           next == [i \in D |-> IF i \in ends THEN i ELSE After(i)]
           step == [x \in D \X V |-> x[2]]
<1>1. Len(o) \in Nat /\ \A i \in 1 .. Len(o) : o[i] \in 0 .. 255
  BY LenProperties, ElementOfSeq DEF Wr!Byte
<1>2. ASSUME NEW i \in D, ~ Stops(i) PROVE After(i) \in D /\ After(i) > i /\ i <= Len(o)
  <2>1. i \in 1 .. Len(o)
    BY <1>1, <1>2
  <2>2. CASE o[i] = 0
    <3>1. After(i) = i + 1
      BY <2>2
    <3>2. i + 1 \in D /\ i + 1 > i /\ i <= Len(o)
      BY <2>1
    <3>. HIDE DEF After, Stops
    <3>. QED BY <3>1, <3>2
  <2>3. CASE o[i] # 0
    <3>1. i + 1 \in 1 .. Len(o)
      BY <1>1, <1>2, <2>1, <2>3
    <3>2. o[i + 1] \in 0 .. 255
      BY <1>1, <3>1
    <3> DEFINE b == o[i + 1]
    <3>3. After(i) = i + 2 + b
      BY <2>3
    <3>4. b \in 0 .. 255
      BY <3>2
    <3>. HIDE DEF b
    <3>5. i + 2 + b \in D /\ i + 2 + b > i /\ i <= Len(o)
      BY <2>1, <3>4
    <3>. HIDE DEF After, Stops
    <3>. QED BY <3>3, <3>5
  <2>. HIDE DEF After, Stops
  <2>. QED BY <2>2, <2>3
<1>3. rank \in [D -> Nat] /\ val \in [D -> V] /\ step \in [D \X V -> V]
  <2>1. \A i \in D : <<>> \in V /\ SubSeq(o, i + 2, i + 1 + least) \in V
    OBVIOUS
  <2>2. val \in [D -> V]
    <3>. HIDE DEF V, Stops
    <3>. QED BY <2>1
  <2>3. rank \in [D -> Nat]
    BY <1>1
  <2>4. step \in [D \X V -> V]
    <3>. HIDE DEF V, D
    <3>. QED OBVIOUS
  <2>. QED BY <2>2, <2>3, <2>4
<1>4. next \in [D -> D] /\ \A i \in D : i \notin ends => rank[next[i]] < rank[i]
  <2>1. \A i \in D : i \notin ends => After(i) \in D /\ After(i) > i /\ i <= Len(o)
    BY <1>2
  <2>. HIDE DEF After, ends
  <2>. QED BY <2>1, <1>1
<1>5. PICK F : Recursive(F, D, V, ends, val, next, step)
  <2>. HIDE DEF D, V, ends, rank, val, next, step
  <2>. QED BY <1>3, <1>4, Recursion, Zenon
<1>6. F \in [D -> V] /\ \A x \in D : F[x] = IF x \in ends THEN val[x] ELSE step[<<x, F[next[x]]>>]
  BY <1>5, Zenon DEF Recursive
<1>7. ASSUME NEW i \in D
      PROVE  F[i] = IF Stops(i) THEN <<>> ELSE IF Hits(i) THEN SubSeq(o, i + 2, i + 1 + least)
                    ELSE F[After(i)]
  <2>1. CASE Stops(i)
    BY <1>6, <2>1
  <2>2. CASE ~ Stops(i) /\ Hits(i)
    <3>1. i \in ends /\ val[i] = SubSeq(o, i + 2, i + 1 + least)
      BY <2>2
    <3>. HIDE DEF Stops, Hits, ends, val
    <3>. QED BY <1>6, <2>2, <3>1
  <2>3. CASE ~ Stops(i) /\ ~ Hits(i)
    <3>1. i \notin ends
      BY <2>3
    <3>2. next[i] = After(i) /\ After(i) \in D
      BY <1>2, <2>3, <3>1
    <3>3. F[After(i)] \in V
      <4>. HIDE DEF After, V, D
      <4>. QED BY <1>6, <3>2
    <3>4. F[i] = step[<<i, F[After(i)]>>]
      <4>. HIDE DEF After, V, step, ends, val, next
      <4>. QED BY <1>6, <3>1, <3>2
    <3>5. step[<<i, F[After(i)]>>] = F[After(i)]
      <4>. HIDE DEF After, V, D
      <4>. QED BY <3>3
    <3>. HIDE DEF Stops, Hits, After
    <3>. QED BY <2>3, <3>4, <3>5
  <2>. QED BY <2>1, <2>2, <2>3
<1> DEFINE IsFind(f) == f = [i \in D |-> IF Stops(i) THEN <<>>
                                       ELSE IF Hits(i) THEN SubSeq(o, i + 2, i + 1 + least)
                                       ELSE f[After(i)]]
           T == CHOOSE f : IsFind(f)
<1>8. IsFind(F)
  <2>. HIDE DEF Stops, Hits, After
  <2>1. F = [i \in D |-> F[i]]
    BY <1>6
  <2>. QED BY <2>1, <1>7
<1>9. IsFind(T)
  <2>. HIDE DEF IsFind
  <2>. QED BY <1>8
<1>10. \A i \in D : T[i] = IF Stops(i) THEN <<>> ELSE IF Hits(i) THEN SubSeq(o, i + 2, i + 1 + least)
                           ELSE T[After(i)]
  <2>. HIDE DEF Stops, Hits, After, T
  <2>. QED BY <1>9
<1>11. Wr!Find(o, tag, least) = T[1]
  BY DEF Wr!Find, Wr!END, Wr!NoValue, Wr!NextOption
<1>. HIDE DEF T
<1>. QED BY <1>10, <1>11 DEF FindRuns

\* What stands at the beginning of an option decides what Find does there.
AtOption(F, starts, list, tag, least, k) ==
  /\ list[k].tag = 255 => F[starts[k]] = <<>>
  /\ list[k].tag = tag /\ Len(list[k].value) >= least =>
       F[starts[k]] = SubSeq(list[k].value, 1, least)
  /\ list[k].tag # 255 /\ ~ (list[k].tag = tag /\ Len(list[k].value) >= least) =>
       F[starts[k]] = F[starts[k + 1]]

LEMMA FindAtOption ==
  ASSUME NEW list \in Seq(Opt), NEW o \in Seq(Wr!Byte), NEW starts, OptionsLie(starts, list, o),
         NEW tag \in 1 .. 254, NEW least \in Nat, NEW F, FindRuns(F, o, tag, least),
         NEW k \in 1 .. Len(list)
  PROVE  AtOption(F, starts, list, tag, least, k)
<1> DEFINE i == starts[k]
           v == list[k].value
           t == list[k].tag
           L == Len(v)
           after == starts[k + 1]
<1>1. t \in 0 .. 255 /\ v \in Seq(Wr!Byte) /\ L \in Nat
  <2>1. list[k] \in Opt
    BY ElementOfSeq
  <2>. QED BY <2>1, LenProperties DEF Opt, Wr!Value, Wr!Byte
<1>2. Len(o) \in Nat
  BY LenProperties
<1>3. i \in Nat \ {0} /\ i <= Len(o) /\ o[i] = t
  <2>1. k \in 1 .. Len(list) + 1
    BY LenProperties
  <2>. QED BY <2>1 DEF OptionsLie
<1>4. t \in {0, 255} => after = i + 1
  BY DEF OptionsLie
<1>5. t \notin {0, 255} => /\ after = i + 2 + L /\ after <= Len(o) + 1
                           /\ o[i + 1] = L
                           /\ \A j \in 1 .. L : o[i + 1 + j] = v[j]
  BY DEF OptionsLie
<1>. HIDE DEF v, t, L, after, i
<1>6. F[i] = IF i > Len(o) \/ o[i] = 255 \/ (o[i] # 0 /\ i = Len(o)) THEN <<>>
             ELSE IF o[i] = tag /\ o[i + 1] >= least THEN SubSeq(o, i + 2, i + 1 + least)
             ELSE F[IF o[i] = 0 THEN i + 1 ELSE i + 2 + o[i + 1]]
  BY <1>3, Zenon DEF FindRuns
<1>7. t = 255 => F[i] = <<>>
  BY <1>3, <1>6
<1>8. t = 0 => F[i] = F[after]
  <2>1. SUFFICES ASSUME t = 0 PROVE F[i] = F[after]
    OBVIOUS
  <2>2. tag # 0 /\ ~ (i > Len(o))
    <3> DEFINE x == Len(o)
    <3>1. x \in Nat /\ i \in Nat /\ i <= x
      BY <1>2, <1>3
    <3>. HIDE DEF x
    <3>2. ~ (i > x)
      BY <3>1
    <3>3. tag # 0
      OBVIOUS
    <3>. QED BY <3>2, <3>3 DEF x
  <2>3. after = i + 1
    BY <1>4, <2>1
  <2>. QED BY <1>3, <1>6, <2>1, <2>2, <2>3
<1>9. ASSUME t \notin {0, 255}
      PROVE  F[i] = IF t = tag /\ L >= least THEN SubSeq(o, i + 2, i + 1 + least) ELSE F[after]
  <2>1. ~ (i > Len(o)) /\ i # Len(o)
    BY <1>1, <1>2, <1>3, <1>5, <1>9
  <2>2. o[i] = t /\ t # 0 /\ t # 255 /\ o[i + 1] = L /\ after = i + 2 + L
    BY <1>3, <1>5, <1>9
  <2>. QED BY <1>6, <2>1, <2>2
<1>10. ASSUME t \notin {0, 255}, L >= least
       PROVE  SubSeq(o, i + 2, i + 1 + least) = SubSeq(v, 1, least)
  <2>1. \A j \in 1 .. least : o[i + 1 + j] = v[j]
    BY <1>1, <1>5, <1>10
  <2>2. \A j \in 1 .. least : o[(i + 2) + j - 1] = v[1 + j - 1]
    <3>1. \A j \in 1 .. least : (i + 2) + j - 1 = i + 1 + j /\ 1 + j - 1 = j
      BY <1>3
    <3>. QED BY <2>1, <3>1
  <2>3. i + 1 + least = (i + 2) + least - 1 /\ least = 1 + least - 1 /\ i + 2 \in Int
    BY <1>3
  <2>4. SubSeq(o, i + 2, (i + 2) + least - 1) = SubSeq(v, 1, 1 + least - 1)
    BY <2>2, <2>3, MovedPiece
  <2>. QED BY <2>3, <2>4
<1>11. tag # 0 /\ tag # 255
  OBVIOUS
<1>12. t = tag /\ L >= least => F[i] = SubSeq(v, 1, least)
  BY <1>9, <1>10, <1>11
<1>13. t # 255 /\ ~ (t = tag /\ L >= least) => F[i] = F[after]
  BY <1>8, <1>9
<1>. QED BY <1>7, <1>12, <1>13 DEF i, t, L, v, after, AtOption

\* Find gives the first option that has the tag and is long enough.
LEMMA FindIsFirst ==
  ASSUME NEW list \in Seq(Opt), NEW o \in Seq(Wr!Byte), NEW starts, OptionsLie(starts, list, o),
         NEW tag \in 1 .. 254, NEW least \in Nat
  PROVE  Wr!Find(o, tag, least) = Wr!FirstOption(list, tag, least)
<1> DEFINE N == Len(list)
           Good(k) == list[k].tag = tag /\ Len(list[k].value) >= least
           stop == {k \in 1 .. N + 1 : k = N + 1 \/ list[k].tag = 255 \/ Good(k)}
<1>1. N \in Nat
  BY LenProperties
<1>2. PICK F : FindRuns(F, o, tag, least)
  BY FindRecursion
<1> DEFINE G == [k \in 1 .. N + 1 |-> F[starts[k]]]
<1>3. ASSUME NEW k \in 1 .. N
      PROVE  /\ list[k].tag = 255 => G[k] = <<>>
             /\ Good(k) => G[k] = SubSeq(list[k].value, 1, least)
             /\ list[k].tag # 255 /\ ~ Good(k) => G[k] = G[k + 1]
  <2>1. k \in 1 .. N + 1 /\ k + 1 \in 1 .. N + 1
    BY <1>1
  <2>2. G[k] = F[starts[k]] /\ G[k + 1] = F[starts[k + 1]]
    BY <2>1
  <2>3. /\ list[k].tag = 255 => F[starts[k]] = <<>>
        /\ Good(k) => F[starts[k]] = SubSeq(list[k].value, 1, least)
        /\ list[k].tag # 255 /\ ~ Good(k) => F[starts[k]] = F[starts[k + 1]]
    <3>1. AtOption(F, starts, list, tag, least, k)
      BY <1>2, FindAtOption, Zenon
    <3>. QED BY <3>1 DEF AtOption
  <2>. HIDE DEF G, Good
  <2>. QED BY <2>2, <2>3
<1>4. G[N + 1] = <<>>
  <2>1. Len(o) + 1 \in Nat \ {0} /\ Len(o) + 1 > Len(o)
    BY LenProperties
  <2>2. F[Len(o) + 1] = <<>>
    BY <2>1, <1>2 DEF FindRuns
  <2>3. starts[N + 1] = Len(o) + 1 /\ N + 1 \in 1 .. N + 1
    BY <1>1 DEF OptionsLie
  <2>. QED BY <2>2, <2>3
<1>5. G[1] = Wr!Find(o, tag, least)
  <2>1. starts[1] = 1 /\ 1 \in 1 .. N + 1
    BY <1>1 DEF OptionsLie
  <2>. QED BY <2>1, <1>2 DEF FindRuns
<1>6. \A k \in 1 .. N : k \notin stop => G[k] = G[k + 1]
  <2>1. ASSUME NEW k \in 1 .. N, k \notin stop PROVE G[k] = G[k + 1]
    <3>1. k \in 1 .. N + 1
      BY <1>1
    <3>. HIDE DEF Good, G
    <3>. QED BY <1>3, <2>1, <3>1
  <2>. HIDE DEF stop, G
  <2>. QED BY <2>1
<1>7. PICK e \in stop : G[1] = G[e] /\ \A k \in 1 .. e - 1 : k \notin stop
  <2>1. stop \in SUBSET (1 .. N + 1) /\ N + 1 \in stop
    <3>1. N + 1 \in 1 .. N + 1
      BY <1>1
    <3>. QED BY <3>1
  <2>8. N \in Nat
    BY <1>1
  <2>. HIDE DEF stop, G, N
  <2>9. Followed(G, stop)
    BY <2>1, <1>6, <2>8, Follow, Zenon
  <2>. QED BY <2>9 DEF Followed
<1> DEFINE good == {k \in DOMAIN list : /\ Good(k)
                                        /\ \A j \in 1 .. k : list[j].tag # 255}
<1>8. DOMAIN list = 1 .. N
  BY LenProperties
<1>9. e \in 1 .. N + 1 /\ \A k \in 1 .. N : k < e => ~ Good(k) /\ list[k].tag # 255
  <2>1. e \in 1 .. N + 1
    OBVIOUS
  <2>2. ASSUME NEW k \in 1 .. N, k < e PROVE k \notin stop /\ k \in 1 .. N + 1
    <3>1. k \in 1 .. e - 1 /\ k \in 1 .. N + 1
      BY <1>1, <2>1, <2>2
    <3>. HIDE DEF stop
    <3>. QED BY <3>1, <1>7
  <2>3. ASSUME NEW k \in 1 .. N, k < e PROVE ~ Good(k) /\ list[k].tag # 255
    <3>. HIDE DEF Good
    <3>. QED BY <2>2, <2>3
  <2>. HIDE DEF Good, stop
  <2>. QED BY <2>1, <2>3
<1>. HIDE DEF Good, G
<1>10. CASE e = N + 1
  <2>1. \A k \in 1 .. N : k < e
    BY <1>1, <1>10
  <2>2. good = {}
    BY <1>8, <1>9, <2>1
  <2>3. G[e] = <<>>
    BY <1>4, <1>10
  <2>. QED BY <1>5, <1>7, <2>2, <2>3 DEF Wr!FirstOption, Wr!END, Wr!NoValue, Good
<1>11. CASE e # N + 1 /\ list[e].tag = 255
  <2>1. e \in 1 .. N
    BY <1>1, <1>9, <1>11
  <2>2. G[e] = <<>>
    BY <1>3, <1>11, <2>1
  <2>3. good = {}
    <3>1. ASSUME NEW k \in good PROVE FALSE
      <4>1. k \in 1 .. N /\ Good(k)
        BY <1>8
      <4>2. e \in 1 .. k
        BY <4>1, <2>1, <1>9
      <4>. QED BY <4>2, <1>11
    <3>. HIDE DEF good
    <3>. QED BY <3>1
  <2>. QED BY <1>5, <1>7, <2>2, <2>3 DEF Wr!FirstOption, Wr!END, Wr!NoValue, Good
<1>12. CASE e # N + 1 /\ list[e].tag # 255
  <2>1. e \in 1 .. N
    BY <1>1, <1>9, <1>12
  <2>2. Good(e)
    BY <1>12
  <2>3. e \in good
    <3>1. \A j \in 1 .. e : j \in 1 .. N /\ (j = e \/ j < e)
      BY <1>1, <2>1
    <3>. QED BY <1>8, <1>9, <1>12, <2>1, <2>2, <3>1
  <2>4. \A k \in good : e <= k /\ k \in Int
    <3>1. ASSUME NEW k \in good PROVE e <= k /\ k \in Int
      <4>1. k \in 1 .. N /\ Good(k)
        BY <1>8
      <4>. QED BY <4>1, <1>9, <2>1
    <3>. HIDE DEF good
    <3>. QED BY <3>1
  <2>5. Wr!Min(good) = e
    <3>. HIDE DEF good
    <3>1. \E x \in good : \A y \in good : x <= y
      BY <2>3, <2>4
    <3>2. Wr!Min(good) \in good /\ \A y \in good : Wr!Min(good) <= y
      BY <3>1 DEF Wr!Min
    <3>. QED BY <2>3, <2>4, <3>2, <1>9
  <2>6. G[e] = SubSeq(list[e].value, 1, least)
    BY <1>3, <2>1, <2>2
  <2>. HIDE DEF N
  <2>. QED BY <1>5, <1>7, <2>3, <2>5, <2>6 DEF Wr!FirstOption, Wr!END, Wr!NoValue, Good
<1>. QED BY <1>10, <1>11, <1>12

\* The bytes of an option, and where they stand in those of a list.
OptionIs(b, p) ==
  /\ b \in Seq(Wr!Byte) /\ b[1] = p.tag
  /\ p.tag \in {0, 255} => Len(b) = 1
  /\ p.tag \notin {0, 255} =>
       /\ Len(b) = 2 + Len(p.value) /\ b[2] = Len(p.value)
       /\ \A j \in 1 .. Len(p.value) : b[2 + j] = p.value[j]

LEMMA OneOption ==
  ASSUME NEW p \in Opt
  PROVE  OptionIs(IF p.tag \in {0, 255} THEN <<p.tag>> ELSE <<p.tag, Len(p.value)>> \o p.value, p)
<1>1. p.tag \in Wr!Byte /\ p.value \in Seq(Wr!Byte) /\ Len(p.value) \in 0 .. 255
  <2>1. p.value \in Seq(Wr!Byte) /\ Len(p.value) <= 255
    BY DEF Opt, Wr!Value
  <2>2. Len(p.value) \in Nat
    BY <2>1, LenProperties
  <2>3. p.tag \in Wr!Byte
    BY DEF Opt
  <2>5. Len(p.value) <= 255
    BY <2>1
  <2> DEFINE L == Len(p.value)
  <2>6. L \in Nat /\ L <= 255
    BY <2>2, <2>5
  <2>. HIDE DEF L
  <2>7. L \in 0 .. 255
    BY <2>6
  <2>4. Len(p.value) \in 0 .. 255
    BY <2>7 DEF L
  <2>. QED BY <2>1, <2>3, <2>4
<1>2. CASE p.tag \in {0, 255}
  <2>1. <<p.tag>> \in Seq(Wr!Byte) /\ Len(<<p.tag>>) = 1 /\ <<p.tag>>[1] = p.tag
    BY <1>1
  <2>. QED BY <1>2, <2>1 DEF OptionIs
<1>3. CASE p.tag \notin {0, 255}
  <2> DEFINE a == <<p.tag, Len(p.value)>>
             v == p.value
             b == a \o v
  <2>1. /\ a \in Seq(Wr!Byte) /\ Len(a) = 2 /\ a[1] = p.tag /\ a[2] = Len(v)
        /\ v \in Seq(Wr!Byte)
    BY <1>1 DEF Wr!Byte
  <2>5. p.tag \notin {0, 255} /\ p.value = v
    BY <1>3
  <2>. HIDE DEF a, v
  <2>2. /\ b \in Seq(Wr!Byte) /\ Len(b) = Len(a) + Len(v)
        /\ \A j \in 1 .. Len(a) : b[j] = a[j]
        /\ \A j \in 1 .. Len(v) : b[Len(a) + j] = v[j]
    BY <2>1, ConcatIs DEF IsConcat
  <2>. HIDE DEF b
  <2>3. Len(b) = 2 + Len(v) /\ b[1] = p.tag /\ b[2] = Len(v) /\ \A j \in 1 .. Len(v) : b[2 + j] = v[j]
    BY <2>1, <2>2
  <2>4. OptionIs(b, p)
    BY <2>2, <2>3, <2>5 DEF OptionIs
  <2>. QED BY <2>4, <2>5 DEF a, b
<1>. QED BY <1>2, <1>3

LEMMA OptionsStand ==
  ASSUME NEW list \in Seq(Opt)
  PROVE  /\ Wr!OptionBytes(list) \in Seq(Wr!Byte)
         /\ \E starts : OptionsLie(starts, list, Wr!OptionBytes(list))
<1> DEFINE N == Len(list)
           bytes(p) == IF p.tag \in {0, 255} THEN <<p.tag>> ELSE <<p.tag, Len(p.value)>> \o p.value
           seqs == [k \in DOMAIN list |-> bytes(list[k])]
           o == Wr!OptionBytes(list)
<1>1. N \in Nat /\ DOMAIN list = 1 .. N
  BY LenProperties
<1>2. ASSUME NEW k \in 1 .. N PROVE OptionIs(seqs[k], list[k])
  <2>1. list[k] \in Opt
    BY ElementOfSeq
  <2>2. OptionIs(bytes(list[k]), list[k])
    BY <2>1, OneOption
  <2>3. seqs[k] = bytes(list[k])
    <3>. HIDE DEF bytes
    <3>. QED BY <1>1
  <2>. QED BY <2>2, <2>3, Zenon
<1>3. seqs = [k \in 1 .. N |-> seqs[k]]
  <2>. HIDE DEF bytes
  <2>. QED BY <1>1
<1>4. o = Wr!FlattenSeq(seqs)
  BY DEF Wr!OptionBytes, Wr!END
<1>. HIDE DEF seqs, o
<1>5. seqs \in Seq(Seq(Wr!Byte)) /\ Len(seqs) = N
  <2>1. \A k \in 1 .. N : seqs[k] \in Seq(Wr!Byte)
    BY <1>2 DEF OptionIs
  <2>2. seqs \in Seq(Seq(Wr!Byte))
    BY <1>1, <1>3, <2>1, IsASeq
  <2>3. DOMAIN seqs = 1 .. N
    BY <1>3
  <2>. QED BY <2>2, <2>3, <1>1, LenProperties
<1>6. o \in Seq(Wr!Byte) /\ \E starts : Starts(starts, seqs, o)
  BY <1>4, <1>5, Flattened, Zenon
<1>7. PICK starts : Starts(starts, seqs, o)
  BY <1>6
<1>8. /\ starts \in [1 .. N + 1 -> Nat \ {0}]
      /\ starts[1] = 1 /\ starts[N + 1] = Len(o) + 1
  BY <1>5, <1>7 DEF Starts
<1>9. ASSUME NEW k \in 1 .. N
      PROVE  /\ starts[k] <= Len(o) /\ o[starts[k]] = list[k].tag
             /\ list[k].tag \in {0, 255} => starts[k + 1] = starts[k] + 1
             /\ list[k].tag \notin {0, 255} =>
                  /\ starts[k + 1] = starts[k] + 2 + Len(list[k].value)
                  /\ starts[k + 1] <= Len(o) + 1
                  /\ o[starts[k] + 1] = Len(list[k].value)
                  /\ \A j \in 1 .. Len(list[k].value) : o[starts[k] + 1 + j] = list[k].value[j]
  <2> DEFINE b == seqs[k]
             i == starts[k]
             v == list[k].value
             t == list[k].tag
  <2>1. starts[k + 1] = i + Len(b) /\ starts[k + 1] <= Len(o) + 1
    BY <1>5, <1>7 DEF Starts
  <2>2. \A j \in 1 .. Len(b) : o[i - 1 + j] = b[j]
    BY <1>5, <1>7 DEF Starts
  <2>3. b[1] = t /\ (t \in {0, 255} => Len(b) = 1)
    BY <1>2 DEF OptionIs
  <2>4. t \notin {0, 255} => Len(b) = 2 + Len(v) /\ b[2] = Len(v) /\ \A j \in 1 .. Len(v) : b[2 + j] = v[j]
    BY <1>2 DEF OptionIs
  <2>5. Len(v) \in Nat
    <3>1. list[k] \in Opt
      BY ElementOfSeq
    <3>2. v \in Seq(Wr!Byte)
      BY <3>1 DEF Opt, Wr!Value
    <3>. QED BY <3>2, LenProperties
  <2>6. i \in Nat \ {0} /\ Len(o) \in Nat
    <3>1. k \in 1 .. N + 1
      BY <1>1
    <3>. QED BY <3>1, <1>6, <1>8, LenProperties
  <2> DEFINE after == starts[k + 1]
  <2>. HIDE DEF b, i, v, t, after
  <2>9. after = i + Len(b) /\ after <= Len(o) + 1
    BY <2>1 DEF after, i
  <2>7. i <= Len(o) /\ o[i] = t /\ (t \in {0, 255} => after = i + 1)
    <3>1. Len(b) \in Nat /\ Len(b) >= 1
      BY <2>3, <2>4, <2>5
    <3>2. 1 \in 1 .. Len(b) /\ i - 1 + 1 = i
      BY <2>6, <3>1
    <3>3. o[i] = b[1]
      BY <2>2, <3>2
    <3>4. i <= Len(o)
      BY <2>6, <2>9, <3>1
    <3>. QED BY <2>3, <2>9, <3>3, <3>4
  <2>8. ASSUME t \notin {0, 255}
        PROVE  /\ after = i + 2 + Len(v) /\ after <= Len(o) + 1
               /\ o[i + 1] = Len(v) /\ \A j \in 1 .. Len(v) : o[i + 1 + j] = v[j]
    <3>1. Len(b) = 2 + Len(v) /\ b[2] = Len(v)
      BY <2>4, <2>8
    <3>2. i - 1 + 2 = i + 1 /\ 2 \in 1 .. Len(b)
      BY <2>5, <2>6, <3>1
    <3>3. o[i + 1] = Len(v)
      BY <2>2, <3>1, <3>2
    <3>4. ASSUME NEW j \in 1 .. Len(v) PROVE o[i + 1 + j] = v[j]
      <4>1. 2 + j \in 1 .. Len(b) /\ i - 1 + (2 + j) = i + 1 + j
        BY <2>5, <2>6, <3>1
      <4>2. b[2 + j] = v[j]
        BY <2>4, <2>8
      <4>. QED BY <2>2, <4>1, <4>2
    <3>5. after = i + 2 + Len(v)
      BY <3>1, <2>9, <2>5, <2>6
    <3>. QED BY <2>9, <3>3, <3>4, <3>5
  <2>. QED BY <2>7, <2>8 DEF i, v, t, after
<1>10. OptionsLie(starts, list, o)
  BY <1>8, <1>9, Zenon DEF OptionsLie
<1>. QED BY <1>6, <1>10 DEF o

\* What dhcp_rx makes of options.
LEMMA OptionsAre ==
  ASSUME NEW list \in Seq(Opt), NEW tag \in 1 .. 254, NEW least \in Nat
  PROVE  Wr!Find(Wr!OptionBytes(list), tag, least) = Wr!FirstOption(list, tag, least)
BY OptionsStand, FindIsFirst

\* The bytes of a message that dhcp_send makes: an address and a server may
\* be there (a and b), the end is in the last place.
Quad == [1 .. 4 -> Wr!Byte]

MadeLies(o, type, a, ip, b, server) ==
  LET p == IF a THEN 10 ELSE 4
      q == IF b THEN p + 6 ELSE p
  IN  /\ o \in Seq(Wr!Byte) /\ Len(o) = q /\ o[q] = 255
      /\ o[1] = 53 /\ o[2] = 1 /\ o[3] = type
      /\ a => o[4] = 50 /\ o[5] = 4 /\ \A j \in 1 .. 4 : o[5 + j] = ip[j]
      /\ b => o[p] = 54 /\ o[p + 1] = 4 /\ \A j \in 1 .. 4 : o[p + 1 + j] = server[j]

\* One option, made or left out.
OneMade(s, a, tag, value) ==
  /\ s \in Seq(Wr!Byte) /\ Len(s) = IF a THEN 6 ELSE 0
  /\ a => s[1] = tag /\ s[2] = 4 /\ \A j \in 1 .. 4 : s[2 + j] = value[j]

LEMMA OptionMade ==
  ASSUME NEW a \in BOOLEAN, NEW tag \in 1 .. 254, NEW value \in Quad
  PROVE  OneMade(IF a THEN <<tag, 4>> \o value ELSE <<>>, a, tag, value)
<1>1. CASE ~ a
  <2>1. <<>> \in Seq(Wr!Byte) /\ Len(<<>>) = 0
    OBVIOUS
  <2>. QED BY <1>1, <2>1 DEF OneMade
<1>2. CASE a
  <2> DEFINE h == <<tag, 4>>
             s == h \o value
  <2>1. h \in Seq(Wr!Byte) /\ Len(h) = 2 /\ h[1] = tag /\ h[2] = 4
    BY DEF Wr!Byte
  <2>2. value \in Seq(Wr!Byte) /\ Len(value) = 4
    <3>1. value \in Seq(Wr!Byte)
      BY SeqDef DEF Quad
    <3>2. DOMAIN value = 1 .. 4
      BY DEF Quad
    <3>. QED BY <3>1, <3>2, LenProperties
  <2>. HIDE DEF h
  <2>3. IsConcat(s, h, value, Wr!Byte)
    BY <2>1, <2>2, ConcatIs
  <2>. HIDE DEF s
  <2>4. /\ Len(s) = 6 /\ s[1] = tag /\ s[2] = 4 /\ \A j \in 1 .. 4 : s[2 + j] = value[j]
        /\ s \in Seq(Wr!Byte)
    BY <2>1, <2>2, <2>3 DEF IsConcat
  <2>. QED BY <1>2, <2>4 DEF OneMade, h, s
<1>. QED BY <1>1, <1>2

LEMMA OptionsMadeLie ==
  ASSUME NEW type \in {1, 3}, NEW ip \in Quad, NEW server \in Quad, Zero = <<0, 0, 0, 0>>
  PROVE  MadeLies(Wr!OptionsMade(type, ip, server), type,
                  type = 3 /\ ip # Zero, ip, type = 3 /\ server # Zero, server)
<1> DEFINE a == type = 3 /\ ip # Zero
           b == type = 3 /\ server # Zero
           A == IF a THEN <<50, 4>> \o ip ELSE <<>>
           B == IF b THEN <<54, 4>> \o server ELSE <<>>
           h == <<53, 1, type>>
           t == <<255>>
           o1 == h \o A
           o2 == o1 \o B
           o == o2 \o t
<1>1. a \in BOOLEAN /\ b \in BOOLEAN
  OBVIOUS
<1>2. Wr!OptionsMade(type, ip, server) = o
  BY DEF Wr!OptionsMade, Wr!REQUEST, Wr!MSG_TYPE, Wr!REQ_IP, Wr!SERVER_ID, Wr!END
<1>. HIDE DEF a, b
<1>3. OneMade(A, a, 50, ip) /\ OneMade(B, b, 54, server)
  <2>1. 50 \in 1 .. 254 /\ 54 \in 1 .. 254
    OBVIOUS
  <2>. QED BY <1>1, <2>1, OptionMade
<1>4. h \in Seq(Wr!Byte) /\ Len(h) = 3 /\ h[1] = 53 /\ h[2] = 1 /\ h[3] = type
  BY DEF Wr!Byte
<1>5. t \in Seq(Wr!Byte) /\ Len(t) = 1 /\ t[1] = 255
  BY DEF Wr!Byte
<1>. HIDE DEF A, B, h, t
<1>6. A \in Seq(Wr!Byte) /\ B \in Seq(Wr!Byte)
  BY <1>3 DEF OneMade
<1>7. IsConcat(o1, h, A, Wr!Byte)
  BY <1>4, <1>6, ConcatIs
<1>. HIDE DEF o1
<1>8. IsConcat(o2, o1, B, Wr!Byte)
  <2>1. o1 \in Seq(Wr!Byte)
    BY <1>7 DEF IsConcat
  <2>. QED BY <1>6, <2>1, ConcatIs
<1>. HIDE DEF o2
<1>9. IsConcat(o, o2, t, Wr!Byte)
  <2>1. o2 \in Seq(Wr!Byte)
    BY <1>8 DEF IsConcat
  <2>. QED BY <1>5, <2>1, ConcatIs
<1>. HIDE DEF o
<1> DEFINE p == IF a THEN 10 ELSE 4
           q == IF b THEN p + 6 ELSE p
<1>10. Len(A) = (IF a THEN 6 ELSE 0) /\ Len(B) = (IF b THEN 6 ELSE 0)
  BY <1>3 DEF OneMade
<1>11. /\ Len(h) = 3 /\ Len(o1) = p - 1 /\ Len(o2) = q - 1 /\ Len(o) = q
       /\ p \in {4, 10} /\ q \in {p, p + 6}
  <2>1. Len(o1) = 3 + Len(A) /\ Len(o2) = Len(o1) + Len(B) /\ Len(o) = Len(o2) + 1
    BY <1>4, <1>5, <1>7, <1>8, <1>9 DEF IsConcat
  <2>. QED BY <1>4, <1>10, <2>1
<1>12. \A j \in 1 .. 3 : o[j] = h[j]
  <2>1. ASSUME NEW j \in 1 .. 3 PROVE o[j] = h[j]
    <3>1. j \in 1 .. Len(h) /\ j \in 1 .. Len(o1) /\ j \in 1 .. Len(o2)
      BY <1>11
    <3>. QED BY <3>1, <1>7, <1>8, <1>9 DEF IsConcat
  <2>. QED BY <2>1
<1>13. \A j \in 1 .. Len(A) : o[3 + j] = A[j]
  <2>1. ASSUME NEW j \in 1 .. Len(A) PROVE o[3 + j] = A[j]
    <3>1. 3 + j \in 1 .. Len(o1) /\ 3 + j \in 1 .. Len(o2)
      BY <1>10, <1>11
    <3>2. o[3 + j] = o1[3 + j]
      BY <3>1, <1>8, <1>9 DEF IsConcat
    <3>3. o1[3 + j] = A[j]
      BY <1>7, <1>11 DEF IsConcat
    <3>. QED BY <3>2, <3>3
  <2>. QED BY <2>1
<1>14. \A j \in 1 .. Len(B) : o[p - 1 + j] = B[j]
  <2>1. ASSUME NEW j \in 1 .. Len(B) PROVE o[p - 1 + j] = B[j]
    <3>1. p - 1 + j \in 1 .. Len(o2)
      BY <1>10, <1>11
    <3>. HIDE DEF p
    <3>2. o[p - 1 + j] = o2[p - 1 + j]
      BY <3>1, <1>9 DEF IsConcat
    <3>3. o2[p - 1 + j] = B[j]
      BY <1>8, <1>11 DEF IsConcat
    <3>. QED BY <3>2, <3>3
  <2>. QED BY <2>1
<1>15. o[q] = 255
  <2>1. o[Len(o2) + 1] = t[1]
    BY <1>5, <1>9 DEF IsConcat
  <2>2. Len(o2) + 1 = q
    <3>. HIDE DEF q
    <3>. QED BY <1>11
  <2>. QED BY <2>1, <2>2, <1>5
<1>20. o \in Seq(Wr!Byte)
  BY <1>9 DEF IsConcat
<1>16. o[1] = 53 /\ o[2] = 1 /\ o[3] = type /\ o \in Seq(Wr!Byte) /\ Len(o) = q
  <2>1. 1 \in 1 .. 3 /\ 2 \in 1 .. 3 /\ 3 \in 1 .. 3
    OBVIOUS
  <2>. QED BY <1>4, <1>11, <1>12, <1>20, <2>1
<1>17. ASSUME a PROVE o[4] = 50 /\ o[5] = 4 /\ \A j \in 1 .. 4 : o[5 + j] = ip[j]
  <2>1. A[1] = 50 /\ A[2] = 4 /\ \A j \in 1 .. 4 : A[2 + j] = ip[j]
    BY <1>3, <1>17 DEF OneMade
  <2>2. 1 \in 1 .. Len(A) /\ 2 \in 1 .. Len(A) /\ \A j \in 1 .. 4 : 2 + j \in 1 .. Len(A) /\ 3 + (2 + j) = 5 + j
    BY <1>10, <1>17
  <2>3. o[3 + 1] = A[1] /\ o[3 + 2] = A[2] /\ \A j \in 1 .. 4 : o[3 + (2 + j)] = A[2 + j]
    BY <1>13, <2>2
  <2>. QED BY <2>1, <2>2, <2>3
<1>18. ASSUME b PROVE o[p] = 54 /\ o[p + 1] = 4 /\ \A j \in 1 .. 4 : o[p + 1 + j] = server[j]
  <2>0. p \in Int
    OBVIOUS
  <2>. HIDE DEF p
  <2>1. B[1] = 54 /\ B[2] = 4 /\ \A j \in 1 .. 4 : B[2 + j] = server[j]
    BY <1>3, <1>18 DEF OneMade
  <2>2. /\ 1 \in 1 .. Len(B) /\ 2 \in 1 .. Len(B) /\ \A j \in 1 .. 4 : 2 + j \in 1 .. Len(B)
        /\ p - 1 + 1 = p /\ p - 1 + 2 = p + 1 /\ \A j \in 1 .. 4 : p - 1 + (2 + j) = p + 1 + j
    BY <1>10, <1>18, <2>0
  <2>3. o[p - 1 + 1] = B[1] /\ o[p - 1 + 2] = B[2] /\ \A j \in 1 .. 4 : o[p - 1 + (2 + j)] = B[2 + j]
    BY <1>14, <2>2
  <2>. QED BY <2>1, <2>2, <2>3
<1>19. MadeLies(o, type, a, ip, b, server)
  BY <1>15, <1>16, <1>17, <1>18 DEF MadeLies
<1>. QED BY <1>2, <1>19 DEF a, b

\* Find at an option that is there, and at the end.
LEMMA FindHere ==
  ASSUME NEW o, NEW tag, NEW least, NEW F, FindRuns(F, o, tag, least), NEW i \in Nat \ {0},
         NEW l \in Nat, l = Len(o), i < l, o[i] # 0, o[i] # 255
  PROVE  /\ o[i] = tag /\ o[i + 1] >= least => F[i] = SubSeq(o, i + 2, i + 1 + least)
         /\ o[i] # tag => F[i] = F[i + 2 + o[i + 1]]
<1>1. F[i] = IF i > Len(o) \/ o[i] = 255 \/ (o[i] # 0 /\ i = Len(o)) THEN <<>>
             ELSE IF o[i] = tag /\ o[i + 1] >= least THEN SubSeq(o, i + 2, i + 1 + least)
             ELSE F[IF o[i] = 0 THEN i + 1 ELSE i + 2 + o[i + 1]]
  BY Zenon DEF FindRuns
<1>2. ~ (i > Len(o)) /\ i # Len(o)
  OBVIOUS
<1>. QED BY <1>1, <1>2

LEMMA FindEnd ==
  ASSUME NEW o, NEW tag, NEW least, NEW F, FindRuns(F, o, tag, least), NEW i \in Nat \ {0},
         o[i] = 255
  PROVE  F[i] = <<>>
<1>1. \A j \in Nat \ {0} :
        F[j] = IF j > Len(o) \/ o[j] = 255 \/ (o[j] # 0 /\ j = Len(o)) THEN <<>>
               ELSE IF o[j] = tag /\ o[j + 1] >= least THEN SubSeq(o, j + 2, j + 1 + least)
               ELSE F[IF o[j] = 0 THEN j + 1 ELSE j + 2 + o[j + 1]]
  BY DEF FindRuns
<1>. QED BY <1>1

LEMMA MadeIsRead ==
  ASSUME NEW o, NEW type, NEW a \in BOOLEAN, NEW ip \in Quad, NEW b \in BOOLEAN, NEW server \in Quad,
         MadeLies(o, type, a, ip, b, server)
  PROVE  /\ Wr!Find(o, 53, 1) = <<type>>
         /\ Wr!Find(o, 50, 4) = IF a THEN ip ELSE <<>>
         /\ Wr!Find(o, 54, 4) = IF b THEN server ELSE <<>>
<1> DEFINE p == IF a THEN 10 ELSE 4
           q == IF b THEN p + 6 ELSE p
<1>1. o \in Seq(Wr!Byte) /\ Len(o) = q /\ o[q] = 255 /\ o[1] = 53 /\ o[2] = 1 /\ o[3] = type
  BY DEF MadeLies
<1>2. a => o[4] = 50 /\ o[5] = 4 /\ \A j \in 1 .. 4 : o[5 + j] = ip[j]
  BY DEF MadeLies
<1>3. b => o[p] = 54 /\ o[p + 1] = 4 /\ \A j \in 1 .. 4 : o[p + 1 + j] = server[j]
  BY DEF MadeLies
<1>4. p \in {4, 10} /\ q \in {p, p + 6} /\ (a <=> p = 10) /\ (b <=> q = p + 6)
  OBVIOUS
<1>. HIDE DEF p, q
<1>6. ASSUME NEW F, NEW tag, NEW least, FindRuns(F, o, tag, least)
      PROVE  /\ tag = 53 /\ least = 1 => F[1] = SubSeq(o, 3, 3)
             /\ tag # 53 => F[1] = F[4]
             /\ a /\ tag = 50 /\ least = 4 => F[4] = SubSeq(o, 6, 9)
             /\ a /\ tag # 50 => F[4] = F[p]
             /\ b /\ tag = 54 /\ least = 4 => F[p] = SubSeq(o, p + 2, p + 5)
             /\ b /\ tag # 54 => F[p] = F[q]
             /\ F[q] = <<>>
  <2>0. q \in Nat /\ q \in Nat \ {0} /\ q = Len(o) /\ 1 < q
    BY <1>1, <1>4
  <2>1. /\ o[1] = tag /\ o[1 + 1] >= least => F[1] = SubSeq(o, 1 + 2, 1 + 1 + least)
        /\ o[1] # tag => F[1] = F[1 + 2 + o[1 + 1]]
    <3>1. 1 \in Nat \ {0} /\ o[1] # 0 /\ o[1] # 255
      BY <1>1
    <3>. QED BY <1>6, <2>0, <3>1, FindHere
  <2>2. ASSUME a
        PROVE  /\ o[4] = tag /\ o[4 + 1] >= least => F[4] = SubSeq(o, 4 + 2, 4 + 1 + least)
               /\ o[4] # tag => F[4] = F[4 + 2 + o[4 + 1]]
    <3>1. 4 \in Nat \ {0} /\ o[4] # 0 /\ o[4] # 255 /\ 4 < q
      BY <1>2, <1>4, <2>2
    <3>. QED BY <1>6, <2>0, <3>1, FindHere
  <2>3. ASSUME b
        PROVE  /\ o[p] = tag /\ o[p + 1] >= least => F[p] = SubSeq(o, p + 2, p + 1 + least)
               /\ o[p] # tag => F[p] = F[p + 2 + o[p + 1]]
    <3>1. p \in Nat \ {0} /\ o[p] # 0 /\ o[p] # 255 /\ p < q
      BY <1>3, <1>4, <2>3
    <3>. QED BY <1>6, <2>0, <3>1, FindHere
  <2>4. F[q] = <<>>
    BY <1>1, <1>6, <2>0, FindEnd
  <2>5. (tag = 53 /\ least = 1 => F[1] = SubSeq(o, 3, 3)) /\ (tag # 53 => F[1] = F[4])
    BY <2>1, <1>1
  <2>6. ASSUME a
        PROVE  (tag = 50 /\ least = 4 => F[4] = SubSeq(o, 6, 9)) /\ (tag # 50 => F[4] = F[p])
    BY <2>2, <2>6, <1>2, <1>4
  <2>7. ASSUME b
        PROVE  /\ tag = 54 /\ least = 4 => F[p] = SubSeq(o, p + 2, p + 5)
               /\ tag # 54 => F[p] = F[q]
    <3>1. o[p] = 54 /\ o[p + 1] = 4
      BY <2>7, <1>3
    <3>2. p + 1 + 4 = p + 5 /\ p + 2 + 4 = q
      BY <2>7, <1>4
    <3>. QED BY <2>3, <2>7, <3>1, <3>2
  <2>. QED BY <2>4, <2>5, <2>6, <2>7
<1>7. SubSeq(o, 3, 3) = <<type>>
  <2>1. SubSeq(o, 3, 3) = [j \in 1 .. 1 |-> o[2 + j]]
    OBVIOUS
  <2>2. <<type>> = [j \in 1 .. 1 |-> type]
    OBVIOUS
  <2>3. \A j \in 1 .. 1 : o[2 + j] = type
    BY <1>1
  <2>. QED BY <2>1, <2>2, <2>3
<1>13. o \in Seq(Wr!Byte) /\ 1 \in Nat /\ 4 \in Nat
  BY <1>1
<1>8. a => SubSeq(o, 6, 9) = ip
  <2>1. SUFFICES ASSUME a PROVE SubSeq(o, 6, 9) = ip
    OBVIOUS
  <2>2. SubSeq(o, 6, 9) = [j \in 1 .. 4 |-> o[5 + j]]
    OBVIOUS
  <2>3. ip = [j \in 1 .. 4 |-> ip[j]]
    BY DEF Quad
  <2>. QED BY <1>2, <2>1, <2>2, <2>3
<1>9. b => SubSeq(o, p + 2, p + 5) = server
  <2>1. SUFFICES ASSUME b PROVE SubSeq(o, p + 2, p + 5) = server
    OBVIOUS
  <2>2. SubSeq(o, p + 2, p + 5) = [j \in 1 .. 4 |-> o[p + 1 + j]]
    BY <1>4
  <2>3. server = [j \in 1 .. 4 |-> server[j]]
    BY DEF Quad
  <2>. QED BY <1>3, <2>1, <2>2, <2>3
<1>10. Wr!Find(o, 53, 1) = <<type>>
  <2>1. PICK F : FindRuns(F, o, 53, 1)
    BY <1>13, FindRecursion
  <2>. QED BY <2>1, <1>6, <1>7 DEF FindRuns
<1>11. Wr!Find(o, 50, 4) = IF a THEN ip ELSE <<>>
  <2>1. PICK F : FindRuns(F, o, 50, 4)
    BY <1>13, FindRecursion
  <2>2. Wr!Find(o, 50, 4) = F[1]
    BY <2>1 DEF FindRuns
  <2>3. F[1] = F[4] /\ (a => F[4] = SubSeq(o, 6, 9)) /\ (b => F[p] = F[q]) /\ F[q] = <<>>
    BY <2>1, <1>6
  <2>. QED BY <2>2, <2>3, <1>4, <1>8
<1>12. Wr!Find(o, 54, 4) = IF b THEN server ELSE <<>>
  <2>1. PICK F : FindRuns(F, o, 54, 4)
    BY <1>13, FindRecursion
  <2>2. Wr!Find(o, 54, 4) = F[1]
    BY <2>1 DEF FindRuns
  <2>3. F[1] = F[4] /\ (a => F[4] = F[p]) /\ (b => F[p] = SubSeq(o, p + 2, p + 5)) /\ F[q] = <<>>
    BY <2>1, <1>6
  <2>. QED BY <2>2, <2>3, <1>4, <1>9
<1>. QED BY <1>10, <1>11, <1>12

-----------------------------------------------------------------------------
(* The checksum.                                                           *)

\* Fold keeps a sum modulo 65535, and only of 0 makes 0.
LEMMA FoldIs ==
  ASSUME NEW s \in Nat
  PROVE  /\ Wr!Fold(s) \in Nat /\ Wr!Fold(s) <= 65535
         /\ \E k \in Nat : s = Wr!Fold(s) + 65535 * k
         /\ Wr!Fold(s) = 0 => s = 0
<1> DEFINE D == Nat
           V == Nat
           After(x) == (x % 65536) + (x \div 65536)
           ends == {x \in D : x < 65536}
           rank == [x \in D |-> x]
           val == [x \in D |-> x]
           next == [x \in D |-> IF x < 65536 THEN x ELSE After(x)]
           step == [x \in D \X V |-> x[2]]
<1>1. ASSUME NEW x \in Nat, ~ (x < 65536)
      PROVE  /\ After(x) \in Nat /\ After(x) < x /\ After(x) # 0
             /\ x \div 65536 \in Nat /\ x = After(x) + 65535 * (x \div 65536)
  <2> DEFINE q == x \div 65536
             r == x % 65536
  <2>1. q \in Nat /\ r \in Nat /\ r < 65536 /\ x = 65536 * q + r
    OBVIOUS
  <2>2. After(x) = r + q
    OBVIOUS
  <2>. HIDE DEF q, r, After
  <2>3. q # 0
    BY <1>1, <2>1
  <2>4. After(x) \in Nat /\ After(x) < x /\ After(x) # 0 /\ x = After(x) + 65535 * q
    BY <2>1, <2>2, <2>3
  <2>. QED BY <2>1, <2>4 DEF q
<1>2. rank \in [D -> Nat] /\ val \in [D -> V] /\ step \in [D \X V -> V]
  OBVIOUS
<1>3. next \in [D -> D] /\ \A x \in D : x \notin ends => rank[next[x]] < rank[x]
  <2>1. \A x \in Nat : ~ (x < 65536) => After(x) \in Nat /\ After(x) < x
    BY <1>1
  <2>. HIDE DEF After
  <2>. QED BY <2>1
<1>4. PICK F : Recursive(F, D, V, ends, val, next, step)
  <2>. HIDE DEF D, V, ends, rank, val, next, step
  <2>. QED BY <1>2, <1>3, Recursion, Zenon
<1>5. F \in [D -> V] /\ \A x \in D : F[x] = IF x \in ends THEN val[x] ELSE step[<<x, F[next[x]]>>]
  <2>. HIDE DEF D, V, ends, val, next, step
  <2>. QED BY <1>4, Zenon DEF Recursive
<1> DEFINE IsFold(f) == f = [x \in Nat |-> IF x < 65536 THEN x ELSE f[After(x)]]
           T == CHOOSE f : IsFold(f)
<1>6. IsFold(F)
  <2>1. ASSUME NEW x \in Nat PROVE F[x] = IF x < 65536 THEN x ELSE F[After(x)]
    <3>1. x < 65536 <=> x \in ends
      OBVIOUS
    <3>2. CASE x < 65536
      <4>1. F[x] = val[x] /\ val[x] = x
        <5>1. val[x] = x
          OBVIOUS
        <5>. HIDE DEF ends, next, step, val
        <5>2. x \in ends /\ x \in D
          BY <3>1, <3>2
        <5>3. F[x] = IF x \in ends THEN val[x] ELSE step[<<x, F[next[x]]>>]
          BY <1>5, <5>2
        <5>. QED BY <5>1, <5>2, <5>3
      <4>. QED BY <4>1, <3>2
    <3>3. CASE ~ (x < 65536)
      <4>1. next[x] = After(x) /\ After(x) \in Nat
        BY <1>1, <3>3
      <4>. HIDE DEF After, ends, next
      <4>2. F[After(x)] \in V
        BY <1>5, <4>1
      <4>3. F[x] = step[<<x, F[After(x)]>>]
        <5>. HIDE DEF step
        <5>. QED BY <1>5, <3>1, <3>3, <4>1
      <4>. QED BY <3>3, <4>2, <4>3
    <3>. QED BY <3>2, <3>3
  <2>2. F = [x \in Nat |-> F[x]]
    BY <1>5
  <2>. HIDE DEF After
  <2>. QED BY <2>1, <2>2
<1>7. IsFold(T)
  <2>. HIDE DEF IsFold
  <2>. QED BY <1>6
<1>8. \A x \in Nat : T[x] = IF x < 65536 THEN x ELSE T[After(x)]
  <2>. HIDE DEF After, T
  <2>. QED BY <1>7
<1>9. Wr!Fold(s) = T[s]
  BY DEF Wr!Fold
<1>. HIDE DEF T, After
<1> DEFINE Good(x) == /\ T[x] \in Nat /\ T[x] <= 65535
                      /\ \E k \in Nat : x = T[x] + 65535 * k
                      /\ T[x] = 0 => x = 0
<1>10. ASSUME NEW x \in Nat, \A y \in Nat : y < x => Good(y) PROVE Good(x)
  <2>1. CASE x < 65536
    <3>1. T[x] = x
      BY <1>8, <2>1
    <3>2. x = x + 65535 * 0 /\ x \in Nat /\ x <= 65535 /\ 0 \in Nat
      BY <2>1
    <3>3. \E k \in Nat : x = x + 65535 * k
      BY <3>2
    <3>. QED BY <3>1, <3>2, <3>3
  <2>2. CASE ~ (x < 65536)
    <3> DEFINE y == After(x)
    <3>1. PICK j \in Nat : y \in Nat /\ y < x /\ y # 0 /\ x = y + 65535 * j
      BY <1>1, <2>2
    <3>2. T[x] = T[y]
      BY <1>8, <2>2
    <3>. HIDE DEF y
    <3>3. Good(y)
      <4>. HIDE DEF Good
      <4>. QED BY <1>10, <3>1
    <3> DEFINE u == T[y]
    <3>4. PICK k \in Nat : y = u + 65535 * k
      BY <3>3
    <3>6. u \in Nat /\ u <= 65535 /\ u # 0
      BY <3>1, <3>3
    <3>. HIDE DEF u
    <3>7. x = u + 65535 * (k + j) /\ k + j \in Nat
      BY <3>1, <3>4, <3>6
    <3>8. \E i \in Nat : x = u + 65535 * i
      BY <3>7
    <3>9. T[x] = u
      BY <3>2 DEF u
    <3>. QED BY <3>6, <3>8, <3>9
  <2>. HIDE DEF Good
  <2>. QED BY <2>1, <2>2
<1>11. Good(s)
  <2>. HIDE DEF Good
  <2> DEFINE Bad == {x \in Nat : ~ Good(x)}
  <2>1. SUFFICES ASSUME Bad # {} PROVE FALSE
    OBVIOUS
  <2>2. PICK x \in Bad : \A y \in Bad : x <= y
    <3>1. Bad \in SUBSET Nat
      OBVIOUS
    <3>. HIDE DEF Bad
    <3>. QED BY <2>1, <3>1, LeastNat
  <2>3. \A y \in Nat : y < x => Good(y)
    BY <2>2
  <2>. QED BY <1>10, <2>2, <2>3
<1>12. T[s] \in Nat /\ T[s] <= 65535 /\ (T[s] = 0 => s = 0)
  BY <1>11
<1>13. \E k \in Nat : s = T[s] + 65535 * k
  BY <1>11
<1>. QED BY <1>9, <1>12, <1>13

\* The recursion of SumOf.
SumRuns(T, words) ==
  /\ Wr!SumOf(words) = T[Len(words)] /\ T[0] = 0
  /\ \A k \in 1 .. Len(words) : T[k] = T[k - 1] + words[k] /\ T[k] \in Nat

LEMMA SumRecursion ==
  ASSUME NEW words, NEW N \in Nat, Len(words) = N, \A k \in 1 .. N : words[k] \in Nat
  PROVE  \E T : SumRuns(T, words)
<1> DEFINE D == 0 .. N
           V == Nat
           ends == {0}
           rank == [k \in D |-> k]
           val == [k \in D |-> 0]
           next == [k \in D |-> IF k = 0 THEN 0 ELSE k - 1]
           step == [x \in D \X V |-> IF x[1] = 0 THEN 0 ELSE x[2] + words[x[1]]]
<1>1. /\ rank \in [D -> Nat] /\ val \in [D -> V] /\ next \in [D -> D]
      /\ \A k \in D : k \notin ends => rank[next[k]] < rank[k]
  OBVIOUS
<1>2. step \in [D \X V -> V]
  <2>1. ASSUME NEW k \in D, NEW y \in V PROVE (IF k = 0 THEN 0 ELSE y + words[k]) \in V
    OBVIOUS
  <2>. HIDE DEF V, D
  <2>. QED BY <2>1
<1>3. PICK F : Recursive(F, D, V, ends, val, next, step)
  <2>. HIDE DEF D, V, ends, rank, val, next, step
  <2>. QED BY <1>1, <1>2, Recursion, Zenon
<1>4. F \in [D -> V] /\ \A x \in D : F[x] = IF x \in ends THEN val[x] ELSE step[<<x, F[next[x]]>>]
  <2>. HIDE DEF D, V, ends, val, next, step
  <2>. QED BY <1>3, Zenon DEF Recursive
<1> DEFINE IsSum(f) == f = [k \in 0 .. Len(words) |-> IF k = 0 THEN 0 ELSE f[k - 1] + words[k]]
           T == CHOOSE f : IsSum(f)
<1>5. IsSum(F)
  <2>1. ASSUME NEW k \in D PROVE F[k] = IF k = 0 THEN 0 ELSE F[k - 1] + words[k]
    <3>1. CASE k = 0
      <4>1. k \in ends /\ val[k] = 0
        BY <3>1
      <4>. HIDE DEF ends, val, next, step
      <4>. QED BY <1>4, <3>1, <4>1
    <3>2. CASE k # 0
      <4>1. next[k] = k - 1 /\ k - 1 \in D /\ k \notin ends
        BY <3>2
      <4>2. F[k - 1] \in V
        <5>. HIDE DEF V, D
        <5>. QED BY <1>4, <4>1
      <4>3. F[k] = step[<<k, F[k - 1]>>]
        <5>. HIDE DEF V, D, step, next, ends, val
        <5>. QED BY <1>4, <4>1
      <4>4. step[<<k, F[k - 1]>>] = F[k - 1] + words[k]
        BY <3>2, <4>2
      <4>. QED BY <3>2, <4>3, <4>4
    <3>. QED BY <3>1, <3>2
  <2>2. F = [k \in D |-> F[k]]
    BY <1>4
  <2>. QED BY <2>1, <2>2
<1>6. IsSum(T)
  <2>. HIDE DEF IsSum
  <2>. QED BY <1>5
<1>7. \A k \in 0 .. N : T[k] = IF k = 0 THEN 0 ELSE T[k - 1] + words[k]
  <2>. HIDE DEF T
  <2>. QED BY <1>6
<1>8. Wr!SumOf(words) = T[Len(words)]
  BY DEF Wr!SumOf
<1>. HIDE DEF T
<1>9. T[0] = 0 /\ \A k \in 1 .. N : T[k] = T[k - 1] + words[k]
  BY <1>7
<1>10. \A k \in 0 .. N : T[k] \in Nat
  <2> DEFINE Bad == {k \in Nat : k \in 0 .. N /\ T[k] \notin Nat}
  <2>1. SUFFICES ASSUME Bad # {} PROVE FALSE
    OBVIOUS
  <2>2. PICK k \in Bad : \A j \in Bad : k <= j
    <3>1. Bad \in SUBSET Nat
      OBVIOUS
    <3>. HIDE DEF Bad
    <3>. QED BY <2>1, <3>1, LeastNat
  <2>3. k # 0 /\ k \in 1 .. N /\ k - 1 \in Nat /\ k - 1 \in 0 .. N /\ ~ (k <= k - 1)
    BY <2>2, <1>9
  <2>4. T[k - 1] \in Nat
    BY <2>2, <2>3
  <2>. QED BY <1>9, <2>2, <2>3, <2>4
<1>11. Len(words) = N /\ \A k \in 1 .. N : T[k] \in Nat
  BY <1>10
<1>. QED BY <1>8, <1>9, <1>11 DEF SumRuns

\* The N words of a block of l bytes.
WordsOf(w, N, d, l) ==
  /\ Len(w) = N /\ \A i \in 1 .. N : w[i] \in Nat
  /\ \A i \in 1 .. N : w[i] = 256 * d[2 * i - 1] + IF 2 * i <= l THEN d[2 * i] ELSE 0

LEMMA WordsAre ==
  ASSUME NEW d \in Seq(Nat)
  PROVE  WordsOf(Wr!Words(d), (Len(d) + 1) \div 2, d, Len(d))
<1> DEFINE l == Len(d)
           N == (l + 1) \div 2
           w == Wr!Words(d)
<1>1. l \in Nat /\ \A i \in 1 .. l : d[i] \in Nat
  BY LenProperties, ElementOfSeq
<1>2. w = [i \in 1 .. N |-> 256 * d[2 * i - 1] + IF 2 * i <= l THEN d[2 * i] ELSE 0]
  BY DEF Wr!Words
<1>. HIDE DEF w, l
<1>3. N \in Nat /\ \A i \in 1 .. N : 2 * i - 1 \in 1 .. l /\ (2 * i <= l => 2 * i \in 1 .. l)
  BY <1>1
<1>. HIDE DEF N
<1>4. ASSUME NEW i \in 1 .. N PROVE w[i] \in Nat
  <2>1. d[2 * i - 1] \in Nat /\ (2 * i <= l => d[2 * i] \in Nat)
    BY <1>1, <1>3 DEF l
  <2>2. w[i] = 256 * d[2 * i - 1] + IF 2 * i <= l THEN d[2 * i] ELSE 0
    BY <1>2
  <2> DEFINE x == d[2 * i - 1]
             y == IF 2 * i <= l THEN d[2 * i] ELSE 0
  <2>3. x \in Nat /\ y \in Nat
    BY <2>1
  <2>4. w[i] = 256 * x + y
    BY <2>2
  <2>. HIDE DEF x, y
  <2>5. 256 * x + y \in Nat
    BY <2>3
  <2>. QED BY <2>4, <2>5
<1>5. w \in Seq(Nat) /\ Len(w) = N
  <2>1. w = [i \in 1 .. N |-> w[i]] /\ DOMAIN w = 1 .. N
    BY <1>2
  <2>2. w \in Seq(Nat)
    BY <2>1, <1>3, <1>4, IsASeq
  <2>. QED BY <2>1, <2>2, <1>3, LenProperties
<1>6. WordsOf(w, N, d, l)
  BY <1>2, <1>4, <1>5 DEF WordsOf
<1>. QED BY <1>6 DEF N, l, w

\* The sum of e is that of d and the first two bytes of e.
SumDiffers(d, e) ==
  /\ Wr!SumOf(Wr!Words(e)) = Wr!SumOf(Wr!Words(d)) + 256 * e[1] + e[2]
  /\ Wr!SumOf(Wr!Words(d)) \in Nat /\ e[1] \in Nat /\ e[2] \in Nat

\* Two blocks that agree behind the first word have sums that differ by it.
LEMMA SumsDiffer ==
  ASSUME NEW d \in Seq(Nat), NEW e \in Seq(Nat), NEW l \in Nat, l >= 2,
         Len(d) = l, Len(e) = l, \A i \in 3 .. l : d[i] = e[i], d[1] = 0, d[2] = 0
  PROVE  SumDiffers(d, e)
<1> DEFINE N == (l + 1) \div 2
           v == Wr!Words(d)
           w == Wr!Words(e)
           c == 256 * e[1] + e[2]
<1>1. N \in Nat /\ 1 \in 1 .. N /\ \A i \in 2 .. N : 2 * i - 1 \in 3 .. l /\ (2 * i <= l => 2 * i \in 3 .. l)
  OBVIOUS
<1>2. /\ Len(v) = N /\ \A i \in 1 .. N : v[i] \in Nat
      /\ \A i \in 1 .. N : v[i] = 256 * d[2 * i - 1] + IF 2 * i <= l THEN d[2 * i] ELSE 0
  <2>1. WordsOf(v, N, d, l)
    BY WordsAre
  <2>. HIDE DEF v, N
  <2>. QED BY <2>1 DEF WordsOf
<1>3. /\ Len(w) = N /\ \A i \in 1 .. N : w[i] \in Nat
      /\ \A i \in 1 .. N : w[i] = 256 * e[2 * i - 1] + IF 2 * i <= l THEN e[2 * i] ELSE 0
  <2>1. WordsOf(w, N, e, l)
    BY WordsAre
  <2>. HIDE DEF w, N
  <2>. QED BY <2>1 DEF WordsOf
<1>4. e[1] \in Nat /\ e[2] \in Nat
  <2>1. 1 \in 1 .. Len(e) /\ 2 \in 1 .. Len(e)
    OBVIOUS
  <2>. QED BY <2>1, ElementOfSeq
<1>. HIDE DEF v, w, N
<1>5. v[1] = 0 /\ w[1] = c
  <2>1. 2 * 1 - 1 = 1 /\ 2 * 1 = 2 /\ 2 * 1 <= l
    OBVIOUS
  <2>. QED BY <1>1, <1>2, <1>3, <2>1
<1>6. \A i \in 2 .. N : v[i] = w[i]
  <2>1. ASSUME NEW i \in 2 .. N PROVE v[i] = w[i]
    <3>1. i \in 1 .. N
      BY <1>1
    <3>2. d[2 * i - 1] = e[2 * i - 1] /\ (2 * i <= l => d[2 * i] = e[2 * i])
      BY <1>1
    <3>3. v[i] = 256 * d[2 * i - 1] + IF 2 * i <= l THEN d[2 * i] ELSE 0
      BY <1>2, <3>1
    <3>4. w[i] = 256 * e[2 * i - 1] + IF 2 * i <= l THEN e[2 * i] ELSE 0
      BY <1>3, <3>1
    <3>. QED BY <3>2, <3>3, <3>4
  <2>. QED BY <2>1
<1>7. PICK T : SumRuns(T, v)
  BY <1>1, <1>2, SumRecursion
<1>8. PICK U : SumRuns(U, w)
  BY <1>1, <1>3, SumRecursion
<1>9. T[0] = 0 /\ \A k \in 1 .. N : T[k] = T[k - 1] + v[k] /\ T[k] \in Nat
  BY <1>2, <1>7 DEF SumRuns
<1>10. U[0] = 0 /\ \A k \in 1 .. N : U[k] = U[k - 1] + w[k]
  BY <1>3, <1>8 DEF SumRuns
<1>12. c \in Nat
  BY <1>4
<1>. HIDE DEF c
<1>11. \A k \in 1 .. N : U[k] = T[k] + c
  <2> DEFINE Bad == {k \in Nat : k \in 1 .. N /\ U[k] # T[k] + c}
  <2>1. SUFFICES ASSUME Bad # {} PROVE FALSE
    BY <1>1
  <2>2. PICK k \in Bad : \A j \in Bad : k <= j
    <3>1. Bad \in SUBSET Nat
      OBVIOUS
    <3>. HIDE DEF Bad
    <3>. QED BY <2>1, <3>1, LeastNat
  <2>3. k \in 1 .. N /\ U[k] # T[k] + c
    BY <2>2
  <2>4. CASE k = 1
    <3>1. T[1] = T[0] + v[1] /\ U[1] = U[0] + w[1] /\ T[0] = 0 /\ U[0] = 0
      <4>1. 1 - 1 = 0
        OBVIOUS
      <4>. QED BY <1>1, <1>9, <1>10, <4>1
    <3>. QED BY <2>3, <2>4, <3>1, <1>5, <1>12
  <2>5. CASE k # 1
    <3>1. k - 1 \in 1 .. N /\ k \in 2 .. N /\ k - 1 \in Nat /\ ~ (k <= k - 1)
      BY <1>1, <2>3, <2>5
    <3>2. U[k - 1] = T[k - 1] + c
      BY <2>2, <3>1
    <3>3. T[k] = T[k - 1] + v[k] /\ U[k] = U[k - 1] + w[k] /\ v[k] = w[k] /\ v[k] \in Nat /\ T[k - 1] \in Nat
      BY <1>2, <1>6, <1>9, <1>10, <2>3, <3>1
    <3>. QED BY <2>3, <3>2, <3>3, <1>12
  <2>. QED BY <2>4, <2>5
<1>13. N \in 1 .. N
  BY <1>1
<1>14. Wr!SumOf(v) = T[N] /\ Wr!SumOf(w) = U[N]
  BY <1>2, <1>3, <1>7, <1>8 DEF SumRuns
<1>15. Wr!SumOf(w) = Wr!SumOf(v) + c /\ Wr!SumOf(v) \in Nat
  BY <1>9, <1>11, <1>13, <1>14
<1> DEFINE x == Wr!SumOf(v)
           y == Wr!SumOf(w)
<1>16. y = x + c /\ x \in Nat
  BY <1>15
<1>. HIDE DEF x, y
<1>17. y = x + 256 * e[1] + e[2]
  BY <1>4, <1>16 DEF c
<1>. QED BY <1>4, <1>16, <1>17, Zenon DEF x, y, v, w, SumDiffers

LEMMA FoldRange == \A s \in Nat : Wr!Fold(s) \in Nat /\ Wr!Fold(s) <= 65535
BY FoldIs

\* A sum and what is missing of its fold fold to 65535.
LEMMA SealedSum ==
  ASSUME NEW s \in Nat, NEW t \in Nat, t = s + (65535 - Wr!Fold(s))
  PROVE  Wr!Fold(t) = 65535
<1> DEFINE f == Wr!Fold(s)
           g == Wr!Fold(t)
<1>1. f \in Nat /\ f <= 65535 /\ (f = 0 => s = 0)
  BY FoldIs
<1>2. PICK k \in Nat : s = f + 65535 * k
  BY FoldIs
<1>3. g \in Nat /\ g <= 65535 /\ (g = 0 => t = 0)
  BY FoldIs
<1>4. PICK j \in Nat : t = g + 65535 * j
  BY FoldIs
<1>5. t = s + (65535 - f)
  OBVIOUS
<1>. HIDE DEF f, g
<1>6. t = 65535 * (k + 1)
  BY <1>1, <1>2, <1>5
<1>7. g # 0
  BY <1>3, <1>6
<1>8. g = 65535 * (k + 1 - j)
  BY <1>3, <1>4, <1>6
<1>9. k + 1 - j = 1
  BY <1>3, <1>7, <1>8
<1>. QED BY <1>8, <1>9 DEF g

\* A block with other bytes in places 1 and 2.
Changed(e, d, l, x, y) ==
  /\ e \in Seq(Nat) /\ Len(e) = l /\ e[1] = x /\ e[2] = y
  /\ \A i \in 3 .. l : e[i] = d[i]

LEMMA SealIsZero ==
  ASSUME NEW l \in Nat, l >= 2, NEW d \in [1 .. l -> Nat]
  PROVE  LET made == Wr!inet_cksum([d EXCEPT ![1] = 0, ![2] = 0])
         IN  Wr!inet_cksum([d EXCEPT ![1] = made \div 256, ![2] = made % 256]) = 0
<1> DEFINE a == [d EXCEPT ![1] = 0, ![2] = 0]
           made == Wr!inet_cksum(a)
           b == [d EXCEPT ![1] = made \div 256, ![2] = made % 256]
<1>2. ASSUME NEW x \in Nat, NEW y \in Nat
      PROVE  Changed([d EXCEPT ![1] = x, ![2] = y], d, l, x, y)
  <2> DEFINE e == [d EXCEPT ![1] = x, ![2] = y]
  <2>1. e \in [1 .. l -> Nat]
    OBVIOUS
  <2>2. e[1] = x /\ e[2] = y /\ \A i \in 3 .. l : e[i] = d[i]
    OBVIOUS
  <2>. HIDE DEF e
  <2>3. e \in Seq(Nat)
    BY <2>1, SeqDef
  <2>4. Len(e) = l
    BY <2>1, <2>3, LenProperties
  <2>. QED BY <2>2, <2>3, <2>4 DEF e, Changed
<1>3. a \in Seq(Nat) /\ Len(a) = l /\ a[1] = 0 /\ a[2] = 0 /\ \A i \in 3 .. l : a[i] = d[i]
  <2>1. Changed(a, d, l, 0, 0)
    BY <1>2
  <2>. HIDE DEF a
  <2>. QED BY <2>1 DEF Changed
<1>0. made = 65535 - Wr!Fold(Wr!SumOf(Wr!Words(a)))
  BY DEF Wr!inet_cksum
<1>. HIDE DEF a, made
<1>5. PICK s \in Nat : s = Wr!SumOf(Wr!Words(a))
  <2>1. SumDiffers(a, a)
    BY <1>3, SumsDiffer
  <2>2. Wr!SumOf(Wr!Words(a)) \in Nat
    BY <2>1, Zenon DEF SumDiffers
  <2>. QED BY <2>2, Zenon
<1>4. made = 65535 - Wr!Fold(s)
  BY <1>0, <1>5
<1>6. Wr!Fold(s) \in Nat /\ Wr!Fold(s) <= 65535
  BY <1>5, FoldRange
<1>7. made \in Nat /\ made \div 256 \in Nat /\ made % 256 \in Nat /\ 256 * (made \div 256) + (made % 256) = made
  <2>1. made \in Nat
    BY <1>4, <1>6
  <2>2. \A x \in Nat : x \div 256 \in Nat /\ x % 256 \in Nat /\ 256 * (x \div 256) + (x % 256) = x
    OBVIOUS
  <2>. QED BY <2>1, <2>2, Zenon
<1>8. /\ b \in Seq(Nat) /\ Len(b) = l /\ b[1] = made \div 256 /\ b[2] = made % 256
      /\ \A i \in 3 .. l : b[i] = d[i]
  <2>1. Changed(b, d, l, made \div 256, made % 256)
    BY <1>2, <1>7
  <2>. HIDE DEF b
  <2>. QED BY <2>1 DEF Changed
<1>. HIDE DEF b
<1>9. PICK t : t = s + 256 * b[1] + b[2] /\ t = Wr!SumOf(Wr!Words(b))
  <2>1. \A i \in 3 .. l : a[i] = b[i]
    BY <1>3, <1>8
  <2>2. SumDiffers(a, b)
    BY <1>3, <1>8, <2>1, SumsDiffer
  <2> DEFINE x == Wr!SumOf(Wr!Words(a))
             y == Wr!SumOf(Wr!Words(b))
  <2>3. y = x + 256 * b[1] + b[2] /\ s = x
    BY <1>5, <2>2, Zenon DEF SumDiffers
  <2>. HIDE DEF x, y
  <2>4. y = s + 256 * b[1] + b[2]
    BY <2>3, Zenon
  <2>. QED BY <2>4, Zenon DEF y
<1>10. t = s + (65535 - Wr!Fold(s)) /\ t \in Nat
  <2> DEFINE f == Wr!Fold(s)
             x == made \div 256
             y == made % 256
  <2>2. t = s + 256 * x + y /\ x \in Nat /\ y \in Nat /\ 256 * x + y = made
    BY <1>7, <1>8, <1>9
  <2>3. f \in Nat /\ f <= 65535 /\ made = 65535 - f
    BY <1>4, <1>6
  <2>. HIDE DEF f, x, y
  <2>4. t = s + (65535 - f) /\ t \in Nat
    BY <2>2, <2>3
  <2>. QED BY <2>4 DEF f
<1>11. Wr!Fold(t) = 65535
  BY <1>5, <1>10, SealedSum
<1>12. Wr!inet_cksum(b) = 0
  BY <1>9, <1>11 DEF Wr!inet_cksum
<1>. QED BY <1>12 DEF b, made, a

-----------------------------------------------------------------------------
(* The question of a query.                                                *)

Text == Seq(Wr!Byte)

LEMMA TextIsNat == \A name \in Text : name \in Seq(Nat)
<1>1. ASSUME NEW name \in Text PROVE name \in Seq(Nat)
  <2>1. Len(name) \in Nat /\ name \in [1 .. Len(name) -> Wr!Byte]
    BY LenProperties DEF Text
  <2>2. name \in [1 .. Len(name) -> Nat]
    <3>1. \A j \in 1 .. Len(name) : name[j] \in Nat
      <4>1. \A b \in Wr!Byte : b \in Nat
        BY DEF Wr!Byte
      <4>. QED BY <2>1, <4>1
    <3>2. name = [j \in 1 .. Len(name) |-> name[j]]
      BY <2>1
    <3>. QED BY <3>1, <3>2
  <2>. QED BY <2>1, <2>2, SeqDef
<1>. QED BY <1>1

\* A label that begins at i ends before end.
EndsAt(end, name, i) ==
  /\ end \in Nat /\ i <= end /\ end <= Len(name) + 1
  /\ end = Len(name) + 1 \/ name[end] = Dot
  /\ \A j \in Nat : i <= j /\ j < end => name[j] # Dot

LEMMA LabelEndIs ==
  ASSUME NEW name \in Text, NEW i \in Nat \ {0}, i <= Len(name)
  PROVE  EndsAt(Wr!LabelEnd(name, i), name, i)
<1> DEFINE N == Len(name)
           ends == {j \in i .. N + 1 : j = N + 1 \/ name[j] = Dot}
<1>1. N \in Nat
  BY LenProperties DEF Text
<1>2. ends \in SUBSET Nat /\ N + 1 \in ends
  BY <1>1
<1>3. PICK e \in ends : \A j \in ends : e <= j
  <2>. HIDE DEF ends
  <2>. QED BY <1>2, LeastNat
<1>4. Wr!LabelEnd(name, i) = e
  <2>1. Wr!LabelEnd(name, i) = Wr!Min(ends)
    BY DEF Wr!LabelEnd
  <2>2. Wr!Min(ends) \in ends /\ \A j \in ends : Wr!Min(ends) <= j
    <3>. HIDE DEF ends
    <3>. QED BY <1>3 DEF Wr!Min
  <2>3. Wr!Min(ends) = e
    <3> DEFINE a == Wr!Min(ends)
    <3>1. a \in Nat /\ e \in Nat /\ a <= e /\ e <= a
      <4>. HIDE DEF ends
      <4>. QED BY <1>2, <1>3, <2>2
    <3>. HIDE DEF a
    <3>2. a = e
      BY <3>1
    <3>. QED BY <3>2 DEF a
  <2>. QED BY <2>1, <2>3
<1>5. e \in Nat /\ i <= e /\ e <= N + 1 /\ (e = N + 1 \/ name[e] = Dot)
  BY <1>1, <1>3
<1>6. \A j \in Nat : i <= j /\ j < e => name[j] # Dot
  <2>1. ASSUME NEW j \in Nat, i <= j, j < e, name[j] = Dot PROVE FALSE
    <3>1. j \in ends
      BY <1>1, <1>5, <2>1
    <3>. HIDE DEF ends
    <3>. QED BY <1>3, <1>5, <2>1, <3>1
  <2>. QED BY <2>1
<1>. HIDE DEF N, ends
<1>. QED BY <1>4, <1>5, <1>6 DEF EndsAt, N

\* The recursion of Question.
QueryRuns(Q, name) ==
  /\ Wr!Question(name) = Q[<<1, <<>>>>]
  /\ \A i \in Nat \ {0}, made \in Seq(Nat) :
       Q[<<i, made>>] =
         IF i > Len(name) THEN made \o <<0, 0, 1, 0, 1>>
         ELSE IF 12 + Len(made) + 1 + (Wr!LabelEnd(name, i) - i) + 5 >= QueryMax THEN <<>>
         ELSE Q[<<Wr!LabelEnd(name, i) + 1,
                  made \o <<Wr!LabelEnd(name, i) - i>> \o SubSeq(name, i, Wr!LabelEnd(name, i) - 1)>>]

LEMMA QueryRecursion ==
  ASSUME NEW name \in Text
  PROVE  \E Q : QueryRuns(Q, name)
<1> DEFINE D == (Nat \ {0}) \X Seq(Nat)
           V == Seq(Nat)
           N == Len(name)
           E(i) == Wr!LabelEnd(name, i)
           Short(i) == i <= N
           Full(i, made) == 12 + Len(made) + 1 + (E(i) - i) + 5 >= QueryMax
           More(i, made) == made \o <<E(i) - i>> \o SubSeq(name, i, E(i) - 1)
           ends == {x \in D : ~ Short(x[1]) \/ Full(x[1], x[2])}
           rank == [x \in D |-> IF Short(x[1]) THEN N + 1 - x[1] ELSE 0]
           val == [x \in D |-> IF ~ Short(x[1]) THEN x[2] \o <<0, 0, 1, 0, 1>> ELSE <<>>]
           next == [x \in D |-> IF x \in ends THEN x ELSE <<E(x[1]) + 1, More(x[1], x[2])>>]
           step == [x \in D \X V |-> x[2]]
<1>1. N \in Nat
  BY LenProperties DEF Text
<1>2. ASSUME NEW i \in Nat \ {0}, Short(i), NEW made \in Seq(Nat)
      PROVE  E(i) \in Nat /\ i <= E(i) /\ E(i) <= N + 1 /\ More(i, made) \in Seq(Nat)
  <2>1. E(i) \in Nat /\ i <= E(i) /\ E(i) <= N + 1
    <3>1. EndsAt(E(i), name, i)
      BY <1>2, LabelEndIs
    <3>. QED BY <3>1 DEF EndsAt
  <2>2. <<E(i) - i>> \in Seq(Nat)
    <3>1. E(i) - i \in Nat
      BY <2>1
    <3>. HIDE DEF E
    <3>. QED BY <3>1
  <2>3. SubSeq(name, i, E(i) - 1) \in Seq(Nat)
    <3>1. name \in Seq(Nat)
      BY TextIsNat
    <3>3. E(i) - 1 \in Int
      BY <2>1
    <3>. HIDE DEF E
    <3>. QED BY <1>1, <2>1, <3>1, <3>3, SubSeqProperties
  <2>. HIDE DEF E
  <2>. QED BY <2>1, <2>2, <2>3
<1>3. ASSUME NEW i \in Nat \ {0}, NEW made \in Seq(Nat)
      PROVE  /\ made \o <<0, 0, 1, 0, 1>> \in V /\ <<>> \in V
             /\ <<i, made>> \in D /\ <<i, made>>[1] = i /\ <<i, made>>[2] = made
  OBVIOUS
<1>4. rank \in [D -> Nat] /\ val \in [D -> V] /\ step \in [D \X V -> V]
  <2>1. rank \in [D -> Nat]
    BY <1>1
  <2>2. val \in [D -> V]
    <3>1. ASSUME NEW x \in D PROVE x[2] \o <<0, 0, 1, 0, 1>> \in V /\ <<>> \in V
      OBVIOUS
    <3>. HIDE DEF V, Short
    <3>. QED BY <3>1
  <2>3. step \in [D \X V -> V]
    <3>. HIDE DEF V, D
    <3>. QED OBVIOUS
  <2>. QED BY <2>1, <2>2, <2>3
<1>5. ASSUME NEW x \in D, x \notin ends
      PROVE  next[x] \in D /\ next[x] = <<E(x[1]) + 1, More(x[1], x[2])>> /\ rank[next[x]] < rank[x]
  <2>1. x[1] \in Nat \ {0} /\ x[2] \in Seq(Nat)
    OBVIOUS
  <2>2. Short(x[1])
    BY <1>5
  <2> DEFINE j == E(x[1]) + 1
             m == More(x[1], x[2])
  <2>3. j \in Nat \ {0} /\ j > x[1] /\ m \in Seq(Nat)
    <3>1. E(x[1]) \in Nat /\ x[1] <= E(x[1]) /\ m \in Seq(Nat)
      <4>. HIDE DEF E, More, Short
      <4>. QED BY <1>2, <2>1, <2>2
    <3>. HIDE DEF E, More
    <3>. QED BY <3>1, <2>1
  <2>4. next[x] = <<j, m>>
    <3>. HIDE DEF ends, E, More
    <3>. QED BY <1>5
  <2>. HIDE DEF j, m
  <2>5. <<j, m>> \in D /\ <<j, m>>[1] = j
    BY <2>3
  <2>6. rank[<<j, m>>] < rank[x]
    <3>1. rank[<<j, m>>] = IF Short(j) THEN N + 1 - j ELSE 0
      <4>. HIDE DEF D, Short
      <4>. QED BY <2>5
    <3>2. rank[x] = N + 1 - x[1]
      BY <2>2
    <3>. HIDE DEF rank, N
    <3>. QED BY <1>1, <2>1, <2>2, <2>3, <3>1, <3>2
  <2>7. next[x] \in D /\ rank[next[x]] < rank[x]
    <3>. HIDE DEF D, rank, next
    <3>. QED BY <2>4, <2>5, <2>6
  <2>. QED BY <2>4, <2>7 DEF j, m
<1>6. next \in [D -> D]
  <2>1. ASSUME NEW x \in D PROVE (IF x \in ends THEN x ELSE <<E(x[1]) + 1, More(x[1], x[2])>>) \in D
    <3>1. CASE x \notin ends
      <4>. HIDE DEF D, ends, E, More, rank
      <4>. QED BY <1>5, <3>1
    <3>. HIDE DEF D, ends, E, More
    <3>. QED BY <3>1
  <2>. HIDE DEF D, ends, E, More
  <2>. QED BY <2>1
<1>7. PICK F : Recursive(F, D, V, ends, val, next, step)
  <2>1. \A x \in D : x \notin ends => rank[next[x]] < rank[x]
    <3>. HIDE DEF D, ends, rank, next, E, More
    <3>. QED BY <1>5
  <2>. HIDE DEF D, V, ends, rank, val, next, step
  <2>. QED BY <1>4, <1>6, <2>1, Recursion, Zenon
<1>8. F \in [D -> V] /\ \A x \in D : F[x] = IF x \in ends THEN val[x] ELSE step[<<x, F[next[x]]>>]
  <2>. HIDE DEF D, V, ends, val, next, step
  <2>. QED BY <1>7, Zenon DEF Recursive
<1> DEFINE Out(f, x) == IF x[1] > N THEN x[2] \o <<0, 0, 1, 0, 1>>
                        ELSE IF Full(x[1], x[2]) THEN <<>>
                        ELSE f[<<E(x[1]) + 1, More(x[1], x[2])>>]
           IsQuery(f) == f = [x \in D |-> Out(f, x)]
           T == CHOOSE f : IsQuery(f)
<1>9. ASSUME NEW x \in D PROVE F[x] = Out(F, x)
  <2>0. x[1] \in Nat \ {0} /\ (~ Short(x[1]) <=> x[1] > N)
    BY <1>1
  <2>1. CASE x[1] > N
    <3>1. x \in ends /\ val[x] = x[2] \o <<0, 0, 1, 0, 1>>
      <4>. HIDE DEF Short, Full, D
      <4>. QED BY <2>0, <2>1
    <3>. HIDE DEF ends, val, next, step, E, More, Full, D
    <3>. QED BY <1>8, <2>1, <3>1
  <2>2. CASE ~ (x[1] > N) /\ Full(x[1], x[2])
    <3>1. x \in ends /\ val[x] = <<>>
      <4>. HIDE DEF Short, Full, D
      <4>. QED BY <2>0, <2>2
    <3>. HIDE DEF ends, val, next, step, E, More, Full, D
    <3>. QED BY <1>8, <2>2, <3>1
  <2>3. CASE ~ (x[1] > N) /\ ~ Full(x[1], x[2])
    <3>1. x \notin ends
      <4>. HIDE DEF Short, Full, D
      <4>. QED BY <2>0, <2>3
    <3>2. next[x] \in D /\ next[x] = <<E(x[1]) + 1, More(x[1], x[2])>>
      <4>. HIDE DEF D, ends, E, More, rank, next
      <4>. QED BY <1>5, <3>1
    <3>3. F[next[x]] \in V
      <4>. HIDE DEF V, D, next
      <4>. QED BY <1>8, <3>2
    <3>4. F[x] = step[<<x, F[next[x]]>>]
      <4>. HIDE DEF ends, val, next, step, D
      <4>. QED BY <1>8, <3>1
    <3>5. step[<<x, F[next[x]]>>] = F[next[x]]
      <4>. HIDE DEF V, D, next
      <4>. QED BY <3>3
    <3>. HIDE DEF D, ends, E, More, step, next, Full
    <3>. QED BY <2>3, <3>2, <3>4, <3>5
  <2>. QED BY <2>1, <2>2, <2>3
<1>10. IsQuery(F)
  <2>. HIDE DEF Out, D
  <2>1. F = [x \in D |-> F[x]]
    BY <1>8
  <2>. QED BY <2>1, <1>9
<1>11. IsQuery(T)
  <2>. HIDE DEF IsQuery
  <2>. QED BY <1>10
<1>12. \A x \in D : T[x] = Out(T, x)
  <2>. HIDE DEF Out, T, D
  <2>. QED BY <1>11
<1>13. Wr!Question(name) = T[<<1, <<>>>>]
  BY DEF Wr!Question, Wr!NoValue
<1>. HIDE DEF T
<1>14. ASSUME NEW i \in Nat \ {0}, NEW made \in Seq(Nat)
       PROVE  T[<<i, made>>] = IF i > N THEN made \o <<0, 0, 1, 0, 1>>
                               ELSE IF Full(i, made) THEN <<>>
                               ELSE T[<<E(i) + 1, More(i, made)>>]
  <2>1. T[<<i, made>>] = Out(T, <<i, made>>)
    <3>. HIDE DEF Out, D
    <3>. QED BY <1>3, <1>12
  <2>. HIDE DEF D, Full, More, E
  <2>. QED BY <2>1, <1>3
<1>. QED BY <1>13, <1>14 DEF QueryRuns

\* Where a label begins.
Begins(name, x) == x = 1 \/ name[x - 1] = Dot

\* What is made of a name before place i: the name itself, one place further,
\* with the lengths of the labels where they begin.
Coded(made, name, i) ==
  /\ made \in Seq(Nat) /\ Len(made) = i - 1
  /\ \A x \in Nat : 1 <= x /\ x < i =>
       /\ Begins(name, x) => made[x] = Wr!LabelEnd(name, x) - x
       /\ ~ Begins(name, x) => made[x] = name[x - 1]

\* One more label.
LEMMA MoreIs ==
  ASSUME NEW name \in Text, NEW i \in Nat \ {0}, i <= Len(name), Begins(name, i),
         NEW made, Coded(made, name, i)
  PROVE  LET end == Wr!LabelEnd(name, i)
         IN  Coded(made \o <<end - i>> \o SubSeq(name, i, end - 1), name, end + 1)
<1> DEFINE end == Wr!LabelEnd(name, i)
           N == Len(name)
           l == end - i
           piece == SubSeq(name, i, end - 1)
           a == made \o <<l>>
           t == a \o piece
<1>1. N \in Nat /\ name \in Seq(Nat)
  BY LenProperties, TextIsNat DEF Text
<1>2. end \in Nat /\ i <= end /\ end <= N + 1 /\ \A j \in Nat : i <= j /\ j < end => name[j] # Dot
  BY LabelEndIs DEF EndsAt
<1>3. l \in Nat /\ end = i + l /\ end - 1 \in Int
  BY <1>2
<1>4. piece \in Seq(Nat) /\ Len(piece) = l /\ \A j \in 1 .. l : piece[j] = name[i + j - 1]
  <2>1. \A j \in i .. end - 1 : name[j] \in Nat
    BY <1>1, <1>2
  <2>2. /\ piece \in Seq(Nat)
        /\ Len(piece) = IF i <= end - 1 THEN (end - 1) - i + 1 ELSE 0
        /\ \A j \in 1 .. (end - 1) - i + 1 : piece[j] = name[i + j - 1]
    <3>. HIDE DEF end
    <3>. QED BY <2>1, <1>3, SubSeqProperties
  <2>3. (end - 1) - i + 1 = l
    BY <1>3
  <2>. HIDE DEF end, piece, l
  <2>. QED BY <1>2, <1>3, <2>2, <2>3
<1>5. made \in Seq(Nat) /\ Len(made) = i - 1
  BY DEF Coded
<1>6. <<l>> \in Seq(Nat) /\ Len(<<l>>) = 1 /\ <<l>>[1] = l
  <2>. HIDE DEF l
  <2>. QED BY <1>3
<1>7. IsConcat(a, made, <<l>>, Nat)
  <2> DEFINE one == <<l>>
  <2>1. one \in Seq(Nat)
    BY <1>6
  <2>2. a = made \o one
    OBVIOUS
  <2>. HIDE DEF one, a
  <2>3. IsConcat(made \o one, made, one, Nat)
    BY <1>5, <2>1, ConcatIs, Zenon
  <2>. QED BY <2>2, <2>3 DEF one
<1>. HIDE DEF l
<1>8. a \in Seq(Nat) /\ Len(a) = i /\ a[i] = l /\ \A x \in 1 .. i - 1 : a[x] = made[x]
  <2> DEFINE one == <<l>>
  <2>1. Len(one) = 1 /\ one[1] = l
    BY <1>6
  <2>2. IsConcat(a, made, one, Nat)
    BY <1>7
  <2>. HIDE DEF one, a
  <2>3. a \in Seq(Nat) /\ Len(a) = i
    BY <1>5, <2>1, <2>2 DEF IsConcat
  <2>4. a[i] = l
    BY <1>5, <2>1, <2>2 DEF IsConcat
  <2>. QED BY <1>5, <2>2, <2>3, <2>4 DEF IsConcat
<1>. HIDE DEF piece, a
<1>9. IsConcat(t, a, piece, Nat)
  BY <1>4, <1>8, ConcatIs, Zenon
<1>. HIDE DEF t
<1>10. /\ t \in Seq(Nat) /\ Len(t) = end
       /\ \A x \in 1 .. i : t[x] = a[x]
       /\ \A j \in 1 .. l : t[i + j] = piece[j]
  BY <1>3, <1>4, <1>8, <1>9 DEF IsConcat
<1>. HIDE DEF end
<1>11. ASSUME NEW x \in Nat, 1 <= x, x < end + 1
       PROVE  /\ Begins(name, x) => t[x] = Wr!LabelEnd(name, x) - x
              /\ ~ Begins(name, x) => t[x] = name[x - 1]
  <2>1. CASE x < i
    <3>1. t[x] = made[x]
      BY <1>8, <1>10, <1>11, <2>1
    <3>. QED BY <1>11, <2>1, <3>1 DEF Coded
  <2>2. CASE x = i
    <3>1. t[x] = l /\ l = Wr!LabelEnd(name, x) - x
      BY <1>8, <1>10, <2>2 DEF l, end
    <3>. QED BY <2>2, <3>1
  <2>3. CASE i < x
    <3> DEFINE j == x - i
    <3>1. j \in 1 .. l /\ x = i + j /\ x # 1 /\ i + j - 1 = x - 1
      BY <1>2, <1>3, <1>11, <2>3
    <3>2. t[x] = name[x - 1]
      <4>. HIDE DEF j
      <4>. QED BY <3>1, <1>4, <1>10
    <3>3. name[x - 1] # Dot
      <4>1. x - 1 \in Nat /\ i <= x - 1 /\ x - 1 < end
        BY <1>2, <1>11, <2>3
      <4>. QED BY <4>1, <1>2
    <3>. QED BY <3>1, <3>2, <3>3 DEF Begins
  <2>. QED BY <1>2, <1>11, <2>1, <2>2, <2>3
<1>12. Coded(t, name, end + 1)
  <2>1. end + 1 - 1 = end
    BY <1>2
  <2>. QED BY <1>10, <1>11, <2>1 DEF Coded
<1>. QED BY <1>12 DEF t, a, l, piece, end

\* The question for a name that fits: e is behind its last place, and behind
\* a dot there or behind the place of one that is left out.
Asks(q, made, name, e) ==
  /\ Coded(made, name, e) /\ q = made \o <<0, 0, 1, 0, 1>> /\ 12 + Len(made) + 5 <= QueryMax
  /\ e \in {Len(name) + 1, Len(name) + 2} /\ Len(made) = e - 1
  /\ e = Len(name) + 1 => Begins(name, e)
  /\ e = Len(name) + 2 => ~ Begins(name, e - 1)

LEMMA QuestionIs ==
  ASSUME NEW name \in Text, QueryMax \in Nat, QueryMax >= 17
  PROVE  Wr!Question(name) = <<>> \/ \E made, e : Asks(Wr!Question(name), made, name, e)
<1> DEFINE N == Len(name)
           Place(i) == /\ i \in Nat \ {0} /\ i <= N + 2 /\ (i <= N + 1 => Begins(name, i))
                       /\ i = N + 2 => ~ Begins(name, i - 1)
           RoomLeft(i) == 12 + (i - 1) + 5 <= QueryMax
           Good(q) == q = <<>> \/ \E made, e : Asks(q, made, name, e)
<1>1. N \in Nat
  BY LenProperties DEF Text
<1>2. PICK Q : QueryRuns(Q, name)
  BY QueryRecursion
<1> DEFINE Bad == {r \in Nat : \E i, made : /\ Place(i) /\ RoomLeft(i) /\ Coded(made, name, i)
                                            /\ r = N + 2 - i /\ ~ Good(Q[<<i, made>>])}
<1>3. Bad = {}
  <2>1. SUFFICES ASSUME Bad # {} PROVE FALSE
    OBVIOUS
  <2>2. PICK r \in Bad : \A s \in Bad : r <= s
    BY <2>1, LeastNat
  <2>3. PICK i, made : /\ Place(i) /\ RoomLeft(i) /\ Coded(made, name, i)
                       /\ r = N + 2 - i /\ ~ Good(Q[<<i, made>>])
    BY <2>2
  <2>4. i \in Nat \ {0} /\ i <= N + 2 /\ made \in Seq(Nat) /\ Len(made) = i - 1
    BY <2>3 DEF Coded
  <2> DEFINE end == Wr!LabelEnd(name, i)
             more == made \o <<end - i>> \o SubSeq(name, i, end - 1)
  <2>5. Q[<<i, made>>] = IF i > N THEN made \o <<0, 0, 1, 0, 1>>
                         ELSE IF 12 + Len(made) + 1 + (end - i) + 5 >= QueryMax THEN <<>>
                         ELSE Q[<<end + 1, more>>]
    BY <1>2, <2>4, Zenon DEF QueryRuns
  <2>6. CASE i > N
    <3>1. Q[<<i, made>>] = made \o <<0, 0, 1, 0, 1>>
      BY <2>5, <2>6
    <3>2. /\ i \in {N + 1, N + 2} /\ (i = N + 1 => Begins(name, i))
          /\ i = N + 2 => ~ Begins(name, i - 1)
      BY <1>1, <2>3, <2>4, <2>6
    <3>3. 12 + Len(made) + 5 <= QueryMax
      BY <2>3, <2>4
    <3>4. Asks(Q[<<i, made>>], made, name, i)
      BY <2>3, <2>4, <3>1, <3>2, <3>3 DEF Asks
    <3>5. Good(Q[<<i, made>>])
      BY <3>4
    <3>. QED BY <2>3, <3>5
  <2>7. CASE ~ (i > N)
    <3>1. i <= N /\ Begins(name, i)
      BY <1>1, <2>3, <2>4, <2>7
    <3>2. /\ end \in Nat /\ i <= end /\ end <= N + 1 /\ (end = N + 1 \/ name[end] = Dot)
          /\ \A j \in Nat : i <= j /\ j < end => name[j] # Dot
      BY <2>4, <3>1, LabelEndIs DEF EndsAt
    <3>3. Coded(more, name, end + 1)
      BY <2>3, <2>4, <3>1, MoreIs
    <3>. HIDE DEF more, end, Good, Bad
    <3>4. ~ (12 + Len(made) + 1 + (end - i) + 5 >= QueryMax)
      <4>1. Good(<<>>)
        BY DEF Good
      <4>. QED BY <2>3, <2>5, <2>7, <4>1
    <3>5. Q[<<i, made>>] = Q[<<end + 1, more>>]
      BY <2>5, <2>7, <3>4
    <3>6. Place(end + 1)
      <4>1. end + 1 \in Nat \ {0} /\ end + 1 <= N + 2 /\ (end + 1) - 1 = end
        BY <1>1, <3>2
      <4>2. end + 1 <= N + 1 => name[end] = Dot
        BY <1>1, <3>2
      <4>3. ASSUME end + 1 = N + 2 PROVE ~ Begins(name, (end + 1) - 1)
        <5>1. end = N + 1 /\ i <= N /\ N < end /\ end - 1 = N /\ end # 1
          BY <1>1, <2>4, <3>1, <3>2, <4>3
        <5>2. name[N] # Dot
          BY <1>1, <3>2, <5>1
        <5>. QED BY <4>1, <5>1, <5>2 DEF Begins
      <4>. QED BY <4>1, <4>2, <4>3 DEF Begins
    <3>7. RoomLeft(end + 1)
      BY <2>4, <3>2, <3>4
    <3>8. N + 2 - (end + 1) \in Nat /\ N + 2 - (end + 1) < r
      BY <1>1, <2>3, <2>4, <3>2
    <3>9. N + 2 - (end + 1) \in Bad
      BY <2>3, <3>3, <3>5, <3>6, <3>7, <3>8 DEF Bad
    <3>10. r \in Nat /\ r <= N + 2 - (end + 1)
      <4>1. r \in Nat
        BY <2>2 DEF Bad
      <4>. QED BY <2>2, <3>9, <4>1
    <3>. QED BY <3>8, <3>10
  <2>. QED BY <2>6, <2>7
<1>4. Place(1) /\ RoomLeft(1) /\ N + 2 - 1 \in Nat
  BY <1>1 DEF Begins
<1>5. Coded(<<>>, name, 1)
  BY DEF Coded
<1>6. Good(Q[<<1, <<>>>>])
  <2>. HIDE DEF Good, Place, RoomLeft, N
  <2>. QED BY <1>3, <1>4, <1>5
<1>7. Q[<<1, <<>>>>] = Wr!Question(name)
  BY <1>2 DEF QueryRuns
<1>. HIDE DEF Good
<1>8. Good(Wr!Question(name))
  BY <1>6, <1>7
<1>. QED BY <1>8 DEF Good

\* The recursion of ReadLabels.
Slices(q) == UNION {{SubSeq(q, a, b) : b \in Int} : a \in Int}

Pieces(q) == Slices(q) \cup {Wr!Unreadable}

LEMMA PieceOf == \A q : \A x, y \in Int : SubSeq(q, x, y) \in Pieces(q)
<1>1. ASSUME NEW q, NEW x \in Int, NEW y \in Int PROVE SubSeq(q, x, y) \in Slices(q)
  <2> DEFINE S == {SubSeq(q, x, b) : b \in Int}
             U == {{SubSeq(q, a, b) : b \in Int} : a \in Int}
  <2>1. SubSeq(q, x, y) \in S
    BY Zenon
  <2>2. S \in U
    BY Zenon
  <2>3. Slices(q) = UNION U
    BY Zenon DEF Slices
  <2>. HIDE DEF S, U
  <2>. QED BY <2>1, <2>2, <2>3, Zenon
<1>. QED BY <1>1, Zenon DEF Pieces

ReadRuns(R, q) ==
  /\ Wr!ReadLabels(q) = R[1]
  /\ \A i \in Nat \ {0} :
       /\ R[i] \in Seq(Pieces(q))
       /\ R[i] = IF i > Len(q) \/ q[i] = 0 THEN <<>>
                 ELSE IF q[i] > 63 THEN <<Wr!Unreadable>>
                 ELSE <<SubSeq(q, i + 1, i + q[i])>> \o R[i + 1 + q[i]]

LEMMA ReadRecursion ==
  ASSUME NEW q \in Seq(Nat)
  PROVE  \E R : ReadRuns(R, q)
<1> DEFINE D == Nat \ {0}
           V == Seq(Pieces(q))
           L == Len(q)
           Ends(i) == i > L \/ q[i] = 0 \/ q[i] > 63
           Stop(i) == IF i > L \/ q[i] = 0 THEN <<>> ELSE <<Wr!Unreadable>>
           ends == {i \in D : Ends(i)}
           One(i) == <<SubSeq(q, i + 1, i + q[i])>>
           rank == [i \in D |-> IF i > L THEN 0 ELSE L + 1 - i]
           val == [i \in D |-> Stop(i)]
           next == [i \in D |-> IF i \in ends THEN i ELSE i + 1 + q[i]]
           step == [x \in D \X V |-> IF x[1] \in ends THEN x[2] ELSE One(x[1]) \o x[2]]
<1>1. L \in Nat /\ \A i \in 1 .. L : q[i] \in Nat
  BY LenProperties, ElementOfSeq
<1>2. ASSUME NEW i \in D, i \notin ends PROVE i <= L /\ q[i] \in Nat \ {0} /\ i + 1 + q[i] \in D
  <2>1. i <= L /\ q[i] # 0
    BY <1>1, <1>2
  <2>2. q[i] \in Nat
    BY <1>1, <2>1
  <2> DEFINE b == q[i]
  <2>3. b \in Nat
    BY <2>2
  <2>. HIDE DEF b
  <2>4. i + 1 + b \in D
    BY <2>3
  <2>. QED BY <2>1, <2>2, <2>4 DEF b
<1>3. /\ rank \in [D -> Nat] /\ val \in [D -> V] /\ next \in [D -> D]
      /\ \A i \in D : i \notin ends => rank[next[i]] < rank[i]
  <2>1. rank \in [D -> Nat]
    BY <1>1
  <2>2. val \in [D -> V]
    <3>1. Wr!Unreadable \in Pieces(q)
      BY DEF Pieces
    <3> DEFINE X == Pieces(q)
               u == Wr!Unreadable
    <3>2. u \in X
      BY <3>1
    <3>. HIDE DEF X, u
    <3>3. <<>> \in Seq(X) /\ <<u>> \in Seq(X)
      BY <3>2
    <3>4. \A i \in D : Stop(i) \in V
      BY <3>3 DEF X, u
    <3>. HIDE DEF V, Stop
    <3>. QED BY <3>4
  <2>3. next \in [D -> D]
    <3>. HIDE DEF ends
    <3>. QED BY <1>2
  <2>4. ASSUME NEW i \in D, i \notin ends PROVE rank[next[i]] < rank[i]
    <3> DEFINE b == q[i]
               j == i + 1 + b
    <3>1. i <= L /\ b \in Nat /\ j \in D /\ next[i] = j
      <4>. HIDE DEF ends
      <4>. QED BY <1>2, <2>4
    <3>2. j > i
      <4>. HIDE DEF b
      <4>. QED BY <3>1
    <3>3. rank[i] = L + 1 - i /\ rank[j] = IF j > L THEN 0 ELSE L + 1 - j
      <4>. HIDE DEF j
      <4>. QED BY <1>1, <3>1
    <3>4. rank[j] < rank[i]
      <4>. HIDE DEF j, rank, L
      <4>. QED BY <1>1, <3>1, <3>2, <3>3
    <3>. QED BY <3>1, <3>4
  <2>. HIDE DEF rank, val, next, D, V, ends
  <2>. QED BY <2>1, <2>2, <2>3, <2>4
<1>4. ASSUME NEW i \in D, i \notin ends, NEW v \in V PROVE One(i) \o v \in V
  <2>1. SubSeq(q, i + 1, i + q[i]) \in Pieces(q)
    <3> DEFINE b == q[i]
    <3>1. b \in Nat
      BY <1>2, <1>4
    <3>. HIDE DEF b
    <3>2. i + 1 \in Int /\ i + b \in Int
      BY <3>1
    <3>4. SubSeq(q, i + 1, i + b) \in Pieces(q)
      BY <3>2, PieceOf, Zenon
    <3>. QED BY <3>4 DEF b
  <2> DEFINE s == SubSeq(q, i + 1, i + q[i])
             X == Pieces(q)
  <2>2. s \in X
    BY <2>1
  <2>. HIDE DEF s, X
  <2>3. <<s>> \in Seq(X)
    BY <2>2
  <2>4. v \in Seq(X)
    BY DEF X
  <2>5. <<s>> \o v \in Seq(X)
    BY <2>3, <2>4
  <2>. QED BY <2>5 DEF s, X
<1>5. step \in [D \X V -> V]
  <2>1. ASSUME NEW x \in D \X V
        PROVE  (IF x[1] \in ends THEN x[2] ELSE One(x[1]) \o x[2]) \in V
    <3>1. x[1] \in D /\ x[2] \in V
      OBVIOUS
    <3>. HIDE DEF D, V, ends, One
    <3>. QED BY <1>4, <3>1
  <2>. HIDE DEF D, V, ends, One
  <2>. QED BY <2>1
<1>6. PICK F : Recursive(F, D, V, ends, val, next, step)
  <2>. HIDE DEF D, V, ends, rank, val, next, step
  <2>. QED BY <1>3, <1>5, Recursion, Zenon
<1>7. F \in [D -> V] /\ \A x \in D : F[x] = IF x \in ends THEN val[x] ELSE step[<<x, F[next[x]]>>]
  <2>. HIDE DEF D, V, ends, val, next, step
  <2>. QED BY <1>6, Zenon DEF Recursive
<1> DEFINE Out(f, i) == IF i > L \/ q[i] = 0 THEN <<>> ELSE IF q[i] > 63 THEN <<Wr!Unreadable>>
                        ELSE One(i) \o f[i + 1 + q[i]]
           IsRead(f) == f = [i \in D |-> Out(f, i)]
           T == CHOOSE f : IsRead(f)
<1>8. ASSUME NEW i \in D PROVE F[i] = Out(F, i)
  <2>1. CASE i \in ends
    <3>1. i > L \/ q[i] = 0 \/ q[i] > 63
      BY <2>1
    <3>2. F[i] = val[i] /\ val[i] = Stop(i)
      <4>. HIDE DEF ends, next, step, Stop
      <4>. QED BY <1>7, <2>1
    <3>. HIDE DEF One
    <3>. QED BY <3>1, <3>2
  <2>2. CASE i \notin ends
    <3>1. ~ (i > L \/ q[i] = 0) /\ ~ (q[i] > 63)
      BY <2>2
    <3>2. next[i] = i + 1 + q[i] /\ next[i] \in D
      <4>. HIDE DEF ends
      <4>. QED BY <1>2, <2>2
    <3>3. F[next[i]] \in V
      <4>. HIDE DEF V, D, next
      <4>. QED BY <1>7, <3>2
    <3>4. F[i] = step[<<i, F[next[i]]>>]
      <4>. HIDE DEF V, D, next, step, val, ends
      <4>. QED BY <1>7, <2>2
    <3>5. step[<<i, F[next[i]]>>] = One(i) \o F[next[i]]
      <4>. HIDE DEF V, D, next, ends, One
      <4>. QED BY <3>3, <2>2
    <3>. HIDE DEF One, step, next
    <3>. QED BY <3>1, <3>2, <3>4, <3>5
  <2>. QED BY <2>1, <2>2
<1>9. IsRead(F)
  <2>. HIDE DEF Out
  <2>1. F = [i \in D |-> F[i]]
    BY <1>7
  <2>. QED BY <2>1, <1>8
<1>10. IsRead(T)
  <2>. HIDE DEF IsRead
  <2>. QED BY <1>9
<1>11. F \in [D -> V] /\ \A i \in D : T[i] = Out(T, i)
  <2>. HIDE DEF Out, T
  <2>. QED BY <1>7, <1>10
<1>12. \A i \in D : F[i] = T[i]
  <2> DEFINE Bad == {r \in Nat : \E i \in D : rank[i] = r /\ F[i] # T[i]}
  <2>1. SUFFICES ASSUME Bad # {} PROVE FALSE
    <3>. HIDE DEF D, rank, T
    <3>. QED BY <1>3
  <2>2. PICK r \in Bad : \A s \in Bad : r <= s
    BY <2>1, LeastNat
  <2>3. PICK i \in D : rank[i] = r /\ F[i] # T[i]
    BY <2>2
  <2>4. F[i] = Out(F, i) /\ T[i] = Out(T, i)
    <3>. HIDE DEF Out
    <3>. QED BY <1>8, <1>11
  <2>5. i \notin ends
    <3>1. ASSUME i \in ends PROVE FALSE
      <4>1. i > L \/ q[i] = 0 \/ q[i] > 63
        BY <3>1
      <4>. HIDE DEF One, T
      <4>. QED BY <2>3, <2>4, <4>1
    <3>. QED BY <3>1
  <2> DEFINE j == next[i]
  <2>6. j = i + 1 + q[i] /\ j \in D /\ rank[j] < rank[i]
    <3>. HIDE DEF ends, rank
    <3>. QED BY <1>2, <1>3, <2>5
  <2>7. F[j] # T[j]
    <3>1. ~ (i > L \/ q[i] = 0) /\ ~ (q[i] > 63)
      BY <2>5
    <3>. HIDE DEF One, T, j
    <3>. QED BY <2>3, <2>4, <2>6, <3>1
  <2>8. rank[j] \in Bad
    <3>1. rank[j] \in Nat
      <4>. HIDE DEF rank, j
      <4>. QED BY <1>3, <2>6
    <3>. HIDE DEF rank, j, T
    <3>. QED BY <2>6, <2>7, <3>1
  <2>9. r \in Nat
    BY <2>2
  <2>. HIDE DEF Bad, rank, j
  <2>10. r <= rank[j] /\ rank[j] < r
    BY <2>2, <2>3, <2>6, <2>8
  <2>11. rank[j] \in Nat
    BY <1>3, <2>6
  <2>. QED BY <2>9, <2>10, <2>11
<1>13. \A i \in D : T[i] \in V
  <2>. HIDE DEF T, V, D
  <2>. QED BY <1>11, <1>12
<1>14. Wr!ReadLabels(q) = T[1]
  BY DEF Wr!ReadLabels
<1>. HIDE DEF T
<1>. QED BY <1>11, <1>13, <1>14 DEF ReadRuns

\* The recursion of Joined.
JoinRuns(J, labels) ==
  /\ Wr!Joined(labels) = J[Len(labels)] /\ J[0] = <<>>
  /\ \A k \in 1 .. Len(labels) : J[k] = J[k - 1] \o (IF k > 1 THEN <<Dot>> ELSE <<>>) \o labels[k]

LEMMA JoinRecursion ==
  ASSUME NEW labels \in Seq(Seq(Nat)), Dot \in Nat
  PROVE  \E J : JoinRuns(J, labels)
<1> DEFINE N == Len(labels)
           D == 0 .. N
           V == Seq(Nat)
           ends == {0}
           Sep(k) == IF k > 1 THEN <<Dot>> ELSE <<>>
           rank == [k \in D |-> k]
           val == [k \in D |-> <<>>]
           next == [k \in D |-> IF k = 0 THEN 0 ELSE k - 1]
           step == [x \in D \X V |-> IF x[1] = 0 THEN x[2] ELSE x[2] \o Sep(x[1]) \o labels[x[1]]]
<1>0. N \in Nat /\ \A k \in 1 .. N : labels[k] \in V
  BY LenProperties, ElementOfSeq
<1>1. /\ rank \in [D -> Nat] /\ val \in [D -> V] /\ next \in [D -> D]
      /\ \A k \in D : k \notin ends => rank[next[k]] < rank[k]
  <2>1. rank \in [D -> Nat] /\ next \in [D -> D]
    BY <1>0
  <2>2. val \in [D -> V]
    OBVIOUS
  <2>3. \A k \in D : k \notin ends => rank[next[k]] < rank[k]
    BY <1>0
  <2>. QED BY <2>1, <2>2, <2>3
<1>2. ASSUME NEW k \in D, k # 0, NEW v \in V PROVE v \o Sep(k) \o labels[k] \in V
  <2>1. Sep(k) \in V
    OBVIOUS
  <2>2. labels[k] \in V
    BY <1>0, <1>2
  <2>. HIDE DEF Sep
  <2>. QED BY <2>1, <2>2
<1>3. step \in [D \X V -> V]
  <2>1. ASSUME NEW x \in D \X V
        PROVE  (IF x[1] = 0 THEN x[2] ELSE x[2] \o Sep(x[1]) \o labels[x[1]]) \in V
    <3>1. x[1] \in D /\ x[2] \in V
      OBVIOUS
    <3>. HIDE DEF D, V, Sep
    <3>. QED BY <1>2, <3>1
  <2>. HIDE DEF D, V, Sep
  <2>. QED BY <2>1
<1>4. PICK F : Recursive(F, D, V, ends, val, next, step)
  <2>. HIDE DEF D, V, ends, rank, val, next, step
  <2>. QED BY <1>1, <1>3, Recursion, Zenon
<1>5. F \in [D -> V] /\ \A x \in D : F[x] = IF x \in ends THEN val[x] ELSE step[<<x, F[next[x]]>>]
  <2>. HIDE DEF D, V, ends, val, next, step
  <2>. QED BY <1>4, Zenon DEF Recursive
<1> DEFINE Out(f, k) == IF k = 0 THEN <<>> ELSE f[k - 1] \o (IF k > 1 THEN <<Dot>> ELSE <<>>) \o labels[k]
           IsJoin(f) == f = [k \in D |-> Out(f, k)]
           T == CHOOSE f : IsJoin(f)
<1>6. ASSUME NEW k \in D PROVE F[k] = Out(F, k)
  <2>1. CASE k = 0
    <3>1. k \in ends /\ val[k] = <<>>
      BY <2>1
    <3>. HIDE DEF ends, val, next, step
    <3>. QED BY <1>5, <2>1, <3>1
  <2>2. CASE k # 0
    <3>1. next[k] = k - 1 /\ k - 1 \in D /\ k \notin ends
      BY <1>0, <2>2
    <3>2. F[k - 1] \in V
      <4>. HIDE DEF V, D
      <4>. QED BY <1>5, <3>1
    <3>3. F[k] = step[<<k, F[k - 1]>>]
      <4>. HIDE DEF V, D, step, next, ends, val
      <4>. QED BY <1>5, <3>1
    <3>4. step[<<k, F[k - 1]>>] = F[k - 1] \o Sep(k) \o labels[k]
      <4>. HIDE DEF V, Sep, D
      <4>. QED BY <2>2, <3>2
    <3>. HIDE DEF step, D
    <3>. QED BY <2>2, <3>3, <3>4
  <2>. QED BY <2>1, <2>2
<1>7. IsJoin(F)
  <2>. HIDE DEF Out
  <2>1. F = [k \in D |-> F[k]]
    BY <1>5
  <2>. QED BY <2>1, <1>6
<1>8. IsJoin(T)
  <2>. HIDE DEF IsJoin
  <2>. QED BY <1>7
<1>9. \A k \in D : T[k] = Out(T, k)
  <2>. HIDE DEF T, Out
  <2>. QED BY <1>8
<1>10. Wr!Joined(labels) = T[N]
  BY DEF Wr!Joined
<1>. HIDE DEF T
<1>11. T[0] = <<>>
  BY <1>0, <1>9
<1>12. ASSUME NEW k \in 1 .. N PROVE T[k] = T[k - 1] \o (IF k > 1 THEN <<Dot>> ELSE <<>>) \o labels[k]
  <2>1. k \in D /\ k # 0
    BY <1>0
  <2>2. T[k] = Out(T, k)
    <3>. HIDE DEF Out, D
    <3>. QED BY <2>1, <1>9
  <2>. HIDE DEF D
  <2>. QED BY <2>1, <2>2
<1>. QED BY <1>10, <1>11, <1>12 DEF JoinRuns

\* The labels of a name, the first from place x on, the last before e.
Cut(c, labels, name, x, e) ==
  /\ labels \in Seq(Seq(Nat)) /\ c \in [1 .. Len(labels) + 1 -> Nat \ {0}]
  /\ c[1] = x /\ c[Len(labels) + 1] = e
  /\ \A k \in 1 .. Len(labels) :
       /\ c[k] + 1 < c[k + 1] /\ c[k + 1] <= Len(name) + 2 /\ Begins(name, c[k])
       /\ labels[k] = SubSeq(name, c[k], c[k + 1] - 2)

LEMMA CutMore ==
  ASSUME NEW c, NEW labels, NEW name \in Text, NEW y, NEW e, Cut(c, labels, name, y, e),
         NEW x \in Nat \ {0}, Begins(name, x), x + 1 < y, y <= Len(name) + 2,
         NEW l \in Seq(Nat), l = SubSeq(name, x, y - 2)
  PROVE  \E d : Cut(d, <<l>> \o labels, name, x, e)
<1> DEFINE N == Len(labels)
           X == Seq(Nat)
           one == <<l>>
           more == one \o labels
           d == [k \in 1 .. N + 2 |-> IF k = 1 THEN x ELSE c[k - 1]]
<1>1. N \in Nat /\ labels \in Seq(X)
  BY LenProperties DEF Cut
<1>2. one \in Seq(X) /\ Len(one) = 1 /\ one[1] = l
  <2>1. l \in X
    OBVIOUS
  <2>. HIDE DEF X
  <2>. QED BY <2>1
<1>. HIDE DEF X, one
<1>3. IsConcat(more, one, labels, X)
  BY <1>1, <1>2, ConcatIs, Zenon
<1>. HIDE DEF more
<1>4. more \in Seq(X) /\ Len(more) = N + 1 /\ more[1] = l /\ \A k \in 1 .. N : more[k + 1] = labels[k]
  <2>1. more \in Seq(X) /\ Len(more) = N + 1
    BY <1>1, <1>2, <1>3 DEF IsConcat
  <2>2. more[1] = l
    BY <1>1, <1>2, <1>3 DEF IsConcat
  <2>3. ASSUME NEW k \in 1 .. N PROVE more[k + 1] = labels[k]
    <3>1. more[1 + k] = labels[k] /\ 1 + k = k + 1
      BY <1>1, <1>2, <1>3 DEF IsConcat
    <3>. QED BY <3>1
  <2>. QED BY <2>1, <2>2, <2>3
<1>. HIDE DEF N
<1>5. c \in [1 .. N + 1 -> Nat \ {0}] /\ c[1] = y /\ c[N + 1] = e
  BY DEF Cut, N
<1>6. d \in [1 .. N + 2 -> Nat \ {0}]
  <2>1. \A k \in 1 .. N + 2 : k # 1 => k - 1 \in 1 .. N + 1
    BY <1>1
  <2>. QED BY <1>5, <2>1
<1>7. d[1] = x /\ d[N + 2] = e /\ \A k \in 1 .. N + 1 : d[k + 1] = c[k]
  <2>1. 1 \in 1 .. N + 2 /\ N + 2 \in 1 .. N + 2 /\ N + 2 # 1 /\ N + 2 - 1 = N + 1
    BY <1>1
  <2>2. \A k \in 1 .. N + 1 : k + 1 \in 1 .. N + 2 /\ k + 1 # 1 /\ k + 1 - 1 = k
    BY <1>1
  <2>3. d[1] = x
    BY <2>1
  <2>4. d[N + 2] = c[N + 1]
    <3>1. ASSUME NEW z \in 1 .. N + 2, z = N + 2 PROVE d[z] = c[N + 1]
      <4>1. d[z] = c[z - 1]
        BY <1>1, <3>1
      <4>2. z - 1 = N + 1
        BY <1>1, <3>1
      <4>. HIDE DEF d
      <4>. QED BY <4>1, <4>2
    <3>. HIDE DEF d
    <3>. QED BY <2>1, <3>1, Zenon
  <2>5. \A k \in 1 .. N + 1 : d[k + 1] = c[k]
    BY <2>2
  <2>. QED BY <1>5, <2>3, <2>4, <2>5
<1>. HIDE DEF d
<1>8. ASSUME NEW k \in 1 .. N + 1
      PROVE  /\ d[k] + 1 < d[k + 1] /\ d[k + 1] <= Len(name) + 2 /\ Begins(name, d[k])
             /\ more[k] = SubSeq(name, d[k], d[k + 1] - 2)
  <2>1. CASE k = 1
    <3>1. d[2] = y
      BY <1>1, <1>5, <1>7
    <3>. QED BY <1>4, <1>7, <2>1, <3>1
  <2>2. CASE k # 1
    <3> DEFINE j == k - 1
    <3>1. j \in 1 .. N /\ j \in 1 .. N + 1 /\ j + 1 \in 1 .. N + 1 /\ k = j + 1
      BY <1>1, <2>2
    <3>. HIDE DEF j
    <3>2. d[k] = c[j] /\ d[k + 1] = c[j + 1] /\ more[k] = labels[j]
      BY <1>4, <1>7, <3>1
    <3>3. /\ c[j] + 1 < c[j + 1] /\ c[j + 1] <= Len(name) + 2 /\ Begins(name, c[j])
          /\ labels[j] = SubSeq(name, c[j], c[j + 1] - 2)
      BY <3>1 DEF Cut, N
    <3>. QED BY <3>2, <3>3
  <2>. QED BY <2>1, <2>2
<1>9. Cut(d, more, name, x, e)
  <2>1. Len(more) + 1 = N + 2 /\ 1 .. Len(more) = 1 .. N + 1
    BY <1>1, <1>4
  <2>. QED BY <1>4, <1>6, <1>7, <1>8, <2>1 DEF Cut, X
<1>. QED BY <1>9 DEF more, one

\* The bytes of a question.
LEMMA AsksAt ==
  ASSUME NEW q, NEW made, NEW name, NEW e, e \in Nat \ {0}, Asks(q, made, name, e)
  PROVE  /\ q \in Seq(Nat) /\ Len(q) = e + 4 /\ q[e] = 0
         /\ \A x \in Nat : 1 <= x /\ x < e => q[x] = made[x]
         /\ SubSeq(q, Len(q) - 4, Len(q)) = <<0, 0, 1, 0, 1>>
<1> DEFINE tail5 == <<0, 0, 1, 0, 1>>
<1>1. made \in Seq(Nat) /\ Len(made) = e - 1
  BY DEF Asks, Coded
<1>2. /\ tail5 \in Seq(Nat) /\ Len(tail5) = 5
      /\ tail5[1] = 0 /\ tail5[2] = 0 /\ tail5[3] = 1 /\ tail5[4] = 0 /\ tail5[5] = 1
  OBVIOUS
<1>3. q = made \o tail5
  BY DEF Asks
<1>. HIDE DEF tail5
<1>4. IsConcat(q, made, tail5, Nat)
  <2>1. IsConcat(made \o tail5, made, tail5, Nat)
    BY <1>1, <1>2, ConcatIs, Zenon
  <2>. QED BY <1>3, <2>1
<1>5. q \in Seq(Nat) /\ Len(q) = e + 4
  BY <1>1, <1>2, <1>4 DEF IsConcat
<1>6. \A j \in 1 .. 5 : q[e - 1 + j] = tail5[j]
  BY <1>1, <1>2, <1>4 DEF IsConcat
<1>7. q[e] = 0
  <2>1. q[e - 1 + 1] = tail5[1] /\ e - 1 + 1 = e
    BY <1>6
  <2>. QED BY <1>2, <2>1
<1>8. \A x \in Nat : 1 <= x /\ x < e => q[x] = made[x]
  BY <1>1, <1>4 DEF IsConcat
<1>9. SubSeq(q, Len(q) - 4, Len(q)) = tail5
  <2>1. \A j \in 1 .. 5 : q[e + j - 1] = tail5[1 + j - 1]
    <3>1. \A j \in 1 .. 5 : e - 1 + j = e + j - 1 /\ 1 + j - 1 = j
      OBVIOUS
    <3>. QED BY <1>6, <3>1
  <2>2. SubSeq(q, e, e + 5 - 1) = SubSeq(tail5, 1, 1 + 5 - 1)
    BY <2>1, MovedPiece
  <2>3. SubSeq(tail5, 1, 5) = tail5
    BY <1>2
  <2>4. Len(q) - 4 = e /\ Len(q) = e + 5 - 1 /\ 1 + 5 - 1 = 5
    BY <1>5
  <2>. QED BY <2>2, <2>3, <2>4
<1>. QED BY <1>5, <1>7, <1>8, <1>9 DEF tail5

Proper(name) == \A i \in DOMAIN name : name[i] = Dot => i > 1 /\ name[i - 1] # Dot

\* What is read at the place x of a question where a label begins.
ReadOn(R, name, x, e) ==
  \E y \in Nat \ {0} :
    /\ x + 1 < y /\ y <= e /\ (y < e => Begins(name, y))
    /\ SubSeq(name, x, y - 2) \in Seq(Nat) /\ R[x] = <<SubSeq(name, x, y - 2)>> \o R[y]

LEMMA ReadHere ==
  ASSUME NEW name \in Text, Proper(name), Wr!ShortLabels(name), NEW e \in Nat \ {0}, NEW q,
         NEW made, Asks(q, made, name, e), NEW R, ReadRuns(R, q), NEW x \in Nat \ {0}, x < e, Begins(name, x)
  PROVE  ReadOn(R, name, x, e)
<1> DEFINE N == Len(name)
           end == Wr!LabelEnd(name, x)
<1>1. N \in Nat /\ name \in Seq(Nat) /\ DOMAIN name = 1 .. N
  BY LenProperties, TextIsNat DEF Text
<1>2. /\ e \in {N + 1, N + 2} /\ (e = N + 1 => Begins(name, e))
      /\ e = N + 2 => ~ Begins(name, e - 1)
  BY DEF Asks
<1>3. x <= N
  <2>1. ASSUME ~ (x <= N) PROVE FALSE
    <3>1. e = N + 2 /\ x = e - 1
      BY <1>1, <1>2, <2>1
    <3>. QED BY <1>2, <3>1
  <2>. QED BY <2>1
<1>4. /\ end \in Nat /\ x <= end /\ end <= N + 1 /\ (end = N + 1 \/ name[end] = Dot)
      /\ \A j \in Nat : x <= j /\ j < end => name[j] # Dot
  BY <1>3, LabelEndIs DEF EndsAt
<1>. HIDE DEF end
<1>5. x < end
  <2>1. name[x] # Dot
    <3>1. ASSUME name[x] = Dot PROVE FALSE
      <4>1. x \in DOMAIN name
        BY <1>1, <1>3
      <4>2. x > 1 /\ name[x - 1] # Dot
        BY <3>1, <4>1, Zenon DEF Proper
      <4>3. x # 1
        BY <4>2
      <4>. QED BY <4>2, <4>3 DEF Begins
    <3>. QED BY <3>1
  <2>2. end # x
    BY <1>1, <1>3, <1>4, <2>1
  <2>. QED BY <1>4, <2>2
<1>6. end + 1 <= e
  <2>1. ASSUME end = N + 1, e = N + 1 PROVE FALSE
    <3>1. N \in Nat /\ x <= N /\ N < end /\ e # 1 /\ e - 1 = N
      BY <1>1, <1>3, <2>1
    <3>2. name[N] # Dot
      BY <1>4, <3>1
    <3>3. Begins(name, e)
      BY <1>2, <2>1
    <3>. QED BY <3>1, <3>2, <3>3 DEF Begins
  <2>. QED BY <1>1, <1>2, <1>4, <2>1
<1>7. end + 1 < e => Begins(name, end + 1)
  <2>1. SUFFICES ASSUME end + 1 < e PROVE Begins(name, end + 1)
    OBVIOUS
  <2>2. name[end] = Dot /\ (end + 1) - 1 = end
    BY <1>1, <1>2, <1>4, <2>1
  <2>. QED BY <2>2 DEF Begins
<1>8. /\ q \in Seq(Nat) /\ Len(q) = e + 4
      /\ \A z \in Nat : 1 <= z /\ z < e => q[z] = made[z]
  BY AsksAt
<1>9. Coded(made, name, e)
  BY DEF Asks
<1> DEFINE l == end - x
<1>10. l \in Nat /\ l # 0 /\ end = x + l
  BY <1>4, <1>5
<1>11. q[x] = l
  <2>1. q[x] = made[x]
    BY <1>8
  <2>2. made[x] = Wr!LabelEnd(name, x) - x
    BY <1>9 DEF Coded
  <2>. QED BY <2>1, <2>2 DEF end
<1>12. \A j \in 1 .. l : q[(x + 1) + j - 1] = name[x + j - 1]
  <2>1. ASSUME NEW j \in 1 .. l PROVE q[(x + 1) + j - 1] = name[x + j - 1]
    <3> DEFINE z == x + j
    <3>1. z \in Nat /\ 1 <= z /\ z < e /\ z # 1 /\ z - 1 \in Nat /\ x <= z - 1 /\ z - 1 < end
      BY <1>4, <1>6, <1>10
    <3>2. (x + 1) + j - 1 = z /\ x + j - 1 = z - 1
      BY <1>10
    <3>. HIDE DEF z
    <3>3. ~ Begins(name, z)
      BY <1>4, <3>1 DEF Begins
    <3>4. q[z] = name[z - 1]
      BY <1>8, <1>9, <3>1, <3>3 DEF Coded
    <3>. QED BY <3>2, <3>4
  <2>. QED BY <2>1
<1>. HIDE DEF l
<1>13. SubSeq(q, x + 1, x + l) = SubSeq(name, x, x + l - 1)
  <2>1. SubSeq(q, x + 1, (x + 1) + l - 1) = SubSeq(name, x, x + l - 1)
    <3>1. x + 1 \in Int /\ x \in Int
      OBVIOUS
    <3>. QED BY <1>10, <1>12, <3>1, MovedPiece
  <2>2. (x + 1) + l - 1 = x + l
    BY <1>10
  <2>. QED BY <2>1, <2>2
<1>14. R[x] = <<SubSeq(q, x + 1, x + l)>> \o R[x + 1 + l]
  <2>1. R[x] = IF x > Len(q) \/ q[x] = 0 THEN <<>>
               ELSE IF q[x] > 63 THEN <<Wr!Unreadable>>
               ELSE <<SubSeq(q, x + 1, x + q[x])>> \o R[x + 1 + q[x]]
    BY Zenon DEF ReadRuns
  <2>2. ~ (x > Len(q) \/ q[x] = 0)
    BY <1>8, <1>10, <1>11
  <2>3. ~ (q[x] > 63)
    <3>1. ASSUME l > 63 PROVE FALSE
      <4>1. x \in 1 .. N - 63 /\ x + 63 < end
        BY <1>1, <1>4, <1>10, <3>1
      <4>2. PICK z \in x .. x + 63 : name[z] = Dot
        BY <4>1 DEF Wr!ShortLabels
      <4>3. z \in Nat /\ x <= z /\ z < end
        BY <4>1, <4>2, <1>4
      <4>. QED BY <1>4, <4>2, <4>3
    <3>. QED BY <1>10, <1>11, <3>1
  <2>. QED BY <1>11, <2>1, <2>2, <2>3
<1> DEFINE y == end + 1
<1>15. y \in Nat \ {0} /\ x + 1 < y /\ x + 1 + l = y /\ x + l - 1 = y - 2 /\ y <= e
  BY <1>4, <1>5, <1>6, <1>10
<1>16. SubSeq(name, x, y - 2) \in Seq(Nat)
  <2>1. \A j \in x .. y - 2 : name[j] \in Nat
    <3>1. y - 2 <= N
      BY <1>1, <1>4
    <3>. HIDE DEF y, N
    <3>. QED BY <1>1, <1>15, <3>1
  <2>2. x \in Int /\ y - 2 \in Int
    BY <1>15
  <2>. QED BY <2>1, <2>2, SubSeqProperties
<1>17. R[x] = <<SubSeq(name, x, y - 2)>> \o R[y]
  BY <1>13, <1>14, <1>15
<1>18. y < e => Begins(name, y)
  BY <1>7
<1>. HIDE DEF y
<1>19. x + 1 < y /\ y <= e /\ (y < e => Begins(name, y))
  BY <1>15, <1>18
<1>20. y \in Nat \ {0}
  BY <1>15
<1>. QED BY <1>16, <1>17, <1>19, <1>20 DEF ReadOn

\* A reader of a question finds the labels of the name.
LEMMA ReadIs ==
  ASSUME NEW name \in Text, Proper(name), Wr!ShortLabels(name), NEW e \in Nat \ {0}, NEW q,
         NEW made, Asks(q, made, name, e)
  PROVE  \E c : Cut(c, Wr!ReadLabels(q), name, 1, e)
<1>1. q \in Seq(Nat) /\ Len(q) = e + 4 /\ q[e] = 0
  BY AsksAt
<1>2. PICK R : ReadRuns(R, q)
  BY <1>1, ReadRecursion
<1> DEFINE Place(x) == x \in Nat \ {0} /\ x <= e /\ (x < e => Begins(name, x))
           Good(x) == \E c : Cut(c, R[x], name, x, e)
           Bad == {r \in Nat : \E x : Place(x) /\ r = e - x /\ ~ Good(x)}
<1>3. Good(e)
  <2>1. R[e] = <<>>
    BY <1>1, <1>2, Zenon DEF ReadRuns
  <2> DEFINE c == [k \in 1 .. 1 |-> e]
  <2>2. c \in [1 .. 1 -> Nat \ {0}] /\ c[1] = e
    OBVIOUS
  <2>. HIDE DEF c
  <2>3. Cut(c, <<>>, name, e, e)
    BY <2>2 DEF Cut
  <2>. QED BY <2>1, <2>3
<1>4. ASSUME Bad # {} PROVE FALSE
  <2>2. PICK r \in Bad : \A s \in Bad : r <= s
    BY <1>4, LeastNat
  <2>3. PICK x : Place(x) /\ r = e - x /\ ~ Good(x)
    BY <2>2
  <2>4. x # e
    <3>. HIDE DEF Good
    <3>. QED BY <1>3, <2>3
  <2>5. x \in Nat \ {0} /\ x < e /\ Begins(name, x)
    BY <2>3, <2>4
  <2>6. PICK y \in Nat \ {0} :
           /\ x + 1 < y /\ y <= e /\ (y < e => Begins(name, y))
           /\ SubSeq(name, x, y - 2) \in Seq(Nat) /\ R[x] = <<SubSeq(name, x, y - 2)>> \o R[y]
    <3>1. ReadOn(R, name, x, e)
      <4>. HIDE DEF Place, Good, Bad
      <4>. QED BY <1>2, <2>5, ReadHere, Zenon
    <3>. QED BY <3>1 DEF ReadOn
  <2>7. Place(y)
    BY <2>6
  <2>8. Good(y)
    <3>1. ASSUME ~ Good(y) PROVE FALSE
      <4>1. e - y \in Nat /\ e - y < r
        BY <2>3, <2>5, <2>6
      <4>. HIDE DEF Good, Place
      <4>2. e - y \in Bad
        BY <2>7, <3>1, <4>1
      <4>3. r \in Nat
        BY <2>2
      <4>. HIDE DEF Bad
      <4>4. r <= e - y
        BY <2>2, <4>2
      <4>. QED BY <4>1, <4>3, <4>4
    <3>. QED BY <3>1
  <2>9. PICK c : Cut(c, R[y], name, y, e)
    BY <2>8
  <2>10. x + 1 < y /\ y <= Len(name) + 2
    <3>1. e \in {Len(name) + 1, Len(name) + 2} /\ Len(name) \in Nat
      BY LenProperties DEF Asks, Text
    <3>. QED BY <2>5, <2>6, <3>1
  <2> DEFINE l == SubSeq(name, x, y - 2)
  <2>11. l \in Seq(Nat)
    BY <2>6
  <2>12. \E d : Cut(d, <<l>> \o R[y], name, x, e)
    <3>1. l = SubSeq(name, x, y - 2)
      OBVIOUS
    <3>. HIDE DEF l, Bad, Good, Place
    <3>. QED BY <2>5, <2>9, <2>10, <2>11, <3>1, CutMore, Zenon
  <2>13. Good(x)
    BY <2>6, <2>12
  <2>. QED BY <2>3, <2>13
<1>5. Place(1)
  BY DEF Begins
<1>6. Good(1)
  <2>1. e - 1 \in Nat
    OBVIOUS
  <2>. HIDE DEF Good, Place
  <2>. QED BY <1>4, <1>5, <2>1
<1>7. Wr!ReadLabels(q) = R[1]
  BY <1>2 DEF ReadRuns
<1>. QED BY <1>6, <1>7

\* A piece, the byte behind it, and what follows that.
LEMMA Glue ==
  ASSUME NEW name \in Seq(Nat), NEW a \in Nat, NEW b \in Nat, a + 1 <= b, b <= Len(name),
         NEW p, p = SubSeq(name, 1, a), NEW s, s = <<name[a + 1]>>,
         NEW r, r = SubSeq(name, a + 2, b)
  PROVE  (p \o s) \o r = SubSeq(name, 1, b)
<1> DEFINE ps == p \o s
           t == ps \o r
           whole == SubSeq(name, 1, b)
           N == Len(name)
           M == b - (a + 1)
<1>1. N \in Nat /\ b <= N /\ (\A j \in 1 .. N : name[j] \in Nat) /\ M \in Nat
  BY LenProperties, ElementOfSeq
<1>. HIDE DEF N
<1>2. p \in Seq(Nat) /\ Len(p) = a /\ \A j \in 1 .. a : p[j] = name[j]
  <2>1. \A j \in 1 .. a : name[j] \in Nat
    BY <1>1
  <2>2. /\ p \in Seq(Nat) /\ Len(p) = IF 1 <= a THEN a - 1 + 1 ELSE 0
        /\ \A j \in 1 .. a - 1 + 1 : p[j] = name[1 + j - 1]
    BY <2>1, SubSeqProperties
  <2>3. a - 1 + 1 = a
    OBVIOUS
  <2>4. \A j \in 1 .. a : 1 + j - 1 = j
    OBVIOUS
  <2>. QED BY <2>2, <2>3, <2>4
<1>3. whole \in Seq(Nat) /\ Len(whole) = b /\ \A j \in 1 .. b : whole[j] = name[j]
  <2>1. \A j \in 1 .. b : name[j] \in Nat
    BY <1>1
  <2>2. /\ whole \in Seq(Nat) /\ Len(whole) = IF 1 <= b THEN b - 1 + 1 ELSE 0
        /\ \A j \in 1 .. b - 1 + 1 : whole[j] = name[1 + j - 1]
    BY <2>1, SubSeqProperties, SMTT(30)
  <2>3. b - 1 + 1 = b /\ 1 <= b
    OBVIOUS
  <2>4. \A j \in 1 .. b : 1 + j - 1 = j
    OBVIOUS
  <2>. HIDE DEF whole
  <2>. QED BY <2>2, <2>3, <2>4
<1>4. r \in Seq(Nat) /\ Len(r) = M /\ \A j \in 1 .. M : r[j] = name[a + 1 + j]
  <2>1. \A j \in a + 2 .. b : name[j] \in Nat
    BY <1>1
  <2>2. /\ r \in Seq(Nat) /\ Len(r) = IF a + 2 <= b THEN b - (a + 2) + 1 ELSE 0
        /\ \A j \in 1 .. b - (a + 2) + 1 : r[j] = name[a + 2 + j - 1]
    BY <2>1, SubSeqProperties
  <2>3. b - (a + 2) + 1 = M
    OBVIOUS
  <2>4. \A j \in 1 .. M : a + 2 + j - 1 = a + 1 + j
    OBVIOUS
  <2>5. Len(r) = M
    BY <2>2, <2>3
  <2>. HIDE DEF M
  <2>. QED BY <2>2, <2>3, <2>4, <2>5
<1>5. s \in Seq(Nat) /\ Len(s) = 1 /\ s[1] = name[a + 1]
  <2>1. name[a + 1] \in Nat
    BY <1>1
  <2>. QED BY <2>1
<1>. HIDE DEF whole, ps, t, M
<1>6. IsConcat(ps, p, s, Nat)
  BY <1>2, <1>5, ConcatIs, Zenon DEF ps
<1>7. ps \in Seq(Nat) /\ Len(ps) = a + 1 /\ \A j \in 1 .. a + 1 : ps[j] = name[j]
  <2>1. ps \in Seq(Nat) /\ Len(ps) = a + 1
    BY <1>2, <1>5, <1>6 DEF IsConcat
  <2>2. \A j \in 1 .. a : ps[j] = name[j]
    BY <1>2, <1>6 DEF IsConcat
  <2>3. ps[a + 1] = name[a + 1]
    BY <1>2, <1>5, <1>6 DEF IsConcat
  <2>4. \A j \in 1 .. a + 1 : j \in 1 .. a \/ j = a + 1
    OBVIOUS
  <2>5. \A j \in 1 .. a + 1 : ps[j] = name[j]
    BY <2>2, <2>3, <2>4
  <2>. QED BY <2>1, <2>5
<1>8. IsConcat(t, ps, r, Nat)
  BY <1>4, <1>7, ConcatIs, Zenon DEF t
<1>9. t \in Seq(Nat) /\ Len(t) = b
  BY <1>4, <1>7, <1>8 DEF IsConcat, M
<1>10. ASSUME NEW j \in 1 .. b PROVE t[j] = name[j]
  <2>1. CASE j <= a + 1
    <3>1. j \in 1 .. a + 1
      BY <2>1
    <3>2. Len(ps) = a + 1 /\ ps[j] = name[j]
      BY <1>7, <3>1
    <3>3. t[j] = ps[j]
      BY <1>8, <3>1, <3>2 DEF IsConcat
    <3>. QED BY <3>2, <3>3
  <2>2. CASE ~ (j <= a + 1)
    <3> DEFINE k == j - (a + 1)
    <3>1. k \in 1 .. M /\ j = a + 1 + k
      BY <1>1, <2>2 DEF M
    <3>. HIDE DEF k
    <3>2. t[a + 1 + k] = r[k]
      BY <1>4, <1>7, <1>8, <3>1 DEF IsConcat
    <3>. QED BY <1>4, <3>1, <3>2
  <2>. QED BY <2>1, <2>2
<1>11. t = whole
  <2>1. t \in [1 .. b -> Nat] /\ whole \in [1 .. b -> Nat]
    BY <1>3, <1>9, LenProperties
  <2>2. \A j \in 1 .. b : t[j] = whole[j]
    BY <1>3, <1>10
  <2>. QED BY <2>1, <2>2
<1>. QED BY <1>11 DEF t, ps, whole

\* The labels of a name, joined by dots, are the name before place e - 1.
LEMMA JoinedIs ==
  ASSUME NEW name \in Text, Dot \in Nat, NEW c, NEW labels, NEW e, Cut(c, labels, name, 1, e),
         Len(labels) # 0
  PROVE  Wr!Joined(labels) = SubSeq(name, 1, e - 2)
<1> DEFINE N == Len(labels)
<1>1. N \in Nat /\ N # 0 /\ labels \in Seq(Seq(Nat)) /\ name \in Seq(Nat) /\ Len(name) \in Nat
  BY LenProperties, TextIsNat DEF Cut, Text
<1>2. PICK J : JoinRuns(J, labels)
  BY <1>1, JoinRecursion
<1>3. J[0] = <<>> /\ Wr!Joined(labels) = J[N]
  BY <1>2 DEF JoinRuns
<1>4. c \in [1 .. N + 1 -> Nat \ {0}] /\ c[1] = 1 /\ c[N + 1] = e
  BY DEF Cut
<1> DEFINE Up(k) == J[k] = SubSeq(name, 1, c[k + 1] - 2)
           Bad == {k \in Nat : k \in 1 .. N /\ ~ Up(k)}
<1>5. ASSUME NEW k \in 1 .. N
      PROVE  /\ J[k] = J[k - 1] \o (IF k > 1 THEN <<Dot>> ELSE <<>>) \o labels[k]
             /\ labels[k] = SubSeq(name, c[k], c[k + 1] - 2)
             /\ Begins(name, c[k]) /\ c[k] + 1 < c[k + 1] /\ c[k + 1] <= Len(name) + 2
             /\ c[k] \in Nat \ {0} /\ c[k + 1] \in Nat
  <2>1. k \in 1 .. N + 1 /\ k + 1 \in 1 .. N + 1
    BY <1>1
  <2>2. c[k] \in Nat \ {0} /\ c[k + 1] \in Nat
    BY <1>4, <2>1
  <2>3. J[k] = J[k - 1] \o (IF k > 1 THEN <<Dot>> ELSE <<>>) \o labels[k]
    BY <1>2, Zenon DEF JoinRuns
  <2>4. /\ labels[k] = SubSeq(name, c[k], c[k + 1] - 2)
        /\ Begins(name, c[k]) /\ c[k] + 1 < c[k + 1] /\ c[k + 1] <= Len(name) + 2
    BY Zenon DEF Cut
  <2>. QED BY <2>2, <2>3, <2>4
<1>6. ASSUME NEW k \in 1 .. N, k > 1, Up(k - 1) PROVE Up(k)
  <2> DEFINE a == c[k] - 2
             b == c[k + 1] - 2
  <2>1. c[k] # 1
    <3>1. k - 1 \in 1 .. N /\ (k - 1) + 1 = k
      BY <1>1, <1>6
    <3>2. c[k - 1] + 1 < c[(k - 1) + 1] /\ c[k - 1] \in Nat \ {0}
      BY <1>5, <3>1
    <3>3. c[k - 1] + 1 < c[k] /\ c[k] \in Nat
      BY <1>5, <3>1, <3>2
    <3>. QED BY <3>2, <3>3
  <2>2. /\ a \in Nat /\ b \in Nat /\ a + 1 <= b /\ b <= Len(name)
        /\ c[k] = a + 2 /\ c[k] - 1 = a + 1
    <3> DEFINE u == c[k]
               v == c[k + 1]
    <3>1. u \in Nat \ {0} /\ v \in Nat /\ u + 1 < v /\ v <= Len(name) + 2 /\ u # 1
      BY <1>5, <2>1
    <3>2. a = u - 2 /\ b = v - 2
      OBVIOUS
    <3>. HIDE DEF u, v, a, b
    <3>3. /\ a \in Nat /\ b \in Nat /\ a + 1 <= b /\ b <= Len(name)
          /\ u = a + 2 /\ u - 1 = a + 1
      BY <1>1, <3>1, <3>2
    <3>. QED BY <3>3 DEF u
  <2>3. name[a + 1] = Dot
    BY <1>5, <2>1, <2>2 DEF Begins
  <2>4. J[k - 1] = SubSeq(name, 1, a)
    <3>1. (k - 1) + 1 = k
      BY <1>1
    <3>. QED BY <1>6, <3>1
  <2>5. labels[k] = SubSeq(name, a + 2, b)
    BY <1>5, <2>2
  <2>6. J[k] = (J[k - 1] \o <<Dot>>) \o labels[k]
    BY <1>5, <1>6
  <2>7. J[k] = SubSeq(name, 1, b)
    <3>. HIDE DEF a, b
    <3> DEFINE p == J[k - 1]
               s == <<Dot>>
               r == labels[k]
    <3>1. p = SubSeq(name, 1, a) /\ s = <<name[a + 1]>> /\ r = SubSeq(name, a + 2, b)
      BY <2>3, <2>4, <2>5
    <3>2. (p \o s) \o r = SubSeq(name, 1, b)
      <4>1. /\ name \in Seq(Nat) /\ a \in Nat /\ b \in Nat /\ a + 1 <= b /\ b <= Len(name)
            /\ p = SubSeq(name, 1, a) /\ s = <<name[a + 1]>> /\ r = SubSeq(name, a + 2, b)
        BY <1>1, <2>2, <3>1
      <4>. HIDE DEF p, s, r, N, Up, Bad
      <4>. QED BY <4>1, Glue, SMTT(20)
    <3>. QED BY <2>6, <3>2
  <2>. QED BY <2>7
<1>7. Up(1)
  <2>0. ASSUME NEW k \in 1 .. N, k = 1
        PROVE  J[1] = J[0] \o <<>> \o labels[1] /\ labels[1] = SubSeq(name, 1, c[2] - 2)
    <3>1. /\ J[k] = J[k - 1] \o (IF k > 1 THEN <<Dot>> ELSE <<>>) \o labels[k]
          /\ labels[k] = SubSeq(name, c[k], c[k + 1] - 2)
      BY <1>5
    <3>2. k - 1 = 0 /\ k + 1 = 2 /\ ~ (k > 1)
      BY <2>0
    <3>3. c[k] = 1
      BY <1>4, <2>0
    <3>. QED BY <2>0, <3>1, <3>2, <3>3
  <2>1. 1 \in 1 .. N
    BY <1>1
  <2>2. J[1] = J[0] \o <<>> \o labels[1] /\ labels[1] = SubSeq(name, 1, c[2] - 2)
    <3>. HIDE DEF N
    <3>. QED BY <2>0, <2>1, Zenon
  <2>4. labels[1] \in Seq(Nat)
    BY <1>1, ElementOfSeq
  <2>3. \A s \in Seq(Nat) : <<>> \o <<>> \o s = s
    OBVIOUS
  <2>. QED BY <1>3, <2>2, <2>3, <2>4
<1>8. Bad = {}
  <2>1. SUFFICES ASSUME Bad # {} PROVE FALSE
    OBVIOUS
  <2>2. PICK k \in Bad : \A s \in Bad : k <= s
    BY <2>1, LeastNat
  <2>3. k \in 1 .. N /\ ~ Up(k)
    BY <2>2
  <2>4. k # 1
    <3>. HIDE DEF Up
    <3>. QED BY <1>7, <2>3
  <2>5. k > 1 /\ k - 1 \in 1 .. N /\ k - 1 \in Nat /\ k - 1 < k
    BY <1>1, <2>3, <2>4
  <2>6. ~ Up(k - 1)
    <3>. HIDE DEF Up, N
    <3>. QED BY <1>6, <2>3, <2>5
  <2>7. k - 1 \in Bad
    <3>. HIDE DEF Up, N
    <3>. QED BY <2>5, <2>6
  <2>. HIDE DEF Bad
  <2>. QED BY <2>2, <2>3, <2>5, <2>7
<1>9. N \in 1 .. N /\ N \in Nat
  BY <1>1
<1>10. Up(N)
  <2>. HIDE DEF Up, N
  <2>. QED BY <1>8, <1>9
<1>. QED BY <1>3, <1>4, <1>10

\* The labels of a question make up the name, with or without a dot at the end.
Spelled(name, q) ==
  name \in {Wr!Joined(Wr!ReadLabels(q)), Append(Wr!Joined(Wr!ReadLabels(q)), Dot)}

\* A question fits behind the header and ends with its type and class.
Fits(q) ==
  /\ 12 + Len(q) <= QueryMax
  /\ SubSeq(q, Len(q) - 4, Len(q)) = <<0, 0, 1, 0, 1>>

\* What QueriesAreRead says of a name and its question.
ReadsAs(name, q) == Fits(q) /\ (Wr!ShortLabels(name) => Spelled(name, q))

LEMMA QuestionFits ==
  ASSUME NEW name \in Text, Dot \in Nat, QueryMax \in Nat, QueryMax >= 17,
         Proper(name), Wr!Question(name) # <<>>
  PROVE  Fits(Wr!Question(name))
<1> DEFINE q == Wr!Question(name)
           N == Len(name)
<1>1. N \in Nat
  BY LenProperties, TextIsNat DEF Text
<1>2. PICK made, e : Asks(q, made, name, e)
  BY QuestionIs
<1>. HIDE DEF q
<1>3. /\ e \in {N + 1, N + 2} /\ e \in Nat \ {0}
      /\ Len(made) = e - 1 /\ 12 + Len(made) + 5 <= QueryMax
  BY <1>1, <1>2 DEF Asks
<1>4. Len(q) = e + 4 /\ SubSeq(q, Len(q) - 4, Len(q)) = <<0, 0, 1, 0, 1>>
  BY <1>2, <1>3, AsksAt
<1>5. 12 + Len(q) <= QueryMax
  BY <1>3, <1>4
<1>. QED BY <1>4, <1>5 DEF Fits, q

\* The question for a name of short labels is read as that name.
LEMMA QuestionIsSpelled ==
  ASSUME NEW name \in Text, Proper(name), Wr!ShortLabels(name), Dot \in Nat, QueryMax \in Nat,
         QueryMax >= 17, Wr!Question(name) # <<>>
  PROVE  Spelled(name, Wr!Question(name))
<1> DEFINE q == Wr!Question(name)
           N == Len(name)
           labels == Wr!ReadLabels(q)
           whole == Wr!Joined(labels)
<1>1. N \in Nat /\ name \in Seq(Nat)
  BY LenProperties, TextIsNat DEF Text
<1>2. PICK made, e : Asks(q, made, name, e)
  BY QuestionIs
<1>. HIDE DEF q
<1>3. /\ e \in {N + 1, N + 2} /\ (e = N + 1 => Begins(name, e)) /\ e \in Nat \ {0}
      /\ e = N + 2 => ~ Begins(name, e - 1)
  BY <1>1, <1>2 DEF Asks
<1>6. PICK c : Cut(c, labels, name, 1, e)
  BY <1>2, <1>3, ReadIs, Zenon
<1>. HIDE DEF labels
<1>7. labels \in Seq(Seq(Nat)) /\ Len(labels) \in Nat /\ c[1] = 1 /\ c[Len(labels) + 1] = e
  BY <1>6, LenProperties DEF Cut
<1>8. CASE Len(labels) = 0
  <2>1. e = 1
    BY <1>7, <1>8
  <2>2. N = 0
    BY <1>1, <1>3, <2>1
  <2>3. whole = <<>>
    <3>1. PICK J : JoinRuns(J, labels)
      BY <1>7, JoinRecursion
    <3>. QED BY <1>8, <3>1 DEF JoinRuns
  <2>4. name = <<>>
    BY <1>1, <2>2
  <2>5. name = whole
    BY <2>3, <2>4
  <2>. QED BY <2>5 DEF Spelled, q, labels
<1>9. CASE Len(labels) # 0
  <2>1. whole = SubSeq(name, 1, e - 2)
    BY <1>6, <1>9, JoinedIs, Zenon
  <2>2. CASE e = N + 2
    <3>1. e - 2 = N
      BY <1>1, <2>2
    <3>2. SubSeq(name, 1, N) = name
      BY <1>1
    <3>. QED BY <2>1, <3>1, <3>2 DEF Spelled, q, labels
  <2>3. CASE e = N + 1
    <3>1. e # 1
      <4>1. 1 \in 1 .. Len(labels) /\ \A k \in 1 .. Len(labels) : c[k] < c[k + 1]
        <5>1. c \in [1 .. Len(labels) + 1 -> Nat \ {0}]
          BY <1>6 DEF Cut
        <5>2. ASSUME NEW k \in 1 .. Len(labels) PROVE c[k] < c[k + 1]
          <6>0. k \in 1 .. Len(labels) + 1 /\ k + 1 \in 1 .. Len(labels) + 1
            BY <1>7
          <6>1. c[k] \in Nat /\ c[k + 1] \in Nat
            BY <5>1, <6>0
          <6>2. c[k] + 1 < c[k + 1]
            BY <1>6, Zenon DEF Cut
          <6>. QED BY <6>1, <6>2
        <5>. QED BY <1>7, <1>9, <5>2
      <4>2. \A k \in 1 .. Len(labels) : c[k + 1] <= Len(name) + 2 /\ Begins(name, c[k])
        BY <1>6, Zenon DEF Cut
      <4> DEFINE K == Len(labels)
      <4>3. c[K] < e /\ c[K] \in Nat \ {0}
        <5>1. K \in 1 .. K /\ c[K + 1] = e
          BY <1>7, <1>9
        <5>2. K \in 1 .. Len(labels) + 1 /\ c \in [1 .. Len(labels) + 1 -> Nat \ {0}]
          BY <1>6, <1>7, <1>9 DEF Cut
        <5>. QED BY <4>1, <5>1, <5>2
      <4>. QED BY <1>3, <4>3
    <3>2. N # 0 /\ e - 1 = N /\ e - 2 = N - 1 /\ N - 1 \in Nat
      BY <1>1, <1>3, <2>3, <3>1
    <3>3. name[N] = Dot
      BY <1>3, <2>3, <3>1, <3>2 DEF Begins
    <3> DEFINE short == SubSeq(name, 1, N - 1)
    <3>4. short \in Seq(Nat) /\ Len(short) = N - 1 /\ \A j \in 1 .. N - 1 : short[j] = name[j]
      <4>1. \A j \in 1 .. N - 1 : name[j] \in Nat
        BY <1>1, ElementOfSeq, <3>2
      <4>2. /\ short \in Seq(Nat) /\ Len(short) = IF 1 <= N - 1 THEN N - 1 - 1 + 1 ELSE 0
            /\ \A j \in 1 .. N - 1 - 1 + 1 : short[j] = name[1 + j - 1]
        BY <1>1, <4>1, SubSeqProperties
      <4>3. N - 1 - 1 + 1 = N - 1
        BY <1>1
      <4>4. \A j \in 1 .. N - 1 : 1 + j - 1 = j
        BY <1>1
      <4>5. Len(short) = N - 1
        BY <1>1, <3>2, <4>2, <4>3
      <4>. HIDE DEF short
      <4>. QED BY <4>2, <4>3, <4>4, <4>5
    <3>. HIDE DEF short
    <3> DEFINE t == Append(short, Dot)
    <3>5. t \in Seq(Nat) /\ Len(t) = N /\ t[N] = Dot /\ \A j \in 1 .. N - 1 : t[j] = name[j]
      <4>1. /\ t \in Seq(Nat) /\ Len(t) = Len(short) + 1
            /\ \A j \in 1 .. Len(short) : t[j] = short[j]
            /\ t[Len(short) + 1] = Dot
        BY <3>4, AppendProperties
      <4>2. Len(short) + 1 = N
        BY <1>1, <3>4
      <4>. HIDE DEF t
      <4>. QED BY <3>4, <4>1, <4>2
    <3>. HIDE DEF t
    <3>6. t = name
      <4>1. \A j \in 1 .. N : t[j] = name[j]
        <5>1. ASSUME NEW j \in 1 .. N PROVE t[j] = name[j]
          <6>1. j = N \/ j \in 1 .. N - 1
            BY <1>1
          <6>. QED BY <3>3, <3>5, <6>1
        <5>. QED BY <5>1
      <4>. QED BY <1>1, <3>5, <4>1, SeqEqual
    <3>7. name = Append(whole, Dot)
      BY <2>1, <3>2, <3>6 DEF t, short
    <3>. QED BY <3>7 DEF Spelled, q, labels
  <2>. QED BY <1>3, <2>2, <2>3
<1>. QED BY <1>7, <1>8, <1>9

LEMMA QuestionIsRead ==
  ASSUME NEW name \in Text, Proper(name), Dot \in Nat, QueryMax \in Nat, QueryMax >= 17,
         Wr!Question(name) # <<>>
  PROVE  ReadsAs(name, Wr!Question(name))
<1>1. Fits(Wr!Question(name))
  BY QuestionFits
<1>2. ASSUME Wr!ShortLabels(name) PROVE Spelled(name, Wr!Question(name))
  BY <1>2, QuestionIsSpelled
<1>. QED BY <1>1, <1>2 DEF ReadsAs

-----------------------------------------------------------------------------
(* Answers.                                                                *)

\* The labels stand in the bytes b, one behind the other, then a zero byte.
LabelsLie(starts, labels, b) ==
  /\ b \in Seq(Nat) /\ starts \in [1 .. Len(labels) + 1 -> Nat \ {0}] /\ starts[1] = 1
  /\ Len(b) = starts[Len(labels) + 1] /\ b[Len(b)] = 0
  /\ \A k \in 1 .. Len(labels) :
       /\ b[starts[k]] \in Nat /\ 1 <= b[starts[k]] /\ b[starts[k]] <= 63
       /\ starts[k + 1] = starts[k] + 1 + b[starts[k]] /\ starts[k + 1] <= Len(b)

LEMMA OneLabel ==
  ASSUME NEW l \in Wr!Label
  PROVE  /\ <<Len(l)>> \o l \in Seq(Nat) /\ Len(<<Len(l)>> \o l) = 1 + Len(l)
         /\ (<<Len(l)>> \o l)[1] = Len(l)
         /\ Len(l) \in Nat /\ 1 <= Len(l) /\ Len(l) <= 63
<1> DEFINE n1 == Len(l)
           one == <<n1>>
           t == one \o l
<1>1. l \in Text /\ n1 \in 1 .. 63
  BY DEF Wr!Label, Text
<1>2. l \in Seq(Nat)
  BY <1>1, TextIsNat
<1>3. n1 \in Nat /\ 1 <= n1 /\ n1 <= 63
  <2>. HIDE DEF n1
  <2>. QED BY <1>1
<1>. HIDE DEF n1
<1>4. one \in Seq(Nat) /\ Len(one) = 1 /\ one[1] = n1
  BY <1>3
<1>. HIDE DEF one
<1>5. IsConcat(t, one, l, Nat)
  BY <1>2, <1>4, ConcatIs, Zenon
<1>. HIDE DEF t
<1>6. t \in Seq(Nat) /\ Len(t) = 1 + n1 /\ t[1] = n1
  BY <1>3, <1>4, <1>5 DEF IsConcat, n1
<1>. QED BY <1>3, <1>6 DEF t, one, n1

LEMMA LabelsStand ==
  ASSUME NEW labels \in Seq(Wr!Label)
  PROVE  \E starts : LabelsLie(starts, labels, Wr!LabelBytes(labels))
<1> DEFINE N == Len(labels)
           bytes(l) == <<Len(l)>> \o l
           seqs == [k \in DOMAIN labels |-> bytes(labels[k])]
           flat == Wr!FlattenSeq(seqs)
           b == Wr!LabelBytes(labels)
           zero == <<0>>
<1>1. N \in Nat /\ DOMAIN labels = 1 .. N
  BY LenProperties
<1>2. ASSUME NEW k \in 1 .. N
      PROVE  /\ seqs[k] \in Seq(Nat) /\ Len(seqs[k]) = 1 + seqs[k][1]
             /\ seqs[k][1] \in Nat /\ 1 <= seqs[k][1] /\ seqs[k][1] <= 63
  <2>1. labels[k] \in Wr!Label
    BY ElementOfSeq
  <2> DEFINE s == bytes(labels[k])
  <2>2. s \in Seq(Nat) /\ Len(s) = 1 + s[1] /\ s[1] \in Nat /\ 1 <= s[1] /\ s[1] <= 63
    <3>1. /\ bytes(labels[k]) \in Seq(Nat) /\ Len(bytes(labels[k])) = 1 + Len(labels[k])
          /\ bytes(labels[k])[1] = Len(labels[k])
          /\ Len(labels[k]) \in Nat /\ 1 <= Len(labels[k]) /\ Len(labels[k]) <= 63
      BY <2>1, OneLabel, Zenon
    <3> DEFINE h == Len(labels[k])
    <3>. HIDE DEF bytes, h
    <3>2. s \in Seq(Nat) /\ Len(s) = 1 + h /\ s[1] = h /\ h \in Nat /\ 1 <= h /\ h <= 63
      BY <3>1 DEF h
    <3>. HIDE DEF s
    <3>. QED BY <3>2
  <2>3. seqs[k] = s
    <3>. HIDE DEF bytes
    <3>. QED BY <1>1
  <2>. HIDE DEF seqs, s
  <2>. QED BY <2>2, <2>3
<1>3. seqs = [k \in 1 .. N |-> seqs[k]]
  <2>. HIDE DEF bytes
  <2>. QED BY <1>1
<1>4. b = flat \o zero
  BY DEF Wr!LabelBytes
<1>. HIDE DEF seqs
<1>5. seqs \in Seq(Seq(Nat)) /\ Len(seqs) = N
  <2>1. \A k \in 1 .. N : seqs[k] \in Seq(Nat)
    BY <1>2
  <2>2. seqs \in Seq(Seq(Nat))
    BY <1>1, <1>3, <2>1, IsASeq
  <2>3. DOMAIN seqs = 1 .. N
    BY <1>3
  <2>. QED BY <2>2, <2>3, <1>1, LenProperties
<1>6. flat \in Seq(Nat) /\ \E starts : Starts(starts, seqs, flat)
  BY <1>5, Flattened, Zenon
<1>7. PICK starts : Starts(starts, seqs, flat)
  BY <1>6
<1>. HIDE DEF flat, b, zero
<1>8. /\ starts \in [1 .. N + 1 -> Nat \ {0}]
      /\ starts[1] = 1 /\ starts[N + 1] = Len(flat) + 1
  BY <1>5, <1>7 DEF Starts
<1>9. zero \in Seq(Nat) /\ Len(zero) = 1 /\ zero[1] = 0
  BY DEF zero
<1>10. IsConcat(b, flat, zero, Nat)
  <2>1. IsConcat(flat \o zero, flat, zero, Nat)
    BY <1>6, <1>9, ConcatIs, Zenon
  <2>. QED BY <1>4, <2>1
<1>11. b \in Seq(Nat) /\ Len(b) = Len(flat) + 1 /\ Len(flat) \in Nat /\ b[Len(b)] = 0
  BY <1>9, <1>10 DEF IsConcat
<1>12. ASSUME NEW k \in 1 .. N
       PROVE  /\ b[starts[k]] \in Nat /\ 1 <= b[starts[k]] /\ b[starts[k]] <= 63
              /\ starts[k + 1] = starts[k] + 1 + b[starts[k]] /\ starts[k + 1] <= Len(b)
  <2> DEFINE s == seqs[k]
             i == starts[k]
             after == starts[k + 1]
  <2>1. after = i + Len(s) /\ after <= Len(flat) + 1
    BY <1>5, <1>7 DEF Starts
  <2>2. \A j \in 1 .. Len(s) : flat[i - 1 + j] = s[j]
    BY <1>5, <1>7 DEF Starts
  <2>3. s \in Seq(Nat) /\ Len(s) = 1 + s[1] /\ s[1] \in Nat /\ 1 <= s[1] /\ s[1] <= 63
    BY <1>2
  <2>4. i \in Nat \ {0}
    <3>1. k \in 1 .. N + 1
      BY <1>1
    <3>. QED BY <3>1, <1>8
  <2>. HIDE DEF s, i, after
  <2>5. flat[i] = s[1] /\ i <= Len(flat)
    <3>1. 1 \in 1 .. Len(s) /\ i - 1 + 1 = i
      BY <2>3, <2>4
    <3>2. flat[i] = s[1]
      BY <2>2, <3>1
    <3>3. i <= Len(flat)
      <4> DEFINE x == Len(flat)
                 y == Len(s)
                 z == s[1]
      <4>1. x \in Nat /\ z \in Nat /\ y = 1 + z /\ after = i + y /\ after <= x + 1
        BY <1>11, <2>1, <2>3
      <4>. HIDE DEF x, y, z
      <4>2. i <= x
        BY <2>4, <4>1
      <4>. QED BY <4>2 DEF x
    <3>. QED BY <3>2, <3>3
  <2>6. b[i] = flat[i]
    BY <1>10, <1>11, <2>4, <2>5 DEF IsConcat
  <2>7. /\ b[i] \in Nat /\ 1 <= b[i] /\ b[i] <= 63 /\ after = i + 1 + b[i] /\ after <= Len(b)
    <3> DEFINE x == Len(flat)
               y == Len(s)
               z == b[i]
               w == Len(b)
    <3>1. /\ x \in Nat /\ z \in Nat /\ 1 <= z /\ z <= 63 /\ y = 1 + z /\ after = i + y
          /\ after <= x + 1 /\ w = x + 1
      BY <1>11, <2>1, <2>3, <2>5, <2>6
    <3>. HIDE DEF x, y, z, w
    <3>2. z \in Nat /\ 1 <= z /\ z <= 63 /\ after = i + 1 + z /\ after <= w
      BY <2>4, <3>1
    <3>. QED BY <3>2 DEF z, w
  <2>. QED BY <2>7 DEF i, after
<1>13. LabelsLie(starts, labels, b)
  BY <1>8, <1>11, <1>12, Zenon DEF LabelsLie
<1>. QED BY <1>13 DEF b

\* T goes over labels from every place to the end of their run, or further.
SkipRuns(T, m, ends, val) ==
  \A q \in Nat \ {0} : T[q] = IF q \in ends THEN val[q] ELSE T[q + 1 + m[q]]

LEMMA SkipRecursion ==
  ASSUME NEW m \in Seq(Nat), NEW ends, NEW val \in [Nat \ {0} -> Nat],
         \A q \in Nat \ {0} : q > Len(m) => q \in ends
  PROVE  \E F \in [Nat \ {0} -> Nat] : SkipRuns(F, m, ends, val)
<1> DEFINE D == Nat \ {0}
           V == Nat
           L == Len(m)
           rank == [q \in D |-> IF q > L THEN 0 ELSE L + 1 - q]
           next == [q \in D |-> IF q \in ends THEN q ELSE q + 1 + m[q]]
           step == [x \in D \X V |-> x[2]]
<1>1. L \in Nat /\ \A q \in 1 .. L : m[q] \in Nat
  BY LenProperties, ElementOfSeq
<1>2. ASSUME NEW q \in D, q \notin ends PROVE q <= L /\ m[q] \in Nat /\ q + 1 + m[q] \in D
  <2>1. q <= L
    BY <1>1, <1>2
  <2>2. m[q] \in Nat
    BY <1>1, <2>1
  <2> DEFINE b == m[q]
  <2>3. b \in Nat
    BY <2>2
  <2>. HIDE DEF b
  <2>4. q + 1 + b \in D
    BY <2>3
  <2>. QED BY <2>1, <2>2, <2>4 DEF b
<1>3. rank \in [D -> Nat] /\ next \in [D -> D] /\ step \in [D \X V -> V]
  <2>1. rank \in [D -> Nat]
    BY <1>1
  <2>2. next \in [D -> D]
    BY <1>2
  <2>3. step \in [D \X V -> V]
    OBVIOUS
  <2>. QED BY <2>1, <2>2, <2>3
<1>4. ASSUME NEW q \in D, q \notin ends PROVE rank[next[q]] < rank[q]
  <2> DEFINE b == m[q]
             j == q + 1 + b
  <2>1. q <= L /\ b \in Nat /\ j \in D /\ next[q] = j
    BY <1>2, <1>4
  <2>2. j > q
    <3>. HIDE DEF b
    <3>. QED BY <2>1
  <2>3. rank[q] = L + 1 - q /\ rank[j] = IF j > L THEN 0 ELSE L + 1 - j
    <3>. HIDE DEF j
    <3>. QED BY <1>1, <2>1
  <2>4. rank[j] < rank[q]
    <3>. HIDE DEF j, rank, L
    <3>. QED BY <1>1, <2>1, <2>2, <2>3
  <2>. QED BY <2>1, <2>4
<1>5. PICK F : Recursive(F, D, V, ends, val, next, step)
  <2>. HIDE DEF D, V, rank, next, step
  <2>1. val \in [D -> V]
    BY DEF D, V
  <2>. QED BY <1>3, <1>4, <2>1, Recursion, Zenon
<1>6. F \in [D -> V] /\ \A x \in D : F[x] = IF x \in ends THEN val[x] ELSE step[<<x, F[next[x]]>>]
  <2>. HIDE DEF D, V, next, step
  <2>. QED BY <1>5, Zenon DEF Recursive
<1>7. ASSUME NEW q \in D PROVE F[q] = IF q \in ends THEN val[q] ELSE F[q + 1 + m[q]]
  <2>1. CASE q \in ends
    <3>. HIDE DEF next, step
    <3>. QED BY <1>6, <2>1
  <2>2. CASE q \notin ends
    <3>1. next[q] = q + 1 + m[q] /\ next[q] \in D
      BY <1>2, <2>2
    <3>2. F[next[q]] \in V
      <4>. HIDE DEF V, D, next
      <4>. QED BY <1>6, <3>1
    <3>3. F[q] = step[<<q, F[next[q]]>>]
      <4>. HIDE DEF V, D, next, step
      <4>. QED BY <1>6, <2>2
    <3>4. step[<<q, F[next[q]]>>] = F[next[q]]
      <4>. HIDE DEF V, D, next
      <4>. QED BY <3>2
    <3>. HIDE DEF step, next
    <3>. QED BY <2>2, <3>1, <3>3, <3>4
  <2>. QED BY <2>1, <2>2
<1>. QED BY <1>6, <1>7 DEF SkipRuns

LEMMA SkipsGrow ==
  ASSUME NEW m \in Seq(Nat), NEW ends, NEW val \in [Nat \ {0} -> Nat],
         \A q \in Nat \ {0} : (q > Len(m) => q \in ends) /\ val[q] >= q,
         NEW T, SkipRuns(T, m, ends, val)
  PROVE  \A q \in Nat \ {0} : T[q] \in Nat /\ T[q] >= q
<1> DEFINE L == Len(m)
           Good(q) == T[q] \in Nat /\ T[q] >= q
           Bad == {r \in Nat : \E q \in Nat \ {0} : q <= L /\ r = L - q /\ ~ Good(q)}
<1>1. L \in Nat /\ \A q \in 1 .. L : m[q] \in Nat
  BY LenProperties, ElementOfSeq
<1>2. ASSUME NEW q \in Nat \ {0}, q \in ends PROVE Good(q)
  <2>1. T[q] = val[q]
    BY <1>2, Zenon DEF SkipRuns
  <2>2. val[q] \in Nat /\ val[q] >= q
    OBVIOUS
  <2>. QED BY <2>1, <2>2
<1>3. ASSUME Bad # {} PROVE FALSE
  <2>1. PICK r \in Bad : \A s \in Bad : r <= s
    BY <1>3, LeastNat
  <2>2. PICK q \in Nat \ {0} : q <= L /\ r = L - q /\ ~ Good(q)
    BY <2>1
  <2>. HIDE DEF Good
  <2>3. q \notin ends
    BY <1>2, <2>2
  <2>4. T[q] = T[q + 1 + m[q]]
    BY <2>3, Zenon DEF SkipRuns
  <2> DEFINE b == m[q]
             j == q + 1 + b
  <2>5. b \in Nat
    BY <1>1, <2>2
  <2>. HIDE DEF b
  <2>6. j \in Nat \ {0} /\ j > q
    BY <2>5
  <2>7. ~ Good(j)
    <3>1. T[q] = T[j]
      BY <2>4 DEF b
    <3>. HIDE DEF j
    <3>2. ASSUME Good(j) PROVE FALSE
      <4> DEFINE u == T[j]
      <4>1. u \in Nat /\ u >= j /\ T[q] = u
        BY <3>1, <3>2 DEF Good
      <4>. HIDE DEF u
      <4>2. u >= q
        BY <2>6, <4>1
      <4>3. Good(q)
        BY <4>1, <4>2 DEF Good
      <4>. QED BY <2>2, <4>3
    <3>. QED BY <3>2
  <2>. HIDE DEF j
  <2>8. j <= L
    BY <1>1, <1>2, <2>6, <2>7
  <2>9. L - j \in Nat /\ L - j < r /\ r \in Nat
    BY <1>1, <2>2, <2>6, <2>8
  <2>10. L - j \in Bad
    BY <2>6, <2>7, <2>8, <2>9
  <2>. HIDE DEF Bad
  <2>11. r <= L - j
    BY <2>1, <2>10
  <2>. QED BY <2>9, <2>11
<1>4. ASSUME NEW q \in Nat \ {0} PROVE Good(q)
  <2>1. CASE q > L
    <3>. HIDE DEF Good
    <3>. QED BY <1>2, <2>1
  <2>2. CASE q <= L
    <3>1. L - q \in Nat
      BY <1>1, <2>2
    <3>. HIDE DEF Good
    <3>. QED BY <1>3, <2>2, <3>1
  <2>. QED BY <1>1, <2>1, <2>2
<1>. QED BY <1>4

\* What both walks over labels have in common: they end behind a zero byte,
\* or where the message does, and go on from one label to the next.
Skips(T, m, more) ==
  \A q \in Nat \ {0} :
    /\ T[q] \in Nat /\ T[q] >= q
    /\ q > Len(m) \/ m[q] = 0 => T[q] = q + more
    /\ q <= Len(m) /\ 1 <= m[q] /\ m[q] <= 63 => T[q] = T[q + 1 + m[q]]

LEMMA LabelsEndSkips ==
  ASSUME NEW m \in Seq(Nat)
  PROVE  \E T : Skips(T, m, 0) /\ \A p \in Nat \ {0} : Wr!LabelsEnd(m, p) = T[p]
<1> DEFINE D == Nat \ {0}
           ends == {q \in D : q > Len(m) \/ m[q] = 0}
           val == [q \in D |-> q]
           IsEnd(f) == f = [q \in D |-> IF q > Len(m) \/ m[q] = 0 THEN q ELSE f[q + 1 + m[q]]]
           T == CHOOSE f : IsEnd(f)
<1>1. Len(m) \in Nat /\ \A q \in 1 .. Len(m) : m[q] \in Nat
  BY LenProperties, ElementOfSeq
<1>2. val \in [D -> Nat] /\ \A q \in D : (q > Len(m) => q \in ends) /\ val[q] >= q
  OBVIOUS
<1>3. PICK F \in [D -> Nat] : SkipRuns(F, m, ends, val)
  <2>. HIDE DEF ends, val
  <2>. QED BY <1>2, SkipRecursion
<1>4. \A q \in D : F[q] = IF q \in ends THEN val[q] ELSE F[q + 1 + m[q]]
  <2>. HIDE DEF ends, val
  <2>. QED BY <1>3, Zenon DEF SkipRuns
<1>5. IsEnd(F)
  <2>1. F = [q \in D |-> F[q]]
    OBVIOUS
  <2>2. ASSUME NEW q \in D PROVE F[q] = IF q > Len(m) \/ m[q] = 0 THEN q ELSE F[q + 1 + m[q]]
    <3>1. q \in ends <=> q > Len(m) \/ m[q] = 0
      OBVIOUS
    <3>2. val[q] = q
      OBVIOUS
    <3>. HIDE DEF ends, val
    <3>. QED BY <1>4, <3>1, <3>2
  <2>. QED BY <2>1, <2>2
<1>6. IsEnd(T)
  <2>. HIDE DEF IsEnd
  <2>. QED BY <1>5
<1>7. ASSUME NEW q \in D PROVE T[q] = IF q > Len(m) \/ m[q] = 0 THEN q ELSE T[q + 1 + m[q]]
  <2>. HIDE DEF T
  <2>. QED BY <1>6
<1>8. \A p \in D : Wr!LabelsEnd(m, p) = T[p]
  BY DEF Wr!LabelsEnd
<1>. HIDE DEF T
<1>9. SkipRuns(T, m, ends, val)
  <2>1. ASSUME NEW q \in D PROVE T[q] = IF q \in ends THEN val[q] ELSE T[q + 1 + m[q]]
    BY <1>7
  <2>. HIDE DEF ends, val
  <2>. QED BY <2>1 DEF SkipRuns
<1>10. \A q \in D : T[q] \in Nat /\ T[q] >= q
  <2>. HIDE DEF ends, val
  <2>. QED BY <1>2, <1>9, SkipsGrow
<1>11. ASSUME NEW q \in D
       PROVE  /\ q > Len(m) \/ m[q] = 0 => T[q] = q + 0
              /\ q <= Len(m) /\ 1 <= m[q] /\ m[q] <= 63 => T[q] = T[q + 1 + m[q]]
  <2>1. T[q] = IF q > Len(m) \/ m[q] = 0 THEN q ELSE T[q + 1 + m[q]]
    BY <1>7
  <2>2. q + 0 = q
    OBVIOUS
  <2>3. q <= Len(m) /\ 1 <= m[q] /\ m[q] <= 63 => ~ (q > Len(m) \/ m[q] = 0)
    BY <1>1
  <2>. QED BY <2>1, <2>2, <2>3, Zenon
<1>12. Skips(T, m, 0)
  BY <1>10, <1>11 DEF Skips
<1>. QED BY <1>8, <1>12

LEMMA QuestionEndSkips ==
  ASSUME NEW m \in Seq(Nat)
  PROVE  \E T : Skips(T, m, 5) /\ Wr!QuestionEnd(m) = T[1]
<1> DEFINE D == Nat \ {0}
           Stops(q) == q > Len(m) \/ m[q] = 0
           ends == {q \in D : Stops(q) \/ m[q] >= 192}
           val == [q \in D |-> IF Stops(q) THEN q + 5 ELSE q + 2]
           Out(f, q) == IF q > Len(m) \/ m[q] = 0 THEN q + 5
                        ELSE IF m[q] >= 192 THEN q + 2 ELSE f[q + 1 + m[q]]
           IsEnd(f) == f = [q \in D |-> Out(f, q)]
           T == CHOOSE f : IsEnd(f)
<1>1. Len(m) \in Nat /\ \A q \in 1 .. Len(m) : m[q] \in Nat
  BY LenProperties, ElementOfSeq
<1>2. val \in [D -> Nat] /\ \A q \in D : (q > Len(m) => q \in ends) /\ val[q] >= q
  OBVIOUS
<1>3. PICK F \in [D -> Nat] : SkipRuns(F, m, ends, val)
  <2>. HIDE DEF ends, val
  <2>. QED BY <1>2, SkipRecursion
<1>4. \A q \in D : F[q] = IF q \in ends THEN val[q] ELSE F[q + 1 + m[q]]
  <2>. HIDE DEF ends, val
  <2>. QED BY <1>3, Zenon DEF SkipRuns
<1>5. \A f : \A q \in D : Out(f, q) = IF q \in ends THEN val[q] ELSE f[q + 1 + m[q]]
  <2>1. ASSUME NEW f, NEW q \in D PROVE Out(f, q) = IF q \in ends THEN val[q] ELSE f[q + 1 + m[q]]
    <3>1. q \in ends <=> Stops(q) \/ m[q] >= 192
      OBVIOUS
    <3>2. val[q] = IF Stops(q) THEN q + 5 ELSE q + 2
      OBVIOUS
    <3>. HIDE DEF ends, val
    <3>. QED BY <3>1, <3>2
  <2>. QED BY <2>1
<1>6. IsEnd(F)
  <2>1. F = [q \in D |-> F[q]]
    OBVIOUS
  <2>. HIDE DEF ends, val, Out
  <2>. QED BY <1>4, <1>5, <2>1
<1>7. IsEnd(T)
  <2>. HIDE DEF IsEnd
  <2>. QED BY <1>6
<1>8. \A q \in D : T[q] = Out(T, q)
  <2>. HIDE DEF T, Out
  <2>. QED BY <1>7
<1>9. Wr!QuestionEnd(m) = T[1]
  BY DEF Wr!QuestionEnd, Wr!IsPointer
<1>. HIDE DEF T
<1>10. SkipRuns(T, m, ends, val)
  <2>. HIDE DEF ends, val, Out
  <2>. QED BY <1>5, <1>8 DEF SkipRuns
<1>11. \A q \in D : T[q] \in Nat /\ T[q] >= q
  <2>. HIDE DEF ends, val, Out
  <2>. QED BY <1>2, <1>10, SkipsGrow
<1>12. ASSUME NEW q \in D
       PROVE  /\ q > Len(m) \/ m[q] = 0 => T[q] = q + 5
              /\ q <= Len(m) /\ 1 <= m[q] /\ m[q] <= 63 => T[q] = T[q + 1 + m[q]]
  <2>1. T[q] = Out(T, q)
    <3>. HIDE DEF Out
    <3>. QED BY <1>8
  <2>2. q <= Len(m) /\ 1 <= m[q] /\ m[q] <= 63 => ~ (q > Len(m) \/ m[q] = 0) /\ ~ (m[q] >= 192)
    BY <1>1
  <2>. QED BY <2>1, <2>2, Zenon
<1>13. Skips(T, m, 5)
  BY <1>11, <1>12 DEF Skips
<1>. QED BY <1>9, <1>13

\* The bytes b stand in m from place p on, as far as m goes.
StandAt(m, p, b) ==
  \A j \in Nat : 1 <= j /\ j <= Len(b) /\ p + j - 1 <= Len(m) => m[p + j - 1] = b[j]

\* A walk over labels ends at the zero byte behind them, or outside of m.
SkipsTo(T, m, p, b, more) ==
  /\ T[p] \in Nat /\ Len(b) \in Nat \ {0}
  /\ p + Len(b) - 1 <= Len(m) => T[p] = p + Len(b) - 1 + more
  /\ p + Len(b) - 1 > Len(m) => T[p] > Len(m)

LEMMA LabelsSkipped ==
  ASSUME NEW m \in Seq(Nat), NEW labels \in Seq(Wr!Label), NEW starts, NEW b, LabelsLie(starts, labels, b),
         NEW p \in Nat \ {0}, StandAt(m, p, b), NEW more \in Nat, NEW T, Skips(T, m, more)
  PROVE  SkipsTo(T, m, p, b, more)
<1> DEFINE N == Len(labels)
           L == Len(m)
           B == Len(b)
           place == [k \in 1 .. N + 1 |-> p - 1 + starts[k]]
           G == [k \in 1 .. N + 1 |-> T[place[k]]]
           stop == {k \in 1 .. N + 1 : k = N + 1 \/ place[k] > L}
<1>1. N \in Nat /\ L \in Nat
  BY LenProperties
<1>2. /\ b \in Seq(Nat) /\ starts \in [1 .. N + 1 -> Nat \ {0}] /\ starts[1] = 1
      /\ B = starts[N + 1] /\ b[B] = 0
  BY DEF LabelsLie
<1>3. B \in Nat \ {0} /\ N + 1 \in 1 .. N + 1 /\ 1 \in 1 .. N + 1
  <2>1. N + 1 \in 1 .. N + 1 /\ 1 \in 1 .. N + 1
    BY <1>1
  <2>. HIDE DEF B
  <2>2. B \in Nat \ {0}
    BY <1>2, <2>1
  <2>. QED BY <2>1, <2>2
<1>4. ASSUME NEW k \in 1 .. N + 1
      PROVE  /\ starts[k] \in Nat \ {0} /\ starts[k] <= B
             /\ place[k] = p - 1 + starts[k] /\ place[k] \in Nat \ {0} /\ G[k] = T[place[k]]
  <2>1. starts[k] <= B
    <3>1. CASE k = N + 1
      BY <1>2, <1>3, <3>1
    <3>2. CASE k # N + 1
      <4>1. k \in 1 .. N /\ k + 1 \in 1 .. N + 1
        BY <1>1, <3>2
      <4>2. /\ b[starts[k]] \in Nat /\ starts[k + 1] = starts[k] + 1 + b[starts[k]]
            /\ starts[k + 1] <= B
        BY <4>1, Zenon DEF LabelsLie
      <4> DEFINE u == starts[k]
                 v == b[starts[k]]
      <4>3. u \in Nat /\ v \in Nat /\ u + 1 + v <= B
        BY <1>2, <4>1, <4>2
      <4>. HIDE DEF u, v, B
      <4>4. u <= B
        BY <1>3, <4>3
      <4>. QED BY <4>4 DEF u
    <3>. QED BY <3>1, <3>2
  <2>2. starts[k] \in Nat \ {0}
    BY <1>2
  <2>3. place[k] = p - 1 + starts[k] /\ G[k] = T[place[k]]
    OBVIOUS
  <2> DEFINE u == starts[k]
  <2>. HIDE DEF u, place, G
  <2>4. place[k] \in Nat \ {0}
    BY <2>2, <2>3 DEF u
  <2>. QED BY <2>1, <2>2, <2>3, <2>4
<1>5. ASSUME NEW k \in 1 .. N, k \notin stop PROVE G[k] = G[k + 1]
  <2>1. k \in 1 .. N + 1 /\ k + 1 \in 1 .. N + 1
    BY <1>1
  <2>2. ~ (place[k] > L)
    BY <1>5, <2>1
  <2> DEFINE u == starts[k]
             v == b[u]
             q == place[k]
  <2>3. v \in Nat /\ 1 <= v /\ v <= 63 /\ starts[k + 1] = u + 1 + v
    BY Zenon DEF LabelsLie
  <2>4. /\ u \in Nat \ {0} /\ u <= B /\ q = p - 1 + u /\ q \in Nat \ {0} /\ G[k] = T[q]
        /\ place[k + 1] = p - 1 + starts[k + 1] /\ G[k + 1] = T[place[k + 1]]
    <3>. HIDE DEF place, G
    <3>. QED BY <1>4, <2>1
  <2>. HIDE DEF u, v, q, place, G, stop
  <2>5. q <= L /\ q = p + u - 1 /\ 1 <= u
    <3>1. ~ (q > L)
      BY <2>2 DEF q
    <3>. QED BY <1>1, <2>4, <3>1
  <2>6. m[q] = v
    <3>1. m[p + u - 1] = b[u]
      BY <2>4, <2>5 DEF StandAt
    <3>. QED BY <2>5, <3>1 DEF v
  <2>7. T[q] = T[q + 1 + m[q]]
    BY <2>3, <2>4, <2>5, <2>6 DEF Skips
  <2>8. q + 1 + v = place[k + 1]
    <3>1. place[k + 1] = p - 1 + (u + 1 + v)
      BY <2>3, <2>4
    <3>2. u \in Nat /\ v \in Nat /\ q = p - 1 + u
      BY <2>3, <2>4
    <3>3. p - 1 + (u + 1 + v) = q + 1 + v
      BY <3>2
    <3>. QED BY <3>1, <3>3
  <2>9. T[q] = T[place[k + 1]]
    BY <2>6, <2>7, <2>8
  <2>. QED BY <2>4, <2>9
<1>6. PICK e \in stop : G[1] = G[e] /\ \A k \in 1 .. e - 1 : k \notin stop
  <2>1. stop \in SUBSET (1 .. N + 1) /\ N + 1 \in stop
    BY <1>3
  <2>2. \A k \in 1 .. N : k \notin stop => G[k] = G[k + 1]
    <3>. HIDE DEF stop, G
    <3>. QED BY <1>5
  <2>8. N \in Nat
    BY <1>1
  <2>. HIDE DEF stop, G, N
  <2>9. Followed(G, stop)
    BY <2>1, <2>2, <2>8, Follow, Zenon
  <2>. QED BY <2>9 DEF Followed
<1>7. e \in 1 .. N + 1 /\ (e = N + 1 \/ place[e] > L)
  BY <1>6
<1>8. T[p] = T[place[e]] /\ T[p] \in Nat
  <2>1. place[1] = p /\ G[1] = T[p]
    BY <1>2, <1>3, <1>4
  <2>2. G[e] = T[place[e]]
    BY <1>4, <1>7
  <2>3. T[p] \in Nat
    BY DEF Skips
  <2>. QED BY <1>6, <2>1, <2>2, <2>3
<1>9. place[e] \in Nat \ {0} /\ place[e] <= p - 1 + B /\ (e = N + 1 => place[e] = p - 1 + B)
  <2> DEFINE u == starts[e]
  <2>1. u \in Nat \ {0} /\ u <= B /\ place[e] = p - 1 + u /\ place[e] \in Nat \ {0}
    BY <1>4, <1>7
  <2>2. e = N + 1 => u = B
    BY <1>2
  <2>. HIDE DEF u, place, B
  <2>. QED BY <1>3, <2>1, <2>2
<1> DEFINE q == place[e]
<1>. HIDE DEF place, stop, G, B, q
<1>10. q \in Nat \ {0} /\ q <= p - 1 + B /\ (e = N + 1 => q = p - 1 + B) /\ (e = N + 1 \/ q > L) /\ T[p] = T[q]
  BY <1>7, <1>8, <1>9 DEF q
<1>11. q > L => T[q] = q + more
  BY <1>10 DEF Skips, L
<1>12. ASSUME q <= L PROVE T[q] = q + more
  <2>0. ~ (q > L)
    BY <1>1, <1>10, <1>12
  <2>1. q = p + B - 1
    <3>1. q = p - 1 + B
      BY <1>10, <2>0
    <3>. QED BY <1>3, <3>1
  <2>2. m[p + B - 1] = b[B]
    <3>1. B \in Nat /\ 1 <= B /\ B <= Len(b) /\ p + B - 1 <= Len(m)
      BY <1>1, <1>3, <1>12, <2>1 DEF B, L
    <3>. QED BY <3>1 DEF StandAt
  <2>3. m[q] = 0
    BY <1>2, <2>1, <2>2
  <2>. QED BY <1>10, <2>3 DEF Skips
<1>13. T[q] = q + more
  BY <1>1, <1>10, <1>11, <1>12
<1>14. p + B - 1 <= L => T[p] = p + B - 1 + more
  <2>1. SUFFICES ASSUME p + B - 1 <= L PROVE q = p + B - 1
    BY <1>10, <1>13
  <2>. QED BY <1>1, <1>3, <1>10, <2>1
<1>15. p + B - 1 > L => T[p] > L
  <2>1. SUFFICES ASSUME p + B - 1 > L PROVE q + more > L
    BY <1>10, <1>13
  <2>. QED BY <1>1, <1>3, <1>10, <2>1
<1>. QED BY <1>3, <1>8, <1>14, <1>15 DEF B, L, SkipsTo

\* The bytes of a name; their first says how it is written.
NameIs(b, name) ==
  /\ b \in Seq(Nat) /\ Len(b) >= 1 /\ b[1] \in Nat
  /\ IF name.at = 0 THEN b = Wr!LabelBytes(name.labels) /\ b[1] < 192
     ELSE Len(b) = 2 /\ b[1] >= 192

LEMMA HasFields ==
  ASSUME NEW A, NEW B, NEW x \in [labels : A, at : B]
  PROVE  x.labels \in A /\ x.at \in B
OBVIOUS

LEMMA NameHas ==
  ASSUME NEW name \in Wr!Name
  PROVE  name.labels \in Seq(Wr!Label) /\ name.at \in Nat
<1> DEFINE A == Seq(Wr!Label)
           B == 0 .. 16383
<1>1. Wr!Name = [labels : A, at : B]
  BY DEF Wr!Name
<1>. HIDE DEF A, B
<1>2. name.labels \in A /\ name.at \in B
  BY <1>1, HasFields, Zenon
<1> DEFINE x == name.at
<1>3. x \in B
  BY <1>2
<1>. HIDE DEF x
<1>4. x \in Nat
  BY <1>3, SMT DEF B
<1>. QED BY <1>2, <1>4 DEF A, x

LEMMA NameStands ==
  ASSUME NEW name \in Wr!Name
  PROVE  NameIs(Wr!NameBytes(name), name)
<1>1. name.labels \in Seq(Wr!Label)
  BY NameHas
<1> DEFINE at == name.at
<1>2. CASE at = 0
  <2> DEFINE b == Wr!LabelBytes(name.labels)
             N == Len(name.labels)
  <2>1. PICK starts : LabelsLie(starts, name.labels, b)
    BY <1>1, LabelsStand
  <2>2. N \in Nat
    BY <1>1, LenProperties
  <2>. HIDE DEF b
  <2>3. /\ b \in Seq(Nat) /\ starts \in [1 .. N + 1 -> Nat \ {0}] /\ starts[1] = 1
        /\ Len(b) = starts[N + 1] /\ b[Len(b)] = 0
    BY <2>1 DEF LabelsLie
  <2>4. Len(b) >= 1 /\ Len(b) \in Nat
    BY <2>2, <2>3
  <2>5. b[1] \in Nat /\ b[1] < 192
    <3>1. CASE N = 0
      BY <2>3, <3>1
    <3>2. CASE N # 0
      <4>1. 1 \in 1 .. Len(name.labels)
        BY <2>2, <3>2
      <4>2. b[starts[1]] \in Nat /\ b[starts[1]] <= 63
        BY <2>1, <4>1, Zenon DEF LabelsLie
      <4> DEFINE h == b[1]
      <4>3. h \in Nat /\ h <= 63
        BY <2>3, <4>2
      <4>. HIDE DEF h
      <4>4. h \in Nat /\ h < 192
        BY <4>3
      <4>. QED BY <4>4 DEF h
    <3>. QED BY <3>1, <3>2
  <2>6. Wr!NameBytes(name) = b
    BY <1>2 DEF Wr!NameBytes, b
  <2>. QED BY <1>2, <2>3, <2>4, <2>5, <2>6 DEF NameIs, b
<1>3. CASE at # 0
  <2> DEFINE x == 192 + at \div 256
             y == at % 256
             b == <<x, y>>
  <2>1. x \in Nat /\ x >= 192 /\ y \in Nat
    <3>1. at \in Nat
      BY NameHas
    <3>. HIDE DEF at
    <3>. QED BY <3>1
  <2>2. Wr!NameBytes(name) = b
    BY <1>3 DEF Wr!NameBytes
  <2>. HIDE DEF x, y
  <2>3. b \in Seq(Nat) /\ Len(b) = 2 /\ b[1] = x
    BY <2>1
  <2>. HIDE DEF b
  <2>. QED BY <1>3, <2>1, <2>2, <2>3 DEF NameIs
<1>. QED BY <1>2, <1>3

\* Behind the name of a record, or outside of m.
LEMMA NameEndIs ==
  ASSUME NEW m \in Seq(Nat), NEW name \in Wr!Name, NEW b, NameIs(b, name),
         NEW p \in Nat \ {0}, p <= Len(m), StandAt(m, p, b)
  PROVE  /\ Wr!NameEnd(m, p) \in Nat
         /\ p + Len(b) - 1 <= Len(m) => Wr!NameEnd(m, p) = p + Len(b)
         /\ p + Len(b) - 1 > Len(m) => Wr!NameEnd(m, p) > Len(m)
<1> DEFINE L == Len(m)
           B == Len(b)
<1>1. L \in Nat /\ B \in Nat \ {0} /\ b[1] \in Nat
  BY LenProperties DEF NameIs
<1>2. m[p] = b[1]
  <2>1. m[p + 1 - 1] = b[1]
    <3>1. 1 \in Nat /\ 1 <= B /\ p + 1 - 1 = p
      BY <1>1
    <3>. QED BY <3>1 DEF StandAt
  <2>2. p + 1 - 1 = p
    OBVIOUS
  <2>. QED BY <2>1, <2>2
<1>3. CASE name.at = 0
  <2>1. b = Wr!LabelBytes(name.labels) /\ b[1] < 192 /\ name.labels \in Seq(Wr!Label)
    BY <1>3, NameHas DEF NameIs
  <2>2. PICK starts : LabelsLie(starts, name.labels, b)
    BY <2>1, LabelsStand
  <2>3. PICK T : Skips(T, m, 0) /\ Wr!LabelsEnd(m, p) = T[p]
    BY LabelsEndSkips
  <2> DEFINE t == T[p]
  <2>4. /\ t \in Nat /\ (p + B - 1 <= L => t = p + B - 1 + 0)
        /\ (p + B - 1 > L => t > L)
    <3>1. Skips(T, m, 0) /\ 0 \in Nat
      BY <2>3
    <3>2. SkipsTo(T, m, p, b, 0)
      BY <2>1, <2>2, <3>1, LabelsSkipped, Zenon
    <3>. QED BY <3>2 DEF SkipsTo
  <2>5. Wr!NameEnd(m, p) = t + 1
    <3>1. ~ (m[p] >= 192)
      BY <1>1, <1>2, <2>1
    <3>. QED BY <2>3, <3>1 DEF Wr!NameEnd, Wr!IsPointer
  <2>. HIDE DEF t, B, L
  <2>6. /\ t + 1 \in Nat /\ (p + B - 1 <= L => t + 1 = p + B)
        /\ (p + B - 1 > L => t + 1 > L)
    BY <1>1, <2>4
  <2>. QED BY <2>5, <2>6 DEF B, L
<1>4. CASE name.at # 0
  <2>1. B = 2 /\ b[1] >= 192
    BY <1>4 DEF NameIs
  <2>2. Wr!NameEnd(m, p) = p + 2
    BY <1>2, <2>1 DEF Wr!NameEnd, Wr!IsPointer
  <2>3. /\ p + 2 \in Nat /\ (p + B - 1 <= L => p + 2 = p + B)
        /\ (p + B - 1 > L => p + 2 > L)
    BY <1>1, <2>1
  <2>. QED BY <2>2, <2>3
<1>. QED BY <1>3, <1>4

\* The bytes of a record, the first w of them its name.
RecordIs(b, r, w) ==
  LET l == Len(r.data)
  IN  /\ b \in Seq(Nat) /\ w = Len(Wr!NameBytes(r.name)) /\ w \in Nat \ {0} /\ l \in Nat /\ r.type \in Nat
      /\ Len(b) = w + 10 + l
      /\ \A j \in 1 .. w : b[j] = Wr!NameBytes(r.name)[j]
      /\ b[w + 1] = 0 /\ b[w + 2] = r.type /\ b[w + 9] = 0 /\ b[w + 10] = l
      /\ \A j \in 1 .. l : b[w + 10 + j] = r.data[j]

LEMMA RecordStands ==
  ASSUME NEW r \in Wr!Record
  PROVE  \E w : RecordIs(Wr!RecordBytes(r), r, w)
<1> DEFINE nb == Wr!NameBytes(r.name)
           w == Len(nb)
           l == Len(r.data)
           ty == r.type
           mid == <<0, ty, 0, 1, 0, 0, 0, 60, 0, l>>
           head == nb \o mid
           v == r.data
           b == head \o v
<1>1. r.name \in Wr!Name /\ v \in Text /\ ty \in Wr!Byte
  BY DEF Wr!Record, Wr!Value, Text
<1>2. nb \in Seq(Nat) /\ w \in Nat \ {0}
  <2>1. NameIs(nb, r.name)
    BY <1>1, NameStands
  <2>2. nb \in Seq(Nat) /\ w >= 1
    BY <2>1 DEF NameIs
  <2>. QED BY <2>2, LenProperties
<1>3. v \in Seq(Nat) /\ l \in Nat /\ ty \in Nat
  <2>1. v \in Seq(Nat)
    BY <1>1, TextIsNat
  <2>2. ty \in Nat
    BY <1>1 DEF Wr!Byte
  <2>. QED BY <2>1, <2>2, LenProperties
<1>4. b = Wr!RecordBytes(r)
  BY DEF Wr!RecordBytes
<1>. HIDE DEF nb, l, ty, v
<1>5. /\ mid \in Seq(Nat) /\ Len(mid) = 10
      /\ mid[1] = 0 /\ mid[2] = ty /\ mid[9] = 0 /\ mid[10] = l
  BY <1>3
<1>. HIDE DEF mid, w
<1>6. w = Len(nb)
  BY DEF w
<1>7. IsConcat(head, nb, mid, Nat)
  BY <1>2, <1>5, ConcatIs, Zenon
<1>. HIDE DEF head
<1>8. /\ head \in Seq(Nat) /\ Len(head) = w + 10 /\ \A j \in 1 .. w : head[j] = nb[j]
      /\ \A j \in 1 .. 10 : head[w + j] = mid[j]
  BY <1>5, <1>6, <1>7 DEF IsConcat
<1>9. IsConcat(b, head, v, Nat)
  BY <1>3, <1>8, ConcatIs, Zenon
<1>. HIDE DEF b
<1>10. l = Len(v)
  BY DEF l, v
<1>11. /\ b \in Seq(Nat) /\ Len(b) = w + 10 + l /\ \A j \in 1 .. w + 10 : b[j] = head[j]
       /\ \A j \in 1 .. l : b[w + 10 + j] = v[j]
  BY <1>8, <1>9, <1>10 DEF IsConcat
<1>12. \A j \in 1 .. w : b[j] = nb[j]
  <2>1. \A j \in 1 .. w : j \in 1 .. w + 10
    BY <1>2
  <2>. QED BY <1>8, <1>11, <2>1
<1>13. \A j \in 1 .. 10 : b[w + j] = mid[j]
  <2>1. \A j \in 1 .. 10 : w + j \in 1 .. w + 10
    BY <1>2
  <2>. QED BY <1>8, <1>11, <2>1
<1>14. b[w + 1] = 0 /\ b[w + 2] = ty /\ b[w + 9] = 0 /\ b[w + 10] = l
  BY <1>5, <1>13
<1>15. RecordIs(b, r, w)
  BY <1>2, <1>3, <1>6, <1>11, <1>12, <1>14 DEF RecordIs, nb, l, ty, v
<1>. QED BY <1>4, <1>15

Answer == [question : Seq(Wr!Label), count : Nat, records : Seq(Wr!Record)]

\* The body of an answer: its question, four bytes, and the records, the k-th
\* from place st[k] on.
BodyLies(st, a, body) ==
  LET question == Wr!LabelBytes(a.question)
  IN  /\ body \in Seq(Nat) /\ st \in [1 .. Len(a.records) + 1 -> Nat \ {0}]
      /\ Len(question) \in Nat /\ st[1] = Len(question) + 5
      /\ st[Len(a.records) + 1] = Len(body) + 1
      /\ \A j \in 1 .. Len(question) : body[j] = question[j]
      /\ \A k \in 1 .. Len(a.records) :
           /\ st[k + 1] = st[k] + Len(Wr!RecordBytes(a.records[k])) /\ st[k + 1] <= Len(body) + 1
           /\ \A j \in 1 .. Len(Wr!RecordBytes(a.records[k])) :
                body[st[k] - 1 + j] = Wr!RecordBytes(a.records[k])[j]

LEMMA BodyStands ==
  ASSUME NEW a \in Answer
  PROVE  \E st : BodyLies(st, a, Wr!Body(a))
<1> DEFINE recs == a.records
           N == Len(recs)
           lb == Wr!LabelBytes(a.question)
           H == Len(lb)
           four == <<0, 1, 0, 1>>
           seqs == [i \in DOMAIN recs |-> Wr!RecordBytes(recs[i])]
           flat == Wr!FlattenSeq(seqs)
           head == lb \o four
           body == head \o flat
<1>1. recs \in Seq(Wr!Record) /\ N \in Nat /\ DOMAIN recs = 1 .. N /\ a.question \in Seq(Wr!Label)
  BY LenProperties DEF Answer
<1>2. lb \in Seq(Nat) /\ H \in Nat
  <2>1. PICK starts : LabelsLie(starts, a.question, lb)
    BY <1>1, LabelsStand
  <2>2. lb \in Seq(Nat)
    BY <2>1 DEF LabelsLie
  <2>. QED BY <2>2, LenProperties
<1>3. body = Wr!Body(a)
  BY DEF Wr!Body
<1>4. \A k \in 1 .. N : seqs[k] = Wr!RecordBytes(recs[k]) /\ seqs[k] \in Seq(Nat)
  <2>1. ASSUME NEW k \in 1 .. N PROVE seqs[k] = Wr!RecordBytes(recs[k]) /\ seqs[k] \in Seq(Nat)
    <3>1. recs[k] \in Wr!Record
      BY <1>1, ElementOfSeq
    <3>2. PICK w : RecordIs(Wr!RecordBytes(recs[k]), recs[k], w)
      BY <3>1, RecordStands
    <3>3. Wr!RecordBytes(recs[k]) \in Seq(Nat)
      BY <3>2 DEF RecordIs
    <3>4. seqs[k] = Wr!RecordBytes(recs[k])
      BY <1>1
    <3>. HIDE DEF seqs
    <3>. QED BY <3>3, <3>4
  <2>. HIDE DEF seqs
  <2>. QED BY <2>1
<1>5. seqs = [k \in 1 .. N |-> seqs[k]]
  BY <1>1
<1>. HIDE DEF recs, lb, H, seqs, N
<1>6. seqs \in Seq(Seq(Nat)) /\ Len(seqs) = N
  <2>1. \A k \in 1 .. N : seqs[k] \in Seq(Nat)
    BY <1>4
  <2>2. seqs \in Seq(Seq(Nat))
    BY <1>1, <1>5, <2>1, IsASeq
  <2>3. DOMAIN seqs = 1 .. N
    BY <1>5
  <2>. QED BY <2>2, <2>3, <1>1, LenProperties
<1>7. flat \in Seq(Nat) /\ \E starts : Starts(starts, seqs, flat)
  BY <1>6, Flattened, Zenon
<1>8. PICK starts : Starts(starts, seqs, flat)
  BY <1>7
<1>. HIDE DEF flat
<1>9. four \in Seq(Nat) /\ Len(four) = 4
  OBVIOUS
<1>. HIDE DEF four
<1>10. IsConcat(head, lb, four, Nat)
  BY <1>2, <1>9, ConcatIs, Zenon
<1>. HIDE DEF head
<1>11. head \in Seq(Nat) /\ Len(head) = H + 4 /\ \A j \in 1 .. H : head[j] = lb[j]
  <2>1. H = Len(lb)
    BY DEF H
  <2>. QED BY <1>9, <1>10, <2>1 DEF IsConcat
<1>12. IsConcat(body, head, flat, Nat)
  BY <1>7, <1>11, ConcatIs, Zenon
<1>. HIDE DEF body
<1>13. /\ body \in Seq(Nat) /\ Len(body) = H + 4 + Len(flat) /\ Len(flat) \in Nat
       /\ \A j \in 1 .. H : body[j] = lb[j]
       /\ \A j \in 1 .. Len(flat) : body[H + 4 + j] = flat[j]
  <2>1. \A j \in 1 .. H : j \in 1 .. H + 4
    BY <1>2
  <2>. QED BY <1>11, <1>12, <2>1 DEF IsConcat
<1>14. /\ starts \in [1 .. N + 1 -> Nat \ {0}]
       /\ starts[1] = 1 /\ starts[N + 1] = Len(flat) + 1
  BY <1>6, <1>8 DEF Starts
<1> DEFINE st == [k \in 1 .. N + 1 |-> H + 4 + starts[k]]
<1>15. \A k \in 1 .. N + 1 : st[k] = H + 4 + starts[k] /\ starts[k] \in Nat \ {0}
  BY <1>14
<1>16. st \in [1 .. N + 1 -> Nat \ {0}]
  BY <1>2, <1>14
<1>. HIDE DEF st
<1>17. st[1] = H + 5 /\ st[N + 1] = Len(body) + 1
  <2>1. 1 \in 1 .. N + 1 /\ N + 1 \in 1 .. N + 1
    BY <1>1
  <2>2. st[1] = H + 4 + 1 /\ st[N + 1] = H + 4 + (Len(flat) + 1)
    BY <1>14, <1>15, <2>1
  <2>. QED BY <1>2, <1>13, <2>2
<1>18. ASSUME NEW k \in 1 .. N
       PROVE  LET s == Wr!RecordBytes(recs[k])
              IN  /\ st[k + 1] = st[k] + Len(s) /\ st[k + 1] <= Len(body) + 1
                  /\ \A j \in 1 .. Len(s) : body[st[k] - 1 + j] = s[j]
  <2> DEFINE s == Wr!RecordBytes(recs[k])
             i == starts[k]
  <2>1. s = seqs[k] /\ s \in Seq(Nat)
    BY <1>4
  <2>2. k \in 1 .. N + 1 /\ k + 1 \in 1 .. N + 1
    BY <1>1
  <2>3. /\ starts[k + 1] = i + Len(s) /\ starts[k + 1] <= Len(flat) + 1
        /\ \A j \in 1 .. Len(s) : flat[i - 1 + j] = s[j]
    <3>1. s = seqs[k]
      BY <2>1
    <3>. HIDE DEF s, i
    <3>2. /\ starts[k + 1] = starts[k] + Len(seqs[k]) /\ starts[k + 1] <= Len(flat) + 1
          /\ \A j \in 1 .. Len(seqs[k]) : flat[starts[k] - 1 + j] = seqs[k][j]
      BY <1>6, <1>8 DEF Starts
    <3>. QED BY <3>1, <3>2 DEF i
  <2>4. Len(s) \in Nat /\ i \in Nat \ {0} /\ st[k] = H + 4 + i /\ st[k + 1] = H + 4 + starts[k + 1]
    BY <1>15, <2>1, <2>2, LenProperties
  <2>. HIDE DEF s, i
  <2>5. st[k + 1] = st[k] + Len(s) /\ st[k + 1] <= Len(body) + 1
    BY <1>2, <1>13, <2>3, <2>4
  <2>6. ASSUME NEW j \in 1 .. Len(s) PROVE body[st[k] - 1 + j] = s[j]
    <3> DEFINE x == i - 1 + j
    <3>1. x \in 1 .. Len(flat) /\ st[k] - 1 + j = H + 4 + x
      BY <1>2, <1>13, <2>3, <2>4
    <3>2. flat[x] = s[j]
      BY <2>3
    <3>. HIDE DEF x
    <3>. QED BY <1>13, <3>1, <3>2
  <2>. QED BY <2>5, <2>6 DEF s
<1>19. BodyLies(st, a, body)
  BY <1>2, <1>13, <1>16, <1>17, <1>18, Zenon DEF BodyLies, H, lb, N, recs
<1>. QED BY <1>3, <1>19

\* How far the first k records reach.
LEMMA NeededIs ==
  ASSUME NEW a \in Answer, NEW st, BodyLies(st, a, Wr!Body(a)), NEW k \in 1 .. Len(a.records)
  PROVE  Wr!Needed(a, k) = st[k + 1] - 1 /\ st[k + 1] \in Nat \ {0} /\ st[k + 1] <= Len(Wr!Body(a)) + 1
<1> DEFINE N == Len(a.records)
           prefix == SubSeq(a.records, 1, k)
           b == [a EXCEPT !.records = prefix]
           H == Len(Wr!LabelBytes(a.question))
<1>1. N \in Nat /\ a.records \in Seq(Wr!Record)
  BY LenProperties DEF Answer
<1>2. prefix \in Seq(Wr!Record) /\ Len(prefix) = k /\ \A j \in 1 .. k : prefix[j] = a.records[j]
  <2>1. \A j \in 1 .. k : a.records[j] \in Wr!Record
    BY <1>1, ElementOfSeq
  <2>2. /\ prefix \in Seq(Wr!Record) /\ Len(prefix) = IF 1 <= k THEN k - 1 + 1 ELSE 0
        /\ \A j \in 1 .. k - 1 + 1 : prefix[j] = a.records[1 + j - 1]
    BY <2>1, SubSeqProperties
  <2>3. k - 1 + 1 = k /\ 1 <= k
    OBVIOUS
  <2>4. \A j \in 1 .. k : 1 + j - 1 = j
    OBVIOUS
  <2>5. Len(prefix) = k
    BY <2>2, <2>3
  <2>. HIDE DEF prefix
  <2>. QED BY <2>2, <2>3, <2>4, <2>5
<1>. HIDE DEF prefix
<1>3. b \in Answer /\ b.records = prefix /\ b.question = a.question
  BY <1>2 DEF Answer
<1>4. Wr!Needed(a, k) = Len(Wr!Body(b))
  BY DEF Wr!Needed, prefix
<1>. HIDE DEF b
<1>5. PICK s : BodyLies(s, b, Wr!Body(b))
  BY <1>3, BodyStands
<1>6. /\ s[1] = H + 5 /\ s[k + 1] = Len(Wr!Body(b)) + 1 /\ s \in [1 .. k + 1 -> Nat \ {0}]
      /\ \A j \in 1 .. k : s[j + 1] = s[j] + Len(Wr!RecordBytes(a.records[j]))
      /\ Wr!Body(b) \in Seq(Nat)
  BY <1>2, <1>3, <1>5 DEF BodyLies
<1>7. /\ st[1] = H + 5 /\ st \in [1 .. N + 1 -> Nat \ {0}]
      /\ \A j \in 1 .. N : st[j + 1] = st[j] + Len(Wr!RecordBytes(a.records[j]))
                           /\ st[j + 1] <= Len(Wr!Body(a)) + 1
  BY DEF BodyLies
<1> DEFINE Bad == {j \in Nat : j \in 1 .. k + 1 /\ s[j] # st[j]}
<1>8. Bad = {}
  <2>1. SUFFICES ASSUME Bad # {} PROVE FALSE
    OBVIOUS
  <2>2. PICK j \in Bad : \A i \in Bad : j <= i
    BY <2>1, LeastNat
  <2>3. j \in 1 .. k + 1 /\ s[j] # st[j]
    BY <2>2
  <2>4. j # 1
    BY <1>6, <1>7, <2>3
  <2> DEFINE i == j - 1
  <2>5. i \in 1 .. k /\ i \in 1 .. N /\ i \in 1 .. k + 1 /\ j = i + 1 /\ i \in Nat /\ i < j
    BY <1>1, <2>3, <2>4
  <2>. HIDE DEF i
  <2>6. s[i] = st[i]
    <3>1. i \notin Bad
      <4>. HIDE DEF Bad
      <4>. QED BY <2>2, <2>3, <2>5
    <3>. QED BY <2>5, <3>1
  <2>7. s[i + 1] = st[i + 1]
    BY <1>6, <1>7, <2>5, <2>6
  <2>. QED BY <2>3, <2>5, <2>7
<1>9. s[k + 1] = st[k + 1]
  <2>1. k + 1 \in 1 .. k + 1 /\ k + 1 \in Nat
    OBVIOUS
  <2>. QED BY <1>8, <2>1
<1>10. k + 1 \in 1 .. N + 1
  BY <1>1
<1> DEFINE u == st[k + 1]
           l == Len(Wr!Body(b))
<1>11. u \in Nat \ {0} /\ u = l + 1 /\ l \in Nat /\ u <= Len(Wr!Body(a)) + 1
  BY <1>6, <1>7, <1>9, <1>10, LenProperties
<1>. HIDE DEF u, l
<1>12. l = u - 1
  BY <1>11
<1>. QED BY <1>4, <1>11, <1>12 DEF u, l

\* The recursion of Walk.
WalkRuns(R, m, count_) ==
  /\ Wr!Walk(m, count_) = R[<<0, Wr!QuestionEnd(m)>>]
  /\ \A i \in Nat, p \in Nat \ {0} :
       LET data_ == Wr!NameEnd(m, p) + 10
       IN  R[<<i, p>>] =
             IF i = count_ \/ p > Len(m) \/ data_ > Len(m) + 1 THEN <<>>
             ELSE IF /\ Wr!Word(m, Wr!NameEnd(m, p)) = 1
                     /\ Wr!Word(m, Wr!NameEnd(m, p) + 8) = 4 /\ data_ + 4 <= Len(m) + 1
                  THEN SubSeq(m, data_, data_ + 3)
                  ELSE R[<<i + 1, data_ + Wr!Word(m, Wr!NameEnd(m, p) + 8)>>]

LEMMA NameEndGrows ==
  ASSUME NEW m \in Seq(Nat), NEW p \in Nat \ {0}
  PROVE  Wr!NameEnd(m, p) \in Nat /\ Wr!NameEnd(m, p) > p
<1>1. PICK T : Skips(T, m, 0) /\ Wr!LabelsEnd(m, p) = T[p]
  BY LabelsEndSkips
<1>2. T[p] \in Nat /\ T[p] >= p
  BY <1>1 DEF Skips
<1>3. CASE m[p] >= 192
  <2>1. Wr!NameEnd(m, p) = p + 2
    BY <1>3 DEF Wr!NameEnd, Wr!IsPointer
  <2>. QED BY <2>1
<1>4. CASE ~ (m[p] >= 192)
  <2> DEFINE t == T[p]
  <2>1. Wr!NameEnd(m, p) = t + 1 /\ t \in Nat /\ t >= p
    BY <1>1, <1>2, <1>4 DEF Wr!NameEnd, Wr!IsPointer
  <2>. HIDE DEF t
  <2>2. t + 1 \in Nat /\ t + 1 > p
    BY <2>1
  <2>. QED BY <2>1, <2>2
<1>. QED BY <1>3, <1>4

LEMMA WordIs ==
  ASSUME NEW m \in Seq(Nat), NEW q \in Nat \ {0}, q + 1 <= Len(m)
  PROVE  Wr!Word(m, q) \in Nat /\ Wr!Word(m, q) = m[q] * 256 + m[q + 1]
<1>1. Len(m) \in Nat /\ q \in 1 .. Len(m) /\ q + 1 \in 1 .. Len(m)
  BY LenProperties
<1>2. m[q] \in Nat /\ m[q + 1] \in Nat
  BY <1>1, ElementOfSeq
<1>3. \A x, y \in Nat : x * 256 + y \in Nat
  OBVIOUS
<1>. QED BY <1>2, <1>3, Zenon DEF Wr!Word

LEMMA WalkRecursion ==
  ASSUME NEW m \in Seq(Nat), NEW count_ \in Nat
  PROVE  \E R : WalkRuns(R, m, count_)
<1> DEFINE D == Nat \X (Nat \ {0})
           V == Seq(Nat)
           L == Len(m)
           Q(p) == Wr!NameEnd(m, p)
           W(p) == Wr!Word(m, Q(p) + 8)
           Stops(i, p) == i = count_ \/ p > L \/ Q(p) + 10 > L + 1
           Hits(p) == Wr!Word(m, Q(p)) = 1 /\ W(p) = 4 /\ Q(p) + 10 + 4 <= L + 1
           Got(p) == SubSeq(m, Q(p) + 10, Q(p) + 10 + 3)
           After(i, p) == <<i + 1, Q(p) + 10 + W(p)>>
           ends == {x \in D : Stops(x[1], x[2]) \/ Hits(x[2])}
           rank == [x \in D |-> IF x[2] > L THEN 0 ELSE L + 1 - x[2]]
           val == [x \in D |-> IF Stops(x[1], x[2]) THEN <<>> ELSE Got(x[2])]
           next == [x \in D |-> IF x \in ends THEN x ELSE After(x[1], x[2])]
           step == [x \in D \X V |-> x[2]]
<1>1. L \in Nat /\ \A q \in 1 .. L : m[q] \in Nat
  BY LenProperties, ElementOfSeq
<1>2. ASSUME NEW p \in Nat \ {0} PROVE Q(p) \in Nat /\ Q(p) > p
  BY NameEndGrows
<1>. HIDE DEF Q
<1>3. ASSUME NEW x \in D, x \notin ends
      PROVE  /\ x[1] \in Nat /\ x[2] \in Nat \ {0} /\ x[2] <= L /\ W(x[2]) \in Nat
             /\ Q(x[2]) + 10 + W(x[2]) \in Nat \ {0} /\ Q(x[2]) + 10 + W(x[2]) > x[2]
  <2> DEFINE p == x[2]
             q == Q(p)
  <2>1. x[1] \in Nat /\ p \in Nat \ {0}
    OBVIOUS
  <2>2. ~ (p > L) /\ ~ (q + 10 > L + 1)
    <3>1. ~ Stops(x[1], p)
      BY <1>3
    <3>. QED BY <3>1
  <2>3. q \in Nat /\ q > p
    BY <1>2, <2>1
  <2>. HIDE DEF p, q
  <2>4. q + 8 \in Nat \ {0} /\ (q + 8) + 1 <= L
    BY <1>1, <2>2, <2>3
  <2> DEFINE w == Wr!Word(m, q + 8)
  <2>5. w \in Nat
    BY <2>4, WordIs
  <2>. HIDE DEF w
  <2>6. q + 10 + w \in Nat \ {0} /\ q + 10 + w > p /\ p <= L
    BY <1>1, <2>1, <2>2, <2>3, <2>5
  <2>. QED BY <2>1, <2>5, <2>6 DEF p, q, w
<1>4. rank \in [D -> Nat] /\ step \in [D \X V -> V]
  <2>1. rank \in [D -> Nat]
    BY <1>1
  <2>2. step \in [D \X V -> V]
    <3>. HIDE DEF V, D
    <3>. QED OBVIOUS
  <2>. QED BY <2>1, <2>2
<1>5. ASSUME NEW x \in D, x \in ends PROVE (IF Stops(x[1], x[2]) THEN <<>> ELSE Got(x[2])) \in V
  <2> DEFINE p == x[2]
             q == Q(p)
  <2>1. CASE Stops(x[1], p)
    <3>1. <<>> \in V
      OBVIOUS
    <3>. HIDE DEF Stops, Got, V
    <3>. QED BY <2>1, <3>1
  <2>2. CASE ~ Stops(x[1], p)
    <3>1. Hits(p)
      BY <1>5, <2>2
    <3>2. p \in Nat \ {0}
      OBVIOUS
    <3>3. q \in Nat /\ q > p /\ q + 10 + 4 <= L + 1
      BY <1>2, <3>1, <3>2
    <3>. HIDE DEF q, p
    <3>4. \A j \in q + 10 .. q + 10 + 3 : m[j] \in Nat
      <4>1. \A j \in q + 10 .. q + 10 + 3 : j \in 1 .. L
        BY <1>1, <3>3
      <4>. QED BY <1>1, <4>1
    <3>5. SubSeq(m, q + 10, q + 10 + 3) \in V
      <4>1. q + 10 \in Int /\ q + 10 + 3 \in Int
        BY <3>3
      <4>. QED BY <3>4, <4>1, SubSeqProperties
    <3>6. Got(p) \in V
      BY <3>5 DEF q
    <3>. HIDE DEF Stops, Got, V
    <3>. QED BY <2>2, <3>6 DEF p
  <2>. QED BY <2>1, <2>2
<1> DEFINE val2 == [x \in D |-> IF x \in ends THEN IF Stops(x[1], x[2]) THEN <<>> ELSE Got(x[2]) ELSE <<>>]
<1>6. val2 \in [D -> V]
  <2>1. ASSUME NEW x \in D
        PROVE  (IF x \in ends THEN IF Stops(x[1], x[2]) THEN <<>> ELSE Got(x[2]) ELSE <<>>) \in V
    <3>1. <<>> \in V
      OBVIOUS
    <3>2. CASE x \in ends
      <4>. HIDE DEF ends, Stops, Got, V, D
      <4>. QED BY <1>5, <3>2
    <3>3. CASE x \notin ends
      <4>. HIDE DEF ends, Stops, Got, V, D
      <4>. QED BY <3>1, <3>3
    <3>. QED BY <3>2, <3>3
  <2>. HIDE DEF D, V, ends, Stops, Got
  <2>. QED BY <2>1
<1>7. ASSUME NEW x \in D, x \notin ends
      PROVE  After(x[1], x[2]) \in D /\ next[x] = After(x[1], x[2]) /\ rank[next[x]] < rank[x]
  <2> DEFINE p == x[2]
             j == Q(p) + 10 + W(p)
             i == x[1] + 1
  <2>1. i \in Nat /\ p \in Nat \ {0} /\ p <= L /\ j \in Nat \ {0} /\ j > p
    <3>. HIDE DEF ends, D, W
    <3>. QED BY <1>3, <1>7
  <2>2. next[x] = <<i, j>>
    <3>. HIDE DEF ends, W, D
    <3>. QED BY <1>7
  <2>3. After(x[1], x[2]) = <<i, j>>
    <3>. HIDE DEF W
    <3>. QED OBVIOUS
  <2>. HIDE DEF i, j, After
  <2>4. <<i, j>> \in D /\ <<i, j>>[2] = j
    BY <2>1
  <2>5. rank[<<i, j>>] = IF j > L THEN 0 ELSE L + 1 - j
    <3>. HIDE DEF D
    <3>. QED BY <2>4
  <2>6. rank[x] = L + 1 - p
    <3>. HIDE DEF D
    <3>1. rank[x] = IF p > L THEN 0 ELSE L + 1 - p
      OBVIOUS
    <3>. HIDE DEF rank, p
    <3>. QED BY <1>1, <2>1, <3>1
  <2>. HIDE DEF rank, L, p, next, D
  <2>7. rank[<<i, j>>] < rank[x]
    BY <1>1, <2>1, <2>5, <2>6
  <2>. QED BY <2>2, <2>3, <2>4, <2>7
<1>8. next \in [D -> D]
  <2>1. ASSUME NEW x \in D PROVE (IF x \in ends THEN x ELSE After(x[1], x[2])) \in D
    <3>. HIDE DEF D, ends, After, rank, next
    <3>. QED BY <1>7
  <2>. HIDE DEF D, ends, After
  <2>. QED BY <2>1
<1>9. PICK F : Recursive(F, D, V, ends, val2, next, step)
  <2>1. \A x \in D : x \notin ends => rank[next[x]] < rank[x]
    <3>. HIDE DEF D, ends, rank, next, After
    <3>. QED BY <1>7
  <2>. HIDE DEF D, V, ends, rank, val2, next, step
  <2>. QED BY <1>4, <1>6, <1>8, <2>1, Recursion, Zenon
<1>10. F \in [D -> V] /\ \A x \in D : F[x] = IF x \in ends THEN val2[x] ELSE step[<<x, F[next[x]]>>]
  <2>. HIDE DEF D, V, ends, val2, next, step
  <2>. QED BY <1>9, Zenon DEF Recursive
<1> DEFINE Out(f, i, p) == IF Stops(i, p) THEN <<>> ELSE IF Hits(p) THEN Got(p) ELSE f[After(i, p)]
           IsWalk(f) == f = [x \in D |-> Out(f, x[1], x[2])]
           T == CHOOSE f : IsWalk(f)
<1>11. ASSUME NEW x \in D PROVE F[x] = Out(F, x[1], x[2])
  <2>1. CASE x \in ends
    <3>1. Stops(x[1], x[2]) \/ Hits(x[2])
      BY <2>1
    <3>2. val2[x] = IF Stops(x[1], x[2]) THEN <<>> ELSE Got(x[2])
      <4>. HIDE DEF ends, Stops, Got, D
      <4>. QED BY <2>1
    <3>3. F[x] = val2[x]
      <4>. HIDE DEF ends, val2, next, step, D
      <4>. QED BY <1>10, <2>1
    <3>. HIDE DEF Stops, Hits, Got, After, val2, D
    <3>. QED BY <3>1, <3>2, <3>3
  <2>2. CASE x \notin ends
    <3>1. ~ Stops(x[1], x[2]) /\ ~ Hits(x[2])
      BY <2>2
    <3>2. next[x] = After(x[1], x[2]) /\ next[x] \in D
      <4>. HIDE DEF D, ends, After, rank, next
      <4>. QED BY <1>7, <2>2
    <3>3. F[next[x]] \in V
      <4>. HIDE DEF V, D, next
      <4>. QED BY <1>10, <3>2
    <3>4. F[x] = step[<<x, F[next[x]]>>]
      <4>. HIDE DEF V, D, next, step, val2, ends
      <4>. QED BY <1>10, <2>2
    <3>5. step[<<x, F[next[x]]>>] = F[next[x]]
      <4>. HIDE DEF V, D, next
      <4>. QED BY <3>3
    <3>. HIDE DEF D, Stops, Hits, Got, After, step, next
    <3>. QED BY <3>1, <3>2, <3>4, <3>5
  <2>. QED BY <2>1, <2>2
<1>12. IsWalk(F)
  <2>. HIDE DEF Out, D
  <2>1. F = [x \in D |-> F[x]]
    BY <1>10
  <2>. QED BY <2>1, <1>11
<1>13. IsWalk(T)
  <2>. HIDE DEF IsWalk
  <2>. QED BY <1>12
<1>14. \A x \in D : T[x] = Out(T, x[1], x[2])
  <2>. HIDE DEF Out, T, D
  <2>. QED BY <1>13
<1>15. Wr!Walk(m, count_) = T[<<0, Wr!QuestionEnd(m)>>]
  BY DEF Wr!Walk, Wr!NoValue, Q
<1>. HIDE DEF T
<1>16. ASSUME NEW i \in Nat, NEW p \in Nat \ {0} PROVE T[<<i, p>>] = Out(T, i, p)
  <2>1. <<i, p>> \in D /\ <<i, p>>[1] = i /\ <<i, p>>[2] = p
    OBVIOUS
  <2>2. T[<<i, p>>] = Out(T, <<i, p>>[1], <<i, p>>[2])
    <3>. HIDE DEF Out, D
    <3>. QED BY <1>14, <2>1
  <2>. HIDE DEF Out
  <2>. QED BY <2>1, <2>2
<1>. QED BY <1>15, <1>16, Zenon DEF WalkRuns, Q

\* A record that stands at p in m, whole or cut off, as Walk reads it.
RecordRead(m, p, r, w) ==
  LET q == Wr!NameEnd(m, p)
      l == Len(r.data)
  IN  /\ q \in Nat
      /\ q + 10 <= Len(m) + 1 => q = p + w /\ Wr!Word(m, q) = r.type /\ Wr!Word(m, q + 8) = l
      /\ p + w + 10 + l <= Len(m) + 1 =>
           q + 10 <= Len(m) + 1 /\ SubSeq(m, p + w + 10, p + w + 10 + l - 1) = r.data

LEMMA RecordIsRead ==
  ASSUME NEW m \in Seq(Nat), NEW r \in Wr!Record, NEW b, NEW w, RecordIs(b, r, w),
         NEW p \in Nat \ {0}, p <= Len(m), StandAt(m, p, b)
  PROVE  RecordRead(m, p, r, w)
<1> DEFINE L == Len(m)
           l == Len(r.data)
           q == Wr!NameEnd(m, p)
           nb == Wr!NameBytes(r.name)
           B == Len(b)
<1>1. /\ w = Len(nb) /\ w \in Nat \ {0} /\ l \in Nat /\ B = w + 10 + l /\ r.type \in Nat
      /\ \A j \in 1 .. w : b[j] = nb[j]
      /\ b[w + 1] = 0 /\ b[w + 2] = r.type /\ b[w + 9] = 0 /\ b[w + 10] = l
      /\ \A j \in 1 .. l : b[w + 10 + j] = r.data[j]
  BY DEF RecordIs
<1>2. L \in Nat
  BY LenProperties
<1>3. ASSUME NEW j \in Nat, 1 <= j, j <= w + 10 + l, p + j - 1 <= L PROVE m[p + j - 1] = b[j]
  BY <1>1, <1>3 DEF StandAt
<1>4. r.name \in Wr!Name
  BY DEF Wr!Record
<1>5. NameIs(nb, r.name)
  BY <1>4, NameStands
<1>. HIDE DEF nb, l, B, L
<1>6. StandAt(m, p, nb)
  <2>1. ASSUME NEW j \in Nat, 1 <= j, j <= Len(nb), p + j - 1 <= L PROVE m[p + j - 1] = nb[j]
    <3>1. j \in 1 .. w /\ j <= w + 10 + l
      BY <1>1, <2>1
    <3>. QED BY <1>1, <1>3, <2>1, <3>1
  <2>. QED BY <2>1 DEF StandAt, L
<1>7. q \in Nat /\ (p + w - 1 <= L => q = p + w) /\ (p + w - 1 > L => q > L)
  BY <1>1, <1>4, <1>5, <1>6, NameEndIs, Zenon DEF L
<1>. HIDE DEF q
<1>8. ASSUME q + 10 <= L + 1
      PROVE  q = p + w /\ Wr!Word(m, q) = r.type /\ Wr!Word(m, q + 8) = l
  <2>1. q = p + w /\ p + w + 9 <= L
    <3>1. ~ (q > L)
      BY <1>2, <1>7, <1>8
    <3>2. q = p + w
      BY <1>1, <1>2, <1>7, <3>1
    <3>. QED BY <1>1, <1>2, <1>8, <3>2
  <2>2. ASSUME NEW j \in Nat, 1 <= j, j <= 10 PROVE m[q + j - 1] = b[w + j]
    <3> DEFINE x == w + j
    <3>1. x \in Nat /\ 1 <= x /\ x <= w + 10 + l
      BY <1>1, <2>2
    <3>2. p + x - 1 <= L
      BY <1>1, <1>2, <2>1, <2>2
    <3>3. p + x - 1 = q + j - 1
      BY <1>1, <2>1
    <3>. HIDE DEF x
    <3>4. m[p + x - 1] = b[x]
      BY <1>3, <3>1, <3>2
    <3>. QED BY <3>3, <3>4 DEF x
  <2>3. m[q] = b[w + 1] /\ m[q + 1] = b[w + 2]
    <3>1. q + 1 - 1 = q /\ q + 2 - 1 = q + 1
      BY <1>7
    <3>2. m[q + 1 - 1] = b[w + 1]
      BY <2>2
    <3>3. m[q + 2 - 1] = b[w + 2]
      BY <2>2
    <3>. QED BY <3>1, <3>2, <3>3
  <2>4. m[q + 8] = b[w + 9] /\ m[q + 8 + 1] = b[w + 10]
    <3>1. q + 9 - 1 = q + 8 /\ q + 10 - 1 = q + 8 + 1
      BY <1>7
    <3>2. m[q + 9 - 1] = b[w + 9]
      BY <2>2
    <3>3. m[q + 10 - 1] = b[w + 10]
      BY <2>2
    <3>. QED BY <3>1, <3>2, <3>3
  <2>5. q \in Nat \ {0} /\ q + 1 <= Len(m) /\ q + 8 \in Nat \ {0} /\ q + 8 + 1 <= Len(m)
    <3>1. q \in Nat \ {0} /\ q + 1 <= L /\ q + 8 \in Nat \ {0} /\ q + 8 + 1 <= L
      <4>1. q \in Nat /\ q # 0 /\ q + 9 <= L
        BY <1>1, <1>7, <2>1
      <4>. QED BY <1>2, <4>1
    <3>. QED BY <3>1 DEF L
  <2>6. Wr!Word(m, q) = m[q] * 256 + m[q + 1]
    BY <2>5, WordIs
  <2>7. Wr!Word(m, q + 8) = m[q + 8] * 256 + m[q + 8 + 1]
    <3> DEFINE z == q + 8
    <3>1. z \in Nat \ {0} /\ z + 1 <= Len(m)
      BY <2>5
    <3>. HIDE DEF z
    <3>2. Wr!Word(m, z) = m[z] * 256 + m[z + 1]
      BY <3>1, WordIs
    <3>. QED BY <3>2 DEF z
  <2>8. \A x \in Nat : 0 * 256 + x = x
    OBVIOUS
  <2>9. Wr!Word(m, q) = r.type
    <3>1. Wr!Word(m, q) = 0 * 256 + r.type
      BY <1>1, <2>3, <2>6
    <3>. QED BY <1>1, <2>8, <3>1
  <2>10. Wr!Word(m, q + 8) = l
    <3>1. Wr!Word(m, q + 8) = 0 * 256 + l
      BY <1>1, <2>4, <2>7
    <3>. QED BY <1>1, <2>8, <3>1
  <2>. QED BY <2>1, <2>9, <2>10
<1>9. ASSUME p + w + 10 + l <= L + 1
      PROVE  q + 10 <= L + 1 /\ SubSeq(m, p + w + 10, p + w + 10 + l - 1) = r.data
  <2>1. q = p + w /\ q + 10 <= L + 1
    <3>1. p + w - 1 <= L
      BY <1>1, <1>2, <1>9
    <3>2. q = p + w
      BY <1>7, <3>1
    <3>. QED BY <1>1, <1>2, <1>9, <3>2
  <2> DEFINE d == r.data
             c == p + w + 10
  <2>2. d \in Seq(Nat) /\ Len(d) = l
    <3>1. d \in Text
      BY DEF Wr!Record, Wr!Value, Text
    <3>. QED BY <3>1, TextIsNat DEF l
  <2>3. \A j \in 1 .. l : d[j] = b[w + 10 + j]
    BY <1>1
  <2>. HIDE DEF d
  <2>4. ASSUME NEW j \in 1 .. l PROVE m[c + j - 1] = d[1 + j - 1]
    <3>1. /\ w + 10 + j \in Nat /\ 1 <= w + 10 + j /\ w + 10 + j <= w + 10 + l
          /\ p + (w + 10 + j) - 1 <= L /\ p + (w + 10 + j) - 1 = c + j - 1 /\ 1 + j - 1 = j
      <4>1. w \in Nat /\ l \in Nat /\ L \in Nat /\ p + w + 10 + l <= L + 1
        BY <1>1, <1>2, <1>9
      <4>2. w + 10 + j \in Nat /\ 1 <= w + 10 + j /\ w + 10 + j <= w + 10 + l
        BY <4>1
      <4>3. p + (w + 10 + j) - 1 <= L
        BY <4>1
      <4>4. p + (w + 10 + j) - 1 = c + j - 1
        BY <4>1
      <4>5. 1 + j - 1 = j
        OBVIOUS
      <4>. QED BY <4>2, <4>3, <4>4, <4>5
    <3>2. m[p + (w + 10 + j) - 1] = b[w + 10 + j]
      BY <1>3, <3>1
    <3>. HIDE DEF c
    <3>. QED BY <2>3, <3>1, <3>2
  <2>5. c \in Int /\ 1 \in Int
    BY <1>1
  <2>. HIDE DEF c
  <2>6. SubSeq(m, c, c + l - 1) = SubSeq(d, 1, 1 + l - 1)
    BY <1>1, <2>4, <2>5, MovedPiece
  <2>7. SubSeq(d, 1, 1 + l - 1) = d
    <3>1. 1 + l - 1 = l
      BY <1>1
    <3>2. SubSeq(d, 1, l) = [j \in 1 .. l |-> d[j]]
      <4>1. SubSeq(d, 1, l) = [j \in 1 .. 1 + l - 1 |-> d[1 + j - 1]]
        BY <1>1
      <4>2. \A j \in 1 .. l : 1 + j - 1 = j
        OBVIOUS
      <4>. QED BY <3>1, <4>1, <4>2
    <3>3. d = [j \in 1 .. l |-> d[j]]
      BY <2>2
    <3>. QED BY <3>1, <3>2, <3>3
  <2>8. SubSeq(m, c, c + l - 1) = d
    BY <2>6, <2>7
  <2>. QED BY <2>1, <2>8 DEF c, d
<1>. QED BY <1>7, <1>8, <1>9 DEF RecordRead, q, L, l

\* A step of Walk over the record that stands at p.
WalkedOver(m, count_, R, i, p, r, far) ==
  LET hit == r.type = 1 /\ Len(r.data) = 4
  IN  /\ i = count_ \/ far > Len(m) + 1 => R[<<i, p>>] = <<>>
      /\ i # count_ /\ far <= Len(m) + 1 /\ hit => R[<<i, p>>] = r.data
      /\ i # count_ /\ far <= Len(m) + 1 /\ ~ hit => R[<<i, p>>] = R[<<i + 1, far>>]

LEMMA WalksOver ==
  ASSUME NEW m \in Seq(Nat), NEW count_ \in Nat, NEW R, WalkRuns(R, m, count_),
         NEW i \in Nat, NEW p \in Nat \ {0}, NEW r \in Wr!Record, NEW b, NEW w, RecordIs(b, r, w),
         StandAt(m, p, b)
  PROVE  WalkedOver(m, count_, R, i, p, r, p + Len(b))
<1> DEFINE L == Len(m)
           far == p + Len(b)
           l == Len(r.data)
           q == Wr!NameEnd(m, p)
           ty == Wr!Word(m, q)
           W == Wr!Word(m, q + 8)
           X == R[<<i, p>>]
           hit == r.type = 1 /\ l = 4
<1>1. w \in Nat \ {0} /\ l \in Nat /\ far = p + w + 10 + l
  <2>1. w \in Nat \ {0} /\ l \in Nat /\ Len(b) = w + 10 + l
    BY DEF RecordIs
  <2>. HIDE DEF l
  <2>. QED BY <2>1
<1>2. L \in Nat /\ q \in Nat
  BY LenProperties, NameEndGrows
<1>3. X = IF i = count_ \/ p > L \/ q + 10 > L + 1 THEN <<>>
          ELSE IF ty = 1 /\ W = 4 /\ q + 10 + 4 <= L + 1
               THEN SubSeq(m, q + 10, q + 10 + 3)
               ELSE R[<<i + 1, q + 10 + W>>]
  BY DEF WalkRuns
<1>4. p <= L => RecordRead(m, p, r, w)
  BY RecordIsRead
<1>5. p <= L /\ q + 10 <= L + 1 => q = p + w /\ ty = r.type /\ W = l
  BY <1>4 DEF RecordRead
<1>6. p <= L /\ p + w + 10 + l <= L + 1 =>
        q + 10 <= L + 1 /\ SubSeq(m, p + w + 10, p + w + 10 + l - 1) = r.data
  BY <1>4 DEF RecordRead
<1>. HIDE DEF L, far, l, q, ty, W, X
<1>7. ASSUME i = count_ \/ p > L \/ q + 10 > L + 1 PROVE X = <<>>
  BY <1>3, <1>7
<1>8. ASSUME i # count_, far <= L + 1
      PROVE  /\ p <= L /\ q + 10 <= L + 1 /\ q = p + w /\ ty = r.type /\ W = l
             /\ SubSeq(m, p + w + 10, p + w + 10 + l - 1) = r.data
  <2>1. p <= L
    BY <1>1, <1>2, <1>8
  <2>. QED BY <1>1, <1>5, <1>6, <1>8, <2>1
<1>9. ASSUME i # count_, far <= L + 1, hit PROVE X = r.data
  <2>1. ~ (i = count_ \/ p > L \/ q + 10 > L + 1)
    BY <1>2, <1>8, <1>9
  <2>2. ty = 1 /\ W = 4 /\ q + 10 + 4 <= L + 1
    BY <1>1, <1>8, <1>9
  <2>3. X = SubSeq(m, q + 10, q + 10 + 3)
    BY <1>3, <2>1, <2>2
  <2>4. q + 10 = p + w + 10 /\ q + 10 + 3 = p + w + 10 + l - 1
    BY <1>1, <1>2, <1>8, <1>9
  <2>. QED BY <1>8, <1>9, <2>3, <2>4
<1>10. ASSUME i # count_, p <= L, q + 10 <= L + 1, ~ (far <= L + 1 /\ hit)
       PROVE  X = R[<<i + 1, far>>]
  <2>1. ~ (i = count_ \/ p > L \/ q + 10 > L + 1)
    BY <1>2, <1>10
  <2>2. q = p + w /\ ty = r.type /\ W = l
    BY <1>5, <1>10
  <2>3. ~ (ty = 1 /\ W = 4 /\ q + 10 + 4 <= L + 1)
    <3>1. SUFFICES ASSUME r.type = 1, l = 4, q + 10 + 4 <= L + 1 PROVE FALSE
      BY <2>2
    <3>2. far <= L + 1
      BY <1>1, <1>2, <2>2, <3>1
    <3>. QED BY <1>10, <3>1, <3>2
  <2>4. X = R[<<i + 1, q + 10 + W>>]
    BY <1>3, <2>1, <2>3
  <2>5. q + 10 + W = far
    BY <1>1, <2>2
  <2>. QED BY <2>4, <2>5
<1>11. ASSUME i # count_, far <= L + 1, ~ hit PROVE X = R[<<i + 1, far>>]
  BY <1>8, <1>10, <1>11
<1>12. ASSUME far > L + 1 PROVE X = <<>>
  <2>1. CASE i = count_ \/ p > L \/ q + 10 > L + 1
    BY <1>7, <2>1
  <2>2. CASE ~ (i = count_ \/ p > L \/ q + 10 > L + 1)
    <3>1. i # count_ /\ p <= L /\ q + 10 <= L + 1 /\ ~ (far <= L + 1)
      BY <1>1, <1>2, <1>12, <2>2
    <3>2. X = R[<<i + 1, far>>]
      BY <1>10, <3>1
    <3>3. R[<<i + 1, far>>] = <<>>
      <4>1. far \in Nat \ {0} /\ far > L /\ i + 1 \in Nat
        BY <1>1, <1>2, <1>12
      <4>. QED BY <4>1 DEF WalkRuns, L
    <3>. QED BY <3>2, <3>3
  <2>. QED BY <2>1, <2>2
<1>. QED BY <1>7, <1>9, <1>11, <1>12 DEF WalkedOver, L, X, far, l

\* The first bytes of a message.
LEMMA CutOff ==
  ASSUME NEW body \in Seq(Nat), NEW x \in Nat, x <= Len(body)
  PROVE  LET m == SubSeq(body, 1, x)
         IN  m \in Seq(Nat) /\ Len(m) = x /\ \A j \in 1 .. x : m[j] = body[j]
<1> DEFINE m == SubSeq(body, 1, x)
           L == Len(body)
<1>1. L \in Nat /\ x <= L
  BY LenProperties
<1>. HIDE DEF L
<1>2. \A j \in 1 .. x : j \in 1 .. L
  BY <1>1
<1>3. \A j \in 1 .. x : body[j] \in Nat
  BY <1>2, ElementOfSeq DEF L
<1>4. /\ m \in Seq(Nat) /\ Len(m) = IF 1 <= x THEN x - 1 + 1 ELSE 0
      /\ \A j \in 1 .. x - 1 + 1 : m[j] = body[1 + j - 1]
  BY <1>3, SubSeqProperties
<1>5. x - 1 + 1 = x /\ \A j \in 1 .. x : 1 + j - 1 = j
  OBVIOUS
<1>. HIDE DEF m
<1>6. Len(m) = x
  BY <1>4, <1>5
<1>7. \A j \in 1 .. x : m[j] = body[j]
  BY <1>4, <1>5
<1>. QED BY <1>4, <1>6, <1>7 DEF m

\* The records stand one behind the other.
LEMMA RecordsGrow ==
  ASSUME NEW a \in Answer, NEW st, NEW body, BodyLies(st, a, body),
         NEW e \in 1 .. Len(a.records) + 1, NEW k \in 1 .. Len(a.records) + 1, e <= k
  PROVE  st[e] \in Nat /\ st[k] \in Nat /\ st[e] <= st[k]
<1> DEFINE N == Len(a.records)
           Bad == {j \in Nat : j \in e .. N + 1 /\ ~ (st[e] <= st[j])}
<1>1. N \in Nat /\ a.records \in Seq(Wr!Record)
  BY LenProperties DEF Answer
<1>2. \A j \in 1 .. N + 1 : st[j] \in Nat
  BY DEF BodyLies
<1>3. ASSUME NEW j \in 1 .. N PROVE st[j] <= st[j + 1]
  <2> DEFINE l == Len(Wr!RecordBytes(a.records[j]))
  <2>1. a.records[j] \in Wr!Record
    BY <1>1, ElementOfSeq
  <2>2. PICK w : RecordIs(Wr!RecordBytes(a.records[j]), a.records[j], w)
    BY <2>1, RecordStands
  <2>3. l \in Nat
    BY <2>2, LenProperties DEF RecordIs
  <2>4. st[j + 1] = st[j] + l
    BY DEF BodyLies
  <2>5. st[j] \in Nat
    <3>1. j \in 1 .. N + 1
      BY <1>1
    <3>. QED BY <1>2, <3>1
  <2>. HIDE DEF l
  <2>. QED BY <2>3, <2>4, <2>5
<1>4. Bad = {}
  <2>1. SUFFICES ASSUME Bad # {} PROVE FALSE
    OBVIOUS
  <2>2. PICK j \in Bad : \A i \in Bad : j <= i
    BY <2>1, LeastNat
  <2>3. j \in e .. N + 1 /\ ~ (st[e] <= st[j])
    BY <2>2
  <2>4. st[e] \in Nat
    BY <1>2
  <2>5. j # e
    BY <2>3, <2>4
  <2> DEFINE i == j - 1
  <2>6. i \in e .. N + 1 /\ i \in 1 .. N /\ i + 1 = j /\ i \in Nat /\ i < j
    BY <1>1, <2>3, <2>5
  <2>. HIDE DEF i
  <2>7. i \notin Bad
    <3>. HIDE DEF Bad
    <3>. QED BY <2>2, <2>3, <2>6
  <2>8. st[e] <= st[i]
    BY <2>6, <2>7
  <2>9. st[i] <= st[j] /\ st[i] \in Nat /\ st[j] \in Nat
    <3>1. st[i] <= st[i + 1]
      BY <1>3, <2>6
    <3>2. i \in 1 .. N + 1 /\ j \in 1 .. N + 1
      BY <1>1, <2>3, <2>6
    <3>. QED BY <1>2, <2>6, <3>1, <3>2
  <2>. QED BY <2>3, <2>4, <2>8, <2>9
<1>5. k \in e .. N + 1 /\ k \in Nat
  BY <1>1
<1>. QED BY <1>2, <1>4, <1>5

\* A record that is an address and came whole, among those that count.
Found(a, x) ==
  {k \in DOMAIN a.records :
     /\ a.records[k].type = 1 /\ Len(a.records[k].data) = 4
     /\ k <= a.count /\ Wr!Needed(a, k) <= x}

FirstFound(a, x) ==
  Wr!Walk(SubSeq(Wr!Body(a), 1, x), a.count) =
    IF Found(a, x) = {} THEN <<>> ELSE a.records[Wr!Min(Found(a, x))].data

LEMMA AnswerIs ==
  ASSUME NEW a \in Answer, NEW x \in Nat, x <= Len(Wr!Body(a))
  PROVE  FirstFound(a, x)
<1> DEFINE body == Wr!Body(a)
           recs == a.records
           c == a.count
           N == Len(recs)
           B == Len(body)
           m == SubSeq(body, 1, x)
           lb == Wr!LabelBytes(a.question)
           H == Len(lb)
           Result == Wr!Walk(m, c)
           hit(k) == recs[k].type = 1 /\ Len(recs[k].data) = 4
<1>1. /\ recs \in Seq(Wr!Record) /\ N \in Nat /\ DOMAIN recs = 1 .. N /\ c \in Nat
      /\ a.question \in Seq(Wr!Label)
  BY LenProperties DEF Answer
<1>2. PICK st : BodyLies(st, a, body)
  BY BodyStands
<1>3. /\ body \in Seq(Nat) /\ st \in [1 .. N + 1 -> Nat \ {0}]
      /\ H \in Nat /\ st[1] = H + 5 /\ st[N + 1] = B + 1
      /\ \A j \in 1 .. H : body[j] = lb[j]
  BY <1>2 DEF BodyLies
<1>4. B \in Nat /\ x <= B
  BY <1>3, LenProperties
<1>5. m \in Seq(Nat) /\ Len(m) = x /\ \A j \in 1 .. x : m[j] = body[j]
  BY <1>3, CutOff
<1>. HIDE DEF m
<1>6. PICK R : WalkRuns(R, m, c)
  BY <1>1, <1>5, WalkRecursion
<1>7. \A k \in 1 .. N : Wr!Needed(a, k) = st[k + 1] - 1 /\ st[k + 1] \in Nat \ {0}
  BY <1>2, NeededIs
<1>8. \A e \in 1 .. N + 1, k \in 1 .. N + 1 : e <= k => st[e] \in Nat /\ st[k] \in Nat /\ st[e] <= st[k]
  BY <1>2, RecordsGrow
<1>9. \A k \in Found(a, x) : k \in 1 .. N /\ hit(k) /\ k <= c /\ st[k + 1] <= x + 1
  <2>1. ASSUME NEW k \in Found(a, x) PROVE k \in 1 .. N /\ hit(k) /\ k <= c /\ st[k + 1] <= x + 1
    <3>1. k \in 1 .. N /\ hit(k) /\ k <= c /\ Wr!Needed(a, k) <= x
      BY <1>1 DEF Found
    <3> DEFINE u == st[k + 1]
    <3>2. u \in Nat /\ u - 1 <= x
      BY <1>7, <3>1
    <3>. HIDE DEF u
    <3>3. u <= x + 1
      BY <3>2
    <3>. QED BY <3>1, <3>3 DEF u
  <2>. HIDE DEF hit, N
  <2>. QED BY <2>1
<1>10. ASSUME NEW k \in 1 .. N, hit(k), k <= c, st[k + 1] <= x + 1 PROVE k \in Found(a, x)
  <2> DEFINE u == st[k + 1]
  <2>1. u \in Nat /\ u <= x + 1 /\ Wr!Needed(a, k) = u - 1
    BY <1>7, <1>10
  <2>. HIDE DEF u
  <2>2. Wr!Needed(a, k) <= x
    BY <2>1
  <2>. QED BY <1>1, <1>10, <2>2 DEF Found
<1>11. ASSUME NEW p \in Nat \ {0}, p > x, NEW i \in Nat PROVE R[<<i, p>>] = <<>>
  BY <1>5, <1>6, <1>11 DEF WalkRuns
<1> DEFINE start == Wr!QuestionEnd(m)
<1>12. Result = R[<<0, start>>]
  BY <1>6 DEF WalkRuns
<1>13. /\ start \in Nat \ {0}
       /\ H <= x => start = st[1]
       /\ H > x => start > x
  <2>1. PICK T : Skips(T, m, 5) /\ start = T[1]
    BY <1>5, QuestionEndSkips
  <2>2. PICK starts : LabelsLie(starts, a.question, lb)
    BY <1>1, LabelsStand
  <2>3. StandAt(m, 1, lb)
    <3>1. ASSUME NEW j \in Nat, 1 <= j, j <= H, 1 + j - 1 <= x PROVE m[1 + j - 1] = lb[j]
      <4>1. 1 + j - 1 = j
        OBVIOUS
      <4>2. j \in 1 .. x /\ j \in 1 .. H
        BY <1>3, <3>1, <4>1
      <4>. QED BY <1>3, <1>5, <4>1, <4>2
    <3>. QED BY <1>5, <3>1 DEF StandAt
  <2>4. SkipsTo(T, m, 1, lb, 5)
    <3>1. 1 \in Nat \ {0} /\ 5 \in Nat
      OBVIOUS
    <3>. HIDE DEF lb
    <3>. QED BY <1>1, <1>5, <2>1, <2>2, <2>3, <3>1, LabelsSkipped, Zenon
  <2>5. /\ start \in Nat /\ H \in Nat \ {0}
        /\ 1 + H - 1 <= x => start = 1 + H - 1 + 5
        /\ 1 + H - 1 > x => start > x
    BY <1>5, <2>1, <2>4 DEF SkipsTo
  <2>. HIDE DEF start, H
  <2>. QED BY <1>3, <2>5
<1>14. CASE H > x
  <2>1. Result = <<>>
    BY <1>11, <1>12, <1>13, <1>14
  <2>2. Found(a, x) = {}
    <3>1. ASSUME NEW k \in Found(a, x) PROVE FALSE
      <4>1. k \in 1 .. N /\ st[k + 1] <= x + 1
        BY <1>9
      <4>2. 1 \in 1 .. N + 1 /\ k + 1 \in 1 .. N + 1 /\ 1 <= k + 1
        BY <1>1, <4>1
      <4> DEFINE u == st[k + 1]
      <4>3. u \in Nat /\ st[1] <= u /\ u <= x + 1
        BY <1>8, <4>1, <4>2
      <4>. HIDE DEF u, H
      <4>. QED BY <1>3, <1>14, <4>3
    <3>. QED BY <3>1
  <2>. QED BY <2>1, <2>2 DEF FirstFound, m
<1>15. CASE ~ (H > x)
  <2> DEFINE G == [k \in 1 .. N + 1 |-> R[<<k - 1, st[k]>>]]
             stop == {k \in 1 .. N + 1 : k = N + 1 \/ k - 1 = c \/ st[k + 1] > x + 1 \/ hit(k)}
  <2>1. Result = G[1]
    <3>1. 1 \in 1 .. N + 1 /\ 1 - 1 = 0
      BY <1>1
    <3>2. H <= x
      <4>. HIDE DEF H
      <4>. QED BY <1>3, <1>15
    <3>3. start = st[1]
      BY <1>13, <3>2
    <3>4. G[1] = R[<<1 - 1, st[1]>>]
      BY <3>1
    <3>. HIDE DEF G, start, Result
    <3>. QED BY <1>12, <3>1, <3>3, <3>4
  <2>2. ASSUME NEW k \in 1 .. N
        PROVE  WalkedOver(m, c, R, k - 1, st[k], recs[k], st[k + 1])
    <3> DEFINE b == Wr!RecordBytes(recs[k])
               p == st[k]
               i == k - 1
               r == recs[k]
    <3>1. r \in Wr!Record
      BY <1>1, ElementOfSeq
    <3>2. PICK w : RecordIs(b, r, w)
      BY <3>1, RecordStands
    <3>3. k \in 1 .. N + 1 /\ i \in Nat
      BY <1>1
    <3>4. p \in Nat \ {0}
      BY <1>3, <3>3
    <3>5. st[k + 1] = p + Len(b) /\ st[k + 1] <= B + 1 /\ \A j \in 1 .. Len(b) : body[p - 1 + j] = b[j]
      BY <1>2 DEF BodyLies
    <3>. HIDE DEF b, p, i
    <3>6. StandAt(m, p, b)
      <4>1. ASSUME NEW j \in Nat, 1 <= j, j <= Len(b), p + j - 1 <= x PROVE m[p + j - 1] = b[j]
        <5>1. Len(b) \in Nat
          BY <3>2, LenProperties DEF RecordIs
        <5>2. j \in 1 .. Len(b)
          BY <4>1, <5>1
        <5>3. p - 1 + j = p + j - 1 /\ p + j - 1 \in 1 .. x
          BY <3>4, <4>1
        <5>. QED BY <1>5, <3>5, <5>2, <5>3
      <4>. QED BY <1>5, <4>1 DEF StandAt
    <3>7. WalkedOver(m, c, R, i, p, r, p + Len(b))
      <4>. HIDE DEF r, c
      <4>. QED BY <1>1, <1>5, <1>6, <3>1, <3>2, <3>3, <3>4, <3>6, WalksOver, Zenon
    <3>. QED BY <3>5, <3>7 DEF p, i
  <2>3. ASSUME NEW k \in 1 .. N, k \notin stop PROVE G[k] = G[k + 1]
    <3> DEFINE u == st[k + 1]
    <3>1. k \in 1 .. N + 1 /\ k + 1 \in 1 .. N + 1 /\ k - 1 + 1 = k /\ (k + 1) - 1 = k
      BY <1>1
    <3>2. u \in Nat /\ k - 1 # c /\ ~ (u > x + 1) /\ ~ hit(k)
      BY <1>7, <2>3, <3>1
    <3>3. u <= x + 1
      <4>. HIDE DEF u
      <4>. QED BY <3>2
    <3>4. R[<<k - 1, st[k]>>] = R[<<k - 1 + 1, u>>]
      BY <1>5, <2>2, <3>2, <3>3 DEF WalkedOver
    <3>5. G[k] = R[<<k - 1, st[k]>>] /\ G[k + 1] = R[<<(k + 1) - 1, u>>]
      BY <3>1
    <3>. HIDE DEF G, stop, u
    <3>. QED BY <3>1, <3>4, <3>5
  <2>4. PICK e \in stop : G[1] = G[e] /\ \A k \in 1 .. e - 1 : k \notin stop
    <3>1. stop \in SUBSET (1 .. N + 1) /\ N + 1 \in stop
      BY <1>1
    <3>2. \A k \in 1 .. N : k \notin stop => G[k] = G[k + 1]
      <4>. HIDE DEF stop, G
      <4>. QED BY <2>3
    <3>3. N \in Nat
      BY <1>1
    <3>. HIDE DEF stop, G, N
    <3>9. Followed(G, stop)
      BY <3>1, <3>2, <3>3, Follow, Zenon
    <3>. QED BY <3>9 DEF Followed
  <2>5. e \in 1 .. N + 1 /\ (e = N + 1 \/ e - 1 = c \/ st[e + 1] > x + 1 \/ hit(e))
    BY <2>4
  <2>6. Result = R[<<e - 1, st[e]>>]
    <3>1. G[e] = R[<<e - 1, st[e]>>]
      BY <2>5
    <3>. QED BY <2>1, <2>4, <3>1
  <2>7. ASSUME NEW k \in Found(a, x) PROVE k \in Nat /\ e <= k /\ k <= N
    <3>1. k \in 1 .. N /\ hit(k)
      BY <1>9
    <3>2. k \in stop
      BY <1>1, <3>1
    <3>3. k \notin 1 .. e - 1
      <4>. HIDE DEF stop
      <4>. QED BY <2>4, <3>2
    <3>. QED BY <1>1, <2>5, <3>1, <3>3
  <2>. HIDE DEF G, stop, Result, B, H, start, hit
  <2>8. ASSUME e = N + 1 \/ e - 1 = c \/ st[e + 1] > x + 1
        PROVE  Result = <<>> /\ Found(a, x) = {}
    <3>1. CASE e = N + 1
      <4>1. R[<<e - 1, st[e]>>] = <<>>
        <5> DEFINE u == st[e]
                   i == e - 1
        <5>1. u = B + 1 /\ i \in Nat
          BY <1>1, <1>3, <3>1
        <5>. HIDE DEF u, i
        <5>2. u \in Nat \ {0} /\ u > x
          BY <1>4, <5>1
        <5>3. R[<<i, u>>] = <<>>
          BY <1>11, <5>1, <5>2
        <5>. QED BY <5>3 DEF u, i
      <4>2. ASSUME NEW k \in Found(a, x) PROVE FALSE
        BY <1>1, <2>7, <3>1
      <4>. QED BY <2>6, <4>1, <4>2
    <3>2. CASE e # N + 1 /\ e - 1 = c
      <4>1. e \in 1 .. N
        BY <1>1, <2>5, <3>2
      <4>2. R[<<e - 1, st[e]>>] = <<>>
        BY <2>2, <3>2, <4>1 DEF WalkedOver
      <4>3. ASSUME NEW k \in Found(a, x) PROVE FALSE
        BY <1>1, <1>9, <2>7, <3>2, <4>1
      <4>. QED BY <2>6, <4>2, <4>3
    <3>3. CASE e # N + 1 /\ e - 1 # c /\ st[e + 1] > x + 1
      <4>1. e \in 1 .. N
        BY <1>1, <2>5, <3>3
      <4>2. R[<<e - 1, st[e]>>] = <<>>
        BY <1>5, <2>2, <3>3, <4>1 DEF WalkedOver
      <4>3. ASSUME NEW k \in Found(a, x) PROVE FALSE
        <5> DEFINE u == st[e + 1]
                   v == st[k + 1]
        <5>1. e + 1 \in 1 .. N + 1 /\ k + 1 \in 1 .. N + 1 /\ e + 1 <= k + 1
          BY <1>1, <2>7, <4>1
        <5>2. u \in Nat /\ v \in Nat /\ u <= v /\ v <= x + 1 /\ u > x + 1
          BY <1>8, <1>9, <3>3, <5>1
        <5>. HIDE DEF u, v
        <5>. QED BY <5>2
      <4>. QED BY <2>6, <4>2, <4>3
    <3>. QED BY <2>8, <3>1, <3>2, <3>3
  <2>9. ASSUME ~ (e = N + 1 \/ e - 1 = c \/ st[e + 1] > x + 1)
        PROVE  Result = recs[e].data /\ e \in Found(a, x)
    <3> DEFINE u == st[e + 1]
    <3>1. e \in 1 .. N /\ hit(e) /\ e - 1 # c
      BY <1>1, <2>5, <2>9
    <3>2. u \in Nat /\ ~ (u > x + 1)
      BY <1>7, <2>9, <3>1
    <3>3. u <= x + 1
      <4>. HIDE DEF u
      <4>. QED BY <3>2
    <3>4. R[<<e - 1, st[e]>>] = recs[e].data
      BY <1>5, <2>2, <3>1, <3>3 DEF WalkedOver, hit
    <3>5. e <= c
      <4>1. SUFFICES ASSUME ~ (e <= c) PROVE FALSE
        OBVIOUS
      <4> DEFINE k == c + 1
      <4>2. k \in 1 .. e - 1 /\ k \in 1 .. N + 1 /\ k - 1 = c
        BY <1>1, <3>1, <4>1
      <4>. HIDE DEF k
      <4>3. k \in stop
        BY <4>2 DEF stop
      <4>. QED BY <2>4, <4>2, <4>3
    <3>6. e \in Found(a, x)
      BY <1>10, <3>1, <3>3, <3>5
    <3>. QED BY <2>6, <3>4, <3>6
  <2>10. CASE e = N + 1 \/ e - 1 = c \/ st[e + 1] > x + 1
    BY <2>8, <2>10 DEF FirstFound, Result, m
  <2>11. CASE ~ (e = N + 1 \/ e - 1 = c \/ st[e + 1] > x + 1)
    <3>1. Wr!Min(Found(a, x)) = e
      <4> DEFINE S == Found(a, x)
                 y == Wr!Min(S)
      <4>1. e \in S /\ \A k \in S : e <= k /\ k \in Nat
        BY <2>7, <2>9, <2>11
      <4>2. e \in Nat
        BY <2>5
      <4>. HIDE DEF S
      <4>3. y \in S /\ \A k \in S : y <= k
        BY <4>1 DEF Wr!Min
      <4>. HIDE DEF y
      <4>4. y \in Nat /\ y <= e /\ e <= y
        BY <4>1, <4>3
      <4>5. y = e
        BY <4>2, <4>4
      <4>. QED BY <4>5 DEF y, S
    <3>. QED BY <2>9, <2>11, <3>1 DEF FirstFound, Result, m
  <2>. QED BY <2>10, <2>11
<1>. QED BY <1>14, <1>15

-----------------------------------------------------------------------------
(* What comes out of every call.                                           *)

Least(t) == IF t = 53 THEN 1 ELSE 4

Answered ==
  \E a \in Answers, mine \in BOOLEAN, response \in BOOLEAN, cut_off \in Nat :
    /\ cut_off <= Len(Wr!Body(a))
    /\ input = [answer |-> a, mine |-> mine, response |-> response, size |-> cut_off]
    /\ output = IF ~ mine \/ ~ response THEN <<"ignored">>
                ELSE Wr!Walk(SubSeq(Wr!Body(a), 1, cut_off), a.count)

Sent ==
  \E type \in {1, 3}, ip \in Requests, server \in Requests :
    /\ input = [type |-> type, ip |-> ip, server |-> server]
    /\ output = Wr!OptionsMade(type, ip, server)

Sealed ==
  \E d \in Blocks :
    LET made == Wr!inet_cksum([d EXCEPT ![1] = 0, ![2] = 0])
    IN  output = [d EXCEPT ![1] = made \div 256, ![2] = made % 256]

WireInv ==
  /\ task = "answer" => Answered
  /\ task = "query" => input \in Names /\ output = Wr!Question(input)
  /\ task = "send" => Sent
  /\ task = "options" =>
       input \in OptionLists /\ output = [t \in Tags |-> Wr!Find(Wr!OptionBytes(input), t, Least(t))]
  /\ task = "seal" => Sealed

LEMMA WireInit == Wr!Init => WireInv
BY DEF Wr!Init, WireInv

LEMMA WireStays == WireInv /\ UNCHANGED wire => WireInv'
BY DEF WireInv, Answered, Sent, Sealed, Least, wire

LEMMA WireIs == Wr!WireAssumption
BY PlatformAssumption

LEMMA BodyIs == \A a \in Answers : a \in Answer /\ Len(Wr!Body(a)) \in Nat
<1>1. ASSUME NEW a \in Answers PROVE a \in Answer /\ Len(Wr!Body(a)) \in Nat
  <2>1. a \in Answer
    BY WireIs DEF Wr!WireAssumption, Answer
  <2>2. PICK st : BodyLies(st, a, Wr!Body(a))
    BY <2>1, BodyStands
  <2>3. Wr!Body(a) \in Seq(Nat)
    BY <2>2 DEF BodyLies
  <2>. QED BY <2>1, <2>3, LenProperties
<1>. QED BY <1>1

LEMMA WireNext == Wr!Next => WireInv'
<1>. SUFFICES ASSUME Wr!Next PROVE WireInv'
  OBVIOUS
<1>1. CASE Wr!Return
  BY <1>1 DEF Wr!Return, WireInv
<1>2. ASSUME NEW a \in Answers, NEW mine \in BOOLEAN, NEW response \in BOOLEAN,
             NEW k \in (IF mine /\ response THEN 0 ELSE Len(Wr!Body(a))) .. Len(Wr!Body(a)),
             Wr!dns_rx(a, mine, response, k)
      PROVE  WireInv'
  <2>1. k \in Nat /\ k <= Len(Wr!Body(a))
    <3>1. Len(Wr!Body(a)) \in Nat
      BY BodyIs
    <3> DEFINE l == Len(Wr!Body(a))
    <3>. HIDE DEF l
    <3>2. CASE mine /\ response
      BY <3>1, <3>2 DEF l
    <3>3. CASE ~ (mine /\ response)
      BY <3>1, <3>3 DEF l
    <3>. QED BY <3>2, <3>3
  <2>2. /\ task' = "answer"
        /\ input' = [answer |-> a, mine |-> mine, response |-> response, size |-> k]
        /\ output' = IF ~ mine \/ ~ response THEN <<"ignored">>
                     ELSE Wr!Walk(SubSeq(Wr!Body(a), 1, k), a.count)
    BY <1>2 DEF Wr!dns_rx, Wr!Done, Wr!Ignored
  <2>3. Answered'
    BY <2>1, <2>2 DEF Answered
  <2>. QED BY <2>2, <2>3 DEF WireInv
<1>3. ASSUME NEW name \in Names, Wr!dns_build_query(name) PROVE WireInv'
  BY <1>3 DEF Wr!dns_build_query, Wr!Done, WireInv
<1>4. ASSUME NEW type \in {1, 3}, NEW ip \in Requests, NEW server \in Requests,
             Wr!dhcp_send(type, ip, server)
      PROVE  WireInv'
  <2>1. task' = "send" /\ Sent'
    BY <1>4 DEF Wr!dhcp_send, Wr!Done, Sent
  <2>. QED BY <2>1 DEF WireInv
<1>5. ASSUME NEW list \in OptionLists, Wr!dhcp_rx(list) PROVE WireInv'
  <2>1. /\ task' = "options" /\ input' = list
        /\ output' = [t \in Tags |-> Wr!Find(Wr!OptionBytes(list), t, Least(t))]
    BY <1>5 DEF Wr!dhcp_rx, Wr!Done, Wr!MSG_TYPE, Least
  <2>. QED BY <2>1 DEF WireInv
<1>6. ASSUME NEW d \in Blocks, Wr!Seal(d) PROVE WireInv'
  <2>1. task' = "seal" /\ Sealed'
    BY <1>6 DEF Wr!Seal, Wr!Done, Sealed
  <2>. QED BY <2>1 DEF WireInv
<1>. QED BY <1>1, <1>2, <1>3, <1>4, <1>5, <1>6 DEF Wr!Next, Wr!DISCOVER, Wr!REQUEST

LEMMA WireInvHolds == MCSpec => []WireInv
<1>1. MCInit => WireInv
  BY WireInit DEF MCInit
<1>2. WireInv /\ [MCNext]_<<vars, part, allocator, texts, fields, formats, lines, wire>> => WireInv'
  BY WireNext, WireStays DEF MCNext
<1>. QED BY <1>1, <1>2, PTL DEF MCSpec

\* A query asks for the very name and never outgrows its buffer.
THEOREM QueryAsksForName == MCSpec => []Wr!QueriesAreRead
<1>1. WireInv => Wr!QueriesAreRead
  <2>. SUFFICES ASSUME WireInv, task = "query", output # <<>> PROVE ReadsAs(input, output)
    BY DEF Wr!QueriesAreRead, Wr!NoValue, ReadsAs, Fits, Spelled
  <2>1. input \in Names /\ output = Wr!Question(input)
    BY DEF WireInv
  <2>2. input \in Text /\ Proper(input)
    BY <2>1, WireIs DEF Wr!WireAssumption, Text, Proper
  <2>3. Dot \in Nat /\ QueryMax \in Nat /\ QueryMax >= 17
    <3>1. Dot \in Wr!Byte /\ QueryMax \in 17 .. 256
      BY WireIs DEF Wr!WireAssumption
    <3>. QED BY <3>1 DEF Wr!Byte
  <2>. QED BY <2>1, <2>2, <2>3, QuestionIsRead
<1>. QED BY <1>1, WireInvHolds, PTL

\* A DHCP message has its type, and a request the address and the server, if
\* there are any, where netd's reader looks for them.
THEOREM RequestIsRead == MCSpec => []Wr!RequestsAreRead
<1>1. WireInv => Wr!RequestsAreRead
  <2>. SUFFICES ASSUME WireInv, task = "send" PROVE Wr!RequestsAreRead
    BY DEF Wr!RequestsAreRead
  <2>1. PICK type \in {1, 3}, ip \in Requests, server \in Requests :
          /\ input = [type |-> type, ip |-> ip, server |-> server]
          /\ output = Wr!OptionsMade(type, ip, server)
    BY DEF WireInv, Sent
  <2>2. Zero = <<0, 0, 0, 0>> /\ ip \in Quad /\ server \in Quad
    BY WireIs DEF Wr!WireAssumption, Quad
  <2> DEFINE a == type = 3 /\ ip # Zero
             b == type = 3 /\ server # Zero
  <2>3. MadeLies(output, type, a, ip, b, server)
    BY <2>1, <2>2, OptionsMadeLie
  <2>4. a \in BOOLEAN /\ b \in BOOLEAN
    OBVIOUS
  <2>. HIDE DEF a, b
  <2>5. /\ Wr!Find(output, 53, 1) = <<type>>
        /\ Wr!Find(output, 50, 4) = IF a THEN ip ELSE <<>>
        /\ Wr!Find(output, 54, 4) = IF b THEN server ELSE <<>>
    BY <2>2, <2>3, <2>4, MadeIsRead
  <2>6. input.type = type /\ input.ip = ip /\ input.server = server
    BY <2>1
  <2>. QED BY <2>5, <2>6 DEF a, b, Wr!RequestsAreRead, Wr!MSG_TYPE, Wr!REQ_IP, Wr!SERVER_ID,
                             Wr!REQUEST, Wr!NoValue
<1>. QED BY <1>1, WireInvHolds, PTL

\* netd finds in any order of options the first of a kind that is long enough.
THEOREM OptionIsFound == MCSpec => []Wr!OptionsAreFound
<1>1. WireInv => Wr!OptionsAreFound
  <2>. SUFFICES ASSUME WireInv, task = "options", NEW t \in Tags
                PROVE  output[t] = Wr!FirstOption(input, t, Least(t))
    BY DEF Wr!OptionsAreFound, Wr!MSG_TYPE, Least
  <2>1. /\ input \in OptionLists
        /\ output = [s \in Tags |-> Wr!Find(Wr!OptionBytes(input), s, Least(s))]
    BY DEF WireInv
  <2>2. output[t] = Wr!Find(Wr!OptionBytes(input), t, Least(t))
    BY <2>1
  <2>3. input \in Seq(Opt) /\ t \in 1 .. 254
    BY <2>1, WireIs DEF Wr!WireAssumption, Opt
  <2>4. Least(t) \in Nat
    BY DEF Least
  <2>. HIDE DEF Least
  <2>. QED BY <2>2, <2>3, <2>4, OptionsAre
<1>. QED BY <1>1, WireInvHolds, PTL

\* A checksum that was put in makes the checksum of the whole 0.
THEOREM SealedSumsToZero == MCSpec => []Wr!SumsToZero
<1>1. WireInv => Wr!SumsToZero
  <2>. SUFFICES ASSUME WireInv, task = "seal" PROVE Wr!inet_cksum(output) = 0
    BY DEF Wr!SumsToZero
  <2>1. PICK d \in Blocks :
          LET made == Wr!inet_cksum([d EXCEPT ![1] = 0, ![2] = 0])
          IN  output = [d EXCEPT ![1] = made \div 256, ![2] = made % 256]
    BY DEF WireInv, Sealed
  <2>2. d \in Text /\ Len(d) >= 2
    BY WireIs DEF Wr!WireAssumption, Text
  <2>3. d \in Seq(Nat)
    BY <2>2, TextIsNat
  <2>4. Len(d) \in Nat /\ d \in [1 .. Len(d) -> Nat]
    BY <2>3, LenProperties
  <2>. QED BY <2>1, <2>2, <2>4, SealIsZero
<1>. QED BY <1>1, WireInvHolds, PTL

\* What netd writes, a reader of the protocol reads as meant, and what others
\* write netd finds.
THEOREM WrittenAsMeant == MCSpec => []WrittenIsRead
<1>1. /\ Wr!QueriesAreRead /\ Wr!RequestsAreRead /\ Wr!OptionsAreFound /\ Wr!SumsToZero
      => WrittenIsRead
  BY DEF WrittenIsRead, Wr!WrittenIsRead
<1>. QED BY <1>1, QueryAsksForName, RequestIsRead, OptionIsFound, SealedSumsToZero, PTL

\* dns_rx finds the address of the first address record that came whole and is
\* among those that count, and nothing in a message for another query.
THEOREM AnswersAreFound == MCSpec => []FindsTheRecord
<1>1. WireInv => Wr!FindsTheRecord
  <2>. SUFFICES ASSUME WireInv, task = "answer" PROVE Wr!FindsTheRecord
    BY DEF Wr!FindsTheRecord
  <2>1. PICK a \in Answers, mine \in BOOLEAN, response \in BOOLEAN, x \in Nat :
          /\ x <= Len(Wr!Body(a))
          /\ input = [answer |-> a, mine |-> mine, response |-> response, size |-> x]
          /\ output = IF ~ mine \/ ~ response THEN <<"ignored">>
                      ELSE Wr!Walk(SubSeq(Wr!Body(a), 1, x), a.count)
    BY DEF WireInv, Answered
  <2>2. FirstFound(a, x)
    BY <2>1, BodyIs, AnswerIs
  <2>3. input.answer = a /\ input.mine = mine /\ input.response = response /\ input.size = x
    BY <2>1
  <2>4. output = IF ~ (mine /\ response) THEN <<"ignored">>
                 ELSE IF Found(a, x) = {} THEN <<>> ELSE a.records[Wr!Min(Found(a, x))].data
    <3>1. CASE mine /\ response
      BY <2>1, <2>2, <3>1 DEF FirstFound
    <3>2. CASE ~ (mine /\ response)
      BY <2>1, <3>2
    <3>. QED BY <3>1, <3>2
  <2>. QED BY <2>3, <2>4 DEF Found, Wr!FindsTheRecord, Wr!NoValue, Wr!Ignored
<1>. QED BY <1>1, WireInvHolds, PTL DEF FindsTheRecord

=============================================================================
