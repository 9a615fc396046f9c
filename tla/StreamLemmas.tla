---------------------------- MODULE StreamLemmas -----------------------------
(***************************************************************************)
(* What the members of ByteStream and of the Reassembler that writes to    *)
(* one preserve and return, for the proofs of the components that own      *)
(* them. What is said of the chunk queue is what does not need an          *)
(* induction over it.                                                      *)
(***************************************************************************)
EXTENDS ReassemblerOps, SequenceTheorems, WellFoundedInduction, TLAPS

-----------------------------------------------------------------------------
(* Numbers and recursion. The provers cannot apply an induction theorem,   *)
(* for it takes a predicate; a counterexample that is the least of its     *)
(* kind takes its place.                                                   *)

\* A set of natural numbers has a least element, the one Min returns.
LEMMA SmallestOf ==
    ASSUME NEW S \in SUBSET Nat, S # {}
    PROVE  Min(S) \in S /\ \A k \in S : Min(S) <= k
<1>. DEFINE R == {ss \in Nat \X Nat : ss[1] < ss[2]}
<1>1. R = OpToRel(<, Nat)
  BY DEF OpToRel
<1>2. IsWellFoundedOn(R, Nat)
  BY <1>1, NatLessThanWellFounded
<1>3. PICK m \in S : \A k \in S : ~ <<k, m>> \in R
  <2>. HIDE DEF R
  <2>. QED BY <1>2, WFMin
<1>4. \A k \in Nat, n \in Nat : k < n => <<k, n>> \in R
  <2>1. SUFFICES ASSUME NEW k \in Nat, NEW n \in Nat, k < n
                 PROVE  <<k, n>> \in R
    OBVIOUS
  <2>2. <<k, n>> \in Nat \X Nat /\ <<k, n>>[1] = k /\ <<k, n>>[2] = n
    OBVIOUS
  <2>3. QED
    BY <2>1, <2>2
<1>5. \A k \in S : m <= k
  <2>. HIDE DEF R
  <2>1. TAKE k \in S
  <2>2. k \in Nat /\ m \in Nat
    OBVIOUS
  <2>3. ~ (k < m)
    BY <1>3, <1>4, <2>2
  <2>4. QED
    BY <2>2, <2>3
<1>6. QED
  BY <1>5 DEF Min

\* A function on the numbers up to n that starts with a and goes on by step.
Unfolds(f, n, V, a, step) ==
    /\ f \in [0 .. n -> V]
    /\ f[0] = a
    /\ \A i \in 1 .. n : f[i] = step[<<i, f[i - 1]>>]

LEMMA UnfoldingExists ==
    ASSUME NEW V, NEW a \in V, NEW step \in [Nat \X V -> V], NEW n \in Nat
    PROVE  \E f : Unfolds(f, n, V, a, step)
<1>. DEFINE S == {m \in Nat : ~ \E f : Unfolds(f, m, V, a, step)}
<1>. SUFFICES S = {}
  OBVIOUS
<1>. SUFFICES ASSUME S # {} PROVE FALSE
  OBVIOUS
<1>. DEFINE m == Min(S)
<1>1. m \in S /\ \A k \in S : m <= k
  <2>. HIDE DEF S
  <2>1. S \in SUBSET Nat
    BY DEF S
  <2>. QED BY <2>1, SmallestOf
<1>. HIDE DEF m
<1>2. m \in Nat /\ ~ \E f : Unfolds(f, m, V, a, step)
  BY <1>1
<1>3. CASE m = 0
  <2>1. Unfolds([i \in 0 .. 0 |-> a], 0, V, a, step)
    BY DEF Unfolds
  <2>. QED BY <1>2, <1>3, <2>1
<1>4. CASE m > 0
  <2>1. m - 1 \in Nat /\ m - 1 \notin S
    BY <1>1, <1>2, <1>4
  <2>2. PICK f : Unfolds(f, m - 1, V, a, step)
    BY <2>1
  <2>. DEFINE g == [i \in 0 .. m |-> IF i = m THEN step[<<m, f[m - 1]>>] ELSE f[i]]
  <2>3. f[m - 1] \in V
    BY <1>2, <1>4, <2>2 DEF Unfolds
  <2>4. step[<<m, f[m - 1]>>] \in V
    BY <1>2, <2>3
  <2>5. g \in [0 .. m -> V]
    BY <1>2, <1>4, <2>2, <2>4 DEF Unfolds
  <2>6. g[0] = a
    BY <1>2, <1>4, <2>2 DEF Unfolds
  <2>7. ASSUME NEW i \in 1 .. m PROVE g[i] = step[<<i, g[i - 1]>>]
    <3>1. i \in 0 .. m /\ i - 1 \in 0 .. m /\ i - 1 # m /\ g[i - 1] = f[i - 1]
      BY <1>2
    <3>2. CASE i = m
      BY <3>1, <3>2
    <3>3. CASE i # m
      <4>1. i \in 1 .. m - 1
        BY <1>2, <3>3
      <4>2. f[i] = step[<<i, f[i - 1]>>]
        BY <2>2, <4>1 DEF Unfolds
      <4>. QED BY <3>1, <3>3, <4>2
    <3>. QED BY <3>2, <3>3
  <2>. HIDE DEF g
  <2>8. Unfolds(g, m, V, a, step)
    BY <2>5, <2>6, <2>7 DEF Unfolds
  <2>. QED BY <1>2, <2>8
<1>. QED BY <1>2, <1>3, <1>4

LEMMA UnfoldingsAgree ==
    ASSUME NEW V, NEW a, NEW step, NEW f, NEW n \in Nat, Unfolds(f, n, V, a, step),
           NEW g, NEW l \in Nat, Unfolds(g, l, V, a, step), n <= l,
           NEW i \in 0 .. n
    PROVE  f[i] = g[i]
<1>. DEFINE S == {k \in 0 .. n : f[k] # g[k]}
<1>. SUFFICES ASSUME S # {} PROVE FALSE
  OBVIOUS
<1>. DEFINE m == Min(S)
<1>1. m \in S /\ \A k \in S : m <= k
  <2>. HIDE DEF S
  <2>1. S \in SUBSET Nat
    BY DEF S
  <2>. QED BY <2>1, SmallestOf
<1>. HIDE DEF m
<1>2. m \in 0 .. n /\ m # 0
  BY <1>1 DEF Unfolds
<1>3. m - 1 \in 0 .. n /\ f[m - 1] = g[m - 1]
  BY <1>1, <1>2
<1>4. f[m] = step[<<m, f[m - 1]>>] /\ g[m] = step[<<m, g[m - 1]>>]
  BY <1>2 DEF Unfolds
<1>. QED BY <1>1, <1>3, <1>4

\* A function on all numbers that does, and there is one.
UnfoldsForever(f, V, a, step) ==
    /\ f \in [Nat -> V]
    /\ f[0] = a
    /\ \A i \in Nat : f[i + 1] = step[<<i + 1, f[i]>>]

LEMMA RecursionExists ==
    ASSUME NEW V, NEW a \in V, NEW step \in [Nat \X V -> V]
    PROVE  \E f : UnfoldsForever(f, V, a, step)
<1>. DEFINE U(n) == CHOOSE f : Unfolds(f, n, V, a, step)
            f == [n \in Nat |-> U(n)[n]]
<1>1. ASSUME NEW n \in Nat PROVE Unfolds(U(n), n, V, a, step)
  BY UnfoldingExists
<1>. HIDE DEF U
<1>2. f \in [Nat -> V]
  BY <1>1 DEF Unfolds
<1>3. f[0] = a
  BY <1>1 DEF Unfolds
<1>4. ASSUME NEW i \in Nat PROVE f[i + 1] = step[<<i + 1, f[i]>>]
  <2>1. i + 1 \in Nat /\ i <= i + 1 /\ i \in 0 .. i /\ i + 1 \in 1 .. i + 1
    OBVIOUS
  <2>. DEFINE j == i + 1
  <2>2. j \in Nat /\ i <= j /\ j \in 1 .. j /\ j - 1 = i
    BY <2>1
  <2>3. U(j)[j] = step[<<j, U(j)[i]>>]
    BY <1>1, <2>2 DEF Unfolds
  <2>. HIDE DEF j, f
  <2>4. U(i)[i] = U(j)[i]
    BY <1>1, <2>1, <2>2, UnfoldingsAgree
  <2>. QED BY <2>2, <2>3, <2>4 DEF f, j
<1>. HIDE DEF f
<1>. QED BY <1>2, <1>3, <1>4 DEF UnfoldsForever

-----------------------------------------------------------------------------
(* The bytes of a queue of chunks *)

\* f[i] is what the first i chunks of q hold, end to end.
Joins(f, q, T) ==
    /\ f \in [Nat -> Seq(T)]
    /\ f[0] = <<>>
    /\ \A i \in 1 .. Len(q) : f[i] = f[i - 1] \o q[i]

LEMMA JoinExists ==
    ASSUME NEW T, NEW q \in Seq(Seq(T))
    PROVE  \E f : Joins(f, q, T)
<1>. DEFINE V == Seq(T)
            a == <<>>
            step == [p \in Nat \X V |-> IF p[1] \in 1 .. Len(q) THEN p[2] \o q[p[1]] ELSE p[2]]
<1>1. step \in [Nat \X V -> V]
  <2>. SUFFICES ASSUME NEW n \in Nat, NEW v \in V
                PROVE  (IF n \in 1 .. Len(q) THEN v \o q[n] ELSE v) \in V
    OBVIOUS
  <2>1. n \in 1 .. Len(q) => q[n] \in Seq(T)
    BY ElementOfSeq
  <2>2. n \in 1 .. Len(q) => v \o q[n] \in Seq(T)
    BY <2>1, ConcatProperties
  <2>. QED BY <2>2
<1>2. a \in V
  OBVIOUS
<1>. HIDE DEF V, step, a
<1>3. PICK f : UnfoldsForever(f, V, a, step)
  BY <1>1, <1>2, RecursionExists
<1>4. ASSUME NEW i \in 1 .. Len(q) PROVE f[i] = f[i - 1] \o q[i]
  <2>1. i \in Nat /\ i - 1 \in Nat /\ (i - 1) + 1 = i /\ f[i - 1] \in V
    BY <1>3 DEF UnfoldsForever
  <2>2. f[i] = step[<<i, f[i - 1]>>]
    BY <1>3, <2>1 DEF UnfoldsForever
  <2>. QED BY <2>1, <2>2 DEF step
<1>. QED BY <1>3, <1>4 DEF UnfoldsForever, Joins, V, a

LEMMA FlattenIs ==
    ASSUME NEW T, NEW q \in Seq(Seq(T)), NEW f, Joins(f, q, T)
    PROVE  FlattenSeq(q) = f[Len(q)]
<1>1. Len(q) \in Nat
  OBVIOUS
<1>2. CASE Len(q) = 0
  <2>1. q = <<>>
    BY <1>2
  <2>. QED BY <1>2, <2>1 DEF FlattenSeq, Joins
<1>3. CASE Len(q) # 0
  <2>. DEFINE Eq(g) == g = [i \in 1 .. Len(q) |-> IF i = 1 THEN q[i] ELSE g[i - 1] \o q[i]]
              flat == CHOOSE g : Eq(g)
              h == [i \in 1 .. Len(q) |-> f[i]]
  <2>1. FlattenSeq(q) = flat[Len(q)]
    BY <1>3 DEF FlattenSeq
  <2>2. ASSUME NEW i \in 1 .. Len(q) PROVE h[i] = IF i = 1 THEN q[i] ELSE h[i - 1] \o q[i]
    <3>0. q[i] \in Seq(T)
      BY ElementOfSeq
    <3>1. f[i] = f[i - 1] \o q[i]
      BY DEF Joins
    <3>2. CASE i = 1
      <4>0. i - 1 = 0
        BY <3>2
      <4>1. f[1] = <<>> \o q[1] /\ q[1] \in Seq(T)
        BY <3>0, <3>1, <3>2, <4>0 DEF Joins
      <4>2. <<>> \o q[1] = q[1]
        BY <4>1, ConcatEmptySeq
      <4>. QED BY <3>2, <4>1, <4>2
    <3>3. CASE i # 1
      <4>1. i - 1 \in 1 .. Len(q)
        BY <1>1, <3>3
      <4>. QED BY <3>1, <3>3, <4>1
    <3>. QED BY <3>2, <3>3
  <2>3. Eq(h)
    BY <2>2
  <2>. HIDE DEF h
  <2>4. Eq(flat)
    BY <2>3
  <2>. HIDE DEF flat
  <2>5. ASSUME NEW i \in 1 .. Len(q)
        PROVE  flat[i] = IF i = 1 THEN q[i] ELSE flat[i - 1] \o q[i]
    BY <2>4
  <2>. HIDE DEF Eq
  <2>6. \A i \in 1 .. Len(q) : flat[i] = f[i]
    <3>. DEFINE S == {i \in 1 .. Len(q) : flat[i] # f[i]}
    <3>. SUFFICES ASSUME S # {} PROVE FALSE
      OBVIOUS
    <3>. DEFINE m == Min(S)
    <3>1. m \in S /\ \A k \in S : m <= k
      <4>. HIDE DEF S
      <4>1. S \in SUBSET Nat
        BY DEF S
      <4>. QED BY <4>1, SmallestOf
    <3>. HIDE DEF m
    <3>2. m \in 1 .. Len(q) /\ flat[m] # f[m]
      BY <3>1
    <3>3. f[m] = f[m - 1] \o q[m]
      BY <3>2 DEF Joins
    <3>4. CASE m = 1
      <4>0. q[1] \in Seq(T) /\ m - 1 = 0
        BY <3>2, <3>4, ElementOfSeq
      <4>1. f[1] = <<>> \o q[1]
        BY <3>3, <3>4, <4>0 DEF Joins
      <4>2. <<>> \o q[1] = q[1]
        BY <4>0, ConcatEmptySeq
      <4>. QED BY <2>5, <3>2, <3>4, <4>1, <4>2
    <3>5. CASE m # 1
      <4>1. m - 1 \in 1 .. Len(q) /\ m - 1 \notin S
        <5>. HIDE DEF S
        <5>1. m - 1 \in 1 .. Len(q) /\ ~(m <= m - 1)
          BY <1>1, <3>2, <3>5
        <5>. QED BY <3>1, <5>1
      <4>2. flat[m - 1] = f[m - 1]
        BY <4>1
      <4>. QED BY <2>5, <3>2, <3>3, <3>5, <4>2
    <3>. QED BY <3>4, <3>5
  <2>. QED BY <1>1, <1>3, <2>1, <2>6
<1>. QED BY <1>2, <1>3

LEMMA FlattenType ==
    ASSUME NEW T, NEW q \in Seq(Seq(T))
    PROVE  FlattenSeq(q) \in Seq(T)
<1>1. PICK f : Joins(f, q, T)
  BY JoinExists
<1>2. FlattenSeq(q) = f[Len(q)]
  BY <1>1, FlattenIs
<1>. QED BY <1>1, <1>2 DEF Joins

\* A chunk at the end adds its bytes at the end.
LEMMA FlattenAppend ==
    ASSUME NEW T, NEW q \in Seq(Seq(T)), NEW chunk \in Seq(T)
    PROVE  FlattenSeq(Append(q, chunk)) = FlattenSeq(q) \o chunk
<1>. DEFINE r == Append(q, chunk)
<1>. DEFINE C == Seq(T)
<1>0. q \in Seq(C) /\ chunk \in C
  OBVIOUS
<1>. HIDE DEF C
<1>1. /\ r \in Seq(C) /\ Len(q) \in Nat /\ Len(r) = Len(q) + 1 /\ r[Len(r)] = chunk
      /\ \A i \in 1 .. Len(q) : r[i] = q[i]
  BY <1>0, AppendProperties
<1>. HIDE DEF r
<1>. USE DEF C
<1>2. PICK f : Joins(f, r, T)
  BY <1>1, JoinExists
<1>3. Joins(f, q, T)
  <2>1. \A i \in 1 .. Len(q) : i \in 1 .. Len(r)
    BY <1>1
  <2>. QED BY <1>1, <1>2, <2>1 DEF Joins
<1>4. FlattenSeq(r) = f[Len(r)] /\ FlattenSeq(q) = f[Len(q)]
  BY <1>1, <1>2, <1>3, FlattenIs
<1>5. f[Len(r)] = f[Len(q)] \o chunk
  <2>1. Len(r) \in 1 .. Len(r) /\ Len(r) - 1 = Len(q)
    BY <1>1
  <2>. QED BY <1>1, <1>2, <2>1 DEF Joins
<1>. QED BY <1>4, <1>5 DEF r

\* What is left of two strings end to end when n bytes are cut off the front.
LEMMA CutInFirst ==
    ASSUME NEW T, NEW u \in Seq(T), NEW v \in Seq(T), NEW n \in Nat, n <= Len(u)
    PROVE  SubSeq(u \o v, n + 1, Len(u \o v)) = SubSeq(u, n + 1, Len(u)) \o v
<1>. DEFINE l == SubSeq(u \o v, n + 1, Len(u \o v))
            r == SubSeq(u, n + 1, Len(u)) \o v
            k == Len(u) - n
<1>1. /\ Len(u) \in Nat /\ Len(v) \in Nat /\ k \in Nat
      /\ u \o v \in Seq(T) /\ Len(u \o v) = Len(u) + Len(v)
      /\ \A i \in 1 .. Len(u) + Len(v) : (u \o v)[i] = IF i <= Len(u) THEN u[i] ELSE v[i - Len(u)]
  BY ConcatProperties
<1>2. l = [i \in 1 .. k + Len(v) |-> (u \o v)[i + n]]
  BY <1>1
<1>3. SubSeq(u, n + 1, Len(u)) = [i \in 1 .. k |-> u[i + n]]
  BY <1>1
<1>4. SubSeq(u, n + 1, Len(u)) \in Seq(T) /\ Len(SubSeq(u, n + 1, Len(u))) = k
  <2>. HIDE DEF k
  <2>1. [i \in 1 .. k |-> u[i + n]] \in [1 .. k -> T]
    <3>1. \A i \in 1 .. k : i + n \in 1 .. Len(u)
      BY <1>1 DEF k
    <3>. QED BY <3>1, ElementOfSeq
  <2>. QED BY <1>1, <1>3, <2>1
<1>5. /\ r \in Seq(T) /\ Len(r) = k + Len(v)
      /\ \A i \in 1 .. k + Len(v) : r[i] = IF i <= k THEN SubSeq(u, n + 1, Len(u))[i] ELSE v[i - k]
  BY <1>4, ConcatProperties
<1>6. ASSUME NEW i \in 1 .. k + Len(v) PROVE l[i] = r[i]
  <2>1. l[i] = (u \o v)[i + n] /\ i + n \in 1 .. Len(u) + Len(v)
    BY <1>1, <1>2
  <2>2. CASE i <= k
    <3>1. r[i] = u[i + n] /\ i + n <= Len(u)
      BY <1>1, <1>3, <1>5, <2>2
    <3>. QED BY <1>1, <2>1, <3>1
  <2>3. CASE i > k
    <3>1. r[i] = v[i - k] /\ ~(i + n <= Len(u)) /\ i + n - Len(u) = i - k
      BY <1>1, <1>5, <2>3
    <3>2. (u \o v)[i + n] = v[i + n - Len(u)]
      BY <1>1, <2>1, <3>1
    <3>. HIDE DEF l, r
    <3>. QED BY <2>1, <3>1, <3>2
  <2>. QED BY <1>1, <2>2, <2>3
<1>. HIDE DEF k, r
<1>7. r = [i \in 1 .. k + Len(v) |-> r[i]]
  BY <1>5
<1>8. l = r
  BY <1>2, <1>6, <1>7
<1>. QED BY <1>8 DEF r

LEMMA CutInSecond ==
    ASSUME NEW T, NEW u \in Seq(T), NEW v \in Seq(T), NEW n \in Nat,
           Len(u) <= n, n <= Len(u \o v)
    PROVE  SubSeq(u \o v, n + 1, Len(u \o v)) = SubSeq(v, n - Len(u) + 1, Len(v))
<1>1. /\ Len(u) \in Nat /\ Len(v) \in Nat
      /\ u \o v \in Seq(T) /\ Len(u \o v) = Len(u) + Len(v)
      /\ \A i \in 1 .. Len(u) + Len(v) : (u \o v)[i] = IF i <= Len(u) THEN u[i] ELSE v[i - Len(u)]
  BY ConcatProperties
<1>. DEFINE k == Len(u) + Len(v) - n
            d == n - Len(u)
<1>2. k \in Nat /\ d \in Nat /\ k = Len(v) - d
  BY <1>1
<1>3. SubSeq(u \o v, n + 1, Len(u \o v)) = [i \in 1 .. k |-> (u \o v)[i + n]]
  BY <1>1
<1>4. SubSeq(v, d + 1, Len(v)) = [i \in 1 .. k |-> v[i + d]]
  BY <1>1, <1>2
<1>5. ASSUME NEW i \in 1 .. k PROVE (u \o v)[i + n] = v[i + d]
  <2>1. i + n \in 1 .. Len(u) + Len(v) /\ ~(i + n <= Len(u)) /\ i + n - Len(u) = i + d
    BY <1>1, <1>2
  <2>. QED BY <1>1, <2>1
<1>. QED BY <1>3, <1>4, <1>5

\* The first k chunks of a queue, joined.
LEMMA JoinedUpTo ==
    ASSUME NEW T, NEW q \in Seq(Seq(T)), NEW f, Joins(f, q, T), NEW k \in 0 .. Len(q)
    PROVE  BytesUpTo(q, k) = Len(f[k])
<1>. DEFINE C == Seq(T)
            p == SubSeq(q, 1, k)
<1>1. q \in Seq(C) /\ Len(q) \in Nat /\ k \in Nat
  OBVIOUS
<1>. HIDE DEF C
<1>2. p \in Seq(C) /\ Len(p) = k /\ \A i \in 1 .. k : p[i] = q[i]
  <2>1. \A i \in 1 .. k : q[i] \in C
    BY <1>1, ElementOfSeq
  <2>. QED BY <1>1, <2>1, SubSeqProperties
<1>. HIDE DEF p
<1>3. Joins(f, p, T)
  <2>1. \A i \in 1 .. k : i \in 1 .. Len(q)
    BY <1>1
  <2>. QED BY <1>2, <2>1 DEF Joins
<1>4. FlattenSeq(p) = f[Len(p)]
  BY <1>2, <1>3, FlattenIs DEF C
<1>. QED BY <1>2, <1>4 DEF BytesUpTo, p

(***************************************************************************)
(* The loop of Reader::pop takes the first n bytes away and no others,     *)
(* however they are spread over the chunks.                                *)
(***************************************************************************)
LEMMA FlattenDrop ==
    ASSUME NEW T, NEW q \in Seq(Seq(T)), NEW n \in Nat, n <= Len(FlattenSeq(q))
    PROVE  /\ DropBytes(q, n) \in Seq(Seq(T))
           /\ FlattenSeq(DropBytes(q, n)) = SubSeq(FlattenSeq(q), n + 1, Len(FlattenSeq(q)))
<1>. DEFINE C == Seq(T)
            L == Len(q)
<1>1. q \in Seq(C) /\ L \in Nat
  OBVIOUS
<1>2. PICK f : Joins(f, q, T)
  BY JoinExists
<1>. DEFINE b == [k \in Nat |-> Len(f[k])]
<1>3. /\ \A k \in Nat : f[k] \in Seq(T) /\ b[k] \in Nat /\ b[k] = Len(f[k])
      /\ f[0] = <<>> /\ b[0] = 0
      /\ \A k \in 1 .. L : f[k] = f[k - 1] \o q[k]
  <2>1. \A k \in Nat : f[k] \in Seq(T)
    BY <1>2 DEF Joins
  <2>2. \A k \in Nat : b[k] = Len(f[k]) /\ b[k] \in Nat
    BY <2>1, LenProperties
  <2>3. f[0] = <<>> /\ \A k \in 1 .. L : f[k] = f[k - 1] \o q[k]
    BY <1>2 DEF Joins
  <2>4. Len(<<>>) = 0
    OBVIOUS
  <2>. QED BY <2>1, <2>2, <2>3, <2>4
<1>. HIDE DEF b, L
<1>4. ASSUME NEW k \in 0 .. L PROVE BytesUpTo(q, k) = b[k]
  <2>1. k \in Nat
    BY <1>1
  <2>2. BytesUpTo(q, k) = Len(f[k])
    BY <1>2, JoinedUpTo DEF L
  <2>. QED BY <1>3, <2>1, <2>2
<1>5. FlattenSeq(q) = f[L]
  BY <1>2, FlattenIs DEF L
<1>6. \A k \in 1 .. L : q[k] \in Seq(T) /\ Len(q[k]) \in Nat
  BY ElementOfSeq, LenProperties DEF L
<1>7. ASSUME NEW k \in 1 .. L PROVE b[k] = b[k - 1] + Len(q[k])
  <2>1. k \in Nat /\ k - 1 \in Nat
    BY <1>1
  <2>2. f[k] = f[k - 1] \o q[k] /\ f[k - 1] \in Seq(T) /\ q[k] \in Seq(T)
    BY <1>3, <1>6, <2>1
  <2>3. Len(f[k - 1] \o q[k]) = Len(f[k - 1]) + Len(q[k])
    BY <2>2, ConcatProperties
  <2>. QED BY <1>3, <2>1, <2>2, <2>3
<1>. DEFINE beyond == {k \in 1 .. L : b[k] > n}
            w == Min(beyond)
            cut == SubSeq(q[w], n - b[w - 1] + 1, Len(q[w]))
            rest == SubSeq(q, w + 1, L)
            r == <<cut>> \o rest
<1>10. {k \in DOMAIN q : BytesUpTo(q, k) > n} = beyond
  <2>1. DOMAIN q = 1 .. L
    BY DEF L
  <2>2. \A k \in 1 .. L : k \in 0 .. L
    BY <1>1
  <2>3. \A k \in 1 .. L : BytesUpTo(q, k) = b[k]
    BY <1>4, <2>2
  <2>. QED BY <2>1, <2>3
<1>8. CASE beyond = {}
  <2>2. DropBytes(q, n) = <<>>
    <3>. HIDE DEF beyond
    <3>. QED BY <1>8, <1>10 DEF DropBytes
  <2>3. b[L] <= n
    <3>1. CASE L \in 1 .. L
      <4>1. L \notin beyond /\ b[L] \in Nat
        BY <1>1, <1>3, <1>8
      <4>2. ~(b[L] > n)
        BY <3>1, <4>1
      <4>. QED BY <4>1, <4>2
    <3>2. CASE L = 0
      BY <1>3, <3>2
    <3>. QED BY <1>1, <3>1, <3>2
  <2>4. SubSeq(f[L], n + 1, Len(f[L])) = <<>>
    <3>1. Len(f[L]) \in Int /\ n + 1 \in Int /\ Len(f[L]) < n + 1
      BY <1>1, <1>3, <2>3
    <3>. QED BY <3>1, SubSeqEmpty
  <2>5. <<>> \in Seq(Seq(T)) /\ FlattenSeq(<<>>) = <<>>
    BY DEF FlattenSeq
  <2>. QED BY <1>5, <2>2, <2>4, <2>5
<1>9. CASE beyond # {}
  <2>1. w \in 1 .. L /\ b[w] > n /\ \A k \in beyond : w <= k
    <3>. HIDE DEF beyond
    <3>1. beyond \in SUBSET Nat
      BY DEF beyond
    <3>2. w \in beyond /\ \A k \in beyond : w <= k
      BY <1>9, <3>1, SmallestOf
    <3>. QED BY <3>2 DEF beyond
  <2>2. DropBytes(q, n) = r
    <3>2. BytesUpTo(q, w - 1) = b[w - 1]
      <4>1. w - 1 \in 0 .. L
        BY <1>1, <2>1
      <4>. QED BY <1>4, <4>1
    <3>. HIDE DEF beyond
    <3>. QED BY <1>9, <1>10, <3>2 DEF DropBytes, L
  <2>. HIDE DEF w
  <2>3. w \in Nat /\ w - 1 \in Nat /\ b[w - 1] <= n
    <3>1. w - 1 \in Nat /\ (w - 1 = 0 \/ w - 1 \in 1 .. L)
      BY <1>1, <2>1
    <3>2. w - 1 \in 1 .. L => w - 1 \notin beyond
      <4>. HIDE DEF beyond
      <4>1. ~(w <= w - 1)
        BY <2>1
      <4>. QED BY <2>1, <4>1
    <3>. QED BY <1>3, <2>1, <3>1, <3>2
  <2>4. \A k \in w .. L : b[k] > n
    <3>. DEFINE S == {k \in w .. L : ~(b[k] > n)}
                m == Min(S)
    <3>. SUFFICES ASSUME S # {} PROVE FALSE
      OBVIOUS
    <3>1. m \in S /\ \A k \in S : m <= k
      <4>. HIDE DEF S
      <4>1. S \in SUBSET Nat
        BY <2>3 DEF S
      <4>. QED BY <4>1, SmallestOf
    <3>. HIDE DEF m
    <3>2. m \in w .. L /\ ~(b[m] > n) /\ m # w /\ m \in Nat
      BY <2>1, <2>3, <3>1
    <3>3. m - 1 \in w .. L /\ m - 1 \in Nat /\ m \in 1 .. L
      BY <1>1, <2>1, <2>3, <3>2
    <3>4. m - 1 \notin S
      <4>. HIDE DEF S
      <4>1. ~(m <= m - 1)
        BY <3>2
      <4>. QED BY <3>1, <4>1
    <3>5. b[m - 1] > n
      BY <3>3, <3>4
    <3>6. b[m] = b[m - 1] + Len(q[m]) /\ Len(q[m]) \in Nat /\ b[m - 1] \in Nat
      BY <1>3, <1>6, <1>7, <3>3
    <3>. QED BY <3>2, <3>5, <3>6
  <2>5. cut \in C /\ cut = SubSeq(f[w], n + 1, Len(f[w]))
    <3>1. f[w] = f[w - 1] \o q[w] /\ f[w - 1] \in Seq(T) /\ q[w] \in Seq(T)
      BY <1>3, <1>6, <2>1, <2>3
    <3>2. SubSeq(f[w - 1] \o q[w], n + 1, Len(f[w - 1] \o q[w])) = cut
      <4>0. Len(f[w]) = b[w] /\ Len(f[w - 1]) = b[w - 1] /\ b[w] \in Nat
        BY <1>3, <2>3
      <4>1. n <= Len(f[w - 1] \o q[w])
        BY <2>1, <3>1, <4>0
      <4>. DEFINE u == f[w - 1]   v == q[w]
      <4>2. u \in Seq(T) /\ v \in Seq(T) /\ Len(u) <= n /\ n <= Len(u \o v)
        BY <2>3, <3>1, <4>0, <4>1
      <4>. HIDE DEF u, v
      <4>3. SubSeq(u \o v, n + 1, Len(u \o v)) = SubSeq(v, n - Len(u) + 1, Len(v))
        BY <4>2, CutInSecond
      <4>. QED BY <4>0, <4>3 DEF u, v, cut
    <3>3. SubSeq(f[w], n + 1, Len(f[w])) \in Seq(T)
      <4>1. \A i \in n + 1 .. Len(f[w]) : f[w][i] \in T
        <5>1. f[w] \in Seq(T) /\ Len(f[w]) \in Nat
          BY <1>3, <2>3
        <5>2. \A i \in n + 1 .. Len(f[w]) : i \in 1 .. Len(f[w])
          BY <5>1
        <5>. QED BY <5>1, <5>2, ElementOfSeq
      <4>2. n + 1 \in Int /\ Len(f[w]) \in Int
        BY <1>3, <2>3
      <4>. QED BY <4>1, <4>2, SubSeqProperties
    <3>. QED BY <3>1, <3>2, <3>3
  <2>. HIDE DEF cut, C
  <2>6. rest \in Seq(C) /\ Len(rest) = L - w /\ \A i \in 1 .. L - w : rest[i] = q[w + i]
    <3>1. \A i \in w + 1 .. L : q[i] \in C
      <4>1. \A i \in w + 1 .. L : i \in 1 .. L
        BY <1>1, <2>3
      <4>2. \A i \in 1 .. L : q[i] \in C
        BY <1>6 DEF C
      <4>. QED BY <4>1, <4>2
    <3>2. /\ rest \in Seq(C)
          /\ Len(rest) = IF w + 1 <= L THEN L - (w + 1) + 1 ELSE 0
          /\ \A i \in 1 .. L - (w + 1) + 1 : rest[i] = q[(w + 1) + i - 1]
      <4>1. w + 1 \in Int /\ L \in Int
        BY <1>1, <2>3
      <4>. HIDE DEF L
      <4>. QED BY <3>1, <4>1, SubSeqProperties
    <3>. HIDE DEF rest
    <3>3. Len(rest) = L - w
      BY <1>1, <2>1, <2>3, <3>2
    <3>4. ASSUME NEW i \in 1 .. L - w PROVE rest[i] = q[w + i]
      <4>1. i \in 1 .. L - (w + 1) + 1 /\ (w + 1) + i - 1 = w + i
        BY <1>1, <2>3
      <4>. QED BY <3>2, <4>1
    <3>. QED BY <3>2, <3>3, <3>4
  <2>. HIDE DEF rest
  <2>7. /\ r \in Seq(C) /\ Len(r) = 1 + L - w
        /\ r[1] = cut
        /\ \A i \in 2 .. Len(r) : r[i] = q[w + i - 1]
    <3>1. <<cut>> \in Seq(C) /\ Len(<<cut>>) = 1 /\ <<cut>>[1] = cut
      BY <2>5
    <3>. DEFINE one == <<cut>>
    <3>2. one \in Seq(C) /\ Len(one) = 1 /\ one[1] = cut
      BY <3>1
    <3>. HIDE DEF one
    <3>3. /\ one \o rest \in Seq(C)
          /\ Len(one \o rest) = Len(one) + Len(rest)
          /\ \A i \in 1 .. Len(one) + Len(rest) :
                (one \o rest)[i] = IF i <= Len(one) THEN one[i] ELSE rest[i - Len(one)]
      BY <2>6, <3>2, ConcatProperties
    <3>4. r = one \o rest
      BY DEF one
    <3>. HIDE DEF r, L
    <3>5. r \in Seq(C) /\ Len(r) = 1 + L - w /\ r[1] = cut
      BY <1>1, <2>1, <2>6, <3>2, <3>3, <3>4
    <3>6. ASSUME NEW i \in 2 .. Len(r) PROVE r[i] = q[w + i - 1]
      <4>1. i \in 1 .. Len(one) + Len(rest) /\ ~(i <= Len(one)) /\ i - Len(one) = i - 1
            /\ i - 1 \in 1 .. L - w /\ w + (i - 1) = w + i - 1
        BY <1>1, <2>1, <2>6, <3>2, <3>5
      <4>2. r[i] = rest[i - 1]
        BY <3>3, <3>4, <4>1
      <4>. QED BY <2>6, <4>1, <4>2
    <3>. QED BY <3>5, <3>6
  <2>. HIDE DEF r
  <2>. DEFINE g == [i \in Nat |-> IF i \in 1 .. Len(r)
                                  THEN SubSeq(f[w + i - 1], n + 1, Len(f[w + i - 1])) ELSE <<>>]
  <2>8. ASSUME NEW k \in Nat PROVE SubSeq(f[k], n + 1, Len(f[k])) \in Seq(T)
    <3>1. f[k] \in Seq(T) /\ Len(f[k]) \in Nat
      BY <1>3
    <3>2. \A i \in n + 1 .. Len(f[k]) : i \in 1 .. Len(f[k])
      BY <3>1
    <3>3. \A i \in n + 1 .. Len(f[k]) : f[k][i] \in T
      BY <3>1, <3>2, ElementOfSeq
    <3>. QED BY <3>1, <3>3, SubSeqProperties
  <2>9. g \in [Nat -> Seq(T)]
    <3>1. \A i \in 1 .. Len(r) : w + i - 1 \in Nat
      BY <2>3
    <3>2. <<>> \in Seq(T)
      OBVIOUS
    <3>. QED BY <2>8, <3>1, <3>2
  <2>10. g[0] = <<>>
    OBVIOUS
  <2>11. ASSUME NEW i \in 1 .. Len(r) PROVE g[i] = g[i - 1] \o r[i]
    <3>1. CASE i = 1
      <4>1. g[1] = cut /\ g[0] = <<>> /\ r[1] = cut
        <5>1. w + 1 - 1 = w /\ 1 \in 1 .. Len(r)
          BY <2>3, <3>1
        <5>. QED BY <2>5, <2>7, <5>1
      <4>2. <<>> \o cut = cut
        BY <2>5, ConcatEmptySeq DEF C
      <4>3. i - 1 = 0
        BY <3>1
      <4>. HIDE DEF g
      <4>. QED BY <3>1, <4>1, <4>2, <4>3
    <3>2. CASE i # 1
      <4>. DEFINE k == w + i - 1
                  j == i - 1
      <4>1. /\ i \in 2 .. Len(r) /\ j \in 1 .. Len(r) /\ j \in Nat /\ i \in Nat
            /\ k \in 1 .. L /\ k - 1 \in w .. L /\ k - 1 \in Nat /\ w + j - 1 = k - 1
        <5>1. Len(r) = 1 + L - w /\ L \in Nat /\ w \in Nat /\ w \in 1 .. L /\ i \in 1 .. Len(r)
          BY <1>1, <2>1, <2>3, <2>7
        <5>. HIDE DEF g
        <5>. QED BY <3>2, <5>1
      <4>2. r[i] = q[k]
        BY <2>7, <4>1
      <4>3. g[i] = SubSeq(f[k], n + 1, Len(f[k]))
        BY <4>1
      <4>4. g[j] = SubSeq(f[k - 1], n + 1, Len(f[k - 1]))
        BY <4>1
      <4>. HIDE DEF k, j, g
      <4>5. f[k] = f[k - 1] \o q[k] /\ f[k - 1] \in Seq(T) /\ q[k] \in Seq(T)
        BY <1>3, <1>6, <4>1
      <4>6. n <= Len(f[k - 1])
        <5>1. b[k - 1] > n /\ b[k - 1] = Len(f[k - 1]) /\ b[k - 1] \in Nat
          BY <1>3, <2>4, <4>1
        <5>. QED BY <5>1
      <4>. DEFINE u == f[k - 1]
      <4>7. SubSeq(u \o q[k], n + 1, Len(u \o q[k])) = SubSeq(u, n + 1, Len(u)) \o q[k]
        BY <4>5, <4>6, CutInFirst
      <4>8. g[i] = g[j] \o r[i]
        BY <4>2, <4>3, <4>4, <4>5, <4>7
      <4>. QED BY <4>8 DEF j
    <3>. QED BY <3>1, <3>2
  <2>12. g[Len(r)] = SubSeq(f[L], n + 1, Len(f[L]))
    <3>1. Len(r) \in 1 .. Len(r) /\ w + Len(r) - 1 = L /\ Len(r) \in Nat
      BY <1>1, <2>1, <2>3, <2>7
    <3>. QED BY <3>1
  <2>. HIDE DEF g
  <2>13. Joins(g, r, T)
    BY <2>9, <2>10, <2>11 DEF Joins
  <2>14. FlattenSeq(r) = g[Len(r)]
    BY <2>7, <2>13, FlattenIs DEF C
  <2>. QED BY <1>5, <2>2, <2>7, <2>12, <2>14 DEF C, L
<1>. QED BY <1>8, <1>9

-----------------------------------------------------------------------------
(* The members of ByteStream *)

StreamFields == {"capacity", "size", "q", "closed", "error", "pushed", "popped"}

\* A stream whose counters agree with each other.
SoundStream(bs) ==
    /\ DOMAIN bs = StreamFields
    /\ bs = [f \in StreamFields |-> bs[f]]
    /\ bs.capacity \in Nat /\ bs.size \in Nat
    /\ bs.pushed \in Nat /\ bs.popped \in Nat
    /\ bs.closed \in BOOLEAN /\ bs.error \in BOOLEAN
    /\ bs.size = bs.pushed - bs.popped
    /\ bs.size <= bs.capacity

LEMMA NewIsSound ==
    ASSUME NEW c \in Nat
    PROVE  SoundStream(NewByteStream(c))
BY DEF SoundStream, NewByteStream, StreamFields

\* A push accepts what fits, and queues exactly those bytes as one chunk.
LEMMA PushIsSound ==
    ASSUME NEW bs, SoundStream(bs), NEW T, NEW data \in Seq(T)
    PROVE  /\ SoundStream(WriterPush(bs, data))
           /\ WriterPush(bs, data).capacity = bs.capacity
           /\ WriterPush(bs, data).popped = bs.popped
           /\ WriterPush(bs, data).closed = bs.closed
           /\ WriterPush(bs, data).error = bs.error
           /\ WriterPush(bs, data).pushed
                = bs.pushed + MinOf(bs.capacity - bs.size, Len(data))
           /\ Len(data) > 0 /\ Len(data) <= bs.capacity - bs.size
                => WriterPush(bs, data).q = Append(bs.q, data)
<1>. DEFINE n == MinOf(AvailableCapacity(bs), Len(data))
<1>1. Len(data) \in Nat /\ n \in Nat /\ n <= bs.capacity - bs.size /\ n <= Len(data)
      /\ n = MinOf(bs.capacity - bs.size, Len(data))
  BY DEF SoundStream, MinOf, AvailableCapacity
<1>. HIDE DEF n
<1>2. WriterPush(bs, data)
        = [bs EXCEPT !.pushed = bs.pushed + n, !.size = bs.size + n,
                     !.q = IF n > 0 THEN Append(bs.q, SubSeq(data, 1, n)) ELSE bs.q]
  BY DEF WriterPush, n, SoundStream, StreamFields
<1>3. SubSeq(data, 1, Len(data)) = data
  OBVIOUS
<1>4. Len(data) > 0 /\ Len(data) <= bs.capacity - bs.size => n = Len(data)
  BY <1>1 DEF SoundStream, MinOf
<1>. DEFINE w == WriterPush(bs, data)
<1>5. /\ w.pushed = bs.pushed + n /\ w.size = bs.size + n
      /\ w.q = IF n > 0 THEN Append(bs.q, SubSeq(data, 1, n)) ELSE bs.q
      /\ \A f \in StreamFields \ {"size", "pushed", "q"} : w[f] = bs[f]
      /\ DOMAIN w = StreamFields /\ w = [f \in StreamFields |-> w[f]]
  BY <1>2 DEF SoundStream, StreamFields
<1>. HIDE DEF w
<1>6. SoundStream(w)
  <2>1. /\ w.capacity = bs.capacity /\ w.popped = bs.popped
        /\ w.closed = bs.closed /\ w.error = bs.error
    BY <1>5 DEF StreamFields
  <2>2. /\ w.capacity \in Nat /\ w.size \in Nat /\ w.pushed \in Nat /\ w.popped \in Nat
        /\ w.size = w.pushed - w.popped /\ w.size <= w.capacity
    BY <1>1, <1>5, <2>1 DEF SoundStream
  <2>3. w.closed \in BOOLEAN /\ w.error \in BOOLEAN
    BY <2>1 DEF SoundStream
  <2>. QED BY <1>5, <2>2, <2>3 DEF SoundStream
<1>7. Len(data) > 0 /\ Len(data) <= bs.capacity - bs.size => w.q = Append(bs.q, data)
  BY <1>3, <1>4, <1>5
<1>8. /\ w.capacity = bs.capacity /\ w.popped = bs.popped
      /\ w.closed = bs.closed /\ w.error = bs.error
  BY <1>5 DEF StreamFields
<1>9. w.pushed = bs.pushed + MinOf(bs.capacity - bs.size, Len(data))
  BY <1>1, <1>5
<1>. QED BY <1>6, <1>7, <1>8, <1>9 DEF w

LEMMA CloseIsSound ==
    ASSUME NEW bs, SoundStream(bs)
    PROVE  /\ SoundStream(WriterClose(bs))
           /\ WriterClose(bs).closed
           /\ \A f \in StreamFields \ {"closed"} : WriterClose(bs)[f] = bs[f]
BY DEF SoundStream, StreamFields, WriterClose

LEMMA SetErrorIsSound ==
    ASSUME NEW bs, SoundStream(bs)
    PROVE  /\ SoundStream(WriterSetError(bs))
           /\ \A f \in StreamFields \ {"error"} : WriterSetError(bs)[f] = bs[f]
BY DEF SoundStream, StreamFields, WriterSetError

\* A pop takes at most what is buffered and makes that much room.
LEMMA PopIsSound ==
    ASSUME NEW bs, SoundStream(bs), NEW len \in Nat
    PROVE  /\ SoundStream(ReaderPop(bs, len))
           /\ \A f \in StreamFields \ {"size", "popped", "q"} : ReaderPop(bs, len)[f] = bs[f]
           /\ ReaderPop(bs, len).popped = bs.popped + MinOf(len, bs.size)
           /\ ReaderPop(bs, len).size = bs.size - MinOf(len, bs.size)
<1>. DEFINE n == MinOf(len, bs.size)
<1>1. n \in Nat /\ n <= bs.size
  BY DEF SoundStream, MinOf
<1>. HIDE DEF n
<1>2. ReaderPop(bs, len)
        = [bs EXCEPT !.popped = bs.popped + n, !.size = bs.size - n, !.q = DropBytes(bs.q, n)]
  BY DEF ReaderPop, n, SoundStream, StreamFields
<1>3. /\ ReaderPop(bs, len) = [f \in StreamFields |-> ReaderPop(bs, len)[f]]
      /\ DOMAIN ReaderPop(bs, len) = StreamFields
  BY <1>2 DEF SoundStream, StreamFields
<1>4. /\ ReaderPop(bs, len).popped = bs.popped + n
      /\ ReaderPop(bs, len).size = bs.size - n
      /\ \A f \in StreamFields \ {"size", "popped", "q"} : ReaderPop(bs, len)[f] = bs[f]
  BY <1>2 DEF SoundStream, StreamFields
<1>5. SoundStream(ReaderPop(bs, len))
  BY <1>1, <1>3, <1>4 DEF SoundStream, StreamFields
<1>. QED BY <1>4, <1>5 DEF n
-----------------------------------------------------------------------------
(* A stream that is filled with the numbers of its bytes *)

\* The numbers of n bytes from a on.
Run(a, n) == [i \in 1 .. n |-> a + i - 1]

\* It holds the bytes that were pushed and not popped, each once and in order.
Numbered(bs) ==
    /\ bs.q \in Seq(Seq(Int))
    /\ FlattenSeq(bs.q) = Run(bs.popped, bs.size)

LEMMA NewIsNumbered ==
    ASSUME NEW c \in Nat
    PROVE  Numbered(NewByteStream(c))
<1>1. /\ NewByteStream(c).q = <<>> /\ NewByteStream(c).size = 0 /\ NewByteStream(c).popped = 0
  BY DEF NewByteStream
<1>2. FlattenSeq(<<>>) = <<>> /\ <<>> \in Seq(Seq(Int))
  BY DEF FlattenSeq
<1>3. Run(0, 0) = <<>>
  BY DEF Run
<1>. QED BY <1>1, <1>2, <1>3 DEF Numbered

LEMMA RunType ==
    ASSUME NEW a \in Int, NEW k \in Nat
    PROVE  /\ Run(a, k) \in Seq(Int) /\ Len(Run(a, k)) = k
           /\ \A i \in 1 .. k : Run(a, k)[i] = a + i - 1
BY DEF Run

\* Numbers that follow on each other, joined and cut.
LEMMA RunsJoin ==
    ASSUME NEW a \in Int, NEW k \in Nat, NEW m \in Nat
    PROVE  Run(a, k) \o Run(a + k, m) = Run(a, k + m)
<1>. DEFINE c == a + k
            l == k + m
            u == Run(a, k)
            v == Run(c, m)
            w == Run(a, l)
            x == u \o v
<1>1. c \in Int /\ l \in Nat /\ c = a + k /\ l = k + m
  OBVIOUS
<1>. HIDE DEF c, l
<1>2. /\ u \in Seq(Int) /\ Len(u) = k /\ \A i \in 1 .. k : u[i] = a + i - 1
      /\ v \in Seq(Int) /\ Len(v) = m /\ \A i \in 1 .. m : v[i] = c + i - 1
      /\ w \in Seq(Int) /\ Len(w) = l /\ \A i \in 1 .. l : w[i] = a + i - 1
  BY <1>1, RunType
<1>. HIDE DEF u, v, w
<1>3. /\ x \in Seq(Int) /\ Len(x) = l
      /\ \A i \in 1 .. l : x[i] = IF i <= k THEN u[i] ELSE v[i - k]
  <2>1. /\ u \o v \in Seq(Int) /\ Len(u \o v) = Len(u) + Len(v)
        /\ \A i \in 1 .. Len(u) + Len(v) :
              (u \o v)[i] = IF i <= Len(u) THEN u[i] ELSE v[i - Len(u)]
    BY <1>2, ConcatProperties
  <2>. QED BY <1>1, <1>2, <2>1
<1>. HIDE DEF x
<1>4. ASSUME NEW i \in 1 .. l PROVE x[i] = w[i]
  <2>1. i \in Int
    BY <1>1
  <2>2. CASE i <= k
    BY <1>1, <1>2, <1>3, <2>2
  <2>3. CASE ~(i <= k)
    <3>1. i - k \in 1 .. m /\ c + (i - k) - 1 = a + i - 1
      BY <1>1, <2>3
    <3>2. x[i] = v[i - k]
      BY <1>3, <2>3
    <3>. QED BY <1>2, <3>1, <3>2
  <2>. QED BY <2>2, <2>3
<1>5. x = w
  BY <1>2, <1>3, <1>4
<1>. QED BY <1>5 DEF x, u, v, w, c, l

LEMMA RunsCut ==
    ASSUME NEW a \in Int, NEW l \in Nat, NEW n \in Nat, NEW e \in Nat, n <= e, e <= l
    PROVE  SubSeq(Run(a, l), n + 1, e) = Run(a + n, e - n)
<1>. DEFINE c == a + n
            k == e - n
            u == Run(a, l)
<1>1. c \in Int /\ k \in Nat /\ c = a + n /\ k = e - n
  OBVIOUS
<1>. HIDE DEF c, k
<1>2. u \in Seq(Int) /\ Len(u) = l /\ \A i \in 1 .. l : u[i] = a + i - 1
  BY RunType
<1>. HIDE DEF u
<1>3. SubSeq(u, n + 1, e) = [i \in 1 .. k |-> u[i + n]]
  BY <1>1, <1>2
<1>4. ASSUME NEW i \in 1 .. k PROVE u[i + n] = c + i - 1
  <2>1. i + n \in 1 .. l
    BY <1>1
  <2>. QED BY <1>1, <1>2, <2>1
<1>5. SubSeq(u, n + 1, e) = Run(c, k)
  BY <1>3, <1>4 DEF Run
<1>. QED BY <1>5 DEF u, c, k

LEMMA NumberedContent ==
    ASSUME NEW bs, SoundStream(bs), Numbered(bs)
    PROVE  FlattenSeq(bs.q) \in Seq(Int) /\ Len(FlattenSeq(bs.q)) = bs.size
<1>. DEFINE p == bs.popped   n == bs.size
<1>1. p \in Int /\ n \in Nat /\ FlattenSeq(bs.q) = Run(p, n)
  BY DEF SoundStream, Numbered
<1>. HIDE DEF p, n
<1>2. Run(p, n) \in Seq(Int) /\ Len(Run(p, n)) = n
  BY <1>1, RunType
<1>. QED BY <1>1, <1>2 DEF n

\* A call that touches neither the chunks nor the counters.
LEMMA SameNumbered ==
    ASSUME NEW b, NEW c, Numbered(b), c.q = b.q, c.size = b.size, c.popped = b.popped
    PROVE  Numbered(c)
BY DEF Numbered

\* A push of the next n numbers, of which m fit.
LEMMA PushNumbered ==
    ASSUME NEW bs, SoundStream(bs), Numbered(bs), NEW n \in Nat,
           NEW data, data = Run(bs.pushed, n),
           NEW m, m = MinOf(bs.capacity - bs.size, n)
    PROVE  /\ Numbered(WriterPush(bs, data))
           /\ FlattenSeq(WriterPush(bs, data).q)
                = FlattenSeq(bs.q) \o Run(bs.pushed, m)
<1>1. /\ m \in Nat /\ m <= n /\ bs.size \in Nat /\ bs.popped \in Nat /\ bs.pushed \in Nat
      /\ bs.pushed = bs.popped + bs.size
  BY DEF SoundStream, MinOf
<1>2. data \in Seq(Int) /\ Len(data) = n
  BY <1>1, RunType
<1>. DEFINE w == WriterPush(bs, data)
            chunk == Run(bs.pushed, m)
<1>3. SubSeq(data, 1, m) = chunk
  BY <1>1 DEF Run
<1>4. /\ w.size = bs.size + m /\ w.popped = bs.popped
      /\ w.q = IF m > 0 THEN Append(bs.q, SubSeq(data, 1, m)) ELSE bs.q
  <2>1. MinOf(AvailableCapacity(bs), Len(data)) = m
    BY <1>2 DEF AvailableCapacity
  <2>. QED BY <2>1 DEF WriterPush, SoundStream, StreamFields
<1>. HIDE DEF w
<1>5. FlattenSeq(bs.q) = Run(bs.popped, bs.size) /\ bs.q \in Seq(Seq(Int))
  BY DEF Numbered
<1>6. Run(bs.popped, bs.size) \o chunk = Run(bs.popped, w.size)
  <2>. DEFINE a == bs.popped   k == bs.size
  <2>1. a \in Int /\ k \in Nat /\ m \in Nat /\ bs.pushed = a + k /\ w.size = k + m
    BY <1>1, <1>4
  <2>. HIDE DEF a, k
  <2>2. Run(a, k) \o Run(a + k, m) = Run(a, k + m)
    BY <2>1, RunsJoin
  <2>. QED BY <2>1, <2>2 DEF a, k
<1>7. chunk \in Seq(Int)
  BY <1>1, RunType
<1>8. CASE m > 0
  <2>. HIDE DEF chunk
  <2>1. w.q = Append(bs.q, chunk)
    BY <1>3, <1>4, <1>8
  <2>2. FlattenSeq(w.q) = FlattenSeq(bs.q) \o chunk
    BY <1>5, <1>7, <2>1, FlattenAppend
  <2>3. w.q \in Seq(Seq(Int))
    <3>. DEFINE C == Seq(Int)
    <3>1. bs.q \in Seq(C) /\ chunk \in C
      BY <1>5, <1>7
    <3>. HIDE DEF C
    <3>2. w.q \in Seq(C)
      BY <2>1, <3>1, AppendProperties
    <3>. QED BY <3>2 DEF C
  <2>4. Numbered(w)
    BY <1>4, <1>5, <1>6, <2>2, <2>3 DEF Numbered
  <2>. QED BY <2>2, <2>4 DEF w, chunk
<1>9. CASE ~(m > 0)
  <2>1. m = 0 /\ w.q = bs.q /\ w.size = bs.size
    BY <1>1, <1>4, <1>9
  <2>2. Numbered(w)
    BY <1>4, <2>1 DEF Numbered
  <2>3. FlattenSeq(bs.q) \in Seq(Int)
    BY <1>5, FlattenType
  <2>4. chunk = <<>>
    BY <2>1 DEF Run
  <2>5. FlattenSeq(bs.q) \o <<>> = FlattenSeq(bs.q)
    BY <2>3, ConcatEmptySeq
  <2>. QED BY <2>1, <2>2, <2>4, <2>5 DEF w
<1>. QED BY <1>8, <1>9

\* A pop of len bytes, of which there are n.
LEMMA PopNumbered ==
    ASSUME NEW bs, SoundStream(bs), Numbered(bs), NEW len \in Nat,
           NEW n, n = MinOf(len, bs.size)
    PROVE  /\ Numbered(ReaderPop(bs, len))
           /\ FlattenSeq(ReaderPop(bs, len).q)
                = SubSeq(FlattenSeq(bs.q), n + 1, Len(FlattenSeq(bs.q)))
<1>. DEFINE o == ReaderPop(bs, len)
            content == FlattenSeq(bs.q)
<1>1. n \in Nat /\ n <= bs.size /\ bs.size \in Nat /\ bs.popped \in Nat
  BY DEF SoundStream, MinOf
<1>2. content = Run(bs.popped, bs.size) /\ bs.q \in Seq(Seq(Int))
  BY DEF Numbered
<1>3. Len(content) = bs.size
  BY <1>1, <1>2 DEF Run
<1>4. o.q = DropBytes(bs.q, n) /\ o.popped = bs.popped + n /\ o.size = bs.size - n
  BY DEF ReaderPop, SoundStream, StreamFields
<1>. HIDE DEF o
<1>5. /\ DropBytes(bs.q, n) \in Seq(Seq(Int))
      /\ FlattenSeq(DropBytes(bs.q, n)) = SubSeq(content, n + 1, Len(content))
  BY <1>1, <1>2, <1>3, FlattenDrop
<1>. HIDE DEF content
<1>6. SubSeq(content, n + 1, Len(content)) = Run(o.popped, o.size)
  <2>. DEFINE a == bs.popped   l == bs.size
  <2>1. SubSeq(Run(bs.popped, bs.size), n + 1, bs.size) = Run(bs.popped + n, bs.size - n)
    <3>1. a \in Int /\ l \in Nat /\ n \in Nat /\ n <= l /\ l <= l
      BY <1>1
    <3>. HIDE DEF a, l
    <3>2. SubSeq(Run(a, l), n + 1, l) = Run(a + n, l - n)
      BY <3>1, RunsCut
    <3>. QED BY <3>2 DEF a, l
  <2>2. SubSeq(content, n + 1, Len(content)) = SubSeq(Run(bs.popped, bs.size), n + 1, bs.size)
    BY <1>2, <1>3
  <2>. QED BY <1>4, <2>1, <2>2
<1>7. Numbered(o)
  BY <1>4, <1>5, <1>6 DEF Numbered
<1>. QED BY <1>4, <1>5, <1>7 DEF o, content

\* What read() returns are the next numbers.
LEMMA ReadNumbered ==
    ASSUME NEW bs, SoundStream(bs), Numbered(bs), NEW n \in Nat, n <= bs.size
    PROVE  ReadBytes(bs, n) = Run(bs.popped, n)
<1>1. MinOf(n, bs.size) = n /\ bs.size \in Nat /\ bs.popped \in Nat
  BY DEF MinOf, SoundStream
<1>2. FlattenSeq(bs.q) = Run(bs.popped, bs.size)
  BY DEF Numbered
<1>3. \A i \in 1 .. n : FlattenSeq(bs.q)[i] = bs.popped + i - 1
  BY <1>1, <1>2 DEF Run
<1>. QED BY <1>1, <1>3 DEF ReadBytes, Run
-----------------------------------------------------------------------------
(* The circular buffer *)

\* Positions of stream indices less than a lap apart.
LEMMA StepsForward ==
    ASSUME NEW C \in Nat, C > 0, NEW a \in Nat, NEW x \in Nat, a <= x, x < a + C
    PROVE  StepsFrom(a, x % C, C) = x - a
<1>. DEFINE qa == a \div C   qx == x \div C   ra == a % C   rx == x % C
<1>1. /\ qa \in Nat /\ ra \in 0 .. C - 1 /\ a = C * qa + ra
      /\ qx \in Nat /\ rx \in 0 .. C - 1 /\ x = C * qx + rx
  OBVIOUS
<1>. HIDE DEF qa, qx, ra, rx
<1>2. qx >= qa
  <2>1. SUFFICES ASSUME qx + 1 <= qa PROVE FALSE
    BY <1>1
  <2>2. C * (qx + 1) <= C * qa /\ C * (qx + 1) = C * qx + C
    BY <1>1, <2>1
  <2>. QED BY <1>1, <2>2
<1>3. qx <= qa + 1
  <2>1. SUFFICES ASSUME qa + 2 <= qx PROVE FALSE
    BY <1>1
  <2>2. C * (qa + 2) <= C * qx /\ C * (qa + 2) = C * qa + 2 * C
    BY <1>1, <2>1
  <2>. QED BY <1>1, <2>2
<1>4. CASE qx = qa
  BY <1>1, <1>4 DEF StepsFrom, ra, rx
<1>5. CASE qx = qa + 1
  <2>1. C * qx = C * qa + C
    BY <1>1, <1>5
  <2>2. rx = ra + (x - a) - C
    BY <1>1, <2>1
  <2>. QED BY <1>1, <2>2 DEF StepsFrom, ra, rx
<1>. QED BY <1>1, <1>2, <1>3, <1>4, <1>5

LEMMA StepsBackward ==
    ASSUME NEW C \in Nat, C > 0, NEW a \in Nat, NEW x \in Nat, x < a, a < x + C
    PROVE  StepsFrom(a, x % C, C) = x - a + C
<1>1. StepsFrom(x, a % C, C) = a - x
  BY StepsForward
<1>2. a % C \in 0 .. C - 1 /\ x % C \in 0 .. C - 1
  OBVIOUS
<1>. QED BY <1>1, <1>2 DEF StepsFrom

LEMMA ModInRange ==
    ASSUME NEW C \in Nat, C > 0, NEW x \in Nat
    PROVE  x % C \in 0 .. C - 1
OBVIOUS

\* An insert of the n bytes from s on puts each of them in its place.
LEMMA InsertPlaces ==
    ASSUME NEW C \in Nat, C > 0, NEW buf, NEW s \in Nat, NEW n \in Nat,
           NEW x \in Nat, s <= x, x < s + n, n <= C
    PROVE  CircInsert(buf, C, s, Run(s, n))[x % C] = x
<1>1. x % C \in 0 .. C - 1
  BY ModInRange
<1>2. Len(Run(s, n)) = n
  BY DEF Run
<1>3. StepsFrom(s, x % C, C) = x - s
  BY StepsForward
<1>4. Run(s, n)[x - s + 1] = x
  BY DEF Run
<1>. QED BY <1>1, <1>2, <1>3, <1>4 DEF CircInsert

\* It leaves alone every other index less than C away.
LEMMA InsertSpares ==
    ASSUME NEW C \in Nat, C > 0, NEW buf, NEW s \in Nat, NEW n \in Nat,
           NEW x \in Nat, x < s + C, s + n <= x + C, x < s \/ s + n <= x
    PROVE  CircInsert(buf, C, s, Run(s, n))[x % C] = buf[x % C]
<1>1. x % C \in 0 .. C - 1 /\ s % C \in 0 .. C - 1
  BY ModInRange
<1>2. Len(Run(s, n)) = n
  BY DEF Run
<1>3. CASE s + n <= x
  <2>1. StepsFrom(s, x % C, C) = x - s
    BY <1>3, StepsForward
  <2>. QED BY <1>1, <1>2, <1>3, <2>1 DEF CircInsert
<1>4. CASE x < s /\ n > 0
  <2>1. StepsFrom(s, x % C, C) = x - s + C
    BY <1>4, StepsBackward
  <2>. QED BY <1>1, <1>2, <1>4, <2>1 DEF CircInsert
<1>5. CASE n = 0
  <2>1. ~(StepsFrom(s, x % C, C) < n)
    BY <1>1, <1>5 DEF StepsFrom
  <2>. QED BY <1>1, <1>2, <1>5, <2>1 DEF CircInsert
<1>. QED BY <1>3, <1>4, <1>5

\* An erase of n bytes from s on leaves alone every later index of the window.
LEMMA EraseSpares ==
    ASSUME NEW C \in Nat, C > 0, NEW buf, NEW s \in Nat, NEW n \in Nat,
           NEW x \in Nat, s + n <= x, x < s + C
    PROVE  CircErase(buf, C, s, n)[x % C] = buf[x % C]
<1>1. x % C \in 0 .. C - 1
  BY ModInRange
<1>2. StepsFrom(s, x % C, C) = x - s
  BY StepsForward
<1>. QED BY <1>1, <1>2 DEF CircErase

-----------------------------------------------------------------------------
(* The interval set *)

\* No interval is empty, and there is a gap between any two.
Gapped(S) ==
    /\ S \subseteq Nat \X Nat
    /\ \A i \in S : i[1] < i[2]
    /\ \A i, j \in S : i # j => i[2] < j[1] \/ j[2] < i[1]

\* The least and the greatest of a set, once found.
LEMMA MinIs ==
    ASSUME NEW S \in SUBSET Nat, NEW m \in S, \A x \in S : m <= x
    PROVE  Min(S) = m
<1>1. \E x \in S : \A y \in S : x <= y
  OBVIOUS
<1>2. Min(S) \in S /\ \A y \in S : Min(S) <= y
  BY <1>1 DEF Min
<1>3. m \in Nat /\ Min(S) \in Nat /\ m <= Min(S) /\ Min(S) <= m
  BY <1>2
<1>. QED BY <1>3

LEMMA MaxIs ==
    ASSUME NEW S \in SUBSET Nat, NEW m \in S, \A x \in S : m >= x
    PROVE  Max(S) = m
<1>1. \E x \in S : \A y \in S : x >= y
  OBVIOUS
<1>2. Max(S) \in S /\ \A y \in S : Max(S) >= y
  BY <1>1 DEF Max
<1>3. m \in Nat /\ Max(S) \in Nat /\ m >= Max(S) /\ Max(S) >= m
  BY <1>2
<1>. QED BY <1>3

\* Of a gapped set, at most one interval reaches into i from the left and at
\* most one from the right; they make the ends of the hull.
LEMMA HullEnds ==
    ASSUME NEW S, Gapped(S), NEW i \in Nat \X Nat, i[1] < i[2]
    PROVE  LET M == Mergeable(i, S)
               h == Hull(i, M)
           IN  /\ h \in Nat \X Nat
               /\ h[1] <= i[1] /\ i[2] <= h[2]
               /\ h[1] = i[1] \/ \E j \in M : j[1] = h[1] /\ i[1] <= j[2]
               /\ h[2] = i[2] \/ \E j \in M : j[2] = h[2] /\ j[1] <= i[2]
               /\ \A j \in M : h[1] <= j[1] /\ j[2] <= h[2]
<1>. DEFINE M == Mergeable(i, S)
            L == {i[1]} \cup {j[1] : j \in M}
            R == {i[2]} \cup {j[2] : j \in M}
            lo == Min(L)
            hi == Max(R)
<1>1. /\ M \subseteq S /\ \A j \in M : j \in Nat \X Nat /\ j[1] < j[2]
      /\ \A j \in M : (i[1] <= j[1] /\ j[1] <= i[2]) \/ (i[1] <= j[2] /\ j[2] <= i[2])
      /\ \A j, k \in M : j # k => j[2] < k[1] \/ k[2] < j[1]
  BY DEF Gapped, Mergeable, ContainsPoint
<1>2. i[1] \in Nat /\ i[2] \in Nat /\ \A j \in M : j[1] \in Nat /\ j[2] \in Nat
  BY <1>1
<1>. HIDE DEF M
<1>3. L \in SUBSET Nat /\ R \in SUBSET Nat
  BY <1>2
<1>. HIDE DEF lo, hi
<1>4. /\ lo \in Nat /\ lo <= i[1] /\ \A j \in M : lo <= j[1]
      /\ lo = i[1] \/ \E j \in M : j[1] = lo /\ i[1] <= j[2]
  <2>1. CASE \A j \in M : i[1] <= j[1]
    <3>1. lo = i[1]
      BY <1>2, <1>3, <2>1, MinIs DEF lo
    <3>. QED BY <1>2, <2>1, <3>1
  <2>2. CASE \E l \in M : l[1] < i[1]
    <3>1. PICK l \in M : l[1] < i[1]
      BY <2>2
    <3>2. i[1] <= l[2]
      BY <1>1, <1>2, <3>1
    <3>3. \A j \in M : l[1] <= j[1]
      <4>. SUFFICES ASSUME NEW j \in M, j # l PROVE l[1] <= j[1]
        BY <1>2
      <4>. QED BY <1>1, <1>2, <3>1, <3>2
    <3>4. lo = l[1]
      BY <1>2, <1>3, <3>1, <3>3, MinIs DEF lo
    <3>. QED BY <1>2, <3>1, <3>2, <3>3, <3>4
  <2>. QED BY <1>2, <2>1, <2>2
<1>5. /\ hi \in Nat /\ i[2] <= hi /\ \A j \in M : j[2] <= hi
      /\ hi = i[2] \/ \E j \in M : j[2] = hi /\ j[1] <= i[2]
  <2>1. CASE \A j \in M : j[2] <= i[2]
    <3>1. hi = i[2]
      BY <1>2, <1>3, <2>1, MaxIs DEF hi
    <3>. QED BY <1>2, <2>1, <3>1
  <2>2. CASE \E l \in M : l[2] > i[2]
    <3>1. PICK l \in M : l[2] > i[2]
      BY <2>2
    <3>2. l[1] <= i[2]
      BY <1>1, <1>2, <3>1
    <3>3. \A j \in M : j[2] <= l[2]
      <4>. SUFFICES ASSUME NEW j \in M, j # l PROVE j[2] <= l[2]
        BY <1>2
      <4>. QED BY <1>1, <1>2, <3>1, <3>2
    <3>4. hi = l[2]
      BY <1>2, <1>3, <3>1, <3>3, MaxIs DEF hi
    <3>. QED BY <1>2, <3>1, <3>2, <3>3, <3>4
  <2>. QED BY <1>2, <2>1, <2>2
<1>6. Hull(i, Mergeable(i, S)) = <<lo, hi>>
  BY DEF Hull, M, lo, hi
<1>. QED BY <1>4, <1>5, <1>6 DEF M

(***************************************************************************)
(* merge_and_insert keeps the set gapped, adds the positions of i and no   *)
(* others, and invents no end points.                                      *)
(***************************************************************************)
LEMMA MergeKeepsGaps ==
    ASSUME NEW S, Gapped(S), NEW i \in Nat \X Nat, i[1] <= i[2]
    PROVE  LET T == MergeAndInsert(i, S)
           IN  /\ Gapped(T)
               /\ Covered(T) = Covered(S) \cup Positions(i)
               /\ \A t \in T : (t[1] = i[1] /\ i[1] < i[2]) \/ \E j \in S : t[1] = j[1]
               /\ \A t \in T : (t[2] = i[2] /\ i[1] < i[2]) \/ \E j \in S : t[2] = j[2]
<1>. DEFINE M == Mergeable(i, S)
            h == Hull(i, M)
            T == MergeAndInsert(i, S)
<1>0. /\ i[1] \in Nat /\ i[2] \in Nat
      /\ \A j \in S : j \in Nat \X Nat /\ j[1] \in Nat /\ j[2] \in Nat /\ j[1] < j[2]
      /\ \A j, k \in S : j # k => j[2] < k[1] \/ k[2] < j[1]
  BY DEF Gapped
<1>1. CASE i[1] = i[2]
  <2>1. T = S /\ Positions(i) = {}
    BY <1>0, <1>1 DEF MergeAndInsert, Positions
  <2>. QED BY <2>1
<1>2. CASE i[1] < i[2] /\ ContainedInOne(i, S)
  <2>1. T = S
    BY <1>2 DEF MergeAndInsert
  <2>2. PICK j \in S : ContainsPoint(i[1], j) /\ ContainsPoint(i[2], j)
    BY <1>2 DEF ContainedInOne
  <2>3. Positions(i) \subseteq Positions(j)
    BY <1>0, <2>2 DEF Positions, ContainsPoint
  <2>4. Positions(i) \subseteq Covered(S)
    BY <2>3 DEF Covered
  <2>. QED BY <2>1, <2>4
<1>3. CASE i[1] < i[2] /\ ~ContainedInOne(i, S)
  <2>1. T = (S \ M) \cup {h}
    BY <1>0, <1>3 DEF MergeAndInsert
  <2>2. /\ h \in Nat \X Nat /\ h[1] \in Nat /\ h[2] \in Nat
        /\ h[1] <= i[1] /\ i[2] <= h[2]
        /\ h[1] = i[1] \/ \E j \in M : j[1] = h[1] /\ i[1] <= j[2]
        /\ h[2] = i[2] \/ \E j \in M : j[2] = h[2] /\ j[1] <= i[2]
        /\ \A j \in M : h[1] <= j[1] /\ j[2] <= h[2]
    BY <1>3, HullEnds
  <2>3. M \subseteq S
    BY DEF Mergeable
  <2>4. \A k \in S \ M : k[2] < i[1] \/ i[2] < k[1]
    <3>. SUFFICES ASSUME NEW k \in S, k \notin M PROVE k[2] < i[1] \/ i[2] < k[1]
      OBVIOUS
    <3>1. ~(ContainsPoint(i[1], k) /\ ContainsPoint(i[2], k))
      BY <1>3 DEF ContainedInOne
    <3>2. ~ContainsPoint(k[1], i) /\ ~ContainsPoint(k[2], i)
      BY DEF Mergeable
    <3>. QED BY <1>0, <3>1, <3>2 DEF ContainsPoint
  <2>. HIDE DEF M, h, T
  <2>5. \A k \in S \ M : k[2] < h[1] \/ h[2] < k[1]
    <3>. SUFFICES ASSUME NEW k \in S, k \notin M PROVE k[2] < h[1] \/ h[2] < k[1]
      OBVIOUS
    <3>1. CASE k[2] < i[1]
      BY <1>0, <2>2, <2>3, <3>1
    <3>2. CASE i[2] < k[1]
      BY <1>0, <2>2, <2>3, <3>2
    <3>. QED BY <2>4, <3>1, <3>2
  <2>6. Gapped(T)
    <3>1. T \subseteq Nat \X Nat /\ \A t \in T : t[1] < t[2]
      BY <1>0, <1>3, <2>1, <2>2
    <3>2. \A t, u \in T : t # u => t[2] < u[1] \/ u[2] < t[1]
      BY <1>0, <2>1, <2>5
    <3>. QED BY <3>1, <3>2 DEF Gapped
  <2>7. ASSUME NEW x PROVE x \in Covered(T) <=> x \in Covered(S) \cup Positions(i)
    <3>1. ASSUME x \in Positions(h) PROVE x \in Covered(S) \cup Positions(i)
      <4>1. x \in Nat /\ h[1] <= x /\ x < h[2]
        BY <2>2, <3>1 DEF Positions
      <4>2. CASE i[1] <= x /\ x < i[2]
        BY <1>0, <4>1, <4>2 DEF Positions
      <4>3. CASE x < i[1]
        <5>1. PICK j \in M : j[1] = h[1] /\ i[1] <= j[2]
          BY <1>0, <2>2, <4>1, <4>3
        <5>2. x \in Positions(j) /\ j \in S
          BY <1>0, <2>3, <4>1, <4>3, <5>1 DEF Positions
        <5>. QED BY <5>2 DEF Covered
      <4>4. CASE i[2] <= x
        <5>1. PICK j \in M : j[2] = h[2] /\ j[1] <= i[2]
          BY <1>0, <2>2, <4>1, <4>4
        <5>2. x \in Positions(j) /\ j \in S
          BY <1>0, <2>3, <4>1, <4>4, <5>1 DEF Positions
        <5>. QED BY <5>2 DEF Covered
      <4>. QED BY <1>0, <4>1, <4>2, <4>3, <4>4
    <3>2. \A j \in M : Positions(j) \subseteq Positions(h)
      BY <1>0, <2>2, <2>3 DEF Positions
    <3>3. Positions(i) \subseteq Positions(h)
      BY <1>0, <2>2 DEF Positions
    <3>4. x \in Covered(T) <=> x \in Positions(h) \/ \E j \in S \ M : x \in Positions(j)
      BY <2>1 DEF Covered
    <3>5. x \in Covered(S) <=> \E j \in S : x \in Positions(j)
      BY DEF Covered
    <3>. QED BY <3>1, <3>2, <3>3, <3>4, <3>5
  <2>8. \A t \in T : /\ t[1] = i[1] \/ \E j \in S : t[1] = j[1]
                     /\ t[2] = i[2] \/ \E j \in S : t[2] = j[2]
    BY <2>1, <2>2, <2>3
  <2>9. Covered(T) = Covered(S) \cup Positions(i)
    BY <2>7
  <2>. QED BY <1>3, <2>6, <2>8, <2>9 DEF T
<1>. QED BY <1>0, <1>1, <1>2, <1>3

-----------------------------------------------------------------------------
(* Reassembler::insert. C is the capacity, limit the number of bytes that  *)
(* there are so far of the stream.                                         *)

Reassemblers(C, limit) ==
    [buf : [0 .. C - 1 -> {Blank} \cup 0 .. limit - 1],
     intervals : SUBSET (Nat \X Nat),
     last_index : Nat,
     last_received : BOOLEAN]

\* A Reassembler r whose output is o; floor is the least index an interval may
\* begin with: beyond the first unassembled index between two inserts, and that
\* index in the middle of one.
Buffering(C, limit, r, o, floor) ==
    /\ SoundStream(o) /\ o.capacity = C /\ o.pushed <= limit
    /\ r \in Reassemblers(C, limit)
    /\ Gapped(r.intervals)
    /\ \A i \in r.intervals : floor <= i[1] /\ i[2] <= o.popped + C /\ i[2] <= limit
    /\ \A x \in Covered(r.intervals) : r.buf[x % C] = x

Reassembling(C, limit, r, o) == Buffering(C, limit, r, o, o.pushed + 1)
MidInsert(C, limit, r, o) == Buffering(C, limit, r, o, o.pushed)

LEMMA ReassemblingNumbers ==
    ASSUME NEW C \in Nat, C > 0, NEW limit \in Nat, NEW r, NEW o,
           Reassembling(C, limit, r, o) \/ MidInsert(C, limit, r, o)
    PROVE  /\ o.pushed \in Nat /\ o.popped \in Nat /\ o.popped <= o.pushed
           /\ o.pushed <= o.popped + C
           /\ FirstUnacceptable(o) = o.popped + C
BY DEF Reassembling, MidInsert, Buffering, SoundStream, FirstUnacceptable, AvailableCapacity

\* Steps 2 and 3 of insert.
LEMMA StoreStep ==
    ASSUME NEW C \in Nat, C > 0, NEW limit \in Nat, NEW r, NEW o, Reassembling(C, limit, r, o),
           NEW s \in Nat, NEW e \in Nat, o.pushed <= s, s <= e,
           e <= o.popped + C, s = e \/ e <= limit,
           NEW bytes, bytes = Run(s, e - s), NEW stored, stored = Store(r, C, s, e, bytes)
    PROVE  /\ MidInsert(C, limit, stored, o)
           /\ stored.last_received = r.last_received
           /\ stored.last_index = r.last_index
           /\ Covered(stored.intervals) = Covered(r.intervals) \cup (s .. e - 1)
<1>. DEFINE S == r.intervals
            T == MergeAndInsert(<<s, e>>, S)
            b == CircInsert(r.buf, C, s, bytes)
            st == Store(r, C, s, e, bytes)
<1>1. st = [r EXCEPT !.buf = b, !.intervals = T]
  BY DEF Store, Reassembling, MidInsert, Buffering, Reassemblers
<1>2. /\ st.buf = b /\ st.intervals = T
      /\ st.last_received = r.last_received /\ st.last_index = r.last_index
      /\ st = [buf |-> b, intervals |-> T, last_index |-> r.last_index,
               last_received |-> r.last_received]
  BY <1>1 DEF Reassembling, MidInsert, Buffering, Reassemblers
<1>3. /\ Gapped(T)
      /\ Covered(T) = Covered(S) \cup (s .. e - 1)
      /\ \A t \in T : (t[1] = s /\ s < e) \/ \E j \in S : t[1] = j[1]
      /\ \A t \in T : (t[2] = e /\ s < e) \/ \E j \in S : t[2] = j[2]
  <2>1. Gapped(S) /\ <<s, e>> \in Nat \X Nat
    BY DEF Reassembling, MidInsert, Buffering
  <2>2. <<s, e>>[1] = s /\ <<s, e>>[2] = e /\ Positions(<<s, e>>) = s .. e - 1
    BY DEF Positions
  <2>3. /\ Gapped(T)
        /\ Covered(T) = Covered(S) \cup Positions(<<s, e>>)
        /\ \A t \in T : (t[1] = <<s, e>>[1] /\ <<s, e>>[1] < <<s, e>>[2]) \/ \E j \in S : t[1] = j[1]
        /\ \A t \in T : (t[2] = <<s, e>>[2] /\ <<s, e>>[1] < <<s, e>>[2]) \/ \E j \in S : t[2] = j[2]
    <3>. HIDE DEF S
    <3>1. <<s, e>>[1] <= <<s, e>>[2]
      BY <2>2
    <3>. QED BY <2>1, <3>1, MergeKeepsGaps
  <2>. HIDE DEF S, T
  <2>. QED BY <2>2, <2>3
<1>. HIDE DEF T, b, st
<1>4. \A t \in T : o.pushed <= t[1] /\ t[2] <= o.popped + C /\ t[2] <= limit
  <2>1. \A j \in S : j[1] \in Nat /\ o.pushed + 1 <= j[1] /\ j[2] <= o.popped + C /\ j[2] <= limit
    BY DEF Reassembling, MidInsert, Buffering, Gapped
  <2>. QED BY <1>3, <2>1, ReassemblingNumbers
<1>5. b \in [0 .. C - 1 -> {Blank} \cup 0 .. limit - 1]
  <2>1. r.buf \in [0 .. C - 1 -> {Blank} \cup 0 .. limit - 1]
    BY DEF Reassembling, MidInsert, Buffering, Reassemblers
  <2>2. ASSUME NEW k \in 0 .. C - 1
        PROVE  (IF StepsFrom(s, k, C) < Len(bytes)
                THEN bytes[StepsFrom(s, k, C) + 1] ELSE r.buf[k])
                  \in {Blank} \cup 0 .. limit - 1
    <3>1. s % C \in 0 .. C - 1
      BY ModInRange
    <3>2. StepsFrom(s, k, C) \in Nat
      BY <3>1 DEF StepsFrom
    <3>3. Len(bytes) = e - s
      BY DEF Run
    <3>4. \A n \in Nat : n < e - s => bytes[n + 1] = s + n
      BY DEF Run
    <3>5. CASE StepsFrom(s, k, C) < Len(bytes)
      <4>. DEFINE n == StepsFrom(s, k, C)
      <4>1. n \in Nat /\ n < e - s
        BY <3>2, <3>3, <3>5
      <4>. HIDE DEF n
      <4>2. bytes[n + 1] = s + n /\ s + n \in 0 .. limit - 1
        BY <3>4, <4>1
      <4>. QED BY <3>5, <4>2 DEF n
    <3>6. CASE ~(StepsFrom(s, k, C) < Len(bytes))
      BY <2>1, <3>6
    <3>. QED BY <3>5, <3>6
  <2>. QED BY <2>2 DEF b, CircInsert
<1>6. \A x \in Covered(T) : b[x % C] = x
  <2>. SUFFICES ASSUME NEW x \in Covered(T) PROVE b[x % C] = x
    OBVIOUS
  <2>1. x \in Nat /\ o.pushed <= x /\ x < o.popped + C
    <3>1. PICK t \in T : x \in Positions(t)
      BY DEF Covered
    <3>2. t[1] \in Nat /\ t[2] \in Nat
      BY <1>3 DEF Gapped
    <3>. QED BY <1>4, <3>1, <3>2, ReassemblingNumbers DEF Positions
  <2>2. b[x % C] = IF s <= x /\ x < e THEN x ELSE r.buf[x % C]
    <3>. DEFINE buf == r.buf
    <3>0. PICK n \in Nat : s + n = e /\ n = e - s
      OBVIOUS
    <3>1. C \in Nat /\ C > 0
      OBVIOUS
    <3>. HIDE DEF buf
    <3>2. x < s + C /\ s + n <= x + C /\ n <= C
      BY <2>1, <3>0, <3>1, ReassemblingNumbers
    <3>3. s <= x /\ x < s + n
            => CircInsert(buf, C, s, Run(s, n))[x % C] = x
      BY <2>1, <3>1, <3>2, InsertPlaces
    <3>4. x < s \/ s + n <= x
            => CircInsert(buf, C, s, Run(s, n))[x % C] = buf[x % C]
      BY <2>1, <3>1, <3>2, InsertSpares
    <3>. DEFINE c == CircInsert(buf, C, s, Run(s, n))
    <3>5. b = c
      BY <3>0 DEF b, buf
    <3>. HIDE DEF c
    <3>6. CASE s <= x /\ x < s + n
      BY <3>0, <3>3, <3>5, <3>6 DEF c
    <3>7. CASE x < s \/ s + n <= x
      BY <2>1, <3>0, <3>4, <3>5, <3>7 DEF buf, c
    <3>. QED BY <2>1, <3>0, <3>6, <3>7
  <2>3. ~(s <= x /\ x < e) => x \in Covered(S)
    BY <1>3, <2>1
  <2>4. x \in Covered(S) => r.buf[x % C] = x
    BY DEF Reassembling, MidInsert, Buffering
  <2>. QED BY <2>2, <2>3, <2>4
<1>7. st \in Reassemblers(C, limit)
  <2>1. T \in SUBSET (Nat \X Nat)
    BY <1>3 DEF Gapped
  <2>. QED BY <1>2, <1>5, <2>1 DEF Reassembling, MidInsert, Buffering, Reassemblers
<1>8. MidInsert(C, limit, st, o)
  BY <1>2, <1>3, <1>4, <1>6, <1>7 DEF Reassembling, MidInsert, Buffering
<1>9. stored = st
  BY DEF st
<1>. QED BY <1>2, <1>3, <1>8, <1>9

\* Step 4, when the first unassembled byte is not there yet.
LEMMA NothingReady ==
    ASSUME NEW C \in Nat, C > 0, NEW limit \in Nat, NEW r, NEW o,
           MidInsert(C, limit, r, o), Ready(r, o) = {}
    PROVE  Reassembling(C, limit, r, o)
<1>1. \A i \in r.intervals : i[1] \in Nat /\ o.pushed <= i[1]
  BY DEF Reassembling, MidInsert, Buffering, Gapped
<1>2. \A i \in r.intervals : i[1] # o.pushed
  BY <1>1 DEF Ready, IsSmallest
<1>3. \A i \in r.intervals : o.pushed + 1 <= i[1]
  BY <1>1, <1>2, ReassemblingNumbers
<1>. QED BY <1>3 DEF Reassembling, MidInsert, Buffering

\* Step 4, when it is: the bytes passed on are the next ones of the stream.
LEMMA TakeStep ==
    ASSUME NEW C \in Nat, C > 0, NEW limit \in Nat, NEW r, NEW o,
           MidInsert(C, limit, r, o), NEW i \in Ready(r, o)
    PROVE  LET tk == Take(r, C, i)
               d == Deliver(r, o, i)
           IN  /\ Reassembling(C, limit, tk, d)
               /\ tk.last_received = r.last_received /\ tk.last_index = r.last_index
               /\ d.pushed > o.pushed /\ d.closed = o.closed
               /\ d.popped = o.popped
               /\ d.q = Append(o.q, Run(o.pushed, d.pushed - o.pushed))
               /\ o.pushed < limit
               /\ d.pushed = i[2] /\ tk.intervals = r.intervals \ {i}
<1>. DEFINE tk == Take(r, C, i)
            data == CircPopped(r.buf, C, i[1], i[2] - i[1])
            d == Deliver(r, o, i)
            b == CircErase(r.buf, C, i[1], i[2] - i[1])
<1>1. /\ i \in r.intervals /\ i[1] = o.pushed /\ i[1] \in Nat /\ i[2] \in Nat /\ i[1] < i[2]
      /\ i[2] <= o.popped + C /\ i[2] <= limit
      /\ \A j \in r.intervals : j[1] \in Nat /\ j[2] \in Nat /\ j[1] < j[2] /\ i[1] <= j[1]
      /\ \A j, k \in r.intervals : j # k => j[2] < k[1] \/ k[2] < j[1]
  BY DEF Ready, IsSmallest, Reassembling, MidInsert, Buffering, Gapped
<1>2. data = Run(o.pushed, i[2] - o.pushed)
  <2>1. ASSUME NEW j \in 1 .. i[2] - i[1]
        PROVE  r.buf[(i[1] + j - 1) % C] = i[1] + j - 1
    <3>1. i[1] + j - 1 \in Positions(i)
      BY <1>1 DEF Positions
    <3>2. i[1] + j - 1 \in Covered(r.intervals)
      BY <1>1, <3>1 DEF Covered
    <3>. QED BY <3>2 DEF Reassembling, MidInsert, Buffering
  <2>. QED BY <1>1, <2>1 DEF CircPopped, Run
<1>3. Len(data) = i[2] - o.pushed /\ data \in Seq(Int)
  <2>1. PICK n \in Nat : n = i[2] - o.pushed
    BY <1>1
  <2>2. o.pushed \in Nat
    BY <1>1
  <2>. HIDE DEF data
  <2>3. data = [k \in 1 .. n |-> o.pushed + k - 1]
    BY <1>2, <2>1 DEF Run
  <2>4. data \in [1 .. n -> Int]
    BY <2>2, <2>3
  <2>. QED BY <2>1, <2>4
<1>4. o.capacity = C /\ SoundStream(o)
  BY DEF Reassembling, MidInsert, Buffering
<1>5. d = WriterPush(o, data)
  BY <1>4 DEF Deliver
<1>. HIDE DEF data, d, b, tk
<1>6. i[2] - o.pushed \in Nat /\ i[2] - o.pushed > 0 /\ i[2] - o.pushed <= o.capacity - o.size
  BY <1>1, <1>4 DEF SoundStream
<1>7. /\ SoundStream(d) /\ d.capacity = C /\ d.popped = o.popped /\ d.closed = o.closed
      /\ d.pushed = i[2] /\ d.q = Append(o.q, data)
  <2>1. MinOf(o.capacity - o.size, Len(data)) = i[2] - o.pushed
    BY <1>3, <1>4, <1>6 DEF MinOf, SoundStream
  <2>2. LET w == WriterPush(o, data)
        IN  /\ SoundStream(w) /\ w.capacity = o.capacity /\ w.popped = o.popped
            /\ w.closed = o.closed
            /\ w.pushed = o.pushed + MinOf(o.capacity - o.size, Len(data))
            /\ Len(data) > 0 /\ Len(data) <= o.capacity - o.size => w.q = Append(o.q, data)
    BY <1>3, <1>4, PushIsSound
  <2>3. o.pushed + (i[2] - o.pushed) = i[2]
    BY <1>1
  <2>. QED BY <1>3, <1>4, <1>5, <1>6, <2>1, <2>2, <2>3
<1>8. /\ tk = [buf |-> b, intervals |-> r.intervals \ {i}, last_index |-> r.last_index,
               last_received |-> r.last_received]
      /\ tk.buf = b /\ tk.intervals = r.intervals \ {i}
      /\ tk.last_index = r.last_index /\ tk.last_received = r.last_received
  <2>1. tk = [r EXCEPT !.intervals = r.intervals \ {i}, !.buf = b]
    BY DEF Take, Reassembling, MidInsert, Buffering, Reassemblers, tk, b
  <2>2. r = [buf |-> r.buf, intervals |-> r.intervals, last_index |-> r.last_index,
             last_received |-> r.last_received]
    BY DEF Reassembling, MidInsert, Buffering, Reassemblers
  <2>. QED BY <2>1, <2>2
<1>9. \A j \in r.intervals \ {i} : i[2] + 1 <= j[1]
  BY <1>1
<1>10. \A x \in Covered(r.intervals \ {i}) : b[x % C] = x
  <2>. SUFFICES ASSUME NEW x \in Covered(r.intervals \ {i}) PROVE b[x % C] = x
    OBVIOUS
  <2>1. PICK j \in r.intervals \ {i} : x \in Positions(j)
    BY DEF Covered
  <2>2. x \in Nat /\ i[2] <= x /\ x < i[1] + C
    <3>1. j[2] <= o.popped + C
      BY DEF Reassembling, MidInsert, Buffering
    <3>. QED BY <1>1, <1>9, <2>1, <3>1, ReassemblingNumbers DEF Positions
  <2>3. b[x % C] = r.buf[x % C]
    <3>1. CircErase(r.buf, C, i[1], i[2] - i[1])[x % C] = r.buf[x % C]
      <4>. DEFINE lo == i[1]   n == i[2] - i[1]   buf == r.buf
      <4>1. /\ lo \in Nat /\ n \in Nat /\ lo + n <= x /\ x < lo + C
            /\ C \in Nat /\ C > 0 /\ x \in Nat
        BY <1>1, <2>2
      <4>. HIDE DEF lo, n, buf
      <4>2. CircErase(buf, C, lo, n)[x % C] = buf[x % C]
        BY <4>1, EraseSpares
      <4>. QED BY <4>2 DEF lo, n, buf
    <3>. QED BY <3>1 DEF b
  <2>4. x \in Covered(r.intervals)
    BY <2>1 DEF Covered
  <2>. QED BY <2>3, <2>4 DEF Reassembling, MidInsert, Buffering
<1>11. tk \in Reassemblers(C, limit)
  <2>1. b \in [0 .. C - 1 -> {Blank} \cup 0 .. limit - 1]
    BY DEF b, CircErase, Reassembling, MidInsert, Buffering, Reassemblers
  <2>. QED BY <1>8, <2>1 DEF Reassembling, MidInsert, Buffering, Reassemblers
<1>12. Gapped(r.intervals \ {i})
  BY DEF Reassembling, MidInsert, Buffering, Gapped
<1>13. Reassembling(C, limit, tk, d)
  <2>2. \A j \in tk.intervals : d.pushed + 1 <= j[1] /\ j[2] <= d.popped + C /\ j[2] <= limit
    BY <1>7, <1>8, <1>9 DEF Reassembling, MidInsert, Buffering
  <2>. QED BY <1>1, <1>7, <1>8, <1>10, <1>11, <1>12, <2>2 DEF Reassembling, MidInsert, Buffering
<1>14. d.pushed > o.pushed /\ o.pushed < limit
  BY <1>1, <1>7
<1>. QED BY <1>2, <1>7, <1>8, <1>13, <1>14 DEF tk, d

\* Step 5 leaves everything but the flag alone.
LEMMA CloseStep ==
    ASSUME NEW C \in Nat, C > 0, NEW limit \in Nat, NEW r, NEW o, Reassembling(C, limit, r, o)
    PROVE  LET c == CloseIfComplete(r, o)
           IN  /\ Reassembling(C, limit, r, c)
               /\ c.pushed = o.pushed /\ c.popped = o.popped /\ c.q = o.q
               /\ c.closed <=> o.closed \/ (r.last_received /\ o.pushed = r.last_index)
<1>1. SoundStream(o)
  BY DEF Reassembling, MidInsert, Buffering
<1>2. CASE r.last_received /\ o.pushed = r.last_index
  <2>1. CloseIfComplete(r, o) = WriterClose(o)
    BY <1>2 DEF CloseIfComplete
  <2>. DEFINE c == WriterClose(o)
  <2>2. /\ SoundStream(c) /\ c.closed /\ c.capacity = o.capacity
        /\ c.pushed = o.pushed /\ c.popped = o.popped /\ c.q = o.q
    BY <1>1, CloseIsSound DEF StreamFields
  <2>. HIDE DEF c
  <2>3. Reassembling(C, limit, r, c)
    BY <2>2 DEF Reassembling, MidInsert, Buffering
  <2>. QED BY <1>2, <2>1, <2>2, <2>3 DEF c
<1>3. CASE ~(r.last_received /\ o.pushed = r.last_index)
  BY <1>3 DEF CloseIfComplete
<1>. QED BY <1>2, <1>3

\* What an insert may do to the output, and when it closes it: an early return
\* comes before the bytes that are due.
Delivered(o, o2) ==
    /\ o2.popped = o.popped
    /\ \/ o2.pushed = o.pushed /\ o2.q = o.q
       \/ /\ o2.pushed > o.pushed
          /\ o2.q = Append(o.q, Run(o.pushed, o2.pushed - o.pushed))

ClosesWhenDue(o, r2, o2) ==
    o2.closed <=> o.closed \/ (r2.last_received /\ o2.pushed = r2.last_index)

\* The bytes known fall into the prefix [from, to), which may be passed on, and
\* the rest, which lies beyond a gap.
Split(known, from, to, rest) ==
    /\ from <= to
    /\ from .. to - 1 \subseteq known
    /\ to \notin known
    /\ rest = {x \in known : x >= to}

\* Nothing to pass on: everything stored is the rest.
LEMMA SplitAtOnce ==
    ASSUME NEW C \in Nat, C > 0, NEW limit \in Nat, NEW r, NEW o, Reassembling(C, limit, r, o)
    PROVE  Split(Covered(r.intervals), o.pushed, o.pushed, Covered(r.intervals))
<1>1. o.pushed \in Nat
  BY ReassemblingNumbers
<1>2. ASSUME NEW x \in Covered(r.intervals) PROVE x \in Nat /\ x > o.pushed
  <2>1. PICK j \in r.intervals : x \in Positions(j)
    BY DEF Covered
  <2>2. j[1] \in Nat /\ j[2] \in Nat /\ o.pushed + 1 <= j[1]
    BY DEF Reassembling, MidInsert, Buffering, Gapped
  <2>. QED BY <1>1, <2>1, <2>2 DEF Positions
<1>. QED BY <1>1, <1>2 DEF Split

\* The first interval is passed on: it is the prefix, the others are the rest.
LEMMA SplitAtFirst ==
    ASSUME NEW C \in Nat, C > 0, NEW limit \in Nat, NEW r, NEW o,
           MidInsert(C, limit, r, o), NEW i \in Ready(r, o)
    PROVE  Split(Covered(r.intervals), o.pushed, i[2], Covered(r.intervals \ {i}))
<1>. DEFINE S == r.intervals
            hi == i[2]
            lo == o.pushed
<1>1. /\ i \in S /\ i[1] = lo /\ lo \in Nat /\ hi \in Nat /\ lo < hi
      /\ \A j \in S : j[1] \in Nat /\ j[2] \in Nat /\ j[1] < j[2] /\ lo <= j[1]
      /\ \A j \in S : j # i => j[2] < lo \/ hi < j[1]
  BY DEF Ready, IsSmallest, Reassembling, MidInsert, Buffering, Gapped
<1>. HIDE DEF S, hi, lo
<1>2. \A x : x \in Covered(S) <=> \E j \in S : x \in Positions(j)
  BY DEF Covered
<1>3. \A x : x \in Covered(S \ {i}) <=> \E j \in S : j # i /\ x \in Positions(j)
  BY DEF Covered
<1>4. Positions(i) = lo .. hi - 1
  BY <1>1 DEF Positions, hi
<1>5. ASSUME NEW j \in S, j # i, NEW x \in Positions(j) PROVE x \in Nat /\ x > hi
  <2>1. j[1] \in Nat /\ j[2] \in Nat /\ hi < j[1]
    BY <1>1, <1>5
  <2>. QED BY <1>1, <1>5, <2>1 DEF Positions
<1>6. lo .. hi - 1 \subseteq Covered(S)
  BY <1>1, <1>2, <1>4
<1>7. hi \notin Covered(S)
  <2>1. \A j \in S : hi \notin Positions(j)
    <3>1. hi \notin Positions(i)
      BY <1>1, <1>4
    <3>. QED BY <1>1, <1>5, <3>1
  <2>. QED BY <1>2, <2>1
<1>8. ASSUME NEW x PROVE x \in Covered(S \ {i}) <=> x \in Covered(S) /\ x >= hi
  <2>1. x \in Covered(S \ {i}) => x \in Covered(S) /\ x >= hi
    BY <1>1, <1>2, <1>3, <1>5
  <2>2. ASSUME x \in Covered(S), x >= hi PROVE x \in Covered(S \ {i})
    <3>1. PICK j \in S : x \in Positions(j)
      BY <1>2, <2>2
    <3>2. j # i
      BY <1>1, <1>4, <2>2, <3>1
    <3>. QED BY <1>3, <3>1, <3>2
  <2>. QED BY <2>1, <2>2
<1>9. Covered(S \ {i}) = {x \in Covered(S) : x >= hi}
  BY <1>8
<1>10. lo <= hi
  BY <1>1
<1>11. Split(Covered(S), lo, hi, Covered(S \ {i}))
  BY <1>6, <1>7, <1>9, <1>10 DEF Split
<1>. QED BY <1>11 DEF S, hi, lo

\* The bytes of [s, e).
Between(s, e) == s .. e - 1

\* What steps 2 to 5 of insert do with the bytes of [s, e).
WellAssembled(C, limit, r, o, s, e, a) ==
    /\ Reassembling(C, limit, a.rea, a.out)
    /\ ClosesWhenDue(o, a.rea, a.out)
    /\ Delivered(o, a.out)
    /\ a.rea.last_received = r.last_received /\ a.rea.last_index = r.last_index
    /\ Split(Covered(r.intervals) \cup Between(s, e), o.pushed, a.out.pushed,
             Covered(a.rea.intervals))

LEMMA AssembleStep ==
    ASSUME NEW C \in Nat, C > 0, NEW limit \in Nat, NEW r, NEW o, Reassembling(C, limit, r, o),
           NEW s \in Nat, NEW e \in Nat, o.pushed <= s, s <= e,
           e <= o.popped + C, s = e \/ e <= limit,
           NEW m \in Nat, m = e - s, NEW bytes, bytes = Run(s, m),
           NEW a, a = Assemble(r, o, s, e, bytes)
    PROVE  WellAssembled(C, limit, r, o, s, e, a)
<1>. DEFINE st == Store(r, C, s, e, bytes)
<1>1. /\ MidInsert(C, limit, st, o) /\ o.capacity = C
      /\ st.last_received = r.last_received /\ st.last_index = r.last_index
      /\ Covered(st.intervals) = Covered(r.intervals) \cup Between(s, e)
  <2>1. o.capacity = C
    BY DEF Reassembling, MidInsert, Buffering
  <2>2. st = Store(r, C, s, e, bytes) /\ bytes = Run(s, e - s)
    OBVIOUS
  <2>. HIDE DEF st
  <2>. QED BY <2>1, <2>2, StoreStep DEF Between
<1>3. a = IF Ready(st, o) = {}
          THEN [rea |-> st, out |-> CloseIfComplete(st, o)]
          ELSE LET i == CHOOSE i \in Ready(st, o) : TRUE
               IN  [rea |-> Take(st, C, i),
                    out |-> CloseIfComplete(Take(st, C, i), Deliver(st, o, i))]
  BY <1>1 DEF Assemble
<1>. HIDE DEF st
<1>4. CASE Ready(st, o) = {}
  <2>. DEFINE c == CloseIfComplete(st, o)
  <2>1. a.rea = st /\ a.out = c
    BY <1>3, <1>4
  <2>2. Reassembling(C, limit, st, o)
    BY <1>1, <1>4, NothingReady
  <2>3. /\ Reassembling(C, limit, st, c)
        /\ c.pushed = o.pushed /\ c.popped = o.popped /\ c.q = o.q
        /\ c.closed <=> o.closed \/ (st.last_received /\ o.pushed = st.last_index)
    BY <2>2, CloseStep
  <2>. HIDE DEF c
  <2>4. ClosesWhenDue(o, st, c) /\ Delivered(o, c)
    BY <2>3 DEF ClosesWhenDue, Delivered
  <2>5. Split(Covered(r.intervals) \cup Between(s, e), o.pushed, c.pushed, Covered(st.intervals))
    BY <1>1, <2>2, <2>3, SplitAtOnce
  <2>. QED BY <1>1, <2>1, <2>3, <2>4, <2>5 DEF WellAssembled
<1>5. CASE Ready(st, o) # {}
  <2>. DEFINE i == CHOOSE i \in Ready(st, o) : TRUE
              tk == Take(st, C, i)
              d == Deliver(st, o, i)
              c == CloseIfComplete(tk, d)
  <2>1. i \in Ready(st, o)
    BY <1>5
  <2>2. a.rea = tk /\ a.out = c
    BY <1>3, <1>5
  <2>. HIDE DEF i
  <2>3. /\ Reassembling(C, limit, tk, d)
        /\ tk.last_received = st.last_received /\ tk.last_index = st.last_index
        /\ d.pushed > o.pushed /\ d.closed = o.closed /\ d.popped = o.popped
        /\ d.q = Append(o.q, Run(o.pushed, d.pushed - o.pushed))
        /\ o.pushed < limit
        /\ d.pushed = i[2] /\ tk.intervals = st.intervals \ {i}
    BY <1>1, <2>1, TakeStep
  <2>. HIDE DEF tk, d
  <2>4. /\ Reassembling(C, limit, tk, c)
        /\ c.pushed = d.pushed /\ c.popped = d.popped /\ c.q = d.q
        /\ c.closed <=> d.closed \/ (tk.last_received /\ d.pushed = tk.last_index)
    BY <2>3, CloseStep
  <2>. HIDE DEF c
  <2>6. ClosesWhenDue(o, tk, c)
    BY <2>3, <2>4 DEF ClosesWhenDue
  <2>7. Delivered(o, c)
    BY <2>3, <2>4 DEF Delivered
  <2>8. Split(Covered(r.intervals) \cup Between(s, e), o.pushed, c.pushed, Covered(tk.intervals))
    <3>1. Split(Covered(st.intervals), o.pushed, i[2], Covered(st.intervals \ {i}))
      BY <1>1, <2>1, SplitAtFirst
    <3>2. c.pushed = i[2] /\ tk.intervals = st.intervals \ {i}
      BY <2>3, <2>4
    <3>3. Split(Covered(st.intervals), o.pushed, c.pushed, Covered(tk.intervals))
      BY <3>1, <3>2
    <3>. QED BY <1>1, <3>3
  <2>. QED BY <1>1, <2>2, <2>3, <2>4, <2>6, <2>7, <2>8 DEF WellAssembled
<1>. QED BY <1>4, <1>5

\* Cutting a substring of the stream to [s, s + n) leaves the bytes of [s, s + n).
LEMMA CutRun ==
    ASSUME NEW first \in Nat, NEW len \in Nat, NEW s \in Nat, NEW n \in Nat,
           first <= s, n = 0 \/ s + n <= first + len,
           NEW from \in Int, NEW to \in Int, from = s - first + 1, to = s + n - first
    PROVE  SubSeq(Run(first, len), from, to) = Run(s, n)
<1>. DEFINE sub == Run(first, len)
<1>1. SubSeq(sub, s - first + 1, s + n - first) = [i \in 1 .. n |-> sub[i + (s - first)]]
  OBVIOUS
<1>2. ASSUME NEW i \in 1 .. n PROVE sub[i + (s - first)] = s + i - 1
  BY DEF Run
<1>. QED BY <1>1, <1>2 DEF Run

\* What is known once [first, first + len) has arrived: what was stored, and
\* of the new bytes those in the window.
KnownThen(C, r, o, first, len) ==
    Covered(r.intervals) \cup ((o.pushed .. o.popped + C - 1) \cap (first .. first + len - 1))

\* What insert does with bytes of the stream, the first of them number first.
Inserted(C, limit, r, o, first, len, last, a) ==
    /\ Reassembling(C, limit, a.rea, a.out)
    /\ ClosesWhenDue(o, a.rea, a.out) \/ (a.out = o /\ o.pushed < first)
    /\ Delivered(o, a.out)
    /\ a.rea.last_received = (r.last_received \/ last)
    /\ a.rea.last_index = IF last THEN first + len ELSE r.last_index
    /\ Split(KnownThen(C, r, o, first, len), o.pushed, a.out.pushed, Covered(a.rea.intervals))

\* Reassembler::insert, for bytes of the stream, or none at all.
LEMMA InsertStep ==
    ASSUME NEW C \in Nat, C > 0, NEW limit \in Nat,
           NEW r, NEW o, Reassembling(C, limit, r, o),
           NEW first \in Nat, NEW len \in Nat, first + len < Mod64,
           len > 0 => first + len <= limit, NEW last \in BOOLEAN
    PROVE  Inserted(C, limit, r, o, first, len, last,
                    InsertSubstring(r, o, first, Run(first, len), last))
<1>. DEFINE n == NoteLast(r, first, Run(first, len), last)
            a == InsertSubstring(r, o, first, Run(first, len), last)
<1>1. first + len \in Nat
  OBVIOUS
<1>2. Len(Run(first, len)) = len /\ Add64(first, len) = first + len
  BY DEF Run, Add64
<1>3. /\ Reassembling(C, limit, n, o)
      /\ n.last_received = (r.last_received \/ last)
      /\ n.last_index = IF last THEN first + len ELSE r.last_index
      /\ n.intervals = r.intervals
  <2>1. r \in Reassemblers(C, limit)
    BY DEF Reassembling, MidInsert, Buffering
  <2>2. CASE last
    <3>1. n = [r EXCEPT !.last_index = first + len, !.last_received = TRUE]
      BY <1>2, <2>2 DEF NoteLast
    <3>2. n \in Reassemblers(C, limit) /\ n.last_received = TRUE /\ n.last_index = first + len
          /\ n.buf = r.buf /\ n.intervals = r.intervals
      BY <1>1, <2>1, <3>1 DEF Reassemblers
    <3>. HIDE DEF n
    <3>. QED BY <2>1, <2>2, <3>2 DEF Reassembling, MidInsert, Buffering
  <2>3. CASE ~last
    <3>1. n = r
      BY <2>3 DEF NoteLast
    <3>. QED BY <2>1, <2>3, <3>1 DEF Reassemblers
  <2>. QED BY <2>2, <2>3
<1>4. /\ o.pushed \in Nat /\ o.popped \in Nat /\ o.pushed <= limit
      /\ o.pushed <= o.popped + C
      /\ FirstUnacceptable(o) = o.popped + C
  BY ReassemblingNumbers DEF Reassembling, MidInsert, Buffering
<1>5. PICK s \in Nat, e \in Nat :
      /\ s = Clamp(first, o) /\ e = Clamp(first + len, o)
      /\ o.pushed <= s /\ s <= e /\ e <= o.popped + C
      /\ s = e \/ e <= limit
      /\ s >= first => s = e \/ e <= first + len
      /\ s < first => o.pushed < first
  <2>. DEFINE s == Clamp(first, o)   e == Clamp(first + len, o)
  <2>1. s \in Nat /\ e \in Nat
    BY <1>1, <1>4 DEF Clamp, MinOf, MaxOf
  <2>2. /\ o.pushed <= s /\ s <= e /\ e <= o.popped + C
        /\ s >= first => s = e \/ e <= first + len
        /\ s < first => o.pushed < first
    BY <1>1, <1>4 DEF Clamp, MinOf, MaxOf
  <2>3. s = e \/ e <= limit
    <3>1. CASE len = 0
      BY <3>1
    <3>2. CASE len > 0
      BY <1>1, <1>4, <3>2 DEF Clamp, MinOf, MaxOf
    <3>. QED BY <3>1, <3>2
  <2>. HIDE DEF s, e
  <2>4. s = Clamp(first, o) /\ e = Clamp(first + len, o)
    BY DEF s, e
  <2>. QED BY <2>1, <2>2, <2>3, <2>4
<1>6. a = IF e < s \/ s < first
          THEN [rea |-> n, out |-> o]
          ELSE Assemble(n, o, s, e, SubSeq(Run(first, len), s - first + 1, e - first))
  BY <1>2, <1>5 DEF InsertSubstring
<1>. HIDE DEF n, a
<1>7. ASSUME s < first PROVE Inserted(C, limit, r, o, first, len, last, a)
  <2>1. a.rea = n /\ a.out = o
    BY <1>6, <1>7
  <2>2. Delivered(o, o)
    BY DEF Delivered
  <2>3. Split(KnownThen(C, r, o, first, len), o.pushed, o.pushed, Covered(n.intervals))
    <3>1. KnownThen(C, r, o, first, len) = Covered(n.intervals)
      BY <1>1, <1>3, <1>4, <1>5, <1>7 DEF KnownThen, Clamp, MinOf, MaxOf
    <3>. QED BY <1>3, <3>1, SplitAtOnce
  <2>. QED BY <1>3, <1>5, <1>7, <2>1, <2>2, <2>3 DEF Inserted
<1>8. ASSUME s >= first PROVE Inserted(C, limit, r, o, first, len, last, a)
  <2>1. SubSeq(Run(first, len), s - first + 1, e - first) = Run(s, e - s)
    <3>. DEFINE from == s - first + 1   to == e - first   m == e - s
    <3>1. /\ first <= s /\ s <= e /\ (s = e \/ e <= first + len)
          /\ from = s - first + 1 /\ to = s + m - first /\ m = e - s
          /\ from \in Int /\ to \in Int /\ m \in Nat /\ (m = 0 \/ s + m <= first + len)
      BY <1>1, <1>5, <1>8
    <3>. HIDE DEF from, to, m
    <3>2. SubSeq(Run(first, len), from, to) = Run(s, m)
      BY <3>1, CutRun
    <3>. QED BY <3>2 DEF from, to, m
  <2>2. a = Assemble(n, o, s, e, Run(s, e - s))
    <3>1. ~(e < s \/ s < first)
      BY <1>1, <1>5, <1>8
    <3>. QED BY <1>6, <2>1, <3>1
  <2>. DEFINE m == e - s   bytes == Run(s, m)
  <2>5. m \in Nat /\ m = e - s /\ bytes = Run(s, m) /\ a = Assemble(n, o, s, e, bytes)
    BY <1>5, <2>2
  <2>. HIDE DEF m, bytes
  <2>6. Reassembling(C, limit, n, o)
    BY <1>3
  <2>7. o.pushed <= s /\ s <= e /\ e <= o.popped + C /\ (s = e \/ e <= limit)
    BY <1>5
  <2>3. /\ Reassembling(C, limit, a.rea, a.out)
        /\ ClosesWhenDue(o, a.rea, a.out)
        /\ Delivered(o, a.out)
        /\ a.rea.last_received = n.last_received /\ a.rea.last_index = n.last_index
        /\ Split(Covered(n.intervals) \cup Between(s, e), o.pushed, a.out.pushed,
                 Covered(a.rea.intervals))
    <3>1. WellAssembled(C, limit, n, o, s, e, a)
      BY <2>5, <2>6, <2>7, AssembleStep
    <3>. QED BY <3>1 DEF WellAssembled
  <2>4. KnownThen(C, r, o, first, len) = Covered(n.intervals) \cup Between(s, e)
    <3>1. (o.pushed .. o.popped + C - 1) \cap (first .. first + len - 1) = s .. e - 1
      BY <1>1, <1>4, <1>5, <1>8 DEF Clamp, MinOf, MaxOf
    <3>. QED BY <1>3, <3>1 DEF KnownThen, Between
  <2>. QED BY <1>3, <2>3, <2>4 DEF Inserted
<1>9. Inserted(C, limit, r, o, first, len, last, a)
  <2>1. s < first \/ s >= first
    OBVIOUS
  <2>. QED BY <1>7, <1>8, <2>1
<1>. QED BY <1>9 DEF a

\* More of the stream comes to be, or its reader takes some of it.
LEMMA ReassemblingLater ==
    ASSUME NEW C \in Nat, C > 0, NEW limit \in Nat, NEW more \in Nat, limit <= more,
           NEW r, NEW o, NEW f, Buffering(C, limit, r, o, f),
           NEW o2, SoundStream(o2), o2.capacity = o.capacity, o2.pushed = o.pushed,
           o2.popped >= o.popped
    PROVE  Buffering(C, more, r, o2, f)
<1>1. o.popped \in Nat /\ o2.popped \in Nat /\ o.pushed \in Nat
  BY DEF Reassembling, MidInsert, Buffering, SoundStream
<1>2. r \in Reassemblers(C, more)
  <2>1. 0 .. limit - 1 \subseteq 0 .. more - 1
    OBVIOUS
  <2>. QED BY <2>1 DEF Reassembling, MidInsert, Buffering, Reassemblers
<1>3. \A i \in r.intervals : i[2] \in Nat /\ f <= i[1] /\ i[2] <= o.popped + C /\ i[2] <= limit
  BY DEF Reassembling, MidInsert, Buffering, Gapped
<1>4. \A i \in r.intervals : f <= i[1] /\ i[2] <= o2.popped + C /\ i[2] <= more
  BY <1>1, <1>3
<1>5. o2.pushed <= more
  BY <1>1 DEF Reassembling, MidInsert, Buffering
<1>. QED BY <1>2, <1>4, <1>5 DEF Reassembling, MidInsert, Buffering

\* What is delivered is numbered like the rest.
LEMMA DeliveredNumbered ==
    ASSUME NEW o, SoundStream(o), Numbered(o), NEW o2, SoundStream(o2), Delivered(o, o2)
    PROVE  /\ Numbered(o2)
           /\ FlattenSeq(o2.q) = FlattenSeq(o.q) \o Run(o.pushed, o2.pushed - o.pushed)
<1>. DEFINE n == o2.pushed - o.pushed
            chunk == Run(o.pushed, n)
<1>1. /\ o.pushed \in Nat /\ o2.pushed \in Nat /\ o.popped \in Nat /\ o.size \in Nat
      /\ o.pushed = o.popped + o.size /\ o2.size = o2.pushed - o2.popped
      /\ o2.popped = o.popped /\ o2.pushed >= o.pushed
  BY DEF SoundStream, Delivered
<1>2. n \in Nat /\ o2.size = o.size + n
  BY <1>1
<1>3. FlattenSeq(o.q) = Run(o.popped, o.size) /\ o.q \in Seq(Seq(Int))
  BY DEF Numbered
<1>4. n = 0 => o2.q = o.q
  BY <1>1 DEF Delivered
<1>5. n > 0 => o2.q = Append(o.q, chunk)
  BY <1>1 DEF Delivered
<1>. HIDE DEF n
<1>6. chunk \in Seq(Int) /\ (n = 0 => chunk = <<>>)
  <2>1. chunk \in Seq(Int)
    BY <1>1, <1>2, RunType
  <2>2. n = 0 => chunk = <<>>
    BY DEF Run
  <2>. QED BY <2>1, <2>2
<1>7. Run(o.popped, o.size) \o chunk = Run(o2.popped, o2.size)
  <2>. DEFINE a == o.popped   k == o.size
  <2>1. a \in Int /\ k \in Nat /\ n \in Nat /\ o.pushed = a + k /\ o2.size = k + n
        /\ o2.popped = a
    BY <1>1, <1>2
  <2>. HIDE DEF a, k
  <2>2. Run(a, k) \o Run(a + k, n) = Run(a, k + n)
    BY <2>1, RunsJoin
  <2>. QED BY <2>1, <2>2 DEF a, k
<1>. HIDE DEF chunk
<1>8. CASE n > 0
  <2>1. FlattenSeq(o2.q) = FlattenSeq(o.q) \o chunk
    BY <1>3, <1>5, <1>6, <1>8, FlattenAppend
  <2>2. o2.q \in Seq(Seq(Int))
    <3>. DEFINE S == Seq(Int)
    <3>1. o.q \in Seq(S) /\ chunk \in S
      BY <1>3, <1>6
    <3>. HIDE DEF S
    <3>2. o2.q \in Seq(S)
      BY <1>5, <1>8, <3>1, AppendProperties
    <3>. QED BY <3>2 DEF S
  <2>. QED BY <1>3, <1>7, <2>1, <2>2 DEF Numbered, chunk, n
<1>9. CASE n = 0
  <2>1. FlattenSeq(o.q) \in Seq(Int)
    BY <1>3, FlattenType
  <2>2. FlattenSeq(o.q) \o <<>> = FlattenSeq(o.q)
    BY <2>1, ConcatEmptySeq
  <2>. QED BY <1>3, <1>4, <1>6, <1>7, <1>9, <2>2 DEF Numbered, chunk, n
<1>. QED BY <1>2, <1>8, <1>9
=============================================================================
