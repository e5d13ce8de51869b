----------------------------- MODULE MerkleProofs ----------------------------
(***************************************************************************)
(* Proofs about Merkle: what a proof of inclusion proves, for batches of   *)
(* any records.                                                            *)
(***************************************************************************)
EXTENDS Merkle, NumberFacts

Sizes == 1..MaxBatchSize

-----------------------------------------------------------------------------
(* Induction over numbers, of a set in place of a predicate. *)

LEMMA InductionUpTo ==
    ASSUME NEW N \in Nat, NEW S, 0 \in S, \A k \in 0..N : k < N /\ k \in S => k + 1 \in S
    PROVE  \A k \in 0..N : k \in S
<1> DEFINE Bad == {k \in 0..N : k \notin S}
<1> SUFFICES ASSUME Bad # {} PROVE FALSE
  OBVIOUS
<1>1. Bad \in SUBSET Nat
  OBVIOUS
<1> HIDE DEF Bad
<1>2. PICK k \in Bad : \A m \in Bad : k <= m
  BY <1>1, LeastOf
<1>3. k \in 0..N /\ k \notin S /\ k # 0
  BY <1>2 DEF Bad
<1>4. k - 1 \in 0..N /\ k - 1 < N /\ k - 1 \notin Bad
  BY <1>1, <1>2, <1>3
<1>5. k - 1 \in S
  BY <1>4 DEF Bad
<1>6. (k - 1) + 1 = k
  BY <1>3
<1> QED
  BY <1>3, <1>4, <1>5, <1>6

LEMMA StrongInduction ==
    ASSUME NEW S, \A n \in Sizes : (\A m \in Sizes : m < n => m \in S) => n \in S
    PROVE  \A n \in Sizes : n \in S
<1> DEFINE Bad == {n \in Sizes : n \notin S}
<1> SUFFICES ASSUME Bad # {} PROVE FALSE
  OBVIOUS
<1>1. Bad \in SUBSET Nat
  BY DEF Sizes
<1> HIDE DEF Bad
<1>2. PICK n \in Bad : \A m \in Bad : n <= m
  BY <1>1, LeastOf
<1>3. \A m \in Sizes : m < n => m \in S
  BY <1>1, <1>2 DEF Bad, Sizes
<1> QED
  BY <1>2, <1>3 DEF Bad

-----------------------------------------------------------------------------
(* The recursive functions satisfy their equations *)

LEMMA SplitBounds ==
    ASSUME NEW n \in Sizes, n # 1
    PROVE  /\ Split(n) \in Sizes /\ n - Split(n) \in Sizes
           /\ Split(n) < n /\ n - Split(n) < n
<1>1. n \in 2..32
  BY DEF Sizes, MaxBatchSize
<1>2. \E p \in {1, 2, 4, 8, 16} : p < n /\ n <= 2 * p
  BY <1>1
<1>3. Split(n) \in {1, 2, 4, 8, 16} /\ Split(n) < n
  BY <1>2 DEF Split
<1> QED
  BY <1>1, <1>3 DEF Sizes, MaxBatchSize

(* The hashes, the paths and the sides are one recursion over the size of  *)
(* a node and then over its first record, told apart by `kind'.            *)
Cell(kind, records, index, l, r, n, s) ==
    IF kind = "hash"
    THEN IF n = 1 THEN Leaf(records[s + 1]) ELSE Branch(l[s], r[s + Split(n)])
    ELSE IF n = 1 THEN <<>>
    ELSE IF kind = "path"
    THEN IF index < s + Split(n)
         THEN Append(l[s], Step("right", Subtree(records, s + Split(n), n - Split(n))))
         ELSE Append(r[s + Split(n)], Step("left", Subtree(records, s, Split(n))))
    ELSE IF s < Split(n) THEN Append(l[s], "right") ELSE Append(r[s - Split(n)], "left")

Node(kind, records, index, f, n) ==
    [s \in Nat |->
        IF n = 1 THEN Cell(kind, records, index, <<>>, <<>>, n, s)
        ELSE Cell(kind, records, index, f[Split(n)], f[n - Split(n)], n, s)]

(* What a node is computed from are smaller ones. *)
LEMMA NodeLocal ==
    ASSUME NEW kind, NEW records, NEW index, NEW g, NEW h, NEW n \in Sizes,
           \A m \in Sizes : m < n => g[m] = h[m]
    PROVE  Node(kind, records, index, g, n) = Node(kind, records, index, h, n)
<1>1. CASE n = 1
  BY <1>1 DEF Node
<1>2. CASE n # 1
  <2>1. g[Split(n)] = h[Split(n)] /\ g[n - Split(n)] = h[n - Split(n)]
    BY <1>2, SplitBounds
  <2> QED
    BY <2>1 DEF Node
<1> QED
  BY <1>1, <1>2

(* So there are functions that compute them. *)
LEMMA TreeExists ==
    ASSUME NEW kind, NEW records, NEW index
    PROVE  \E f : f = [n \in Sizes |-> Node(kind, records, index, f, n)]
<1> DEFINE P(k, f) == f = [n \in 1..k |-> Node(kind, records, index, f, n)]
           S == {k \in 0..MaxBatchSize : \E f : P(k, f)}
<1>1. 0 \in S
  <2> DEFINE f == [n \in 1..0 |-> 0]
  <2>1. P(0, f)
    OBVIOUS
  <2>2. 0 \in 0..MaxBatchSize
    BY DEF MaxBatchSize
  <2> HIDE DEF f, P
  <2> QED
    BY <2>1, <2>2
<1>2. ASSUME NEW k \in 0..MaxBatchSize, k < MaxBatchSize, k \in S
      PROVE  k + 1 \in S
  <2>1. PICK f : P(k, f)
    BY <1>2
  <2> DEFINE g == [n \in 1..(k + 1) |-> Node(kind, records, index, f, n)]
  <2>2. \A n \in 1..k : g[n] = f[n]
    <3>1. \A n \in 1..k : f[n] = Node(kind, records, index, f, n)
      BY <2>1
    <3> QED
      BY <3>1
  <2>3. ASSUME NEW n \in 1..(k + 1)
        PROVE  Node(kind, records, index, f, n) = Node(kind, records, index, g, n)
    <3>1. n \in Sizes /\ \A m \in Sizes : m < n => m \in 1..k
      BY <1>2 DEF Sizes, MaxBatchSize
    <3> HIDE DEF g
    <3> QED
      BY <2>2, <3>1, NodeLocal
  <2>4. P(k + 1, g)
    BY <2>3
  <2>5. k + 1 \in 0..MaxBatchSize
    BY <1>2 DEF MaxBatchSize
  <2> HIDE DEF P, g
  <2> QED
    BY <2>4, <2>5
<1>3. MaxBatchSize \in Nat
  BY DEF MaxBatchSize
<1> HIDE DEF S
<1>4. MaxBatchSize \in S
  BY <1>1, <1>2, <1>3, InductionUpTo
<1>5. PICK f : P(MaxBatchSize, f)
  BY <1>4 DEF S
<1> QED
  BY <1>5 DEF Sizes

LEMMA SubtreeEquation ==
    ASSUME NEW records, NEW n \in Sizes, NEW s \in Nat
    PROVE  Subtree(records, s, n) =
              IF n = 1 THEN Leaf(records[s + 1])
              ELSE Branch(Subtree(records, s, Split(n)),
                          Subtree(records, s + Split(n), n - Split(n)))
<1> DEFINE Row(f, m) == [t \in Nat |->
                            IF m = 1 THEN Leaf(records[t + 1])
                            ELSE Branch(f[Split(m)][t], f[m - Split(m)][t + Split(m)])]
           E(f) == f = [m \in 1..MaxBatchSize |-> Row(f, m)]
           hash == CHOOSE f : E(f)
<1>1. \A f, m : Node("hash", records, 0, f, m) = Row(f, m)
  BY DEF Node, Cell
<1>2. \E f : f = [m \in Sizes |-> Node("hash", records, 0, f, m)]
  BY TreeExists
<1>3. \E f : E(f)
  <2> HIDE DEF Row
  <2> QED
    BY <1>1, <1>2 DEF Sizes
<1>4. E(hash)
  <2> HIDE DEF E
  <2> QED
    BY <1>3, Zenon
<1>5. \A m, t : Subtree(records, t, m) = hash[m][t]
  BY DEF Subtree
<1> HIDE DEF hash
<1>6. hash[n] = Row(hash, n)
  <2> HIDE DEF Row
  <2> QED
    BY <1>4 DEF Sizes
<1> QED
  BY <1>5, <1>6

LEMMA PathEquation ==
    ASSUME NEW records, NEW index, NEW n \in Sizes, NEW s \in Nat
    PROVE  Path(records, index, s, n) =
              IF n = 1 THEN <<>>
              ELSE IF index < s + Split(n)
              THEN Append(Path(records, index, s, Split(n)),
                          Step("right", Subtree(records, s + Split(n), n - Split(n))))
              ELSE Append(Path(records, index, s + Split(n), n - Split(n)),
                          Step("left", Subtree(records, s, Split(n))))
<1> DEFINE Row(f, m) == [t \in Nat |->
                            IF m = 1 THEN <<>>
                            ELSE IF index < t + Split(m)
                            THEN Append(f[Split(m)][t],
                                        Step("right", Subtree(records, t + Split(m), m - Split(m))))
                            ELSE Append(f[m - Split(m)][t + Split(m)],
                                        Step("left", Subtree(records, t, Split(m))))]
           E(f) == f = [m \in 1..MaxBatchSize |-> Row(f, m)]
           path == CHOOSE f : E(f)
<1>1. \A f, m : Node("path", records, index, f, m) = Row(f, m)
  BY DEF Node, Cell
<1>2. \E f : f = [m \in Sizes |-> Node("path", records, index, f, m)]
  BY TreeExists
<1>3. \E f : E(f)
  <2> HIDE DEF Row
  <2> QED
    BY <1>1, <1>2 DEF Sizes
<1>4. E(path)
  <2> HIDE DEF E
  <2> QED
    BY <1>3, Zenon
<1>5. \A m, t : Path(records, index, t, m) = path[m][t]
  BY DEF Path
<1> HIDE DEF path
<1>6. path[n] = Row(path, n)
  <2> HIDE DEF Row
  <2> QED
    BY <1>4 DEF Sizes
<1>7. Row(path, n)[s] =
          IF n = 1 THEN <<>>
          ELSE IF index < s + Split(n)
          THEN Append(path[Split(n)][s],
                      Step("right", Subtree(records, s + Split(n), n - Split(n))))
          ELSE Append(path[n - Split(n)][s + Split(n)],
                      Step("left", Subtree(records, s, Split(n))))
  OBVIOUS
<1> HIDE DEF Row
<1> QED
  BY <1>5, <1>6, <1>7, Zenon

LEMMA DirectionsEquation ==
    ASSUME NEW n \in Sizes, NEW i \in Nat
    PROVE  Directions(i, n) =
              IF n = 1 THEN <<>>
              ELSE IF i < Split(n) THEN Append(Directions(i, Split(n)), "right")
              ELSE Append(Directions(i - Split(n), n - Split(n)), "left")
<1> DEFINE Row(f, m) == [t \in Nat |->
                            IF m = 1 THEN <<>>
                            ELSE IF t < Split(m) THEN Append(f[Split(m)][t], "right")
                            ELSE Append(f[m - Split(m)][t - Split(m)], "left")]
           E(f) == f = [m \in 1..MaxBatchSize |-> Row(f, m)]
           sides == CHOOSE f : E(f)
<1>1. \A f, m : Node("sides", <<>>, 0, f, m) = Row(f, m)
  BY DEF Node, Cell
<1>2. \E f : f = [m \in Sizes |-> Node("sides", <<>>, 0, f, m)]
  BY TreeExists
<1>3. \E f : E(f)
  <2> HIDE DEF Row
  <2> QED
    BY <1>1, <1>2 DEF Sizes
<1>4. E(sides)
  <2> HIDE DEF E
  <2> QED
    BY <1>3, Zenon
<1>5. \A m, t : Directions(t, m) = sides[m][t]
  BY DEF Directions
<1> HIDE DEF sides
<1>6. sides[n] = Row(sides, n)
  <2> HIDE DEF Row
  <2> QED
    BY <1>4 DEF Sizes
<1> QED
  BY <1>5, <1>6

After(record, proof, f, k) ==
    IF k = 0 THEN Leaf(record) ELSE Climb(f[k - 1], proof[k])

LEMMA ClimbedExists ==
    ASSUME NEW record, NEW proof
    PROVE  \E f : f = [k \in 0..MaxBatchSize |-> After(record, proof, f, k)]
<1> DEFINE At(f, k) == After(record, proof, f, k)
           P(m, f) == f = [k \in 0..m |-> At(f, k)]
           S == {m \in 0..MaxBatchSize : \E f : P(m, f)}
<1>1. 0 \in S
  <2> DEFINE f == [k \in 0..0 |-> Leaf(record)]
  <2>1. P(0, f)
    BY DEF After
  <2>2. 0 \in 0..MaxBatchSize
    BY DEF MaxBatchSize
  <2> HIDE DEF f, P
  <2> QED
    BY <2>1, <2>2
<1>2. ASSUME NEW m \in 0..MaxBatchSize, m < MaxBatchSize, m \in S
      PROVE  m + 1 \in S
  <2>1. PICK f : P(m, f)
    BY <1>2
  <2> DEFINE g == [k \in 0..(m + 1) |-> At(f, k)]
  <2>2. \A k \in 0..m : g[k] = f[k]
    <3>1. \A k \in 0..m : f[k] = At(f, k)
      BY <2>1
    <3> QED
      BY <3>1
  <2>3. ASSUME NEW k \in 0..(m + 1) PROVE At(f, k) = At(g, k)
    <3> HIDE DEF g
    <3>1. k # 0 => k - 1 \in 0..m
      BY <1>2
    <3>2. k # 0 => g[k - 1] = f[k - 1]
      BY <2>2, <3>1
    <3> QED
      BY <3>2 DEF After
  <2>4. P(m + 1, g)
    BY <2>3
  <2>5. m + 1 \in 0..MaxBatchSize
    BY <1>2 DEF MaxBatchSize
  <2> HIDE DEF P, g
  <2> QED
    BY <2>4, <2>5
<1>3. MaxBatchSize \in Nat
  BY DEF MaxBatchSize
<1> HIDE DEF S
<1>4. MaxBatchSize \in S
  BY <1>1, <1>2, <1>3, InductionUpTo
<1>5. PICK f : P(MaxBatchSize, f)
  BY <1>4 DEF S
<1> QED
  BY <1>5

LEMMA ClimbedEquation ==
    ASSUME NEW record, NEW proof, NEW steps \in 0..MaxBatchSize
    PROVE  Climbed(record, proof, steps) =
              IF steps = 0 THEN Leaf(record)
              ELSE Climb(Climbed(record, proof, steps - 1), proof[steps])
<1> DEFINE E(f) == f = [k \in 0..MaxBatchSize |-> After(record, proof, f, k)]
           hash == CHOOSE f : E(f)
<1>1. \E f : E(f)
  BY ClimbedExists
<1>2. E(hash)
  <2> HIDE DEF E
  <2> QED
    BY <1>1, Zenon
<1>3. \A m : Climbed(record, proof, m) = hash[m]
  BY DEF Climbed, After
<1> HIDE DEF hash
<1>4. hash[steps] = IF steps = 0 THEN Leaf(record) ELSE Climb(hash[steps - 1], proof[steps])
  BY <1>2 DEF After
<1> QED
  BY <1>3, <1>4

-----------------------------------------------------------------------------
(* What a hash stands for *)

(* SHA-256 is taken to be injective.                                       *)
LEMMA LeafInjective ==
    ASSUME NEW a, NEW b, Leaf(a) = Leaf(b)
    PROVE  a = b
BY DEF Leaf

LEMMA BranchInjective ==
    ASSUME NEW a, NEW b, NEW c, NEW d, Branch(a, b) = Branch(c, d)
    PROVE  a = c /\ b = d
BY DEF Branch

(* The hash of a node gives away every record below it. *)
LEMMA SubtreeInjective ==
    \A n \in Sizes : \A a, b : \A s, t \in Nat :
        Subtree(a, s, n) = Subtree(b, t, n) => \A i \in 1..n : a[s + i] = b[t + i]
<1> DEFINE I(n) == \A a, b : \A s, t \in Nat :
                      Subtree(a, s, n) = Subtree(b, t, n) => \A i \in 1..n : a[s + i] = b[t + i]
           S == {n \in Sizes : I(n)}
<1>1. ASSUME NEW n \in Sizes, \A m \in Sizes : m < n => m \in S
      PROVE  n \in S
  <2>1. SUFFICES ASSUME NEW a, NEW b, NEW s \in Nat, NEW t \in Nat,
                        Subtree(a, s, n) = Subtree(b, t, n), NEW i \in 1..n
                 PROVE  a[s + i] = b[t + i]
    OBVIOUS
  <2>2. CASE n = 1
    <3>1. Subtree(a, s, n) = Leaf(a[s + 1]) /\ Subtree(b, t, n) = Leaf(b[t + 1])
      BY <2>2, SubtreeEquation
    <3> QED
      BY <2>1, <2>2, <3>1, LeafInjective
  <2>3. CASE n # 1
    <3> DEFINE l == Split(n)
               r == n - Split(n)
    <3>1. l \in Sizes /\ r \in Sizes /\ l < n /\ r < n /\ l + r = n
      BY <2>3, SplitBounds DEF Sizes, MaxBatchSize
    <3>2. /\ Subtree(a, s, n) = Branch(Subtree(a, s, l), Subtree(a, s + l, r))
          /\ Subtree(b, t, n) = Branch(Subtree(b, t, l), Subtree(b, t + l, r))
      BY <2>3, SubtreeEquation
    <3> HIDE DEF l, r
    <3>3. Subtree(a, s, l) = Subtree(b, t, l) /\ Subtree(a, s + l, r) = Subtree(b, t + l, r)
      <4>1. Branch(Subtree(a, s, l), Subtree(a, s + l, r))
               = Branch(Subtree(b, t, l), Subtree(b, t + l, r))
        BY <2>1, <3>2, Zenon
      <4> QED
        BY <4>1, BranchInjective
    <3>4. I(l) /\ I(r) /\ l \in Nat /\ s + l \in Nat /\ t + l \in Nat
      <4>1. l \in S /\ r \in S
        BY <1>1, <3>1, Zenon
      <4>2. l \in Nat /\ s + l \in Nat /\ t + l \in Nat
        BY <3>1 DEF Sizes
      <4> HIDE DEF I
      <4> QED
        BY <4>1, <4>2
    <3>5. CASE i \in 1..l
      BY <3>3, <3>4, <3>5
    <3>6. CASE i \notin 1..l
      <4>1. i - l \in 1..r
        BY <2>1, <3>1, <3>6 DEF Sizes, MaxBatchSize
      <4>2. a[(s + l) + (i - l)] = b[(t + l) + (i - l)]
        BY <3>3, <3>4, <4>1
      <4>3. (s + l) + (i - l) = s + i /\ (t + l) + (i - l) = t + i
        BY <3>4
      <4> QED
        BY <4>2, <4>3
    <3> QED
      BY <3>5, <3>6
  <2> QED
    BY <2>2, <2>3
<1> HIDE DEF S
<1>2. \A n \in Sizes : n \in S
  BY <1>1, StrongInduction
<1> QED
  BY <1>2 DEF S

(* Two batches of a length and with one root are one: what buildTree       *)
(* commits to on chain is the records themselves, in their order.          *)
THEOREM RootBinds ==
    ASSUME NEW a, NEW b, Len(a) \in Sizes, Len(b) = Len(a), Root(a) = Root(b)
    PROVE  \A i \in 1..Len(a) : a[i] = b[i]
<1>1. \A i \in 1..Len(a) : a[0 + i] = b[0 + i]
  BY SubtreeInjective DEF Root
<1> QED
  BY <1>1

-----------------------------------------------------------------------------
(* Sides *)

Side == {"left", "right"}

LEMMA DirectionsShape ==
    \A n \in Sizes : \A i \in 0..(n - 1) :
        Directions(i, n) \in Seq(Side) /\ Len(Directions(i, n)) < n
<1> DEFINE I(n) == \A i \in 0..(n - 1) :
              Directions(i, n) \in Seq(Side) /\ Len(Directions(i, n)) < n
           S == {n \in Sizes : I(n)}
<1>1. ASSUME NEW n \in Sizes, \A m \in Sizes : m < n => m \in S
      PROVE  n \in S
  <2>1. SUFFICES ASSUME NEW i \in 0..(n - 1)
                 PROVE  Directions(i, n) \in Seq(Side) /\ Len(Directions(i, n)) < n
    OBVIOUS
  <2>2. n \in Nat /\ i \in Nat
    BY DEF Sizes
  <2>3. CASE n = 1
    <3>1. Directions(i, n) = <<>>
      BY <2>2, <2>3, DirectionsEquation, Zenon
    <3>2. <<>> \in Seq(Side) /\ Len(<<>>) = 0
      OBVIOUS
    <3>3. Directions(i, n) \in Seq(Side) /\ Len(Directions(i, n)) = 0
      BY <3>1, <3>2, Zenon
    <3> QED
      BY <2>3, <3>3
  <2>4. CASE n # 1
    <3> DEFINE l == Split(n)
               r == n - Split(n)
    <3>1. l \in Sizes /\ r \in Sizes /\ l < n /\ r < n /\ l + r = n /\ l \in Nat /\ r \in Nat
      BY <2>4, SplitBounds, SMTT(30) DEF Sizes, MaxBatchSize
    <3>2. Directions(i, n) = IF i < l THEN Append(Directions(i, l), "right")
                             ELSE Append(Directions(i - l, r), "left")
      BY <2>2, <2>4, DirectionsEquation
    <3> HIDE DEF l, r
    <3>3. I(l) /\ I(r)
      BY <1>1, <3>1
    <3>a. "left" \in Side /\ "right" \in Side
      BY DEF Side
    <3>4. CASE i < l
      <4>1. Directions(i, l) \in Seq(Side) /\ Len(Directions(i, l)) < l
        BY <2>2, <3>1, <3>3, <3>4
      <4> QED
        BY <2>2, <3>1, <3>2, <3>a, <3>4, <4>1
    <3>5. CASE ~(i < l)
      <4>1. Directions(i - l, r) \in Seq(Side) /\ Len(Directions(i - l, r)) < r
        <5>1. i - l \in 0..(r - 1)
          BY <2>1, <2>2, <3>1, <3>5
        <5> QED
          BY <3>3, <5>1
      <4> QED
        BY <2>2, <3>1, <3>2, <3>a, <3>5, <4>1
    <3> QED
      BY <3>4, <3>5
  <2> QED
    BY <2>3, <2>4
<1> HIDE DEF S
<1>2. \A n \in Sizes : n \in S
  BY <1>1, StrongInduction
<1> QED
  BY <1>2 DEF S

-----------------------------------------------------------------------------
(* Soundness *)

Sides(proof) == [i \in DOMAIN proof |-> proof[i].side]

(* A climb that follows the sides of leaf i up to the hash of a node set   *)
(* out from the record the batch has there.                                *)
LEMMA ClimbDown ==
    \A n \in Sizes : \A records, record, proof : \A i \in 0..(n - 1) : \A s \in Nat :
        /\ \A j \in 1..Len(Directions(i, n)) : proof[j].side = Directions(i, n)[j]
        /\ Climbed(record, proof, Len(Directions(i, n))) = Subtree(records, s, n)
        => record = records[s + i + 1]
<1> DEFINE I(n) ==
              \A records, record, proof : \A i \in 0..(n - 1) : \A s \in Nat :
                  /\ \A j \in 1..Len(Directions(i, n)) : proof[j].side = Directions(i, n)[j]
                  /\ Climbed(record, proof, Len(Directions(i, n))) = Subtree(records, s, n)
                  => record = records[s + i + 1]
           S == {n \in Sizes : I(n)}
<1>1. ASSUME NEW n \in Sizes, \A m \in Sizes : m < n => m \in S
      PROVE  n \in S
  <2>1. SUFFICES
          ASSUME NEW records, NEW record, NEW proof, NEW i \in 0..(n - 1), NEW s \in Nat,
                 \A j \in 1..Len(Directions(i, n)) : proof[j].side = Directions(i, n)[j],
                 Climbed(record, proof, Len(Directions(i, n))) = Subtree(records, s, n)
          PROVE  record = records[s + i + 1]
    OBVIOUS
  <2>2. n \in Nat /\ n <= MaxBatchSize /\ i \in Nat /\ MaxBatchSize \in Nat
    BY DEF Sizes, MaxBatchSize
  <2>3. CASE n = 1
    <3>1. Directions(i, n) = <<>> /\ i = 0
      <4>1. Directions(i, n) = <<>>
        BY <2>2, <2>3, DirectionsEquation, Zenon
      <4>2. i = 0
        BY <2>1, <2>3
      <4> QED
        BY <4>1, <4>2
    <3>2. Len(Directions(i, n)) = 0
      <4>1. Len(<<>>) = 0
        OBVIOUS
      <4> QED
        BY <3>1, <4>1, Zenon
    <3>3. Climbed(record, proof, 0) = Leaf(record)
      BY <2>2, ClimbedEquation
    <3>4. Subtree(records, s, n) = Leaf(records[s + 1])
      BY <2>3, SubtreeEquation
    <3>5. record = records[s + 1]
      BY <2>1, <3>2, <3>3, <3>4, LeafInjective
    <3> QED
      BY <3>1, <3>5
  <2>4. CASE n # 1
    <3> DEFINE l == Split(n)
               r == n - Split(n)
               low == i < l
               below == IF low THEN Directions(i, l) ELSE Directions(i - l, r)
               k == Len(below)
               side == IF low THEN "right" ELSE "left"
    <3>1. /\ l \in Sizes /\ r \in Sizes /\ l < n /\ r < n /\ l + r = n
          /\ l \in Nat /\ r \in Nat
      BY <2>4, SplitBounds DEF Sizes, MaxBatchSize
    <3>2. Directions(i, n) = Append(below, side)
      BY <2>2, <2>4, DirectionsEquation
    <3>3. Subtree(records, s, n) = Branch(Subtree(records, s, l), Subtree(records, s + l, r))
      BY <2>4, SubtreeEquation
    <3> HIDE DEF l, r
    <3>4. low => i \in 0..(l - 1)
      BY <2>2, <3>1
    <3>5. ~low => i - l \in 0..(r - 1)
      BY <2>1, <2>2, <3>1
    <3>6. below \in Seq(Side) /\ k < n
      <4>1. CASE low
        <5>1. Directions(i, l) \in Seq(Side) /\ Len(Directions(i, l)) < l
          BY <3>1, <3>4, <4>1, DirectionsShape
        <5> QED
          BY <2>2, <3>1, <4>1, <5>1
      <4>2. CASE ~low
        <5>1. Directions(i - l, r) \in Seq(Side) /\ Len(Directions(i - l, r)) < r
          BY <3>1, <3>5, <4>2, DirectionsShape
        <5> QED
          BY <2>2, <3>1, <4>2, <5>1
      <4> QED
        BY <4>1, <4>2
    <3>7. k \in Nat
      BY <3>6
    <3> HIDE DEF below
    <3>8. /\ Len(Directions(i, n)) = k + 1 /\ Directions(i, n)[k + 1] = side
          /\ \A j \in 1..k : Directions(i, n)[j] = below[j]
      <4>1. side \in Side
        BY DEF Side
      <4> HIDE DEF side
      <4> QED
        BY <3>2, <3>6, <4>1
    <3> HIDE DEF k
    <3>9. proof[k + 1].side = side /\ \A j \in 1..k : proof[j].side = below[j]
      BY <2>1, <3>7, <3>8
    <3>10. Climbed(record, proof, k + 1) = Climb(Climbed(record, proof, k), proof[k + 1])
      <4>1. k + 1 \in 0..MaxBatchSize /\ k + 1 # 0 /\ (k + 1) - 1 = k
        BY <2>2, <3>6, <3>7 DEF k
      <4> QED
        BY <4>1, ClimbedEquation
    <3>11. Climb(Climbed(record, proof, k), proof[k + 1])
              = Branch(Subtree(records, s, l), Subtree(records, s + l, r))
      BY <2>1, <3>3, <3>8, <3>10
    <3>12. CASE low
      <4>1. Climbed(record, proof, k) = Subtree(records, s, l)
        BY <3>9, <3>11, <3>12, BranchInjective DEF Climb
      <4>2. I(l)
        BY <1>1, <3>1
      <4>3. below = Directions(i, l) /\ k = Len(Directions(i, l))
        BY <3>12 DEF below, k
      <4> QED
        BY <3>4, <3>9, <3>12, <4>1, <4>2, <4>3
    <3>13. CASE ~low
      <4>1. Climbed(record, proof, k) = Subtree(records, s + l, r)
        BY <3>9, <3>11, <3>13, BranchInjective DEF Climb
      <4>2. I(r)
        BY <1>1, <3>1
      <4>3. below = Directions(i - l, r) /\ k = Len(Directions(i - l, r))
        BY <3>13 DEF below, k
      <4>4. record = records[(s + l) + (i - l) + 1]
        BY <3>1, <3>5, <3>9, <3>13, <4>1, <4>2, <4>3
      <4> QED
        BY <2>2, <3>1, <4>4
    <3> QED
      BY <3>12, <3>13
  <2> QED
    BY <2>3, <2>4
<1> HIDE DEF S
<1>2. \A n \in Sizes : n \in S
  BY <1>1, StrongInduction
<1> QED
  BY <1>2 DEF S

(* What verifyProof accepts against the root of a batch, with its count,   *)
(* is the record the batch has at that index: no proof, however it was     *)
(* made, shows another record there (merkle.js:114).                       *)
THEOREM InclusionSound ==
    ASSUME NEW records, NEW record, NEW index, NEW proof,
           VerifyProof(record, index, Len(records), proof, Root(records))
    PROVE  index \in 0..(Len(records) - 1) /\ record = records[index + 1]
<1> DEFINE n == Len(records)
           sides == Directions(index, n)
<1>1. /\ n \in Sizes /\ index \in 0..(n - 1)
      /\ Sides(proof) = sides /\ Climbed(record, proof, Len(sides)) = Subtree(records, 0, n)
  BY DEF VerifyProof, Sides, Root, Sizes
<1>2. sides \in Seq(Side)
  BY <1>1, DirectionsShape
<1> HIDE DEF sides, n
<1>3. \A j \in 1..Len(sides) : proof[j].side = sides[j]
  <2>1. DOMAIN Sides(proof) = DOMAIN proof /\ DOMAIN sides = 1..Len(sides)
    BY <1>2 DEF Sides
  <2> QED
    BY <1>1, <2>1 DEF Sides
<1>4. record = records[0 + index + 1]
  BY <1>1, <1>3, ClimbDown DEF sides
<1>5. index \in Nat
  BY <1>1 DEF Sizes
<1> QED
  BY <1>1, <1>4, <1>5 DEF n

-----------------------------------------------------------------------------
(* Completeness *)

(* A path has the sides that Directions names, and whoever climbs it from  *)
(* the record it is the path of arrives at the hash of the node.           *)
Leads(records, index, s, n) ==
    LET path == Path(records, index, s, n)
        sides == Directions(index - s, n)
    IN  /\ \E T : path \in Seq(T)
        /\ Len(path) = Len(sides)
        /\ \A j \in 1..Len(sides) : path[j].side = sides[j]
        /\ \A proof :
              (\A j \in 1..Len(path) : proof[j] = path[j])
                 => Climbed(records[index + 1], proof, Len(path)) = Subtree(records, s, n)

(* One step up, from either child. *)
LEMMA LeadsUp ==
    ASSUME NEW records, NEW index \in Nat, NEW s \in Nat, NEW n \in Sizes,
           NEW t \in Nat, NEW m \in Sizes, index - t \in 0..(m - 1),
           Leads(records, index, t, m),
           NEW step, step.side \in Side, m < n,
           Path(records, index, s, n) = Append(Path(records, index, t, m), step),
           Directions(index - s, n) = Append(Directions(index - t, m), step.side),
           Climb(Subtree(records, t, m), step) = Subtree(records, s, n)
    PROVE  Leads(records, index, s, n)
<1> DEFINE p == Path(records, index, t, m)
           path == Path(records, index, s, n)
           d == Directions(index - t, m)
           sides == Directions(index - s, n)
           k == Len(d)
<1>1. PICK T : p \in Seq(T)
  BY DEF Leads
<1>2. d \in Seq(Side) /\ k < m
  BY DirectionsShape
<1>3. /\ Len(p) = k /\ \A j \in 1..k : p[j].side = d[j]
      /\ \A proof : (\A j \in 1..k : proof[j] = p[j])
                       => Climbed(records[index + 1], proof, k) = Subtree(records, t, m)
  BY DEF Leads
<1>4. path = Append(p, step) /\ sides = Append(d, step.side)
  OBVIOUS
<1> HIDE DEF p, path, d, sides
<1>5. p \in Seq(T \cup {step})
  BY <1>1
<1>6. /\ path \in Seq(T \cup {step}) /\ Len(path) = k + 1
      /\ path[k + 1] = step /\ \A j \in 1..k : path[j] = p[j]
  BY <1>3, <1>4, <1>5
<1>7. /\ Len(sides) = k + 1 /\ sides[k + 1] = step.side
      /\ \A j \in 1..k : sides[j] = d[j]
  BY <1>2, <1>4
<1>8. k \in Nat /\ k + 1 \in 0..MaxBatchSize
  <2>1. k \in Nat
    BY <1>2
  <2> HIDE DEF k
  <2> QED
    BY <1>2, <2>1 DEF Sizes, MaxBatchSize
<1> HIDE DEF k
<1>9. \A j \in 1..(k + 1) : path[j].side = sides[j]
  <2>1. SUFFICES ASSUME NEW j \in 1..(k + 1) PROVE path[j].side = sides[j]
    OBVIOUS
  <2>2. CASE j \in 1..k
    BY <1>3, <1>6, <1>7, <2>2
  <2>3. CASE j = k + 1
    BY <1>6, <1>7, <2>3
  <2> QED
    BY <1>8, <2>1, <2>2, <2>3
<1>10. ASSUME NEW proof, \A j \in 1..(k + 1) : proof[j] = path[j]
       PROVE  Climbed(records[index + 1], proof, k + 1) = Subtree(records, s, n)
  <2>1. Climbed(records[index + 1], proof, k) = Subtree(records, t, m)
    BY <1>3, <1>6, <1>8, <1>10, SMTT(30)
  <2>2. proof[k + 1] = step
    BY <1>6, <1>8, <1>10
  <2>3. k + 1 # 0 /\ (k + 1) - 1 = k
    BY <1>8
  <2>4. Climbed(records[index + 1], proof, k + 1)
           = Climb(Climbed(records[index + 1], proof, k), proof[k + 1])
    BY <1>8, <2>3, ClimbedEquation
  <2> QED
    BY <2>1, <2>2, <2>4
<1> QED
  BY <1>6, <1>7, <1>9, <1>10 DEF Leads, path, sides

LEMMA PathLeads ==
    \A n \in Sizes : \A records : \A s \in Nat : \A index \in s..(s + n - 1) :
        Leads(records, index, s, n)
<1> DEFINE I(n) == \A records : \A s \in Nat : \A index \in s..(s + n - 1) :
                      Leads(records, index, s, n)
           S == {n \in Sizes : I(n)}
<1>1. ASSUME NEW n \in Sizes, \A m \in Sizes : m < n => m \in S
      PROVE  n \in S
  <2>1. SUFFICES ASSUME NEW records, NEW s \in Nat, NEW index \in s..(s + n - 1)
                 PROVE  Leads(records, index, s, n)
    OBVIOUS
  <2>2. n \in Nat /\ n <= MaxBatchSize /\ index \in Nat /\ index - s \in Nat
        /\ index - s \in 0..(n - 1)
    BY DEF Sizes, MaxBatchSize
  <2>3. CASE n = 1
    <3>1. Path(records, index, s, n) = <<>>
      BY <2>2, <2>3, PathEquation, Zenon
    <3>2. Directions(index - s, n) = <<>>
      BY <2>2, <2>3, DirectionsEquation, Zenon
    <3>3. <<>> \in Seq(Side) /\ Len(<<>>) = 0
      OBVIOUS
    <3>4. /\ Len(Path(records, index, s, n)) = 0 /\ Len(Directions(index - s, n)) = 0
          /\ Path(records, index, s, n) \in Seq(Side)
      BY <3>1, <3>2, <3>3, Zenon
    <3>5. \A proof : Climbed(records[index + 1], proof, 0) = Leaf(records[index + 1])
      <4>1. 0 \in 0..MaxBatchSize
        BY DEF MaxBatchSize
      <4> QED
        BY <4>1, ClimbedEquation
    <3>6. Subtree(records, s, n) = Leaf(records[s + 1])
      BY <2>3, SubtreeEquation
    <3>7. index = s
      BY <2>1, <2>3
    <3> QED
      BY <3>4, <3>5, <3>6, <3>7 DEF Leads
  <2>4. CASE n # 1
    <3> DEFINE l == Split(n)
               r == n - Split(n)
    <3>1. /\ l \in Sizes /\ r \in Sizes /\ l < n /\ r < n /\ l + r = n
          /\ l \in Nat /\ r \in Nat /\ s + l \in Nat
      <4>1. l \in Sizes /\ r \in Sizes /\ l < n /\ r < n
        BY <2>4, SplitBounds
      <4>2. l \in Nat /\ r \in Nat
        BY <4>1 DEF Sizes
      <4>3. s + l \in Nat
        BY <4>2
      <4>4. l + r = n
        BY <2>2, <4>2
      <4> HIDE DEF l, r
      <4> QED
        BY <4>1, <4>2, <4>3, <4>4
    <3>2. Subtree(records, s, n) = Branch(Subtree(records, s, l), Subtree(records, s + l, r))
      BY <2>4, SubtreeEquation
    <3>3. Path(records, index, s, n) =
             IF index < s + l
             THEN Append(Path(records, index, s, l),
                         Step("right", Subtree(records, s + l, r)))
             ELSE Append(Path(records, index, s + l, r), Step("left", Subtree(records, s, l)))
      BY <2>4, PathEquation, Zenon
    <3>4. Directions(index - s, n) =
             IF index - s < l THEN Append(Directions(index - s, l), "right")
             ELSE Append(Directions(index - s - l, r), "left")
      BY <2>2, <2>4, DirectionsEquation, Zenon
    <3> HIDE DEF l, r
    <3>5. CASE index < s + l
      <4> DEFINE step == Step("right", Subtree(records, s + l, r))
      <4>1. index - s \in 0..(l - 1) /\ index \in s..(s + l - 1) /\ index - s < l
        BY <2>1, <2>2, <3>1, <3>5
      <4>2. l \in S
        BY <1>1, <3>1, Zenon
      <4>3. Leads(records, index, s, l)
        BY <4>1, <4>2
      <4>4. step.side = "right" /\ step.side \in Side
        BY DEF Step, Side
      <4>5. Climb(Subtree(records, s, l), step) = Subtree(records, s, n)
        BY <3>2 DEF Climb, Step
      <4>6. /\ Path(records, index, s, n) = Append(Path(records, index, s, l), step)
            /\ Directions(index - s, n) = Append(Directions(index - s, l), step.side)
        <5>1. Path(records, index, s, n) = Append(Path(records, index, s, l), step)
          BY <3>3, <3>5, Zenon
        <5>2. Directions(index - s, n) = Append(Directions(index - s, l), "right")
          BY <3>4, <4>1, Zenon
        <5> HIDE DEF step
        <5> QED
          BY <4>4, <5>1, <5>2, Zenon
      <4> HIDE DEF step
      <4> QED
        BY <2>2, <3>1, <4>1, <4>3, <4>4, <4>5, <4>6, LeadsUp
    <3>6. CASE ~(index < s + l)
      <4> DEFINE step == Step("left", Subtree(records, s, l))
      <4>1. /\ index - (s + l) \in 0..(r - 1) /\ index \in (s + l)..((s + l) + r - 1)
            /\ ~(index - s < l) /\ index - (s + l) = index - s - l
        BY <2>1, <2>2, <3>1, <3>6
      <4>2. r \in S
        BY <1>1, <3>1, Zenon
      <4>3. Leads(records, index, s + l, r)
        BY <3>1, <4>1, <4>2
      <4>4. step.side = "left" /\ step.side \in Side
        BY DEF Step, Side
      <4>5. Climb(Subtree(records, s + l, r), step) = Subtree(records, s, n)
        BY <3>2 DEF Climb, Step
      <4>6. /\ Path(records, index, s, n) = Append(Path(records, index, s + l, r), step)
            /\ Directions(index - s, n) = Append(Directions(index - (s + l), r), step.side)
        <5>1. Path(records, index, s, n) = Append(Path(records, index, s + l, r), step)
          BY <3>3, <3>6, Zenon
        <5>2. Directions(index - s, n) = Append(Directions(index - (s + l), r), "left")
          BY <3>4, <4>1, Zenon
        <5> HIDE DEF step
        <5> QED
          BY <4>4, <5>1, <5>2, Zenon
      <4> HIDE DEF step
      <4> QED
        BY <2>2, <3>1, <4>1, <4>3, <4>4, <4>5, <4>6, LeadsUp
    <3> QED
      BY <3>5, <3>6
  <2> QED
    BY <2>3, <2>4
<1> HIDE DEF S
<1>2. \A n \in Sizes : n \in S
  BY <1>1, StrongInduction
<1> QED
  BY <1>2 DEF S

(* The proof buildTree gives for a leaf is one verifyProof accepts, for    *)
(* every size of batch and every leaf of it: the sides both compute, one   *)
(* from the tree and one from the count alone, are the same                *)
(* (merkle.js:82, merkle.js:120).                                          *)
THEOREM InclusionComplete ==
    ASSUME NEW records, Len(records) \in Sizes, NEW index \in 0..(Len(records) - 1)
    PROVE  VerifyProof(records[index + 1], index, Len(records), Proof(records, index),
                       Root(records))
<1> DEFINE n == Len(records)
           path == Path(records, index, 0, n)
           sides == Directions(index, n)
<1>1. n \in Sizes /\ n \in Nat /\ index \in Nat /\ index - 0 = index /\ index \in 0..(0 + n - 1)
  BY DEF Sizes, MaxBatchSize
<1>2. Leads(records, index, 0, n)
  BY <1>1, PathLeads
<1> HIDE DEF n
<1>3. PICK T : path \in Seq(T)
  BY <1>2 DEF Leads
<1>4. /\ Len(path) = Len(sides) /\ \A j \in 1..Len(sides) : path[j].side = sides[j]
      /\ Climbed(records[index + 1], path, Len(sides)) = Subtree(records, 0, n)
  BY <1>1, <1>2 DEF Leads
<1>5. sides \in Seq(Side)
  BY <1>1, DirectionsShape DEF n
<1> HIDE DEF path, sides
<1>6. [i \in DOMAIN path |-> path[i].side] = sides
  <2>1. DOMAIN path = 1..Len(sides) /\ DOMAIN sides = 1..Len(sides)
    BY <1>3, <1>4, <1>5
  <2>2. sides = [i \in 1..Len(sides) |-> sides[i]]
    BY <1>5, <2>1
  <2> QED
    BY <1>4, <2>1, <2>2
<1> QED
  BY <1>1, <1>4, <1>6 DEF VerifyProof, Proof, Root, Sizes, n, path, sides

==============================================================================
