---------------------------- MODULE SparklerProofs ----------------------------
(***************************************************************************)
(* What holds of sparkler's particles, for any number of them, any depth   *)
(* of the octree and any sizes of chunks.                                  *)
(***************************************************************************)
EXTENDS Sparkler, TLAPS, FiniteSetTheorems, FunctionTheorems, SequenceTheorems, WellFoundedInduction

-----------------------------------------------------------------------------
(* Numbers, and what is defined by recursion on them *)

\* A nonempty set of numbers has a least one.
LEMMA LeastNumber ==
  ASSUME NEW T \in SUBSET Nat, T # {}
  PROVE  \E m \in T : \A k \in T : m <= k
<1> DEFINE Up(k) == 0 .. k
           Ups == {Up(k) : k \in T}
<1>1. IsWellFoundedOn(StrictSubsetOrdering(Nat), FiniteSubsetsOf(Nat))
  BY FS_StrictSubsetOrderingWellFounded
<1>2. Ups \subseteq FiniteSubsetsOf(Nat) /\ Ups # {}
  <2>1. \A k \in T : IsFiniteSet(Up(k)) /\ Up(k) \in SUBSET Nat
    BY FS_Interval
  <2> QED BY <2>1 DEF FiniteSubsetsOf
<1>3. PICK U \in Ups : \A V \in Ups : <<V, U>> \notin StrictSubsetOrdering(Nat)
  <2> HIDE DEF Ups
  <2> QED BY <1>1, <1>2, WFMin
<1>4. PICK m \in T : U = Up(m)
  OBVIOUS
<1>5. ASSUME NEW k \in T, ~(m <= k) PROVE FALSE
  <2>1. Up(k) \subseteq Up(m) /\ Up(k) # Up(m)
    BY <1>5
  <2>2. <<Up(k), Up(m)>> \in StrictSubsetOrdering(Nat)
    BY <2>1 DEF StrictSubsetOrdering
  <2> QED BY <1>3, <1>4, <2>2
<1> QED BY <1>5

\* A nonempty set of numbers that a bound is on has a greatest one.
LEMMA GreatestNumber ==
  ASSUME NEW n \in Nat, NEW T \in SUBSET (0 .. n), T # {}
  PROVE  \E m \in T : \A k \in T : k <= m
<1> DEFINE D == {n - k : k \in T}
<1>1. D \in SUBSET Nat /\ D # {}
  <2>1. \A k \in T : n - k \in Nat
    OBVIOUS
  <2> QED BY <2>1
<1>2. PICK d \in D : \A e \in D : d <= e
  <2> HIDE DEF D
  <2> QED BY <1>1, LeastNumber
<1>3. PICK m \in T : d = n - m
  OBVIOUS
<1>4. ASSUME NEW k \in T PROVE k <= m
  <2>1. d <= n - k
    BY <1>2
  <2> QED BY <1>3, <2>1
<1> QED BY <1>4

\* Induction over the numbers up to n.
LEMMA Upward ==
  ASSUME NEW n \in Nat, NEW T, 0 \in T, \A i \in 1 .. n : i - 1 \in T => i \in T
  PROVE  \A i \in 0 .. n : i \in T
<1> DEFINE Bad == {i \in 0 .. n : i \notin T}
<1> SUFFICES ASSUME Bad # {} PROVE FALSE
  OBVIOUS
<1>1. PICK m \in Bad : \A k \in Bad : m <= k
  <2>1. Bad \in SUBSET Nat
    OBVIOUS
  <2> HIDE DEF Bad
  <2> QED BY <2>1, LeastNumber
<1>2. m \in 1 .. n
  OBVIOUS
<1>3. m - 1 \in 0 .. n /\ m - 1 \notin Bad
  BY <1>1, <1>2
<1> QED BY <1>2, <1>3

\* A function of the numbers up to n can be defined by recursion, as long as
\* the steps lead from one set of values to the next.
Leads(n, V, base, step) ==
  base \in V[0] /\ \A i \in 1 .. n : \A v \in V[i - 1] : step[i][v] \in V[i]

\* What is defined step by step from a base, each value in its set, is a function.
LEMMA Recursion ==
  ASSUME NEW n \in Nat, NEW V, NEW base, NEW step, Leads(n, V, base, step)
  PROVE  \E f : /\ f = [i \in 0 .. n |-> IF i = 0 THEN base ELSE step[i][f[i - 1]]]
                /\ \A i \in 0 .. n : f[i] \in V[i]
<1> USE DEF Leads
<1> DEFINE Upto(m, f) ==
             /\ f = [i \in 0 .. m |-> f[i]]
             /\ f[0] = base
             /\ \A i \in 1 .. m : f[i] = step[i][f[i - 1]]
             /\ \A i \in 0 .. m : f[i] \in V[i]
           T == {m \in 0 .. n : \E f : Upto(m, f)}
<1>1. 0 \in T
  <2> DEFINE f == [i \in 0 .. 0 |-> base]
  <2>1. Upto(0, f)
    OBVIOUS
  <2> HIDE DEF Upto, f
  <2> QED BY <2>1
<1>2. ASSUME NEW m \in 1 .. n, m - 1 \in T PROVE m \in T
  <2>1. PICK f : Upto(m - 1, f)
    BY <1>2
  <2> DEFINE h == [i \in 0 .. m |-> IF i = m THEN step[m][f[m - 1]] ELSE f[i]]
  <2>2. h[m] = step[m][f[m - 1]] /\ (\A i \in 0 .. m - 1 : h[i] = f[i])
    OBVIOUS
  <2>3. h = [i \in 0 .. m |-> h[i]]
    OBVIOUS
  <2> HIDE DEF h
  <2>4. h[0] = base
    BY <2>1, <2>2
  <2>5. ASSUME NEW i \in 1 .. m PROVE h[i] = step[i][h[i - 1]] /\ h[i] \in V[i]
    <3>1. i - 1 \in 0 .. m - 1 /\ h[i - 1] = f[i - 1] /\ f[i - 1] \in V[i - 1]
      BY <2>1, <2>2
    <3>2. h[i] = step[i][f[i - 1]]
      <4>1. CASE i = m
        BY <2>2, <4>1
      <4>2. CASE i # m
        <5>1. i \in 1 .. m - 1 /\ i \in 0 .. m - 1
          BY <4>2
        <5> QED BY <2>1, <2>2, <5>1
      <4> QED BY <4>1, <4>2
    <3>3. i \in 1 .. n
      OBVIOUS
    <3> QED BY <3>1, <3>2, <3>3
  <2>6. \A i \in 0 .. m : h[i] \in V[i]
    BY <2>4, <2>5
  <2>7. Upto(m, h)
    BY <2>3, <2>4, <2>5, <2>6
  <2> HIDE DEF Upto
  <2> QED BY <2>7
<1>3. n \in T
  <2> HIDE DEF T
  <2> QED BY <1>1, <1>2, Upward
<1>4. PICK f : Upto(n, f)
  BY <1>3
<1>5. \A i \in 0 .. n : f[i] = IF i = 0 THEN base ELSE step[i][f[i - 1]]
  BY <1>4
<1>6. f = [i \in 0 .. n |-> IF i = 0 THEN base ELSE step[i][f[i - 1]]]
  <2> DEFINE e(i) == IF i = 0 THEN base ELSE step[i][f[i - 1]]
  <2>1. f = [i \in 0 .. n |-> f[i]] /\ \A i \in 0 .. n : f[i] = e(i)
    BY <1>4, <1>5
  <2> HIDE DEF e
  <2>2. f = [i \in 0 .. n |-> e(i)]
    BY <2>1
  <2> QED BY <2>2 DEF e
<1> QED BY <1>4, <1>6

\* A function whose values depend on those of lower rank only can be defined by
\* recursion.
Ranked(n, D, R, rank, body) ==
  /\ R # {} /\ rank \in [D -> 0 .. n] /\ body \in [[D -> R] -> [D -> R]]
  /\ \A f, g \in [D -> R] : \A x \in D :
        (\A y \in D : rank[y] < rank[x] => f[y] = g[y]) => body[f][x] = body[g][x]

LEMMA Fixpoint ==
  ASSUME NEW n \in Nat, NEW D, NEW R, NEW rank, NEW body, Ranked(n, D, R, rank, body)
  PROVE  \E f \in [D -> R] : f = body[f]
<1> DEFINE N == n + 1
           X == [D -> R]
           V == [i \in 0 .. N |-> X]
           base == [x \in D |-> CHOOSE r \in R : TRUE]
           step == [i \in 1 .. N |-> body]
<1>1. N \in Nat /\ base \in X /\ rank \in [D -> 0 .. n] /\ body \in [X -> X]
  <2>1. R # {} /\ rank \in [D -> 0 .. n] /\ body \in [X -> X]
    BY DEF Ranked
  <2>2. (CHOOSE r \in R : TRUE) \in R
    BY <2>1
  <2>3. base \in X
    BY <2>2
  <2> QED BY <2>1, <2>3
<1>2. Leads(N, V, base, step)
  <2>1. V[0] = X /\ \A i \in 1 .. N : V[i - 1] = X /\ V[i] = X /\ step[i] = body
    BY <1>1
  <2>2. \A v \in X : body[v] \in X
    BY <1>1
  <2> HIDE DEF V, step, X, base, N
  <2> QED BY <1>1, <2>1, <2>2 DEF Leads
<1>3. PICK h : /\ h = [i \in 0 .. N |-> IF i = 0 THEN base ELSE step[i][h[i - 1]]]
               /\ \A i \in 0 .. N : h[i] \in V[i]
  <2>1. N \in Nat
    OBVIOUS
  <2> HIDE DEF N, V, base, step
  <2> QED BY <1>2, <2>1, Recursion
<1>4. /\ \A i \in 1 .. N : h[i] = body[h[i - 1]]
      /\ \A i \in 0 .. N : h[i] \in X
  <2>1. ASSUME NEW i \in 1 .. N PROVE h[i] = body[h[i - 1]]
    <3>1. i \in 0 .. N /\ i # 0 /\ step[i] = body
      OBVIOUS
    <3> HIDE DEF step, base, X, V, N
    <3> QED BY <1>3, <3>1
  <2>2. \A i \in 0 .. N : V[i] = X
    OBVIOUS
  <2> HIDE DEF step, base, X, V, N
  <2> QED BY <1>3, <2>1, <2>2
<1> HIDE DEF step, base, V
\* What is of a rank below i has settled after i steps.
<1> DEFINE T == {i \in 0 .. N : \A x \in D : rank[x] < i => body[h[i]][x] = h[i][x]}
<1>5. 0 \in T
  <2>1. \A x \in D : ~(rank[x] < 0) /\ 0 \in 0 .. N
    BY <1>1
  <2> QED BY <2>1
<1>6. ASSUME NEW i \in 1 .. N, i - 1 \in T PROVE i \in T
  <2>1. i \in 0 .. N /\ i - 1 \in 0 .. N /\ h[i] \in X /\ h[i - 1] \in X /\ h[i] = body[h[i - 1]]
    <3>1. i \in 0 .. N /\ i - 1 \in 0 .. N
      BY <1>1
    <3> QED BY <1>4, <3>1
  <2>2. ASSUME NEW x \in D, rank[x] < i PROVE body[h[i]][x] = h[i][x]
    <3>1. ASSUME NEW y \in D, rank[y] < rank[x] PROVE h[i][y] = h[i - 1][y]
      <4>1. rank[y] < i - 1
        <5>1. rank[x] \in Nat /\ rank[y] \in Nat /\ i \in Nat
          BY <1>1
        <5> HIDE DEF T, X, N
        <5> QED BY <2>2, <3>1, <5>1
      <4>2. body[h[i - 1]][y] = h[i - 1][y]
        BY <1>6, <4>1
      <4> QED BY <2>1, <4>2
    <3>2. body[h[i]][x] = body[h[i - 1]][x]
      BY <2>1, <3>1 DEF Ranked
    <3> QED BY <2>1, <3>2
  <2> QED BY <2>1, <2>2
<1>7. N \in T
  <2> HIDE DEF T, N
  <2>1. N \in 0 .. N
    BY <1>1
  <2> QED BY <1>1, <1>5, <1>6, <2>1, Upward
<1>8. h[N] \in X /\ body[h[N]] \in X
  BY <1>1, <1>4
<1>9. \A x \in D : body[h[N]][x] = h[N][x]
  <2>1. \A x \in D : rank[x] < N
    BY <1>1
  <2> QED BY <1>7, <2>1
<1>10. h[N] = body[h[N]]
  BY <1>8, <1>9
<1> QED BY <1>8, <1>10

\* Induction over what has a rank.
LEMMA ByRank ==
  ASSUME NEW D, NEW rank \in [D -> Nat], NEW T,
         \A x \in D : (\A y \in D : rank[y] < rank[x] => y \in T) => x \in T
  PROVE  \A x \in D : x \in T
<1> SUFFICES ASSUME NEW z \in D, z \notin T PROVE FALSE
  OBVIOUS
<1> DEFINE K == {rank[x] : x \in D \ T}
<1>1. K \in SUBSET Nat /\ K # {}
  OBVIOUS
<1>2. PICK m \in K : \A k \in K : m <= k
  <2> HIDE DEF K
  <2> QED BY <1>1, LeastNumber
<1>3. PICK x \in D \ T : m = rank[x]
  OBVIOUS
<1>4. ASSUME NEW y \in D, rank[y] < rank[x] PROVE y \in T
  <2>1. rank[y] \in Nat /\ rank[x] \in Nat
    OBVIOUS
  <2>2. y \in D \ T => m <= rank[y]
    BY <1>2
  <2> QED BY <1>3, <1>4, <2>1, <2>2
<1> QED BY <1>3, <1>4

-----------------------------------------------------------------------------
(* Nodes *)

\* A node is a path of octrants, no longer than the tree is deep.
LEMMA PathsAre == Paths = {path \in Seq(Octrants) : Len(path) <= BSP_MAX_DEPTH}
BY BspAssumption DEF Paths, BoundedSeq, SeqOf

\* The depth of a node is the length of its path.
LEMMA NodeDepth ==
  ASSUME NEW path \in Paths
  PROVE  path \in Seq(Octrants) /\ Len(path) \in Nat /\ Len(path) <= BSP_MAX_DEPTH
         /\ (Len(path) <= 0 => path = <<>>)
BY PathsAre

\* The root is the node of no octrants.
LEMMA RootNode == <<>> \in Paths /\ Len(<<>>) = 0 /\ BSP_MAX_DEPTH \in Nat
BY BspAssumption, PathsAre

\* A path leads on to an octrant, which is its last, and back.
LEMMA Children ==
  ASSUME NEW path \in Seq(Octrants), NEW q \in Octrants
  PROVE  /\ Append(path, q) \in Seq(Octrants) /\ Len(Append(path, q)) = Len(path) + 1
         /\ Append(path, q) # <<>> /\ Front(Append(path, q)) = path /\ Last(Append(path, q)) = q
<1> DEFINE c == Append(path, q)
<1>1. c \in Seq(Octrants) /\ Len(c) = Len(path) + 1
      /\ c[Len(path) + 1] = q /\ \A i \in 1 .. Len(path) : c[i] = path[i]
  OBVIOUS
<1>2. Len(path) \in Nat
  OBVIOUS
<1> HIDE DEF c
<1>3. Last(c) = q
  BY <1>1 DEF Last
<1>4. c # <<>>
  BY <1>1, <1>2
<1>5. Front(c) = path
  <2>1. Front(c) \in Seq(Octrants) /\ Len(Front(c)) = Len(path)
        /\ \A i \in 1 .. Len(path) : Front(c)[i] = c[i]
    BY <1>1, <1>2 DEF Front
  <2> QED BY <1>1, <2>1
<1> QED BY <1>1, <1>3, <1>4, <1>5 DEF c

\* A path but the root's is an octrant of another one.
LEMMA Parents ==
  ASSUME NEW path \in Seq(Octrants), path # <<>>
  PROVE  /\ Front(path) \in Seq(Octrants) /\ Len(Front(path)) = Len(path) - 1
         /\ Last(path) \in Octrants /\ Append(Front(path), Last(path)) = path
<1>1. Len(path) \in Nat \ {0}
  OBVIOUS
<1>2. Front(path) \in Seq(Octrants) /\ Len(Front(path)) = Len(path) - 1
      /\ \A i \in 1 .. Len(path) - 1 : Front(path)[i] = path[i]
  BY <1>1 DEF Front
<1>3. Last(path) \in Octrants
  BY <1>1 DEF Last
<1>4. Append(Front(path), Last(path)) = path
  <2> DEFINE c == Append(Front(path), Last(path))
  <2>1. c \in Seq(Octrants) /\ Len(c) = Len(path) /\ c[Len(path)] = Last(path)
        /\ \A i \in 1 .. Len(path) - 1 : c[i] = Front(path)[i]
    BY <1>1, <1>2, <1>3
  <2> HIDE DEF c
  <2>2. \A i \in 1 .. Len(path) : c[i] = path[i]
    BY <1>1, <1>2, <2>1 DEF Last
  <2>3. c = path
    BY <2>1, <2>2
  <2> QED BY <2>3 DEF c
<1> QED BY <1>2, <1>3, <1>4

\* A node that is not at the bottom has an octrant each way.
LEMMA ChildNode ==
  ASSUME NEW path \in Paths, Len(path) < BSP_MAX_DEPTH, NEW q \in Octrants
  PROVE  /\ Append(path, q) \in Paths /\ Len(Append(path, q)) = Len(path) + 1
         /\ Append(path, q) # <<>> /\ Front(Append(path, q)) = path /\ Last(Append(path, q)) = q
<1>1. path \in Seq(Octrants) /\ Len(path) \in Nat /\ BSP_MAX_DEPTH \in Nat
  BY NodeDepth, RootNode
<1>2. Len(path) + 1 <= BSP_MAX_DEPTH
  BY <1>1
<1> QED BY <1>1, <1>2, Children, PathsAre

\* A node but the root is an octrant of a node.
LEMMA ParentNode ==
  ASSUME NEW path \in Paths, path # <<>>
  PROVE  /\ Front(path) \in Paths /\ Len(Front(path)) = Len(path) - 1
         /\ Last(path) \in Octrants /\ Append(Front(path), Last(path)) = path
<1>1. path \in Seq(Octrants) /\ Len(path) \in Nat /\ Len(path) <= BSP_MAX_DEPTH
      /\ BSP_MAX_DEPTH \in Nat
  BY NodeDepth, RootNode
<1>2. Len(path) - 1 <= BSP_MAX_DEPTH
  BY <1>1
<1> QED BY <1>1, <1>2, Parents, PathsAre

\* Any position is in an octrant of a node.
LEMMA Places ==
  ASSUME NEW path, NEW position
  PROVE  OctrantOf(path, position) \in Octrants
BY DEF OctrantOf, Octrants

\* There are finitely many octrants.
LEMMA OctrantsFinite == IsFiniteSet(Octrants)
<1> DEFINE f == [S \in SUBSET Dims |-> [d \in Dims |-> IF d \in S THEN 1 ELSE 0]]
<1>1. IsFiniteSet(SUBSET Dims)
  BY BspAssumption, FS_SUBSET
<1>2. f \in [SUBSET Dims -> Octrants]
  BY DEF Octrants
<1>3. ASSUME NEW q \in Octrants PROVE \E S \in SUBSET Dims : f[S] = q
  <2> DEFINE S == {d \in Dims : q[d] = 1}
  <2>1. S \in SUBSET Dims /\ f[S] = [d \in Dims |-> IF d \in S THEN 1 ELSE 0]
    OBVIOUS
  <2>2. \A d \in Dims : q[d] = IF d \in S THEN 1 ELSE 0
    BY DEF Octrants
  <2>3. q = [d \in Dims |-> q[d]]
    BY DEF Octrants
  <2> HIDE DEF f
  <2> QED BY <2>1, <2>2, <2>3
<1>4. f \in Surjection(SUBSET Dims, Octrants)
  BY <1>2, <1>3 DEF Surjection
<1> HIDE DEF f
<1> QED BY <1>1, <1>4, FS_Surjection

\* There are finitely many nodes, for a chunk to be left for each.
LEMMA PathsFinite == IsFiniteSet(Paths)
<1>1. IsFiniteSet(Octrants)
  BY OctrantsFinite
<1> DEFINE Upto(n) == {path \in Seq(Octrants) : Len(path) <= n}
           T == {n \in 0 .. BSP_MAX_DEPTH : IsFiniteSet(Upto(n))}
<1>2. 0 \in T
  <2>1. Upto(0) = {<<>>}
    <3>1. \A path \in Seq(Octrants) : Len(path) <= 0 <=> path = <<>>
      OBVIOUS
    <3>2. <<>> \in Seq(Octrants)
      OBVIOUS
    <3> QED BY <3>1, <3>2
  <2>2. IsFiniteSet({<<>>})
    BY FS_Singleton
  <2>3. 0 \in 0 .. BSP_MAX_DEPTH
    BY BspAssumption
  <2> QED BY <2>1, <2>2, <2>3
<1>3. ASSUME NEW n \in 1 .. BSP_MAX_DEPTH, n - 1 \in T PROVE n \in T
  <2> DEFINE U == Upto(n - 1)
             C == {path \in Seq(Octrants) : path # <<>> /\ Len(path) <= n}
             f == [x \in U \X Octrants |-> Append(x[1], x[2])]
  <2>1. IsFiniteSet(U \X Octrants)
    BY <1>1, <1>3, FS_Product
  <2>2. f \in [U \X Octrants -> C]
    <3>1. ASSUME NEW x \in U \X Octrants PROVE Append(x[1], x[2]) \in C
      <4>1. x[1] \in Seq(Octrants) /\ Len(x[1]) <= n - 1 /\ x[2] \in Octrants
        OBVIOUS
      <4>2. Len(x[1]) \in Nat
        BY <4>1
      <4> QED BY <4>1, <4>2, Children
    <3> HIDE DEF U, C
    <3> QED BY <3>1
  <2>3. ASSUME NEW path \in C PROVE \E x \in U \X Octrants : f[x] = path
    <3> DEFINE x == <<Front(path), Last(path)>>
    <3>1. /\ Front(path) \in Seq(Octrants) /\ Len(Front(path)) = Len(path) - 1
          /\ Last(path) \in Octrants /\ Append(Front(path), Last(path)) = path
      BY Parents
    <3>2. Len(path) - 1 <= n - 1
      OBVIOUS
    <3>3. x \in U \X Octrants
      BY <3>1, <3>2
    <3>4. f[x] = path
      <4> HIDE DEF U
      <4> QED BY <3>1, <3>3
    <3> HIDE DEF f
    <3> QED BY <3>3, <3>4
  <2>4. f \in Surjection(U \X Octrants, C)
    <3> HIDE DEF f, C, U
    <3> QED BY <2>2, <2>3 DEF Surjection
  <2>5. IsFiniteSet(C)
    <3> HIDE DEF f, C, U
    <3> QED BY <2>1, <2>4, FS_Surjection
  <2>6. Upto(n) = C \cup {<<>>}
    <3>1. <<>> \in Seq(Octrants) /\ Len(<<>>) <= n
      OBVIOUS
    <3> QED BY <3>1
  <2>7. IsFiniteSet(C \cup {<<>>})
    <3> HIDE DEF C
    <3> QED BY <2>5, FS_AddElement
  <2>8. n \in 0 .. BSP_MAX_DEPTH
    BY BspAssumption
  <2> QED BY <2>6, <2>7, <2>8
<1>4. BSP_MAX_DEPTH \in T
  <2> HIDE DEF T
  <2>1. BSP_MAX_DEPTH \in Nat
    BY BspAssumption
  <2> QED BY <1>2, <1>3, <2>1, Upward
<1>5. Paths = Upto(BSP_MAX_DEPTH)
  BY PathsAre
<1> QED BY <1>4, <1>5

-----------------------------------------------------------------------------
(* Volumes *)

\* From low to high, in each dimension.
Volumes == {v \in [low : [Dims -> Int], high : [Dims -> Int]] : \A d \in Dims : v.low[d] <= v.high[d]}

\* The volume of an octrant, if of a volume.
LEMMA OctrantVolume ==
  ASSUME NEW v \in Volumes, NEW q \in Octrants
  PROVE  Octrant(v, q) \in Volumes
<1>1. \A d \in Dims : /\ v.low[d] \in Int /\ v.high[d] \in Int /\ Middle(v, d) \in Int
                      /\ v.low[d] <= Middle(v, d) /\ Middle(v, d) <= v.high[d]
  BY DEF Volumes, Middle
<1> QED BY <1>1 DEF Octrant, Volumes

\* The root's volume.
LEMMA RootVolume == Root \in Volumes
BY BspAssumption DEF Root, Volumes

\* The volume of a node is an octrant of its parent's.
LEMMA VolumeIs ==
  \A path \in Paths :
     /\ Volume[path] \in Volumes
     /\ Volume[path] = IF path = <<>> THEN Root ELSE Octrant(Volume[Front(path)], Last(path))
<1> DEFINE n == BSP_MAX_DEPTH
           X == [Paths -> Volumes]
           rank == [path \in Paths |-> Len(path)]
           e(v, path) == IF path = <<>> THEN Root ELSE Octrant(v[Front(path)], Last(path))
           body == [v \in X |-> [path \in Paths |-> e(v, path)]]
           Def(v) == v = [path \in Paths |-> e(v, path)]
<1>1. n \in Nat /\ rank \in [Paths -> 0 .. n] /\ rank \in [Paths -> Nat]
  BY RootNode, NodeDepth
<1>2. ASSUME NEW path \in Paths, path # <<>>
      PROVE  Front(path) \in Paths /\ rank[Front(path)] < rank[path] /\ Last(path) \in Octrants
  BY <1>2, ParentNode, NodeDepth
<1>3. ASSUME NEW v, NEW path \in Paths,
             \A y \in Paths : rank[y] < rank[path] => v[y] \in Volumes
      PROVE  e(v, path) \in Volumes
  BY <1>2, <1>3, OctrantVolume, RootVolume
<1>4. ASSUME NEW v, NEW u, NEW path \in Paths,
             \A y \in Paths : rank[y] < rank[path] => v[y] = u[y]
      PROVE  e(v, path) = e(u, path)
  BY <1>2, <1>4
<1> HIDE DEF n, rank, e
<1>5. Ranked(n, Paths, Volumes, rank, body)
  <2>1. \A v \in X : body[v] = [path \in Paths |-> e(v, path)]
    OBVIOUS
  <2>2. ASSUME NEW v \in X PROVE [path \in Paths |-> e(v, path)] \in X
    BY <1>3
  <2>3. body \in [X -> X]
    BY <2>2
  <2>4. \A v \in X : \A path \in Paths : body[v][path] = e(v, path)
    BY <2>1
  <2> HIDE DEF body
  <2> QED BY <1>1, <1>4, <2>3, <2>4, RootVolume DEF Ranked
<1>6. PICK f \in X : f = body[f]
  <2> HIDE DEF body
  <2> QED BY <1>1, <1>5, Fixpoint
<1>7. Def(f)
  BY <1>6
<1>8. Def(Volume)
  <2>1. Volume = CHOOSE v : Def(v)
    BY DEF Volume, e
  <2> HIDE DEF Def
  <2> QED BY <1>7, <2>1
<1>9. \A path \in Paths : Volume[path] = e(Volume, path)
  BY <1>8
<1> DEFINE T == {path \in Paths : Volume[path] \in Volumes}
<1>10. \A path \in Paths : path \in T
  <2>1. \A path \in Paths :
           (\A y \in Paths : rank[y] < rank[path] => y \in T) => path \in T
    BY <1>3, <1>9
  <2> HIDE DEF T
  <2> QED BY <1>1, <2>1, ByRank
<1> QED BY <1>9, <1>10 DEF e

\* What is in the frame is in the root's volume.
LEMMA WithinRoot ==
  ASSUME NEW position, InCube(position)
  PROVE  Within(<<>>, position)
<1>1. <<>> \in Paths
  BY RootNode
<1>2. Volume[<<>>] = Root
  BY <1>1, VolumeIs
<1> QED BY <1>2 DEF Within, InCube, Low, High, Root

\* A position in a node's volume is in that of the octrant it is placed in.
LEMMA WithinOctrant ==
  ASSUME NEW path \in Paths, Len(path) < BSP_MAX_DEPTH, NEW position, Within(path, position)
  PROVE  Within(Append(path, OctrantOf(path, position)), position)
<1> DEFINE q == OctrantOf(path, position)
           v == Volume[path]
<1>1. q \in Octrants
  BY Places
<1>2. Append(path, q) \in Paths /\ Front(Append(path, q)) = path /\ Last(Append(path, q)) = q
      /\ Append(path, q) # <<>>
  <2> HIDE DEF q
  <2> QED BY <1>1, ChildNode
<1>3. Volume[Append(path, q)] = Octrant(v, q) /\ v \in Volumes
  BY <1>2, VolumeIs
<1>4. ASSUME NEW d \in Dims
      PROVE  position[d] \in Low(Append(path, q), d) .. High(Append(path, q), d)
  <2>1. position[d] \in v.low[d] .. v.high[d] /\ v.low[d] \in Int /\ v.high[d] \in Int
    BY <1>3 DEF Within, Low, High, Volumes
  <2>2. Middle(v, d) \in Int
    BY <2>1 DEF Middle
  <2>3. q[d] = IF position[d] <= Middle(v, d) THEN 0 ELSE 1
    BY DEF OctrantOf, Center
  <2>4. Low(Append(path, q), d) = IF q[d] = 0 THEN v.low[d] ELSE Middle(v, d)
    BY <1>3 DEF Low, Octrant
  <2>5. High(Append(path, q), d) = IF q[d] = 0 THEN Middle(v, d) ELSE v.high[d]
    BY <1>3 DEF High, Octrant
  <2> HIDE DEF q, v
  <2> QED BY <2>1, <2>2, <2>3, <2>4, <2>5
<1> QED BY <1>4 DEF Within

-----------------------------------------------------------------------------
(* Lists *)

\* A list's members are its entries, each there once if it is injective.
LEMMA Entries ==
  ASSUME NEW S, NEW list \in Seq(S)
  PROVE  /\ Len(list) \in Nat /\ DOMAIN list = 1 .. Len(list) /\ ToSet(list) \subseteq S
         /\ \A i \in 1 .. Len(list) : list[i] \in ToSet(list) /\ list[i] \in S
         /\ \A e \in ToSet(list) : \E i \in 1 .. Len(list) : list[i] = e
         /\ (IsInjective(list) <=> \A i, j \in 1 .. Len(list) : list[i] = list[j] => i = j)
<1>1. Len(list) \in Nat /\ DOMAIN list = 1 .. Len(list)
  OBVIOUS
<1>2. \A i \in 1 .. Len(list) : list[i] \in S
  OBVIOUS
<1> QED BY <1>1, <1>2 DEF ToSet, IsInjective

\* A list with an entry more in front.
LEMMA Pushed ==
  ASSUME NEW S, NEW old \in Seq(S), NEW e \in S
  PROVE  /\ <<e>> \o old \in Seq(S) /\ ToSet(<<e>> \o old) = {e} \cup ToSet(old)
         /\ (IsInjective(old) /\ e \notin ToSet(old) => IsInjective(<<e>> \o old))
<1> DEFINE new == <<e>> \o old
<1>1. /\ new \in Seq(S) /\ Len(new) = Len(old) + 1 /\ new[1] = e
      /\ \A i \in 1 .. Len(old) : new[i + 1] = old[i]
  OBVIOUS
<1> HIDE DEF new
<1>2. \A i \in 1 .. Len(new) : i = 1 \/ (i - 1 \in 1 .. Len(old) /\ new[i] = old[i - 1])
  <2>1. Len(old) \in Nat
    OBVIOUS
  <2>2. \A i \in 1 .. Len(new) : i # 1 => i - 1 \in 1 .. Len(old) /\ (i - 1) + 1 = i
    BY <1>1, <2>1
  <2>3. ASSUME NEW i \in 1 .. Len(new), i # 1 PROVE i - 1 \in 1 .. Len(old) /\ new[i] = old[i - 1]
    <3>1. i - 1 \in 1 .. Len(old) /\ (i - 1) + 1 = i
      BY <2>2, <2>3
    <3>2. new[(i - 1) + 1] = old[i - 1]
      BY <1>1, <3>1
    <3> QED BY <3>1, <3>2
  <2> QED BY <2>3
<1>3. ToSet(new) = {e} \cup ToSet(old)
  <2>1. ASSUME NEW x \in ToSet(new) PROVE x = e \/ x \in ToSet(old)
    <3>1. new \in Seq(S)
      BY <1>1
    <3>2. PICK i \in 1 .. Len(new) : new[i] = x
      BY <2>1, <3>1, Entries
    <3>3. CASE i = 1
      BY <1>1, <3>2, <3>3
    <3>4. CASE i # 1
      <4>1. i - 1 \in 1 .. Len(old) /\ x = old[i - 1]
        BY <1>2, <3>2, <3>4
      <4>2. \A j \in 1 .. Len(old) : old[j] \in ToSet(old)
        BY Entries
      <4> QED BY <4>1, <4>2
    <3> QED BY <3>3, <3>4
  <2>2. e \in ToSet(new)
    <3>1. 1 \in 1 .. Len(new)
      BY <1>1
    <3> QED BY <1>1, <3>1, Entries
  <2>3. ASSUME NEW x \in ToSet(old) PROVE x \in ToSet(new)
    <3>1. PICK i \in 1 .. Len(old) : x = old[i]
      BY <2>3, Entries
    <3>2. i + 1 \in 1 .. Len(new) /\ new[i + 1] = x
      BY <1>1, <3>1
    <3> QED BY <1>1, <3>2, Entries
  <2> QED BY <2>1, <2>2, <2>3
<1>4. ASSUME IsInjective(old), e \notin ToSet(old) PROVE IsInjective(new)
  <2>1. ASSUME NEW i \in 1 .. Len(new), NEW j \in 1 .. Len(new), new[i] = new[j] PROVE i = j
    <3>1. CASE i = 1 \/ j = 1
      <4>1. \A l \in 1 .. Len(new) : l # 1 => new[l] \in ToSet(old)
        BY <1>2, Entries
      <4> QED BY <1>1, <1>4, <2>1, <3>1, <4>1
    <3>2. CASE i # 1 /\ j # 1
      <4>1. i - 1 = j - 1
        BY <1>2, <1>4, <2>1, <3>2, Entries
      <4> QED BY <4>1
    <3> QED BY <3>1, <3>2
  <2> QED BY <1>1, <2>1, Entries
<1> QED BY <1>1, <1>3, <1>4 DEF new

\* A list without its first entry.
LEMMA Popped ==
  ASSUME NEW S, NEW list \in Seq(S), list # <<>>
  PROVE  /\ Head(list) \in ToSet(list) /\ Head(list) \in S
         /\ Tail(list) \in Seq(S) /\ ToSet(Tail(list)) \subseteq ToSet(list)
         /\ (IsInjective(list) => IsInjective(Tail(list)) /\ Head(list) \notin ToSet(Tail(list)))
<1> DEFINE t == Tail(list)
<1>1. /\ t \in Seq(S) /\ Len(t) = Len(list) - 1 /\ Len(list) \in Nat \ {0}
      /\ \A i \in 1 .. Len(list) - 1 : t[i] = list[i + 1]
      /\ Head(list) = list[1]
  OBVIOUS
<1> HIDE DEF t
<1>2. \A i \in 1 .. Len(t) : i + 1 \in 1 .. Len(list) /\ t[i] = list[i + 1]
  BY <1>1
<1>3. list[1] \in ToSet(list) /\ list[1] \in S
  <2>1. 1 \in 1 .. Len(list)
    BY <1>1
  <2> QED BY <2>1, Entries
<1>4. ASSUME NEW e \in ToSet(t)
      PROVE  \E i \in 1 .. Len(list) : i # 1 /\ e = list[i]
  <2>1. PICK i \in 1 .. Len(t) : t[i] = e
    BY <1>1, <1>4, Entries
  <2> QED BY <1>2, <2>1
<1>5. ToSet(t) \subseteq ToSet(list)
  BY <1>4, Entries
<1>6. ASSUME IsInjective(list) PROVE IsInjective(t) /\ list[1] \notin ToSet(t)
  <2>1. \A i, j \in 1 .. Len(list) : list[i] = list[j] => i = j
    BY <1>6, Entries
  <2>2. ASSUME NEW i \in 1 .. Len(t), NEW j \in 1 .. Len(t), t[i] = t[j] PROVE i = j
    <3>1. i + 1 = j + 1
      BY <1>2, <2>1, <2>2
    <3> QED BY <3>1
  <2>3. IsInjective(t)
    BY <1>1, <2>2, Entries
  <2>4. 1 \in 1 .. Len(list)
    BY <1>1
  <2> QED BY <1>4, <2>1, <2>3, <2>4
<1> QED BY <1>1, <1>3, <1>5, <1>6 DEF t

\* A list after another one.
LEMMA Joined ==
  ASSUME NEW S, NEW one \in Seq(S), NEW two \in Seq(S)
  PROVE  /\ one \o two \in Seq(S) /\ ToSet(one \o two) = ToSet(one) \cup ToSet(two)
         /\ (IsInjective(one) /\ IsInjective(two) /\ ToSet(one) \cap ToSet(two) = {}
               => IsInjective(one \o two))
<1> DEFINE new == one \o two
           m == Len(one)
           n == Len(two)
<1>1. /\ new \in Seq(S) /\ Len(new) = m + n /\ m \in Nat /\ n \in Nat
      /\ \A i \in 1 .. m : new[i] = one[i]
      /\ \A i \in 1 .. n : new[m + i] = two[i]
  OBVIOUS
<1> HIDE DEF new, m, n
<1>2. \A i \in 1 .. m + n : i \in 1 .. m \/ (i - m \in 1 .. n /\ m + (i - m) = i)
  BY <1>1
<1>3. \A i \in 1 .. m + n : \/ i \in 1 .. m /\ new[i] = one[i]
                            \/ i - m \in 1 .. n /\ new[i] = two[i - m]
  BY <1>1, <1>2
<1>4. ToSet(new) = ToSet(one) \cup ToSet(two)
  <2>1. ASSUME NEW e \in ToSet(new) PROVE e \in ToSet(one) \cup ToSet(two)
    <3>1. PICK i \in 1 .. m + n : new[i] = e
      BY <1>1, <2>1, Entries
    <3> QED BY <1>3, <3>1, Entries DEF m, n
  <2>2. ASSUME NEW e \in ToSet(one) PROVE e \in ToSet(new)
    <3>1. PICK i \in 1 .. m : one[i] = e
      BY <2>2, Entries DEF m
    <3>2. i \in 1 .. m + n /\ new[i] = e
      BY <1>1, <3>1
    <3> QED BY <1>1, <3>2, Entries
  <2>3. ASSUME NEW e \in ToSet(two) PROVE e \in ToSet(new)
    <3>1. PICK i \in 1 .. n : two[i] = e
      BY <2>3, Entries DEF n
    <3>2. m + i \in 1 .. m + n /\ new[m + i] = e
      BY <1>1, <3>1
    <3> QED BY <1>1, <3>2, Entries
  <2> QED BY <2>1, <2>2, <2>3
<1>5. ASSUME IsInjective(one), IsInjective(two), ToSet(one) \cap ToSet(two) = {}
      PROVE  IsInjective(new)
  <2>1. /\ \A i, j \in 1 .. m : one[i] = one[j] => i = j
        /\ \A i, j \in 1 .. n : two[i] = two[j] => i = j
        /\ \A i \in 1 .. m : \A j \in 1 .. n : one[i] # two[j]
    <3>1. \A i \in 1 .. m : one[i] \in ToSet(one)
      BY Entries DEF m
    <3>2. \A j \in 1 .. n : two[j] \in ToSet(two)
      BY Entries DEF n
    <3> QED BY <1>5, <3>1, <3>2, Entries DEF m, n
  <2>2. ASSUME NEW i \in 1 .. m + n, NEW j \in 1 .. m + n, new[i] = new[j] PROVE i = j
    <3>1. CASE i \in 1 .. m /\ new[i] = one[i] /\ j \in 1 .. m /\ new[j] = one[j]
      BY <2>1, <2>2, <3>1
    <3>2. CASE i - m \in 1 .. n /\ new[i] = two[i - m] /\ j - m \in 1 .. n /\ new[j] = two[j - m]
      <4>1. i - m = j - m
        BY <2>1, <2>2, <3>2
      <4> QED BY <1>1, <4>1
    <3> QED BY <1>3, <2>1, <2>2, <3>1, <3>2
  <2> QED BY <1>1, <2>2, Entries
<1> QED BY <1>1, <1>4, <1>5 DEF new

\* A list without one of its entries.
LEMMA UnlinkedIs ==
  ASSUME NEW S, NEW list \in Seq(S), IsInjective(list), NEW p
  PROVE  /\ Unlinked(list, p) \in Seq(S) /\ IsInjective(Unlinked(list, p))
         /\ ToSet(Unlinked(list, p)) = ToSet(list) \ {p}
<1>1. CASE p \notin ToSet(list)
  BY <1>1 DEF Unlinked
<1>2. CASE p \in ToSet(list)
  <2> DEFINE n == Len(list)
             j == CHOOSE i \in 1 .. n : list[i] = p
             new == RemoveAt(list, j)
  <2>1. n \in Nat /\ j \in 1 .. n /\ list[j] = p
    BY <1>2, Entries
  <2>2. Unlinked(list, p) = new
    BY <1>2 DEF Unlinked
  <2> HIDE DEF j
  <2>3. /\ new \in Seq(S) /\ Len(new) = n - 1
        /\ \A i \in 1 .. n - 1 : new[i] = IF i < j THEN list[i] ELSE list[i + 1]
    <3> DEFINE one == SubSeq(list, 1, j - 1)
               two == SubSeq(list, j + 1, n)
    <3>1. new = one \o two
      BY DEF RemoveAt
    <3>2. /\ one \in Seq(S) /\ Len(one) = j - 1 /\ \A i \in 1 .. j - 1 : one[i] = list[i]
      BY <2>1
    <3>3. /\ two \in Seq(S) /\ Len(two) = n - j /\ \A i \in 1 .. n - j : two[i] = list[j + i]
      BY <2>1
    <3> HIDE DEF one, two, new, n
    <3>4. Len(new) = n - 1 /\ new \in Seq(S)
      <4>0. one \in Seq(S) /\ two \in Seq(S)
        BY <3>2, <3>3
      <4>1. Len(one \o two) = Len(one) + Len(two) /\ one \o two \in Seq(S)
        BY <4>0
      <4>2. (j - 1) + (n - j) = n - 1
        BY <2>1
      <4> QED BY <3>1, <3>2, <3>3, <4>1, <4>2
    <3>5. ASSUME NEW i \in 1 .. n - 1 PROVE new[i] = IF i < j THEN list[i] ELSE list[i + 1]
      <4>1. CASE i < j
        <5>1. i \in 1 .. Len(one)
          BY <2>1, <3>2, <4>1
        <5>2. new[i] = one[i]
          BY <3>1, <3>2, <3>3, <5>1
        <5> QED BY <2>1, <3>2, <4>1, <5>2
      <4>2. CASE ~(i < j)
        <5>1. i - (j - 1) \in 1 .. n - j /\ j + (i - (j - 1)) = i + 1 /\ i \notin 1 .. Len(one)
              /\ i - Len(one) = i - (j - 1)
          BY <2>1, <3>2, <4>2
        <5>2. new[i] = two[i - Len(one)]
          BY <2>1, <3>1, <3>2, <3>3, <5>1
        <5>3. two[i - (j - 1)] = list[j + (i - (j - 1))]
          BY <3>3, <5>1
        <5> QED BY <4>2, <5>1, <5>2, <5>3
      <4> QED BY <4>1, <4>2
    <3> QED BY <3>4, <3>5
  <2> HIDE DEF new, n
  <2>4. \A i, l \in 1 .. n : list[i] = list[l] => i = l
    BY Entries DEF n
  <2>5. ToSet(new) = ToSet(list) \ {p}
    <3>1. ASSUME NEW e \in ToSet(new) PROVE e \in ToSet(list) \ {p}
      <4>1. PICK i \in 1 .. n - 1 : new[i] = e
        BY <2>1, <2>3, <3>1, Entries
      <4>2. \E l \in 1 .. n : l # j /\ list[l] = e
        <5>1. CASE i < j
          BY <2>1, <2>3, <4>1, <5>1
        <5>2. CASE ~(i < j)
          <6>1. i + 1 \in 1 .. n /\ i + 1 # j /\ list[i + 1] = e
            BY <2>1, <2>3, <4>1, <5>2
          <6> QED BY <6>1
        <5> QED BY <5>1, <5>2
      <4> QED BY <2>1, <2>4, <4>2, Entries DEF n
    <3>2. ASSUME NEW e \in ToSet(list), e # p PROVE e \in ToSet(new)
      <4>1. PICK l \in 1 .. n : list[l] = e
        BY Entries DEF n
      <4>2. l # j
        BY <2>1, <3>2, <4>1
      <4>3. CASE l < j
        <5>1. l \in 1 .. n - 1 /\ new[l] = e
          BY <2>1, <2>3, <4>1, <4>3
        <5> QED BY <2>3, <5>1, Entries
      <4>4. CASE ~(l < j)
        <5>1. l - 1 \in 1 .. n - 1 /\ ~(l - 1 < j) /\ (l - 1) + 1 = l
          BY <2>1, <4>2, <4>4
        <5>2. new[l - 1] = e
          BY <2>3, <4>1, <5>1
        <5> QED BY <2>3, <5>1, <5>2, Entries
      <4> QED BY <4>3, <4>4
    <3> QED BY <3>1, <3>2
  <2>6. IsInjective(new)
    <3>1. ASSUME NEW i \in 1 .. n - 1, NEW l \in 1 .. n - 1, new[i] = new[l] PROVE i = l
      <4> DEFINE at(a) == IF a < j THEN a ELSE a + 1
      <4>1. at(i) \in 1 .. n /\ at(l) \in 1 .. n /\ new[i] = list[at(i)] /\ new[l] = list[at(l)]
        BY <2>1, <2>3
      <4>2. at(i) = at(l)
        <5> HIDE DEF at
        <5> QED BY <2>4, <3>1, <4>1
      <4> QED BY <2>1, <4>2
    <3>2. Len(new) = n - 1
      BY <2>3
    <3> QED BY <2>3, <3>1, <3>2, Entries
  <2> QED BY <2>2, <2>3, <2>5, <2>6
<1> QED BY <1>1, <1>2

-----------------------------------------------------------------------------
(* Chunkers *)

InChunk(live, c) == {m \in live : m[1] = c}
Own(own, c) == IF c = own THEN 1 ELSE 0

\* A chunker of N chunks of so much room, with its own reference to the chunk
\* own (0 if it has none), and what is allocated from it, of the sizes sz.
ChunkerOK(k, own, N, live, sz, room) ==
  /\ k = [chunk |-> k.chunk, free_chunks |-> k.free_chunks,
          n_refs |-> k.n_refs, next_offset |-> k.next_offset]
  /\ own \in 0 .. N
  /\ k.n_refs \in [1 .. N -> Nat] /\ k.next_offset \in [1 .. N -> 0 .. room]
  /\ IsFiniteSet(live) /\ live \subseteq (1 .. N) \X Nat
  /\ \A m \in live : sz[m] \in Nat \ {0}
  /\ \A c \in 1 .. N : k.n_refs[c] = Cardinality(InChunk(live, c)) + Own(own, c)
  /\ k.free_chunks \in Seq(1 .. N) /\ IsInjective(k.free_chunks)
  /\ \A c \in ToSet(k.free_chunks) : k.n_refs[c] = 0
  /\ \A m \in live : m[2] + sz[m] <= k.next_offset[m[1]]
  /\ \A m, n \in live : m[1] = n[1] /\ m[2] < n[2] => m[2] + sz[m] <= n[2]

\* How many are in a chunk as one comes or goes.
LEMMA InChunkCount ==
  ASSUME NEW live, IsFiniteSet(live), NEW c
  PROVE  /\ IsFiniteSet(InChunk(live, c)) /\ Cardinality(InChunk(live, c)) \in Nat
         /\ \A m \in live : Cardinality(InChunk(live \ {m}, c))
                              = Cardinality(InChunk(live, c)) - Own(m[1], c)
         /\ \A m : m \notin live => Cardinality(InChunk(live \cup {m}, c))
                              = Cardinality(InChunk(live, c)) + Own(m[1], c)
         /\ \A m \in live : m[1] = c => Cardinality(InChunk(live, c)) > 0
<1> DEFINE S == InChunk(live, c)
<1>1. IsFiniteSet(S) /\ Cardinality(S) \in Nat
  <2>1. S \in SUBSET live
    BY DEF InChunk
  <2> HIDE DEF S
  <2> QED BY <2>1, FS_Subset, FS_CardinalityType
<1>2. ASSUME NEW m \in live
      PROVE  Cardinality(InChunk(live \ {m}, c)) = Cardinality(S) - Own(m[1], c)
  <2>1. CASE m[1] = c
    <3>1. InChunk(live \ {m}, c) = S \ {m} /\ m \in S
      BY <2>1 DEF InChunk
    <3>2. Cardinality(S \ {m}) = Cardinality(S) - 1
      <4> HIDE DEF S
      <4> QED BY <1>1, <3>1, FS_RemoveElement
    <3> QED BY <2>1, <3>1, <3>2 DEF Own
  <2>2. CASE m[1] # c
    <3>1. InChunk(live \ {m}, c) = S
      BY <2>2 DEF InChunk
    <3> HIDE DEF S
    <3> QED BY <1>1, <2>2, <3>1 DEF Own
  <2> QED BY <2>1, <2>2
<1>3. ASSUME NEW m, m \notin live
      PROVE  Cardinality(InChunk(live \cup {m}, c)) = Cardinality(S) + Own(m[1], c)
  <2>1. CASE m[1] = c
    <3>1. InChunk(live \cup {m}, c) = S \cup {m} /\ m \notin S
      BY <1>3, <2>1 DEF InChunk
    <3>2. Cardinality(S \cup {m}) = Cardinality(S) + 1
      <4> HIDE DEF S
      <4> QED BY <1>1, <3>1, FS_AddElement
    <3> QED BY <2>1, <3>1, <3>2 DEF Own
  <2>2. CASE m[1] # c
    <3>1. InChunk(live \cup {m}, c) = S
      BY <2>2 DEF InChunk
    <3> HIDE DEF S
    <3> QED BY <1>1, <2>2, <3>1 DEF Own
  <2> QED BY <2>1, <2>2
<1>4. ASSUME NEW m \in live, m[1] = c PROVE Cardinality(S) > 0
  <2>1. m \in S
    BY <1>4 DEF InChunk
  <2> HIDE DEF S
  <2>2. Cardinality(S) # 0
    BY <1>1, <2>1, FS_EmptySet
  <2> QED BY <1>1, <2>2
<1> QED BY <1>1, <1>2, <1>3, <1>4

\* What chunk c loses is the one thing that is in live or own, and no more.
Unrefs(k, N, c, own, live) ==
  \A d \in 1 .. N : Cardinality(InChunk(live, d)) + Own(own, d) = k.n_refs[d] - Own(c, d)

\* A reference that goes is that of the one allocation, or of the chunker,
\* that is left out.
LEMMA UnrefKeeps ==
  ASSUME NEW k, NEW own, NEW N \in Nat, NEW live, NEW sz, NEW room \in Nat,
         ChunkerOK(k, own, N, live, sz, room),
         NEW own2 \in 0 .. N, NEW live2 \in SUBSET live, NEW c \in 1 .. N,
         Unrefs(k, N, c, own2, live2)
  PROVE  LET r == chunk_unref(k, c) IN
         /\ ChunkerOK(r, own2, N, live2, sz, room)
         /\ r.chunk = k.chunk /\ (r.n_refs[c] = 0 => c \in ToSet(r.free_chunks))
<1> DEFINE r == chunk_unref(k, c)
           n == k.n_refs[c] - 1
           list == IF n = 0 THEN <<c>> \o k.free_chunks ELSE k.free_chunks
<1> USE DEF ChunkerOK, Unrefs
<1>1. IsFiniteSet(live2) /\ \A d \in 1 .. N : Cardinality(InChunk(live2, d)) \in Nat
  BY FS_Subset, InChunkCount
<1>2. n \in Nat /\ k.n_refs[c] \in Nat
  <2>1. Cardinality(InChunk(live2, c)) \in Nat /\ Own(own2, c) \in Nat
    BY <1>1 DEF Own
  <2>2. Cardinality(InChunk(live2, c)) + Own(own2, c) = n
    BY DEF Own
  <2> QED BY <2>1, <2>2
<1>3. r = [chunk |-> k.chunk, free_chunks |-> list,
           n_refs |-> [k.n_refs EXCEPT ![c] = n], next_offset |-> k.next_offset]
  <2>1. r = [k EXCEPT !.n_refs = [k.n_refs EXCEPT ![c] = n], !.free_chunks = list]
    BY DEF chunk_unref
  <2> HIDE DEF n, list, r
  <2> QED BY <2>1
<1> HIDE DEF r
<1>4. r.n_refs \in [1 .. N -> Nat]
      /\ \A d \in 1 .. N : r.n_refs[d] = Cardinality(InChunk(live2, d)) + Own(own2, d)
  <2>1. r.n_refs \in [1 .. N -> Nat]
        /\ \A d \in 1 .. N : r.n_refs[d] = IF d = c THEN n ELSE k.n_refs[d]
    <3> HIDE DEF n
    <3> QED BY <1>2, <1>3
  <2>2. \A d \in 1 .. N : r.n_refs[d] = k.n_refs[d] - Own(c, d)
    BY <2>1 DEF Own
  <2> QED BY <2>1, <2>2
<1>5. /\ list \in Seq(1 .. N) /\ IsInjective(list)
      /\ \A d \in ToSet(list) : r.n_refs[d] = 0
  <2> DEFINE old == k.free_chunks
  <2>1. old \in Seq(1 .. N) /\ IsInjective(old) /\ c \notin ToSet(old)
        /\ \A d \in ToSet(old) : r.n_refs[d] = 0
    <3>1. k.n_refs[c] # 0
      BY <1>2
    <3>2. old \in Seq(1 .. N) /\ \A d \in ToSet(old) : d \in 1 .. N /\ k.n_refs[d] = 0
      BY Entries
    <3>3. \A d \in 1 .. N : d # c => r.n_refs[d] = k.n_refs[d]
      BY <1>3
    <3> QED BY <3>1, <3>2, <3>3
  <2>2. CASE n # 0
    BY <2>1, <2>2
  <2>3. CASE n = 0
    <3>1. r.n_refs[c] = 0
      BY <1>3, <2>3
    <3>2. list = <<c>> \o old
      BY <2>3
    <3> HIDE DEF list, old
    <3> QED BY <2>1, <3>1, <3>2, Pushed
  <2> QED BY <2>2, <2>3
<1>6. r.chunk = k.chunk /\ r.next_offset = k.next_offset /\ r.free_chunks = list
  BY <1>3
<1>7. r = [chunk |-> r.chunk, free_chunks |-> r.free_chunks,
           n_refs |-> r.n_refs, next_offset |-> r.next_offset]
  BY <1>3
<1>8. r.n_refs[c] = 0 => c \in ToSet(r.free_chunks)
  <2>1. r.n_refs[c] = n
    BY <1>3
  <2>2. k.free_chunks \in Seq(1 .. N)
    OBVIOUS
  <2>3. n = 0 => list = <<c>> \o k.free_chunks
    OBVIOUS
  <2>4. c \in ToSet(<<c>> \o k.free_chunks)
    BY <2>2, Pushed
  <2> HIDE DEF n, list
  <2> QED BY <1>6, <2>1, <2>3, <2>4
<1> HIDE DEF n, list
<1> QED BY <1>1, <1>4, <1>5, <1>6, <1>7, <1>8 DEF r

\* What is freed counts no more, and a chunk of which nothing is left is free.
LEMMA FreeKeeps ==
  ASSUME NEW k, NEW N \in Nat, NEW live, NEW sz, NEW room \in Nat,
         ChunkerOK(k, k.chunk, N, live, sz, room), NEW m \in live
  PROVE  LET r == chunker_free(k, m) IN ChunkerOK(r, r.chunk, N, live \ {m}, sz, room)
<1>1. m[1] \in 1 .. N /\ k.chunk \in 0 .. N /\ IsFiniteSet(live)
  BY DEF ChunkerOK
<1>2. Unrefs(k, N, m[1], k.chunk, live \ {m})
  <2>1. ASSUME NEW d \in 1 .. N
        PROVE  Cardinality(InChunk(live \ {m}, d)) + Own(k.chunk, d) = k.n_refs[d] - Own(m[1], d)
    <3>1. /\ k.n_refs[d] = Cardinality(InChunk(live, d)) + Own(k.chunk, d)
          /\ Cardinality(InChunk(live \ {m}, d)) = Cardinality(InChunk(live, d)) - Own(m[1], d)
          /\ Cardinality(InChunk(live, d)) \in Nat
      BY <1>1, InChunkCount DEF ChunkerOK
    <3>2. Own(m[1], d) \in Nat /\ Own(k.chunk, d) \in Nat
      BY DEF Own
    <3> QED BY <3>1, <3>2
  <2> QED BY <2>1 DEF Unrefs
<1>3. live \ {m} \in SUBSET live
  OBVIOUS
<1> QED BY <1>1, <1>2, <1>3, UnrefKeeps DEF chunker_free

\* With fewer allocations than chunks there is a chunk without any.
LEMMA SpareChunk ==
  ASSUME NEW N \in Nat, NEW live, IsFiniteSet(live), live \subseteq (1 .. N) \X Nat,
         Cardinality(live) < N
  PROVE  \E c \in 1 .. N : InChunk(live, c) = {}
<1> SUFFICES ASSUME \A c \in 1 .. N : InChunk(live, c) # {} PROVE FALSE
  OBVIOUS
<1> DEFINE f == [m \in live |-> m[1]]
<1>1. f \in [live -> 1 .. N]
  OBVIOUS
<1>2. ASSUME NEW c \in 1 .. N PROVE \E m \in live : f[m] = c
  <2>1. PICK m : m \in InChunk(live, c)
    OBVIOUS
  <2> QED BY <2>1 DEF InChunk
<1>3. f \in Surjection(live, 1 .. N)
  BY <1>1, <1>2 DEF Surjection
<1>4. Cardinality(1 .. N) <= Cardinality(live)
  <2> HIDE DEF f
  <2> QED BY <1>3, FS_Surjection
<1>5. Cardinality(1 .. N) = N /\ Cardinality(live) \in Nat
  BY FS_Interval, FS_CardinalityType
<1> QED BY <1>4, <1>5

\* While less is allocated than there are chunks, one of them is free, or is
\* still to be asked for.
LEMMA NewChunkKeeps ==
  ASSUME NEW k, NEW N \in Nat, NEW live, NEW sz, NEW room \in Nat,
         ChunkerOK(k, k.chunk, N, live, sz, room), Cardinality(live) < N
  PROVE  LET r == chunker_new_chunk(k) IN
         /\ ChunkerOK(r, r.chunk, N, live, sz, room)
         /\ r.chunk \in 1 .. N /\ r.next_offset[r.chunk] = 0
<1> DEFINE r == IF k.chunk = 0 THEN k ELSE chunk_unref(k, k.chunk)
           c == IF r.free_chunks # <<>> THEN Head(r.free_chunks)
                ELSE CHOOSE u \in Unasked(r) : \A v \in Unasked(r) : u <= v
           list == IF r.free_chunks = <<>> THEN r.free_chunks ELSE Tail(r.free_chunks)
           s == chunker_new_chunk(k)
<1>1. /\ ChunkerOK(r, 0, N, live, sz, room) /\ r.chunk = k.chunk
      /\ (r.chunk \in 1 .. N /\ r.n_refs[r.chunk] = 0 => r.free_chunks # <<>>)
  <2>1. CASE k.chunk = 0
    <3>1. r = k
      BY <2>1
    <3> HIDE DEF r
    <3> QED BY <2>1, <3>1
  <2>2. CASE k.chunk # 0
    <3>1. k.chunk \in 1 .. N /\ 0 \in 0 .. N /\ live \in SUBSET live
      BY <2>2 DEF ChunkerOK
    <3>2. Unrefs(k, N, k.chunk, 0, live)
      <4>1. ASSUME NEW d \in 1 .. N
            PROVE  Cardinality(InChunk(live, d)) + Own(0, d) = k.n_refs[d] - Own(k.chunk, d)
        <5>1. /\ k.n_refs[d] = Cardinality(InChunk(live, d)) + Own(k.chunk, d)
              /\ Cardinality(InChunk(live, d)) \in Nat
          BY InChunkCount DEF ChunkerOK
        <5>2. Own(0, d) = 0 /\ Own(k.chunk, d) \in Nat
          BY DEF Own
        <5> QED BY <5>1, <5>2
      <4> QED BY <4>1 DEF Unrefs
    <3>3. r = chunk_unref(k, k.chunk)
      BY <2>2
    <3> HIDE DEF r
    <3>4. /\ ChunkerOK(r, 0, N, live, sz, room) /\ r.chunk = k.chunk
          /\ (r.n_refs[k.chunk] = 0 => k.chunk \in ToSet(r.free_chunks))
      <4>1. LET q == chunk_unref(k, k.chunk) IN
            /\ ChunkerOK(q, 0, N, live, sz, room) /\ q.chunk = k.chunk
            /\ (q.n_refs[k.chunk] = 0 => k.chunk \in ToSet(q.free_chunks))
        <5> HIDE DEF c, list, s
        <5> QED BY <3>1, <3>2, UnrefKeeps
      <4> QED BY <3>3, <4>1
    <3>5. ToSet(<<>>) = {}
      BY DEF ToSet
    <3> QED BY <3>4, <3>5
  <2> QED BY <2>1, <2>2
<1>2. s = [r EXCEPT !.chunk = c, !.n_refs[c] = 1, !.next_offset[c] = 0, !.free_chunks = list]
  BY DEF chunker_new_chunk
<1> HIDE DEF r, s
<1>3. /\ r = [chunk |-> r.chunk, free_chunks |-> r.free_chunks,
              n_refs |-> r.n_refs, next_offset |-> r.next_offset]
      /\ r.n_refs \in [1 .. N -> Nat] /\ r.next_offset \in [1 .. N -> 0 .. room]
      /\ IsFiniteSet(live) /\ live \subseteq (1 .. N) \X Nat
      /\ r.free_chunks \in Seq(1 .. N) /\ IsInjective(r.free_chunks)
      /\ \A d \in ToSet(r.free_chunks) : r.n_refs[d] = 0
  BY <1>1 DEF ChunkerOK
<1>4. \A d \in 1 .. N : r.n_refs[d] = Cardinality(InChunk(live, d)) /\ r.n_refs[d] \in Nat
  <2>1. \A d \in 1 .. N : r.n_refs[d] = Cardinality(InChunk(live, d)) + Own(0, d) /\ Own(0, d) = 0
    BY <1>1 DEF ChunkerOK, Own
  <2>2. \A d \in 1 .. N : r.n_refs[d] \in Nat /\ Cardinality(InChunk(live, d)) \in Nat
    BY <1>3, InChunkCount
  <2> QED BY <2>1, <2>2
<1>5. c \in 1 .. N /\ r.n_refs[c] = 0
  <2>1. CASE r.free_chunks # <<>>
    <3>1. c = Head(r.free_chunks)
      BY <2>1
    <3> HIDE DEF c
    <3> QED BY <1>3, <2>1, <3>1, Popped
  <2>2. CASE r.free_chunks = <<>>
    <3>1. PICK d \in 1 .. N : InChunk(live, d) = {}
      BY <1>3, SpareChunk
    <3>2. r.n_refs[d] = 0
      BY <1>4, <3>1, FS_EmptySet
    <3>3. d # r.chunk
      BY <1>1, <2>2, <3>2
    <3>4. Unasked(r) \in SUBSET Nat /\ Unasked(r) \subseteq 1 .. N
          /\ \A u \in Unasked(r) : r.n_refs[u] = 0
      BY <1>3 DEF Unasked
    <3>5. d \in Unasked(r)
      <4>1. \A i \in 1 .. Len(r.free_chunks) : FALSE
        BY <2>2
      <4> HIDE DEF c
      <4> QED BY <1>3, <3>2, <3>3, <4>1 DEF Unasked
    <3>6. \E u \in Unasked(r) : \A v \in Unasked(r) : u <= v
      BY <3>4, <3>5, LeastNumber
    <3>7. c \in Unasked(r)
      BY <2>2, <3>6
    <3> QED BY <3>4, <3>7
  <2> QED BY <2>1, <2>2
<1>6. /\ list \in Seq(1 .. N) /\ IsInjective(list) /\ ToSet(list) \subseteq ToSet(r.free_chunks)
      /\ c \notin ToSet(list)
  <2>1. CASE r.free_chunks # <<>>
    <3>1. c = Head(r.free_chunks) /\ list = Tail(r.free_chunks)
      BY <2>1
    <3> HIDE DEF c, list
    <3> QED BY <1>3, <2>1, <3>1, Popped
  <2>2. CASE r.free_chunks = <<>>
    <3>1. list = <<>> /\ list = r.free_chunks
      BY <2>2
    <3> HIDE DEF c, list
    <3>2. ToSet(list) = {}
      BY <3>1 DEF ToSet
    <3> QED BY <1>3, <3>1, <3>2
  <2> QED BY <2>1, <2>2
<1> HIDE DEF c, list
<1>7. /\ s = [chunk |-> s.chunk, free_chunks |-> s.free_chunks,
              n_refs |-> s.n_refs, next_offset |-> s.next_offset]
      /\ s.chunk = c /\ s.free_chunks = list
      /\ s.n_refs = [r.n_refs EXCEPT ![c] = 1] /\ s.next_offset = [r.next_offset EXCEPT ![c] = 0]
  BY <1>2, <1>3
<1>8. /\ s.n_refs \in [1 .. N -> Nat] /\ s.next_offset \in [1 .. N -> 0 .. room]
      /\ \A d \in 1 .. N : s.n_refs[d] = IF d = c THEN 1 ELSE r.n_refs[d]
      /\ \A d \in 1 .. N : s.next_offset[d] = IF d = c THEN 0 ELSE r.next_offset[d]
  BY <1>3, <1>5, <1>7
<1>9. \A d \in 1 .. N : s.n_refs[d] = Cardinality(InChunk(live, d)) + Own(c, d)
  BY <1>4, <1>5, <1>8 DEF Own
<1>10. \A m \in live : m[1] # c /\ m[1] \in 1 .. N
  <2>1. \A m \in live : m[1] \in 1 .. N
    BY <1>3
  <2>2. Cardinality(InChunk(live, c)) = 0
    BY <1>4, <1>5
  <2> QED BY <1>3, <2>1, <2>2, InChunkCount
<1>11. /\ \A m \in live : sz[m] \in Nat \ {0}
       /\ \A m \in live : m[2] + sz[m] <= s.next_offset[m[1]]
       /\ \A m, n \in live : m[1] = n[1] /\ m[2] < n[2] => m[2] + sz[m] <= n[2]
  BY <1>1, <1>8, <1>10 DEF ChunkerOK
<1>12. \A d \in ToSet(list) : s.n_refs[d] = 0
  BY <1>3, <1>6, <1>8, Entries
<1>13. ChunkerOK(s, s.chunk, N, live, sz, room)
  <2>1. c \in 0 .. N /\ s.chunk = c /\ s.free_chunks = list
    BY <1>5, <1>7
  <2>2. s = [chunk |-> s.chunk, free_chunks |-> s.free_chunks,
             n_refs |-> s.n_refs, next_offset |-> s.next_offset]
    BY <1>7
  <2>3. s.n_refs \in [1 .. N -> Nat] /\ s.next_offset \in [1 .. N -> 0 .. room]
    BY <1>8
  <2>4. IsFiniteSet(live) /\ live \subseteq (1 .. N) \X Nat
    BY <1>3
  <2>5. list \in Seq(1 .. N) /\ IsInjective(list)
    BY <1>6
  <2> QED BY <2>1, <2>2, <2>3, <2>4, <2>5, <1>9, <1>11, <1>12 DEF ChunkerOK
<1> QED BY <1>5, <1>7, <1>8, <1>13 DEF s

Fits(n, room) == n \in 1 .. room
Sized(sz2, sz, live, mem, n) == sz2[mem] = n /\ \A m \in live : sz2[m] = sz[m]

\* What is allocated is in no other's place.
LEMMA AllocKeeps ==
  ASSUME NEW k, NEW N \in Nat, NEW live, NEW sz, NEW room \in Nat,
         ChunkerOK(k, k.chunk, N, live, sz, room), Cardinality(live) < N,
         NEW n, Fits(n, room)
  PROVE  LET a == chunker_alloc(k, n, room) IN
         /\ a.mem \in (1 .. N) \X (0 .. room - n) /\ a.mem \notin live
         /\ \A sz2 : Sized(sz2, sz, live, a.mem, n)
               => ChunkerOK(a.chunker, a.chunker.chunk, N, live \cup {a.mem}, sz2, room)
<1> USE DEF Fits
<1> DEFINE r == IF k.chunk = 0 \/ k.next_offset[k.chunk] + n > room THEN chunker_new_chunk(k) ELSE k
           mem == <<r.chunk, r.next_offset[r.chunk]>>
           s == [r EXCEPT !.n_refs[r.chunk] = @ + 1, !.next_offset[r.chunk] = @ + n]
<1>1. /\ ChunkerOK(r, r.chunk, N, live, sz, room) /\ r.chunk \in 1 .. N
      /\ r.next_offset[r.chunk] \in Nat /\ r.next_offset[r.chunk] + n <= room
  <2>1. CASE k.chunk = 0 \/ k.next_offset[k.chunk] + n > room
    <3>1. r = chunker_new_chunk(k)
      BY <2>1
    <3> HIDE DEF r
    <3>2. /\ ChunkerOK(r, r.chunk, N, live, sz, room)
          /\ r.chunk \in 1 .. N /\ r.next_offset[r.chunk] = 0
      BY <3>1, NewChunkKeeps
    <3>3. 0 + n <= room
      OBVIOUS
    <3> QED BY <3>2, <3>3
  <2>2. CASE ~(k.chunk = 0 \/ k.next_offset[k.chunk] + n > room)
    <3>1. r = k
      BY <2>2
    <3>2. k.chunk \in 1 .. N
      BY <2>2 DEF ChunkerOK
    <3>3. k.next_offset[k.chunk] \in 0 .. room
      BY <3>2 DEF ChunkerOK
    <3> HIDE DEF r
    <3> QED BY <2>2, <3>1, <3>2, <3>3
  <2> QED BY <2>1, <2>2
<1>2. chunker_alloc(k, n, room) = [chunker |-> s, mem |-> mem]
  BY DEF chunker_alloc
<1> HIDE DEF r
<1>3. /\ r = [chunk |-> r.chunk, free_chunks |-> r.free_chunks,
              n_refs |-> r.n_refs, next_offset |-> r.next_offset]
      /\ r.n_refs \in [1 .. N -> Nat] /\ r.next_offset \in [1 .. N -> 0 .. room]
      /\ IsFiniteSet(live) /\ live \subseteq (1 .. N) \X Nat
      /\ r.free_chunks \in Seq(1 .. N) /\ IsInjective(r.free_chunks)
      /\ \A d \in ToSet(r.free_chunks) : r.n_refs[d] = 0
      /\ \A m \in live : sz[m] \in Nat \ {0}
      /\ \A d \in 1 .. N : r.n_refs[d] = Cardinality(InChunk(live, d)) + Own(r.chunk, d)
      /\ \A m \in live : m[2] + sz[m] <= r.next_offset[m[1]]
      /\ \A m, o \in live : m[1] = o[1] /\ m[2] < o[2] => m[2] + sz[m] <= o[2]
  BY <1>1 DEF ChunkerOK
<1>4. mem \in (1 .. N) \X (0 .. room - n) /\ mem[1] = r.chunk /\ mem[2] = r.next_offset[r.chunk]
  BY <1>1
<1>5. \A m \in live : m[1] \in 1 .. N /\ m[2] \in Nat /\ (m[1] = r.chunk => m[2] + sz[m] <= mem[2])
  BY <1>3, <1>4
<1>6. mem \notin live
  <2> SUFFICES ASSUME mem \in live PROVE FALSE
    OBVIOUS
  <2> HIDE DEF mem
  <2>1. sz[mem] \in Nat \ {0} /\ mem[2] \in Nat /\ mem[2] + sz[mem] <= mem[2]
    BY <1>3, <1>4, <1>5
  <2> QED BY <2>1
<1>7. /\ s = [chunk |-> s.chunk, free_chunks |-> s.free_chunks,
              n_refs |-> s.n_refs, next_offset |-> s.next_offset]
      /\ s.chunk = r.chunk /\ s.free_chunks = r.free_chunks
      /\ s.n_refs = [r.n_refs EXCEPT ![r.chunk] = @ + 1]
      /\ s.next_offset = [r.next_offset EXCEPT ![r.chunk] = @ + n]
  <2>1. s = [r EXCEPT !.n_refs = [r.n_refs EXCEPT ![r.chunk] = @ + 1],
                      !.next_offset = [r.next_offset EXCEPT ![r.chunk] = @ + n]]
    OBVIOUS
  <2> HIDE DEF s
  <2> QED BY <1>3, <2>1
<1> HIDE DEF s, mem
<1>8. /\ s.n_refs \in [1 .. N -> Nat] /\ s.next_offset \in [1 .. N -> 0 .. room]
      /\ \A d \in 1 .. N : s.n_refs[d] = IF d = r.chunk THEN r.n_refs[d] + 1 ELSE r.n_refs[d]
      /\ \A d \in 1 .. N : s.next_offset[d] = IF d = r.chunk THEN r.next_offset[d] + n
                                              ELSE r.next_offset[d]
  <2>1. r.n_refs[r.chunk] + 1 \in Nat /\ r.next_offset[r.chunk] + n \in 0 .. room
    BY <1>1, <1>3
  <2> DEFINE c == r.chunk
             count == r.n_refs[r.chunk] + 1
             offset == r.next_offset[r.chunk] + n
  <2>2. /\ c \in 1 .. N /\ count \in Nat /\ offset \in 0 .. room
        /\ s.n_refs = [r.n_refs EXCEPT ![c] = count]
        /\ s.next_offset = [r.next_offset EXCEPT ![c] = offset]
    BY <1>1, <1>7, <2>1
  <2> HIDE DEF c, count, offset
  <2>3. /\ s.n_refs \in [1 .. N -> Nat]
        /\ \A d \in 1 .. N : s.n_refs[d] = IF d = c THEN count ELSE r.n_refs[d]
    BY <1>3, <2>2
  <2>4. /\ s.next_offset \in [1 .. N -> 0 .. room]
        /\ \A d \in 1 .. N : s.next_offset[d] = IF d = c THEN offset ELSE r.next_offset[d]
    BY <1>3, <2>2
  <2> QED BY <2>3, <2>4 DEF c, count, offset
<1>9. ASSUME NEW sz2, sz2[mem] = n, \A m \in live : sz2[m] = sz[m]
      PROVE  ChunkerOK(s, s.chunk, N, live \cup {mem}, sz2, room)
  <2>1. ASSUME NEW d \in 1 .. N
        PROVE  s.n_refs[d] = Cardinality(InChunk(live \cup {mem}, d)) + Own(r.chunk, d)
    <3>1. /\ Cardinality(InChunk(live \cup {mem}, d)) = Cardinality(InChunk(live, d)) + Own(r.chunk, d)
          /\ Cardinality(InChunk(live, d)) \in Nat
      <4>1. IsFiniteSet(live) /\ mem \notin live /\ mem[1] = r.chunk
        BY <1>3, <1>4, <1>6
      <4> QED BY <4>1, InChunkCount
    <3>2. s.n_refs[d] = r.n_refs[d] + Own(r.chunk, d) /\ Own(r.chunk, d) \in Nat
      BY <1>3, <1>8 DEF Own
    <3> QED BY <1>3, <3>1, <3>2
  <2>2. \A d \in ToSet(s.free_chunks) : s.n_refs[d] = 0
    <3>1. r.n_refs[r.chunk] # 0
      <4>1. /\ r.n_refs[r.chunk] = Cardinality(InChunk(live, r.chunk)) + 1
            /\ Cardinality(InChunk(live, r.chunk)) \in Nat
        BY <1>1, <1>3, InChunkCount DEF Own
      <4> QED BY <4>1
    <3> QED BY <1>3, <1>7, <1>8, <3>1, Entries
  <2>3. IsFiniteSet(live \cup {mem}) /\ live \cup {mem} \subseteq (1 .. N) \X Nat
    <3>1. mem \in (1 .. N) \X Nat
      BY <1>4
    <3> QED BY <1>3, <3>1, FS_AddElement
  <2>4. \A m \in live \cup {mem} : sz2[m] \in Nat \ {0}
    BY <1>3, <1>9
  <2>5. \A m \in live \cup {mem} : m[2] + sz2[m] <= s.next_offset[m[1]]
    <3>1. ASSUME NEW m \in live PROVE m[2] + sz2[m] <= s.next_offset[m[1]]
      <4>1. m[2] + sz[m] <= r.next_offset[m[1]] /\ m[1] \in 1 .. N /\ m[2] \in Nat /\ sz[m] \in Nat
            /\ sz2[m] = sz[m]
        BY <1>3, <1>5, <1>9
      <4>2. r.next_offset[m[1]] <= s.next_offset[m[1]] /\ r.next_offset[m[1]] \in Int
            /\ s.next_offset[m[1]] \in Int
        <5>1. n \in Nat /\ r.next_offset[m[1]] \in Nat
          BY <1>3, <4>1
        <5>2. s.next_offset[m[1]] = IF m[1] = r.chunk THEN r.next_offset[m[1]] + n
                                    ELSE r.next_offset[m[1]]
          BY <1>8, <4>1
        <5> QED BY <5>1, <5>2
      <4> QED BY <4>1, <4>2
    <3>2. mem[2] + sz2[mem] <= s.next_offset[mem[1]]
      <4>1. s.next_offset[r.chunk] = r.next_offset[r.chunk] + n /\ r.next_offset[r.chunk] \in Nat
            /\ n \in Nat
        BY <1>1, <1>8
      <4>2. mem[2] + sz2[mem] = r.next_offset[r.chunk] + n /\ mem[1] = r.chunk
        BY <1>4, <1>9
      <4> QED BY <4>1, <4>2
    <3> QED BY <3>1, <3>2
  <2>6. ASSUME NEW m \in live \cup {mem}, NEW o \in live \cup {mem}, m[1] = o[1], m[2] < o[2]
        PROVE  m[2] + sz2[m] <= o[2]
    <3>1. CASE m \in live /\ o \in live
      BY <1>3, <1>9, <2>6, <3>1
    <3>2. CASE m \in live /\ o = mem
      BY <1>4, <1>5, <1>9, <2>6, <3>2
    <3>3. CASE m = mem /\ o \in live
      <4>1. o[2] + sz[o] <= mem[2] /\ o[2] \in Nat /\ sz[o] \in Nat /\ mem[2] \in Nat
        BY <1>1, <1>3, <1>4, <1>5, <2>6, <3>3
      <4> QED BY <2>6, <3>3, <4>1
    <3>4. CASE m = mem /\ o = mem
      <4>1. mem[2] \in Nat
        BY <1>1, <1>4
      <4> QED BY <2>6, <3>4, <4>1
    <3> QED BY <3>1, <3>2, <3>3, <3>4
  <2>7. r.chunk \in 0 .. N
    BY <1>1
  <2> QED BY <1>3, <1>7, <1>8, <2>1, <2>2, <2>3, <2>4, <2>5, <2>6, <2>7 DEF ChunkerOK
<1> HIDE DEF Fits
<1>10. \A sz2 : Sized(sz2, sz, live, mem, n) => ChunkerOK(s, s.chunk, N, live \cup {mem}, sz2, room)
  BY <1>9 DEF Sized
<1> QED BY <1>2, <1>4, <1>6, <1>10

-----------------------------------------------------------------------------
(* The octree *)

MaxClusters == Cardinality(Paths)
Inner(b) == {n \in Paths : b.octrants[n] # Leaf}
ClustersOf(b) == {b.octrants[n] : n \in Inner(b)}
OnTree(b, n) == n \in Paths /\ (n = <<>> \/ b.octrants[Front(n)] # Leaf)
Ones == [m \in (1 .. MaxClusters) \X Nat |-> 1]

\* Nodes with octrants are connected to the root, each with a cluster of its
\* own, and the occupants are live, each in the leaf it points to and in no other.
TreeOK(b, live) ==
  /\ b = [chunker |-> b.chunker, octrants |-> b.octrants, occupants |-> b.occupants,
          leaf |-> b.leaf, cache |-> b.cache]
  /\ b.octrants = [n \in Paths |-> b.octrants[n]]
  /\ b.occupants \in [Paths -> SUBSET live]
  /\ b.leaf = [p \in Ids |-> b.leaf[p]]
  /\ \A n \in Inner(b) : Len(n) < BSP_MAX_DEPTH /\ OnTree(b, n)
  /\ \A m, n \in Inner(b) : b.octrants[m] = b.octrants[n] => m = n
  /\ ChunkerOK(b.chunker, b.chunker.chunk, MaxClusters, ClustersOf(b), Ones, Clusters)
  /\ OnTree(b, b.cache)
  /\ \A p \in live : /\ OnTree(b, b.leaf[p]) /\ b.octrants[b.leaf[p]] = Leaf
                     /\ \A n \in Paths : p \in b.occupants[n] <=> n = b.leaf[p]

\* A lookup ends at a leaf, and in the volumes it started in.
LEMMA DescendFinds ==
  ASSUME NEW b, NEW live, TreeOK(b, live), NEW start, OnTree(b, start), NEW position
  PROVE  LET l == Descend(b, start, position) IN
         /\ OnTree(b, l) /\ b.octrants[l] = Leaf
         /\ (Within(start, position) => Within(l, position))
<1> DEFINE N == BSP_MAX_DEPTH
           down(n) == IF b.octrants[n] = Leaf THEN n ELSE Append(n, OctrantOf(n, position))
           Good(i, n) == /\ OnTree(b, n) /\ (b.octrants[n] = Leaf \/ Len(n) >= i)
                         /\ (Within(start, position) => Within(n, position))
           V == [i \in 0 .. N |-> {n \in Paths : Good(i, n)}]
           step == [i \in 1 .. N |-> [n \in Paths |-> down(n)]]
<1>1. N \in Nat /\ start \in Paths /\ \A n \in Paths : Len(n) \in Nat
  BY RootNode, NodeDepth DEF OnTree
<1>2. ASSUME NEW i \in 1 .. N, NEW n \in Paths, Good(i - 1, n)
      PROVE  down(n) \in Paths /\ Good(i, down(n))
  <2>1. CASE b.octrants[n] = Leaf
    BY <1>2, <2>1
  <2>2. CASE b.octrants[n] # Leaf
    <3> DEFINE q == OctrantOf(n, position)
    <3>1. q \in Octrants /\ Len(n) < BSP_MAX_DEPTH
      BY <2>2, Places DEF TreeOK, Inner
    <3>2. /\ Append(n, q) \in Paths /\ Len(Append(n, q)) = Len(n) + 1
          /\ Append(n, q) # <<>> /\ Front(Append(n, q)) = n
      <4> HIDE DEF q
      <4> QED BY <3>1, ChildNode
    <3>3. OnTree(b, Append(n, q))
      BY <2>2, <3>2 DEF OnTree
    <3>4. Within(start, position) => Within(Append(n, q), position)
      BY <1>2, <3>1, WithinOctrant
    <3>5. Len(Append(n, q)) >= i
      BY <1>1, <1>2, <2>2, <3>2
    <3> QED BY <2>2, <3>2, <3>3, <3>4, <3>5
  <2> QED BY <2>1, <2>2
<1>3. Leads(N, V, start, step)
  <2>1. V[0] = {n \in Paths : Good(0, n)} /\ \A i \in 1 .. N : V[i] = {n \in Paths : Good(i, n)}
        /\ V[i - 1] = {n \in Paths : Good(i - 1, n)} /\ step[i] = [n \in Paths |-> down(n)]
    BY <1>1
  <2>2. start \in V[0]
    BY <1>1, <2>1
  <2> HIDE DEF V, step, down, Good
  <2>3. ASSUME NEW i \in 1 .. N, NEW n \in V[i - 1] PROVE step[i][n] \in V[i]
    <3>1. n \in Paths /\ Good(i - 1, n)
      BY <2>1
    <3>2. step[i][n] = down(n)
      BY <2>1, <3>1
    <3> QED BY <1>2, <2>1, <3>1, <3>2
  <2> QED BY <2>2, <2>3 DEF Leads
<1>4. PICK h : /\ h = [i \in 0 .. N |-> IF i = 0 THEN start ELSE step[i][h[i - 1]]]
               /\ \A i \in 0 .. N : h[i] \in V[i]
  <2> HIDE DEF N, V, step
  <2> QED BY <1>1, <1>3, Recursion
<1>5. h = [i \in 0 .. N |-> IF i = 0 THEN start ELSE down(h[i - 1])]
  <2>1. ASSUME NEW i \in 1 .. N PROVE step[i][h[i - 1]] = down(h[i - 1])
    <3>1. i - 1 \in 0 .. N
      BY <1>1
    <3>2. h[i - 1] \in Paths
      BY <1>4, <3>1
    <3> HIDE DEF down
    <3> QED BY <3>2
  <2> DEFINE e(i) == IF i = 0 THEN start ELSE step[i][h[i - 1]]
             g(i) == IF i = 0 THEN start ELSE down(h[i - 1])
  <2>2. \A i \in 0 .. N : e(i) = g(i)
    <3> HIDE DEF down, step
    <3> QED BY <1>1, <2>1
  <2>3. h = [i \in 0 .. N |-> e(i)]
    BY <1>4
  <2> HIDE DEF e, g
  <2>4. h = [i \in 0 .. N |-> g(i)]
    BY <2>2, <2>3
  <2> QED BY <2>4 DEF g
<1> DEFINE Def(f) == f = [i \in 0 .. N |-> IF i = 0 THEN start ELSE down(f[i - 1])]
           at == CHOOSE f : Def(f)
<1>6. Def(at)
  <2>1. Def(h)
    BY <1>5
  <2> HIDE DEF Def
  <2> QED BY <2>1
<1>7. Descend(b, start, position) = at[N]
  BY DEF Descend
<1> HIDE DEF at
<1> DEFINE T == {i \in 0 .. N : at[i] \in Paths /\ Good(i, at[i])}
<1>8. 0 \in T
  <2>1. at[0] = start
    BY <1>1, <1>6
  <2> QED BY <1>1, <2>1
<1>9. ASSUME NEW i \in 1 .. N, i - 1 \in T PROVE i \in T
  <2>1. i \in 0 .. N /\ i # 0
    BY <1>1
  <2>2. at[i - 1] \in Paths /\ Good(i - 1, at[i - 1])
    BY <1>9
  <2>3. at[i] \in Paths /\ Good(i, at[i])
    <3> HIDE DEF down, Good
    <3>1. at[i] = down(at[i - 1])
      BY <1>6, <2>1
    <3>2. down(at[i - 1]) \in Paths /\ Good(i, down(at[i - 1]))
      BY <1>2, <2>2
    <3> QED BY <3>1, <3>2
  <2> QED BY <2>1, <2>3
<1>10. N \in T
  <2> HIDE DEF T, N
  <2>1. N \in Nat
    BY <1>1
  <2>2. \A i \in 0 .. N : i \in T
    BY <1>8, <1>9, <2>1, Upward
  <2> QED BY <2>1, <2>2
<1> DEFINE l == at[N]
<1>11. l \in Paths /\ Good(N, l)
  BY <1>10
<1> HIDE DEF l
<1>12. b.octrants[l] = Leaf
  BY <1>1, <1>11 DEF TreeOK, Inner
<1> QED BY <1>7, <1>11, <1>12 DEF l

\* From the root or the cached node, a lookup ends at the position's leaf.
LEMMA LookupFinds ==
  ASSUME NEW b, NEW live, TreeOK(b, live), NEW position
  PROVE  LET l == bsp_lookup_position(b, position) IN
         /\ OnTree(b, l) /\ b.octrants[l] = Leaf
         /\ (InCube(position) => Within(l, position))
<1> DEFINE start == IF Within(b.cache, position) THEN b.cache ELSE <<>>
<1>1. OnTree(b, start) /\ (InCube(position) => Within(start, position))
  <2>1. OnTree(b, b.cache) /\ OnTree(b, <<>>)
    BY RootNode DEF TreeOK, OnTree
  <2> QED BY <2>1, WithinRoot
<1>2. bsp_lookup_position(b, position) = Descend(b, start, position)
  BY DEF bsp_lookup_position
<1> HIDE DEF start
<1> QED BY <1>1, <1>2, DescendFinds

\* While a node is a leaf, a cluster is left for it.
LEMMA SpareCluster ==
  ASSUME NEW b, NEW l \in Paths, b.octrants[l] = Leaf
  PROVE  Cardinality(ClustersOf(b)) < MaxClusters
<1> DEFINE I == Inner(b)
           C == ClustersOf(b)
           f == [n \in I |-> b.octrants[n]]
<1>1. f \in Surjection(I, C)
  <2>1. f \in [I -> C] /\ \A c \in C : \E n \in I : f[n] = c
    BY DEF ClustersOf
  <2> HIDE DEF f, I, C
  <2> QED BY <2>1 DEF Surjection
<1>2. I \in SUBSET (Paths \ {l})
  BY DEF Inner
<1> HIDE DEF f, I, C
<1>3. IsFiniteSet(Paths \ {l}) /\ Cardinality(Paths \ {l}) = MaxClusters - 1 /\ MaxClusters \in Nat
  BY PathsFinite, FS_RemoveElement, FS_CardinalityType DEF MaxClusters
<1>4. IsFiniteSet(I) /\ Cardinality(I) <= Cardinality(Paths \ {l}) /\ Cardinality(I) \in Nat
  BY <1>2, <1>3, FS_Subset, FS_CardinalityType
<1>5. Cardinality(C) <= Cardinality(I) /\ Cardinality(C) \in Nat
  BY <1>1, <1>4, FS_Surjection, FS_CardinalityType
<1>6. Cardinality(C) < MaxClusters
  BY <1>3, <1>4, <1>5
<1> QED BY <1>6 DEF C

\* A leaf that is divided hands its occupants to its octrants, whose volumes
\* they are in if they were in the leaf's.
LEMMA SubdivideKeeps ==
  ASSUME NEW b, NEW live \in SUBSET Ids, TreeOK(b, live),
         NEW l, OnTree(b, l), b.octrants[l] = Leaf, Len(l) < BSP_MAX_DEPTH, NEW positions
  PROVE  LET s == Subdivide(b, l, positions) IN
         /\ TreeOK(s, live) /\ s.octrants[l] # Leaf
         /\ \A q \in Octrants : s.octrants[Append(l, q)] = Leaf
         /\ \A p \in live : Within(b.leaf[p], positions[p]) => Within(s.leaf[p], positions[p])
<1> DEFINE N == MaxClusters
           a == chunker_alloc(b.chunker, 1, Clusters)
           s == Subdivide(b, l, positions)
           Place(p) == Append(l, OctrantOf(l, positions[p]))
           C == ClustersOf(b)
<1>1. l \in Paths /\ l \notin Inner(b)
  BY DEF OnTree, Inner
<1>2. /\ b = [chunker |-> b.chunker, octrants |-> b.octrants, occupants |-> b.occupants,
              leaf |-> b.leaf, cache |-> b.cache]
      /\ b.octrants = [n \in Paths |-> b.octrants[n]]
      /\ b.occupants \in [Paths -> SUBSET live]
      /\ b.leaf = [p \in Ids |-> b.leaf[p]]
      /\ \A n \in Inner(b) : Len(n) < BSP_MAX_DEPTH /\ OnTree(b, n)
      /\ \A m, n \in Inner(b) : b.octrants[m] = b.octrants[n] => m = n
      /\ ChunkerOK(b.chunker, b.chunker.chunk, N, C, Ones, Clusters)
      /\ OnTree(b, b.cache)
      /\ \A p \in live : /\ OnTree(b, b.leaf[p]) /\ b.octrants[b.leaf[p]] = Leaf
                         /\ \A n \in Paths : p \in b.occupants[n] <=> n = b.leaf[p]
  BY DEF TreeOK
<1>3. ASSUME NEW q \in Octrants
      PROVE  /\ Append(l, q) \in Paths /\ Front(Append(l, q)) = l /\ Append(l, q) # <<>>
             /\ Append(l, q) # l /\ b.octrants[Append(l, q)] = Leaf
  <2> DEFINE c == Append(l, q)
  <2>1. c \in Paths /\ Front(c) = l /\ c # <<>> /\ Len(c) = Len(l) + 1 /\ Len(l) \in Nat
    BY <1>1, ChildNode, NodeDepth
  <2> HIDE DEF c
  <2>2. c # l
    BY <2>1
  <2>3. c \notin Inner(b)
    BY <1>2, <2>1 DEF OnTree
  <2> QED BY <2>1, <2>2, <2>3 DEF Inner, c
<1>4. /\ N \in Nat /\ Clusters \in Nat /\ 1 \in 1 .. Clusters /\ Cardinality(C) < N
  BY <1>1, PathsFinite, FS_CardinalityType, BspAssumption, SpareCluster DEF MaxClusters
<1>5. /\ a.mem \in (1 .. N) \X (0 .. Clusters - 1) /\ a.mem \notin C
      /\ ChunkerOK(a.chunker, a.chunker.chunk, N, C \cup {a.mem}, Ones, Clusters)
  <2> DEFINE k == b.chunker
  <2> HIDE DEF N, C, k
  <2>0. ChunkerOK(k, k.chunk, N, C, Ones, Clusters)
    BY <1>2 DEF k
  <2>t. Fits(1, Clusters)
    BY <1>4 DEF Fits
  <2>1. LET e == chunker_alloc(k, 1, Clusters) IN
        /\ e.mem \in (1 .. N) \X (0 .. Clusters - 1) /\ e.mem \notin C
        /\ \A sz2 : Sized(sz2, Ones, C, e.mem, 1)
              => ChunkerOK(e.chunker, e.chunker.chunk, N, C \cup {e.mem}, sz2, Clusters)
    BY <2>0, <1>4, <2>t, AllocKeeps
  <2> USE DEF k
  <2> HIDE DEF a
  <2>2. a.mem \in (1 .. N) \X Nat
    <3>1. a = chunker_alloc(k, 1, Clusters)
      BY DEF a
    <3>2. a.mem \in (1 .. N) \X (0 .. Clusters - 1)
      <4> HIDE DEF k
      <4> QED BY <2>1, <3>1
    <3> QED BY <1>4, <3>2
  <2>3. Sized(Ones, Ones, C, a.mem, 1)
    <3>1. Ones[a.mem] = 1
      BY <2>2 DEF Ones, N
    <3> QED BY <3>1 DEF Sized
  <2>4. a = chunker_alloc(k, 1, Clusters)
    BY DEF a
  <2> HIDE DEF k
  <2> QED BY <2>1, <2>3, <2>4
<1>6. a.mem # Leaf
  <2>1. a.mem[1] \in 1 .. N
    BY <1>5
  <2>2. a.mem[1] # 0
    BY <1>4, <2>1
  <2> QED BY <2>2 DEF Leaf
<1> DEFINE occupants == [n \in Paths |-> IF n = l THEN {}
                           ELSE b.occupants[n] \cup {p \in b.occupants[l] : Place(p) = n}]
           leaf == [p \in Ids |-> IF p \in b.occupants[l] THEN Place(p) ELSE b.leaf[p]]
<1>7. DOMAIN b.leaf = Ids
  BY <1>2
<1>8. /\ s = [chunker |-> s.chunker, octrants |-> s.octrants, occupants |-> s.occupants,
              leaf |-> s.leaf, cache |-> s.cache]
      /\ s.chunker = a.chunker /\ s.octrants = [b.octrants EXCEPT ![l] = a.mem]
      /\ s.occupants = occupants /\ s.leaf = leaf /\ s.cache = b.cache
  <2>1. s = [b EXCEPT !.chunker = a.chunker, !.octrants = [b.octrants EXCEPT ![l] = a.mem],
               !.occupants = occupants,
               !.leaf = [p \in DOMAIN b.leaf |-> IF p \in b.occupants[l] THEN Place(p) ELSE b.leaf[p]]]
    BY DEF Subdivide
  <2>2. s = [b EXCEPT !.chunker = a.chunker, !.octrants = [b.octrants EXCEPT ![l] = a.mem],
               !.occupants = occupants, !.leaf = leaf]
    <3> HIDE DEF s, Place, occupants
    <3> QED BY <1>7, <2>1
  <2> HIDE DEF s, a, occupants, leaf
  <2> QED BY <1>2, <2>2
<1> HIDE DEF s, a
<1>9. /\ s.octrants = [n \in Paths |-> s.octrants[n]]
      /\ \A n \in Paths : s.octrants[n] = IF n = l THEN a.mem ELSE b.octrants[n]
  BY <1>1, <1>2, <1>8
<1>10. Inner(s) = Inner(b) \cup {l}
  BY <1>1, <1>6, <1>9 DEF Inner
<1>11. ClustersOf(s) = C \cup {a.mem}
  <2>1. \A n \in Inner(b) : n # l /\ n \in Paths
    BY <1>1 DEF Inner
  <2>2. s.octrants[l] = a.mem /\ \A n \in Inner(b) : s.octrants[n] = b.octrants[n]
    BY <1>1, <1>9, <2>1
  <2> QED BY <1>10, <2>2 DEF ClustersOf
<1> HIDE DEF N, C
<1>12. \A n : OnTree(b, n) => OnTree(s, n)
  BY <1>6, <1>9, ParentNode DEF OnTree
<1>13. \A n \in Inner(s) : Len(n) < BSP_MAX_DEPTH /\ OnTree(s, n)
  BY <1>2, <1>10, <1>12
<1>14. ASSUME NEW m \in Inner(s), NEW n \in Inner(s), s.octrants[m] = s.octrants[n] PROVE m = n
  <2>1. \A k \in Inner(b) : k # l /\ s.octrants[k] = b.octrants[k] /\ b.octrants[k] \in C
    BY <1>1, <1>9 DEF C, ClustersOf, Inner
  <2>2. s.octrants[l] = a.mem
    BY <1>1, <1>9
  <2>3. (m \in Inner(b) \/ m = l) /\ (n \in Inner(b) \/ n = l)
    BY <1>10
  <2>4. CASE m \in Inner(b) /\ n \in Inner(b)
    <3>1. b.octrants[m] = b.octrants[n]
      BY <1>14, <2>1, <2>4
    <3> QED BY <1>2, <2>4, <3>1
  <2> QED BY <1>5, <1>14, <2>1, <2>2, <2>3, <2>4
<1>15. ASSUME NEW p \in live, b.leaf[p] = l
       PROVE  /\ s.leaf[p] = Place(p) /\ OnTree(s, Place(p)) /\ s.octrants[Place(p)] = Leaf
              /\ \A n \in Paths : p \in s.occupants[n] <=> n = Place(p)
  <2>1. p \in Ids /\ p \in b.occupants[l] /\ \A n \in Paths : p \in b.occupants[n] <=> n = l
    BY <1>1, <1>2, <1>15
  <2> DEFINE q == OctrantOf(l, positions[p])
  <2>2. q \in Octrants
    BY Places
  <2>3. /\ Place(p) \in Paths /\ Front(Place(p)) = l /\ Place(p) # <<>>
        /\ Place(p) # l /\ b.octrants[Place(p)] = Leaf
    <3> HIDE DEF q
    <3>1. Place(p) = Append(l, q)
      BY DEF q
    <3> QED BY <1>3, <2>2, <3>1
  <2> HIDE DEF q, Place
  <2>4. s.leaf[p] = Place(p)
    BY <1>8, <2>1
  <2>5. OnTree(s, Place(p)) /\ s.octrants[Place(p)] = Leaf
    BY <1>1, <1>6, <1>9, <2>3 DEF OnTree
  <2>6. \A n \in Paths : p \in s.occupants[n] <=> n = Place(p)
    <3>1. ASSUME NEW n \in Paths PROVE p \in s.occupants[n] <=> n = Place(p)
      <4>1. s.occupants[n] = IF n = l THEN {}
              ELSE b.occupants[n] \cup {o \in b.occupants[l] : Place(o) = n}
        BY <1>8
      <4> QED BY <2>1, <2>3, <4>1
    <3> QED BY <3>1
  <2> QED BY <2>4, <2>5, <2>6
<1>16. ASSUME NEW p \in live, b.leaf[p] # l
       PROVE  /\ s.leaf[p] = b.leaf[p] /\ OnTree(s, b.leaf[p]) /\ s.octrants[b.leaf[p]] = Leaf
              /\ \A n \in Paths : p \in s.occupants[n] <=> n = b.leaf[p]
  <2>1. p \in Ids /\ p \notin b.occupants[l] /\ OnTree(b, b.leaf[p]) /\ b.leaf[p] \in Paths
        /\ b.octrants[b.leaf[p]] = Leaf /\ \A n \in Paths : p \in b.occupants[n] <=> n = b.leaf[p]
    BY <1>1, <1>2, <1>16 DEF OnTree
  <2> HIDE DEF Place
  <2>2. s.leaf[p] = b.leaf[p]
    BY <1>8, <2>1
  <2>3. OnTree(s, b.leaf[p]) /\ s.octrants[b.leaf[p]] = Leaf
    BY <1>9, <1>12, <1>16, <2>1
  <2>4. \A n \in Paths : p \in s.occupants[n] <=> n = b.leaf[p]
    BY <1>8, <1>16, <2>1
  <2> QED BY <2>2, <2>3, <2>4
<1>17. s.occupants \in [Paths -> SUBSET live]
  <2>1. ASSUME NEW n \in Paths PROVE occupants[n] \in SUBSET live
    BY <1>1, <1>2
  <2>2. occupants = [n \in Paths |-> occupants[n]]
    OBVIOUS
  <2> HIDE DEF occupants
  <2> QED BY <1>8, <2>1, <2>2
<1>18. s.leaf = [p \in Ids |-> s.leaf[p]]
  <2>1. leaf = [p \in Ids |-> leaf[p]]
    OBVIOUS
  <2> HIDE DEF leaf
  <2> QED BY <1>8, <2>1
<1>19. TreeOK(s, live)
  <2>1. \A p \in live : /\ OnTree(s, s.leaf[p]) /\ s.octrants[s.leaf[p]] = Leaf
                        /\ \A n \in Paths : p \in s.occupants[n] <=> n = s.leaf[p]
    <3> HIDE DEF Place
    <3> QED BY <1>15, <1>16
  <2>2. ChunkerOK(s.chunker, s.chunker.chunk, MaxClusters, ClustersOf(s), Ones, Clusters)
    BY <1>5, <1>8, <1>11 DEF N
  <2>3. OnTree(s, s.cache)
    BY <1>2, <1>8, <1>12
  <2>4. s = [chunker |-> s.chunker, octrants |-> s.octrants, occupants |-> s.occupants,
             leaf |-> s.leaf, cache |-> s.cache]
    BY <1>8
  <2> QED BY <1>9, <1>13, <1>14, <1>17, <1>18, <2>1, <2>2, <2>3, <2>4 DEF TreeOK
<1>20. s.octrants[l] # Leaf /\ \A q \in Octrants : s.octrants[Append(l, q)] = Leaf
  BY <1>1, <1>3, <1>6, <1>9
<1>21. ASSUME NEW p \in live, Within(b.leaf[p], positions[p]) PROVE Within(s.leaf[p], positions[p])
  <2>1. CASE b.leaf[p] = l
    <3>1. Within(Place(p), positions[p])
      BY <1>1, <1>21, <2>1, WithinOctrant
    <3> QED BY <1>15, <2>1, <3>1
  <2>2. CASE b.leaf[p] # l
    BY <1>16, <1>21, <2>2
  <2> QED BY <2>1, <2>2
<1> QED BY <1>19, <1>20, <1>21 DEF s

Seated(b, o, l, cache) == [b EXCEPT !.leaf[o] = l, !.occupants[l] = @ \cup {o}, !.cache = cache]

\* One more occupant is in a leaf.
LEMMA Settled ==
  ASSUME NEW b, NEW live \in SUBSET Ids, TreeOK(b, live), NEW o \in Ids, o \notin live,
         NEW l, OnTree(b, l), b.octrants[l] = Leaf, NEW cache, OnTree(b, cache)
  PROVE  LET s == Seated(b, o, l, cache) IN
         /\ TreeOK(s, live \cup {o}) /\ s.leaf[o] = l
         /\ \A p \in live : s.leaf[p] = b.leaf[p]
<1> DEFINE s == Seated(b, o, l, cache)
<1> USE DEF TreeOK
<1>1. l \in Paths
  BY DEF OnTree
<1>2. /\ s = [chunker |-> s.chunker, octrants |-> s.octrants, occupants |-> s.occupants,
              leaf |-> s.leaf, cache |-> s.cache]
      /\ s.chunker = b.chunker /\ s.octrants = b.octrants /\ s.cache = cache
      /\ s.occupants = [b.occupants EXCEPT ![l] = @ \cup {o}]
      /\ s.leaf = [b.leaf EXCEPT ![o] = l]
  <2> DEFINE occupants == [b.occupants EXCEPT ![l] = @ \cup {o}]
             leaf == [b.leaf EXCEPT ![o] = l]
  <2>1. s = [b EXCEPT !.leaf = leaf, !.occupants = occupants, !.cache = cache]
    BY DEF Seated
  <2> HIDE DEF s, occupants, leaf
  <2>2. /\ s = [chunker |-> s.chunker, octrants |-> s.octrants, occupants |-> s.occupants,
                leaf |-> s.leaf, cache |-> s.cache]
        /\ s.chunker = b.chunker /\ s.octrants = b.octrants /\ s.cache = cache
        /\ s.occupants = occupants /\ s.leaf = leaf
    BY <2>1
  <2> QED BY <2>2 DEF occupants, leaf
<1> HIDE DEF s
<1>3. s.leaf = [p \in Ids |-> s.leaf[p]] /\ \A p \in Ids : s.leaf[p] = IF p = o THEN l ELSE b.leaf[p]
  BY <1>2
<1>4. /\ s.occupants \in [Paths -> SUBSET (live \cup {o})]
      /\ \A n \in Paths : s.occupants[n] = IF n = l THEN b.occupants[n] \cup {o} ELSE b.occupants[n]
  <2>1. b.occupants \in [Paths -> SUBSET live]
    OBVIOUS
  <2> HIDE DEF TreeOK
  <2>2. \A n \in Paths : s.occupants[n] = IF n = l THEN b.occupants[n] \cup {o} ELSE b.occupants[n]
    BY <1>1, <1>2, <2>1
  <2>3. \A n \in Paths : s.occupants[n] \in SUBSET (live \cup {o})
    BY <2>1, <2>2
  <2>4. s.occupants = [n \in Paths |-> s.occupants[n]]
    BY <1>2, <2>1
  <2> QED BY <2>2, <2>3, <2>4
<1>5. Inner(s) = Inner(b) /\ ClustersOf(s) = ClustersOf(b) /\ \A n : OnTree(s, n) <=> OnTree(b, n)
  BY <1>2 DEF Inner, ClustersOf, OnTree
<1>6. ASSUME NEW p \in live \cup {o}
      PROVE  /\ OnTree(s, s.leaf[p]) /\ s.octrants[s.leaf[p]] = Leaf
             /\ \A n \in Paths : p \in s.occupants[n] <=> n = s.leaf[p]
  <2>1. CASE p = o
    <3>1. s.leaf[p] = l
      BY <1>3, <2>1
    <3>2. \A n \in Paths : p \notin b.occupants[n]
      BY <2>1
    <3> QED BY <1>2, <1>4, <1>5, <2>1, <3>1, <3>2
  <2>2. CASE p # o
    <3>1. p \in live /\ p \in Ids /\ s.leaf[p] = b.leaf[p]
      BY <1>3, <2>2
    <3>2. \A n \in Paths : p \in s.occupants[n] <=> p \in b.occupants[n]
      <4> HIDE DEF TreeOK
      <4>1. ASSUME NEW n \in Paths PROVE p \in s.occupants[n] <=> p \in b.occupants[n]
        <5>1. s.occupants[n] = IF n = l THEN b.occupants[n] \cup {o} ELSE b.occupants[n]
          BY <1>4
        <5> QED BY <2>2, <5>1
      <4> QED BY <4>1
    <3> QED BY <1>2, <1>5, <3>1, <3>2
  <2> QED BY <2>1, <2>2
<1>7. TreeOK(s, live \cup {o})
  <2>1. s.octrants = [n \in Paths |-> s.octrants[n]]
    BY <1>2
  <2>2. \A n \in Inner(s) : Len(n) < BSP_MAX_DEPTH /\ OnTree(s, n)
    BY <1>5
  <2>3. \A m, n \in Inner(s) : s.octrants[m] = s.octrants[n] => m = n
    BY <1>2, <1>5
  <2>4. ChunkerOK(s.chunker, s.chunker.chunk, MaxClusters, ClustersOf(s), Ones, Clusters)
    BY <1>2, <1>5
  <2>5. OnTree(s, s.cache)
    BY <1>2, <1>5
  <2>6. s = [chunker |-> s.chunker, octrants |-> s.octrants, occupants |-> s.occupants,
             leaf |-> s.leaf, cache |-> s.cache]
    BY <1>2
  <2> QED BY <1>3, <1>4, <1>6, <2>1, <2>2, <2>3, <2>4, <2>5, <2>6
<1>8. s.leaf[o] = l /\ \A p \in live : s.leaf[p] = b.leaf[p]
  BY <1>3
<1> QED BY <1>7, <1>8 DEF s

\* Who is added to the tree is in the volume of the leaf it is put into, and
\* the others stay in those of theirs.
LEMMA AddKeeps ==
  ASSUME NEW b, NEW live \in SUBSET Ids, TreeOK(b, live), NEW o \in Ids, o \notin live, NEW positions
  PROVE  LET s == bsp_add_occupant(b, o, positions) IN
         /\ TreeOK(s, live \cup {o})
         /\ (InCube(positions[o]) => Within(s.leaf[o], positions[o]))
         /\ \A p \in live : Within(b.leaf[p], positions[p]) => Within(s.leaf[p], positions[p])
<1> DEFINE found == bsp_lookup_position(b, positions[o])
           full == Cardinality(b.occupants[found]) >= BSP_MAX_OCCUPANTS /\ Len(found) < BSP_MAX_DEPTH
           q == OctrantOf(found, positions[o])
           c == IF full THEN Subdivide(b, found, positions) ELSE b
           at == IF full THEN Append(found, q) ELSE found
           s == Seated(c, o, at, found)
<1>1. bsp_add_occupant(b, o, positions) = s
  BY DEF bsp_add_occupant, Seated
<1>2. /\ OnTree(b, found) /\ b.octrants[found] = Leaf /\ found \in Paths
      /\ (InCube(positions[o]) => Within(found, positions[o]))
  BY LookupFinds DEF OnTree
<1>3. /\ TreeOK(c, live) /\ OnTree(c, at) /\ c.octrants[at] = Leaf /\ OnTree(c, found)
      /\ (InCube(positions[o]) => Within(at, positions[o]))
      /\ \A p \in live : Within(b.leaf[p], positions[p]) => Within(c.leaf[p], positions[p])
  <2> HIDE DEF found
  <2>1. CASE ~full
    <3>1. c = b /\ at = found
      BY <2>1
    <3> HIDE DEF c, at
    <3> QED BY <1>2, <3>1
  <2>2. CASE full
    <3>1. c = Subdivide(b, found, positions) /\ at = Append(found, q) /\ Len(found) < BSP_MAX_DEPTH
      BY <2>2
    <3>2. q \in Octrants
      BY Places
    <3>3. (InCube(positions[o]) => Within(at, positions[o]))
      BY <1>2, <3>1, WithinOctrant
    <3> HIDE DEF c, at, q, full
    <3>4. /\ TreeOK(c, live) /\ c.octrants[found] # Leaf
          /\ \A e \in Octrants : c.octrants[Append(found, e)] = Leaf
          /\ \A p \in live : Within(b.leaf[p], positions[p]) => Within(c.leaf[p], positions[p])
      BY <1>2, <3>1, SubdivideKeeps
    <3>5. at \in Paths /\ Front(at) = found
      BY <1>2, <3>1, <3>2, ChildNode
    <3>6. found \in Inner(c)
      BY <1>2, <3>4 DEF Inner
    <3> QED BY <3>1, <3>2, <3>3, <3>4, <3>5, <3>6 DEF TreeOK, OnTree
  <2> QED BY <2>1, <2>2
<1> HIDE DEF c, at, found
<1>4. /\ TreeOK(s, live \cup {o}) /\ s.leaf[o] = at
      /\ \A p \in live : s.leaf[p] = c.leaf[p]
  <2>1. TreeOK(c, live) /\ OnTree(c, at) /\ c.octrants[at] = Leaf /\ OnTree(c, found)
    BY <1>3
  <2> HIDE DEF full, q
  <2> QED BY <2>1, Settled
<1> HIDE DEF s
<1> QED BY <1>1, <1>3, <1>4

\* A node that is merged has no octrants any more, and nothing else is moved.
LEMMA MergedKeeps ==
  ASSUME NEW b, NEW live \in SUBSET Ids, TreeOK(b, live), NEW n \in Inner(b)
  PROVE  LET s == Merged(b, n) IN
         /\ TreeOK(s, live) /\ s.leaf = b.leaf
         /\ \A m \in Paths : m # n => s.octrants[m] = b.octrants[m]
<1> DEFINE s == [b EXCEPT !.chunker = chunker_free(@, b.octrants[n]), !.octrants[n] = Leaf,
                          !.cache = <<>>]
           Busy == \E q \in Octrants : LET c == Append(n, q) IN b.octrants[c] # Leaf \/ b.occupants[c] # {}
<1>1. CASE Busy
  <2>1. Merged(b, n) = b
    BY <1>1 DEF Merged
  <2> QED BY <2>1
<1>2. CASE ~Busy
  <2>1. Merged(b, n) = s
    BY <1>2 DEF Merged, bsp_invalidate_lookup_cache
  <2>2. /\ b = [chunker |-> b.chunker, octrants |-> b.octrants, occupants |-> b.occupants,
                leaf |-> b.leaf, cache |-> b.cache]
        /\ b.octrants = [m \in Paths |-> b.octrants[m]]
        /\ b.occupants \in [Paths -> SUBSET live]
        /\ b.leaf = [p \in Ids |-> b.leaf[p]]
        /\ \A m \in Inner(b) : Len(m) < BSP_MAX_DEPTH /\ OnTree(b, m)
        /\ \A m, o \in Inner(b) : b.octrants[m] = b.octrants[o] => m = o
        /\ ChunkerOK(b.chunker, b.chunker.chunk, MaxClusters, ClustersOf(b), Ones, Clusters)
        /\ \A p \in live : /\ OnTree(b, b.leaf[p]) /\ b.octrants[b.leaf[p]] = Leaf
                           /\ \A m \in Paths : p \in b.occupants[m] <=> m = b.leaf[p]
    BY DEF TreeOK
  <2> DEFINE k == chunker_free(b.chunker, b.octrants[n])
  <2>3. /\ s = [chunker |-> s.chunker, octrants |-> s.octrants, occupants |-> s.occupants,
                leaf |-> s.leaf, cache |-> s.cache]
        /\ s.chunker = k /\ s.octrants = [b.octrants EXCEPT ![n] = Leaf]
        /\ s.occupants = b.occupants /\ s.leaf = b.leaf /\ s.cache = <<>>
    <3>1. s = [b EXCEPT !.chunker = k, !.octrants = [b.octrants EXCEPT ![n] = Leaf], !.cache = <<>>]
      OBVIOUS
    <3> HIDE DEF s, k
    <3> QED BY <2>2, <3>1
  <2> HIDE DEF s
  <2>4. n \in Paths /\ b.octrants[n] # Leaf /\ Len(n) < BSP_MAX_DEPTH
    BY <2>2 DEF Inner
  <2>5. /\ s.octrants = [m \in Paths |-> s.octrants[m]]
        /\ \A m \in Paths : s.octrants[m] = IF m = n THEN Leaf ELSE b.octrants[m]
    BY <2>2, <2>3, <2>4
  <2>6. Inner(s) = Inner(b) \ {n}
    BY <2>5 DEF Inner
  <2>7. ASSUME NEW m \in Paths, m # <<>>, Front(m) = n
        PROVE  b.octrants[m] = Leaf /\ b.occupants[m] = {}
    <3>1. Last(m) \in Octrants /\ Append(n, Last(m)) = m
      BY <2>7, ParentNode
    <3> QED BY <1>2, <3>1
  <2>8. ASSUME NEW m \in Paths, OnTree(b, m), b.octrants[m] # Leaf \/ b.occupants[m] # {}
        PROVE  OnTree(s, m)
    <3>1. CASE m = <<>>
      BY <3>1 DEF OnTree
    <3>2. CASE m # <<>>
      <4>1. Front(m) \in Paths /\ Front(m) # n
        BY <2>7, <2>8, <3>2, ParentNode
      <4> QED BY <2>5, <2>8, <3>2, <4>1 DEF OnTree
    <3> QED BY <3>1, <3>2
  <2>9. \A m \in Inner(s) : Len(m) < BSP_MAX_DEPTH /\ OnTree(s, m)
    BY <2>2, <2>6, <2>8 DEF Inner
  <2>10. ASSUME NEW p \in live
         PROVE  /\ OnTree(s, s.leaf[p]) /\ s.octrants[s.leaf[p]] = Leaf
                /\ \A m \in Paths : p \in s.occupants[m] <=> m = s.leaf[p]
    <3>1. OnTree(b, b.leaf[p]) /\ b.leaf[p] \in Paths /\ b.octrants[b.leaf[p]] = Leaf
          /\ p \in b.occupants[b.leaf[p]]
      BY <2>2 DEF OnTree
    <3>2. OnTree(s, b.leaf[p])
      BY <2>8, <3>1
    <3>3. s.leaf[p] = b.leaf[p] /\ s.octrants[b.leaf[p]] = Leaf
      BY <2>3, <2>5, <3>1
    <3>4. \A m \in Paths : p \in s.occupants[m] <=> m = b.leaf[p]
      BY <2>2, <2>3
    <3> QED BY <3>2, <3>3, <3>4
  <2>11. ClustersOf(s) = ClustersOf(b) \ {b.octrants[n]}
    <3>1. \A m \in Inner(s) : m \in Inner(b) /\ m \in Paths /\ m # n /\ s.octrants[m] = b.octrants[m]
      BY <2>5, <2>6 DEF Inner
    <3>2. \A m \in Inner(b) : m # n => m \in Inner(s) /\ b.octrants[m] # b.octrants[n]
      BY <2>2, <2>6
    <3> QED BY <3>1, <3>2 DEF ClustersOf
  <2>12. ChunkerOK(s.chunker, s.chunker.chunk, MaxClusters, ClustersOf(s), Ones, Clusters)
    <3> DEFINE N == MaxClusters
               C == ClustersOf(b)
               e == b.octrants[n]
    <3>1. N \in Nat /\ Clusters \in Nat /\ e \in C
      BY PathsFinite, FS_CardinalityType, BspAssumption DEF MaxClusters, ClustersOf
    <3>2. s.chunker = chunker_free(b.chunker, e) /\ ClustersOf(s) = C \ {e}
          /\ ChunkerOK(b.chunker, b.chunker.chunk, N, C, Ones, Clusters)
      BY <2>2, <2>3, <2>11
    <3> HIDE DEF N, C, e, k
    <3>3. LET r == chunker_free(b.chunker, e) IN ChunkerOK(r, r.chunk, N, C \ {e}, Ones, Clusters)
      BY <3>1, <3>2, FreeKeeps
    <3> QED BY <3>2, <3>3 DEF N
  <2>13. OnTree(s, s.cache)
    BY <2>3, RootNode DEF OnTree
  <2>14. \A m, o \in Inner(s) : s.octrants[m] = s.octrants[o] => m = o
    <3>1. \A m \in Inner(s) : m \in Inner(b) /\ s.octrants[m] = b.octrants[m]
      BY <2>5, <2>6 DEF Inner
    <3> QED BY <2>2, <3>1
  <2>15. TreeOK(s, live)
    <3>1. s.occupants \in [Paths -> SUBSET live]
      BY <2>2, <2>3
    <3>2. s.leaf = [p \in Ids |-> s.leaf[p]]
      BY <2>2, <2>3
    <3>3. s = [chunker |-> s.chunker, octrants |-> s.octrants, occupants |-> s.occupants,
               leaf |-> s.leaf, cache |-> s.cache]
      BY <2>3
    <3> QED BY <2>5, <2>9, <2>10, <2>12, <2>13, <2>14, <3>1, <3>2, <3>3 DEF TreeOK
  <2> QED BY <2>1, <2>3, <2>5, <2>15
<1> QED BY <1>1, <1>2

\* What leads to a node with octrants are nodes with octrants.
LEMMA Ancestors ==
  ASSUME NEW b, NEW live, TreeOK(b, live), NEW path \in Inner(b)
  PROVE  \A i \in 0 .. Len(path) : SubSeq(path, 1, Len(path) - i) \in Inner(b)
                                   /\ Len(SubSeq(path, 1, Len(path) - i)) = Len(path) - i
<1> DEFINE N == Len(path)
           up(i) == SubSeq(path, 1, N - i)
           T == {i \in 0 .. N : up(i) \in Inner(b) /\ Len(up(i)) = N - i}
<1>1. path \in Seq(Octrants) /\ N \in Nat
  BY NodeDepth DEF Inner
<1>2. 0 \in T
  <2>1. up(0) = path
    BY <1>1
  <2> HIDE DEF up
  <2> QED BY <1>1, <2>1
<1>3. ASSUME NEW i \in 1 .. N, i - 1 \in T PROVE i \in T
  <2> DEFINE m == up(i - 1)
  <2>1. m \in Inner(b) /\ Len(m) = N - (i - 1)
    BY <1>3
  <2>2. m \in Seq(Octrants)
    BY <2>1, NodeDepth DEF Inner
  <2>3. Front(m) = up(i) /\ Len(up(i)) = N - i /\ m # <<>>
    <3>1. Front(m) = SubSeq(m, 1, N - i)
      <4> HIDE DEF m
      <4> QED BY <1>1, <2>1 DEF Front
    <3>2. N - i \in 0 .. N /\ N - (i - 1) \in 1 .. N
      BY <1>1
    <3>3. SubSeq(SubSeq(path, 1, N - (i - 1)), 1, N - i) = SubSeq(path, 1, N - i)
      BY <1>1, <3>2
    <3>4. Len(SubSeq(path, 1, N - i)) = N - i
      BY <1>1, <3>2
    <3>5. m # <<>>
      <4> HIDE DEF m
      <4> QED BY <1>1, <2>1
    <3>6. m = SubSeq(path, 1, N - (i - 1))
      OBVIOUS
    <3> HIDE DEF m, N
    <3> QED BY <3>1, <3>3, <3>4, <3>5, <3>6
  <2> HIDE DEF m
  <2>4. Front(m) \in Paths /\ b.octrants[Front(m)] # Leaf
    BY <2>1, <2>3, ParentNode DEF TreeOK, OnTree, Inner
  <2>5. i \in 0 .. N
    OBVIOUS
  <2> QED BY <2>3, <2>4, <2>5 DEF Inner
<1>4. \A i \in 0 .. N : i \in T
  <2> HIDE DEF T, N
  <2> QED BY <1>1, <1>2, <1>3, Upward
<1> QED BY <1>4

\* Merging the nodes from one to the root keeps the tree, and its leaves' occupants.
LEMMA CollapseKeeps ==
  ASSUME NEW b, NEW live \in SUBSET Ids, TreeOK(b, live), NEW path \in Inner(b)
  PROVE  TreeOK(Collapse(b, path), live) /\ Collapse(b, path).leaf = b.leaf
<1> DEFINE L == Len(path)
           N == Len(path) + 1
           node(i) == SubSeq(path, 1, Len(path) + 1 - i)
           Good(i, t) == /\ TreeOK(t, live) /\ t.leaf = b.leaf
                         /\ \A m \in Paths : Len(m) <= L - i => t.octrants[m] = b.octrants[m]
           Upto(m, f) == /\ f = [i \in 0 .. m |-> f[i]]
                         /\ f[0] = b
                         /\ \A i \in 1 .. m : f[i] = Merged(f[i - 1], node(i))
                         /\ \A i \in 0 .. m : Good(i, f[i])
           T == {m \in 0 .. N : \E f : Upto(m, f)}
           e(f, i) == IF i = 0 THEN b ELSE Merged(f[i - 1], node(i))
           Def(f) == f = [i \in 0 .. N |-> e(f, i)]
           up == CHOOSE f : Def(f)
<1>9. Collapse(b, path) = up[N]
  BY DEF Collapse
<1> HIDE DEF up
<1>1. L \in Nat /\ N \in Nat /\ \A m \in Paths : Len(m) \in Nat
  BY NodeDepth DEF Inner
<1>2. ASSUME NEW i \in 1 .. N, NEW t, Good(i - 1, t) PROVE Good(i, Merged(t, node(i)))
  <2>1. node(i) \in Inner(b) /\ Len(node(i)) = L - (i - 1)
    <3>1. i - 1 \in 0 .. L /\ L - (i - 1) = L + 1 - i
      BY <1>1
    <3>2. \A j \in 0 .. L : SubSeq(path, 1, L - j) \in Inner(b) /\ Len(SubSeq(path, 1, L - j)) = L - j
      BY Ancestors
    <3>3. node(i) = SubSeq(path, 1, L + 1 - i)
      OBVIOUS
    <3> HIDE DEF L, N, node
    <3> QED BY <3>1, <3>2, <3>3
  <2> DEFINE n == node(i)
             s == Merged(t, n)
  <2>2. n \in Inner(t) /\ TreeOK(t, live) /\ t.leaf = b.leaf
    <3>1. n \in Inner(b) /\ Len(n) <= L - (i - 1)
      BY <1>1, <2>1
    <3> HIDE DEF n
    <3>2. n \in Paths /\ b.octrants[n] # Leaf
      BY <3>1 DEF Inner
    <3>3. t.octrants[n] = b.octrants[n]
      BY <1>2, <3>1, <3>2
    <3> QED BY <1>2, <3>2, <3>3 DEF Inner
  <2> HIDE DEF n
  <2>3. /\ TreeOK(s, live) /\ s.leaf = t.leaf
        /\ \A m \in Paths : m # n => s.octrants[m] = t.octrants[m]
    BY <2>2, MergedKeeps
  <2> HIDE DEF s
  <2>4. ASSUME NEW m \in Paths, Len(m) <= L - i PROVE s.octrants[m] = b.octrants[m]
    <3>1. Len(m) \in Nat /\ Len(n) = L - (i - 1)
      BY <1>1, <2>1 DEF n
    <3>2. m # n /\ Len(m) <= L - (i - 1)
      BY <1>1, <2>4, <3>1
    <3>3. t.octrants[m] = b.octrants[m]
      BY <1>2, <3>2
    <3> QED BY <2>3, <3>2, <3>3
  <2> QED BY <2>2, <2>3, <2>4 DEF s, n
<1>3. 0 \in T
  <2> DEFINE f == [i \in 0 .. 0 |-> b]
  <2>1. Good(0, b)
    OBVIOUS
  <2>2. Upto(0, f)
    <3> HIDE DEF Good
    <3> QED BY <2>1
  <2> HIDE DEF Upto, f
  <2> QED BY <1>1, <2>2
<1> HIDE DEF Good, N, L, node
<1>4. ASSUME NEW m \in 1 .. N, m - 1 \in T PROVE m \in T
  <2>1. PICK f : Upto(m - 1, f)
    BY <1>4
  <2> DEFINE h == [i \in 0 .. m |-> IF i = m THEN Merged(f[m - 1], node(m)) ELSE f[i]]
  <2>2. h[m] = Merged(f[m - 1], node(m)) /\ (\A i \in 0 .. m - 1 : h[i] = f[i])
    OBVIOUS
  <2>3. h = [i \in 0 .. m |-> h[i]]
    OBVIOUS
  <2> HIDE DEF h
  <2>4. h[0] = b /\ Good(0, h[0])
    BY <2>1, <2>2
  <2>5. ASSUME NEW i \in 1 .. m PROVE h[i] = Merged(h[i - 1], node(i)) /\ Good(i, h[i])
    <3>1. i - 1 \in 0 .. m - 1 /\ h[i - 1] = f[i - 1] /\ Good(i - 1, f[i - 1])
      BY <2>1, <2>2
    <3>2. h[i] = Merged(f[i - 1], node(i))
      <4>1. CASE i = m
        BY <2>2, <4>1
      <4>2. CASE i # m
        <5>1. i \in 1 .. m - 1 /\ i \in 0 .. m - 1
          BY <4>2
        <5> QED BY <2>1, <2>2, <5>1
      <4> QED BY <4>1, <4>2
    <3>3. i \in 1 .. N
      BY <1>1
    <3> QED BY <1>2, <3>1, <3>2, <3>3
  <2>6. \A i \in 0 .. m : Good(i, h[i])
    BY <2>4, <2>5
  <2>7. Upto(m, h)
    BY <2>3, <2>4, <2>5, <2>6
  <2>8. m \in 0 .. N
    BY <1>1
  <2> HIDE DEF Upto
  <2> QED BY <2>7, <2>8
<1>5. N \in T
  <2> HIDE DEF T
  <2> QED BY <1>1, <1>3, <1>4, Upward
<1>6. PICK h : Upto(N, h)
  BY <1>5
<1>7. Def(h)
  <2>1. h = [i \in 0 .. N |-> h[i]] /\ \A i \in 0 .. N : h[i] = e(h, i)
    <3>1. \A i \in 0 .. N : i # 0 => i \in 1 .. N
      BY <1>1
    <3> QED BY <1>6, <3>1
  <2> HIDE DEF e
  <2> QED BY <2>1
<1>8. Def(up)
  <2>1. Def(h)
    BY <1>7
  <2> HIDE DEF Def
  <2> QED BY <2>1 DEF up
<1> DEFINE U == {i \in 0 .. N : Good(i, up[i])}
<1>10. \A i \in 0 .. N : up[i] = e(up, i)
  <2> HIDE DEF e
  <2> QED BY <1>8
<1>11. 0 \in U
  <2>1. 0 \in 0 .. N /\ up[0] = b /\ h[0] = b /\ Good(0, h[0])
    BY <1>1, <1>6, <1>10
  <2> QED BY <2>1
<1>12. ASSUME NEW i \in 1 .. N, i - 1 \in U PROVE i \in U
  <2>1. i \in 0 .. N /\ i # 0
    BY <1>1
  <2>2. up[i] = Merged(up[i - 1], node(i))
    BY <1>10, <2>1
  <2>3. Good(i - 1, up[i - 1])
    BY <1>12
  <2> QED BY <1>2, <2>1, <2>2, <2>3
<1>13. Good(N, up[N])
  <2>1. \A i \in 0 .. N : i \in U
    <3> HIDE DEF U
    <3> QED BY <1>1, <1>11, <1>12, Upward
  <2>2. N \in 0 .. N
    BY <1>1
  <2> QED BY <2>1, <2>2
<1> QED BY <1>9, <1>13 DEF Good

\* An occupant leaves its leaf, which may be empty then.
LEMMA Vacated ==
  ASSUME NEW b, NEW live \in SUBSET Ids, TreeOK(b, live), NEW o \in live
  PROVE  LET l == b.leaf[o]
             s == [b EXCEPT !.occupants[l] = @ \ {o}, !.leaf[o] = NoNode]
         IN  /\ TreeOK(s, live \ {o}) /\ OnTree(s, l)
             /\ \A p \in live \ {o} : s.leaf[p] = b.leaf[p]
<1> DEFINE l == b.leaf[o]
           s == [b EXCEPT !.occupants[l] = @ \ {o}, !.leaf[o] = NoNode]
<1> USE DEF TreeOK
<1>1. l \in Paths /\ OnTree(b, l) /\ o \in Ids /\ \A n \in Paths : o \in b.occupants[n] <=> n = l
  BY DEF OnTree
<1>2. /\ s = [chunker |-> s.chunker, octrants |-> s.octrants, occupants |-> s.occupants,
              leaf |-> s.leaf, cache |-> s.cache]
      /\ s.chunker = b.chunker /\ s.octrants = b.octrants /\ s.cache = b.cache
      /\ s.occupants = [b.occupants EXCEPT ![l] = @ \ {o}]
      /\ s.leaf = [b.leaf EXCEPT ![o] = NoNode]
  <2> DEFINE occupants == [b.occupants EXCEPT ![l] = @ \ {o}]
             leaf == [b.leaf EXCEPT ![o] = NoNode]
  <2>1. s = [b EXCEPT !.leaf = leaf, !.occupants = occupants]
    OBVIOUS
  <2> HIDE DEF s, occupants, leaf
  <2>2. /\ s = [chunker |-> s.chunker, octrants |-> s.octrants, occupants |-> s.occupants,
                leaf |-> s.leaf, cache |-> s.cache]
        /\ s.chunker = b.chunker /\ s.octrants = b.octrants /\ s.cache = b.cache
        /\ s.occupants = occupants /\ s.leaf = leaf
    BY <2>1
  <2> QED BY <2>2 DEF occupants, leaf
<1> HIDE DEF s
<1>3. s.leaf = [p \in Ids |-> s.leaf[p]] /\ \A p \in Ids : p # o => s.leaf[p] = b.leaf[p]
  BY <1>2
<1> HIDE DEF l
<1>4. /\ s.occupants \in [Paths -> SUBSET (live \ {o})]
      /\ \A n \in Paths : s.occupants[n] = b.occupants[n] \ {o}
  <2>1. b.occupants \in [Paths -> SUBSET live]
    OBVIOUS
  <2> HIDE DEF TreeOK
  <2>2. ASSUME NEW n \in Paths PROVE s.occupants[n] = b.occupants[n] \ {o}
    <3>1. s.occupants[n] = IF n = l THEN b.occupants[n] \ {o} ELSE b.occupants[n]
      BY <1>1, <1>2, <2>1
    <3> QED BY <1>1, <3>1
  <2>3. \A n \in Paths : s.occupants[n] \in SUBSET (live \ {o})
    BY <2>1, <2>2
  <2>4. s.occupants = [n \in Paths |-> s.occupants[n]]
    BY <1>2, <2>1
  <2> QED BY <2>2, <2>3, <2>4
<1>5. Inner(s) = Inner(b) /\ ClustersOf(s) = ClustersOf(b) /\ \A n : OnTree(s, n) <=> OnTree(b, n)
  BY <1>2 DEF Inner, ClustersOf, OnTree
<1>6. ASSUME NEW p \in live \ {o}
      PROVE  /\ OnTree(s, s.leaf[p]) /\ s.octrants[s.leaf[p]] = Leaf
             /\ \A n \in Paths : p \in s.occupants[n] <=> n = s.leaf[p]
  <2>1. p \in live /\ p \in Ids /\ s.leaf[p] = b.leaf[p]
    BY <1>3
  <2>2. ASSUME NEW n \in Paths PROVE p \in s.occupants[n] <=> p \in b.occupants[n]
    <3>1. s.occupants[n] = b.occupants[n] \ {o}
      BY <1>4
    <3> QED BY <3>1
  <2> QED BY <1>2, <1>5, <2>1, <2>2
<1>7. TreeOK(s, live \ {o})
  <2>1. s.octrants = [n \in Paths |-> s.octrants[n]]
    BY <1>2
  <2>2. \A n \in Inner(s) : Len(n) < BSP_MAX_DEPTH /\ OnTree(s, n)
    BY <1>5
  <2>3. \A m, n \in Inner(s) : s.octrants[m] = s.octrants[n] => m = n
    BY <1>2, <1>5
  <2>4. ChunkerOK(s.chunker, s.chunker.chunk, MaxClusters, ClustersOf(s), Ones, Clusters)
    BY <1>2, <1>5
  <2>5. OnTree(s, s.cache)
    BY <1>2, <1>5
  <2>6. s = [chunker |-> s.chunker, octrants |-> s.octrants, occupants |-> s.occupants,
             leaf |-> s.leaf, cache |-> s.cache]
    BY <1>2
  <2> QED BY <1>3, <1>4, <1>6, <2>1, <2>2, <2>3, <2>4, <2>5, <2>6
<1>8. OnTree(s, l) /\ \A p \in live \ {o} : s.leaf[p] = b.leaf[p]
  BY <1>1, <1>3, <1>5
<1> QED BY <1>7, <1>8 DEF s, l

\* Who is deleted from the tree leaves the others where they are.
LEMMA DeleteKeeps ==
  ASSUME NEW b, NEW live \in SUBSET Ids, TreeOK(b, live), NEW o \in live
  PROVE  LET s == bsp_delete_occupant(b, o) IN
         /\ TreeOK(s, live \ {o})
         /\ \A p \in live \ {o} : s.leaf[p] = b.leaf[p]
<1> DEFINE l == b.leaf[o]
           c == [b EXCEPT !.occupants[l] = @ \ {o}, !.leaf[o] = NoNode]
           s == bsp_delete_occupant(b, o)
<1>1. /\ TreeOK(c, live \ {o}) /\ OnTree(c, l)
      /\ \A p \in live \ {o} : c.leaf[p] = b.leaf[p]
  BY Vacated
<1>2. s = IF c.occupants[l] = {} /\ l # <<>> THEN Collapse(c, Front(l)) ELSE c
  BY DEF bsp_delete_occupant
<1> HIDE DEF c, l, s
<1>3. CASE l # <<>>
  <2>1. Front(l) \in Inner(c)
    BY <1>1, <1>3, ParentNode DEF OnTree, Inner
  <2>2. live \ {o} \in SUBSET Ids
    OBVIOUS
  <2>3. TreeOK(Collapse(c, Front(l)), live \ {o}) /\ Collapse(c, Front(l)).leaf = c.leaf
    BY <1>1, <2>1, <2>2, CollapseKeeps
  <2>4. s = Collapse(c, Front(l)) \/ s = c
    BY <1>2
  <2>5. TreeOK(s, live \ {o}) /\ s.leaf = c.leaf
    BY <1>1, <2>3, <2>4
  <2> QED BY <1>1, <2>5 DEF s
<1>4. CASE l = <<>>
  BY <1>1, <1>2, <1>4 DEF s
<1> QED BY <1>3, <1>4

-----------------------------------------------------------------------------
(* Sums *)

First(s) == CHOOSE d \in s : TRUE

\* A sum over the dimensions, and over the subsets of them it is made up of.
Sums(f, it) ==
  /\ it \in [SUBSET Dims -> Nat]
  /\ it[{}] = 0
  /\ \A s \in SUBSET Dims : s # {} => it[s] = f[First(s)] + it[s \ {First(s)}]

LEMMA SumIs ==
  ASSUME NEW f \in [Dims -> Nat]
  PROVE  \E it : Sums(f, it) /\ SumFunction(f) = it[Dims]
<1> DEFINE D == SUBSET Dims
           e(g, s) == IF s = {} THEN 0 ELSE f[First(s)] + g[s \ {First(s)}]
           Def(g) == g = [s \in D |-> e(g, s)]
           it == CHOOSE g : Def(g)
           n == Cardinality(Dims)
           rank == [s \in D |-> Cardinality(s)]
           body == [g \in [D -> Nat] |-> [s \in D |-> e(g, s)]]
<1>1. SumFunction(f) = it[Dims]
  <2>1. DOMAIN f = Dims
    OBVIOUS
  <2> QED BY <2>1 DEF SumFunction, SumFunctionOnSet, FoldFunctionOnSet, MapThenFoldSet, First
<1>2. n \in Nat /\ rank \in [D -> 0 .. n]
  <2>1. ASSUME NEW s \in D
        PROVE  Cardinality(s) \in Nat /\ Cardinality(s) <= n
    BY BspAssumption, FS_Subset, FS_CardinalityType
  <2>2. n \in Nat
    BY BspAssumption, FS_CardinalityType
  <2> HIDE DEF n
  <2> QED BY <2>1, <2>2
<1>3. ASSUME NEW s \in D, s # {}
      PROVE  First(s) \in s /\ s \ {First(s)} \in D /\ rank[s \ {First(s)}] < rank[s]
  <2>1. First(s) \in s /\ s \ {First(s)} \in D
    BY <1>3 DEF First
  <2>2. IsFiniteSet(s)
    BY BspAssumption, FS_Subset
  <2>3. Cardinality(s \ {First(s)}) = Cardinality(s) - 1 /\ Cardinality(s) \in Nat
    BY <2>1, <2>2, FS_RemoveElement, FS_CardinalityType
  <2> QED BY <2>1, <2>3
<1>4. ASSUME NEW g \in [D -> Nat], NEW s \in D PROVE e(g, s) \in Nat
  <2>1. CASE s = {}
    BY <2>1
  <2>2. CASE s # {}
    <3>1. f[First(s)] \in Nat /\ g[s \ {First(s)}] \in Nat
      BY <1>3, <2>2
    <3> QED BY <2>2, <3>1
  <2> QED BY <2>1, <2>2
<1>5. ASSUME NEW g, NEW h, NEW s \in D, \A t \in D : rank[t] < rank[s] => g[t] = h[t]
      PROVE  e(g, s) = e(h, s)
  <2>1. CASE s = {}
    BY <2>1
  <2>2. CASE s # {}
    <3>1. s \ {First(s)} \in D /\ rank[s \ {First(s)}] < rank[s]
      BY <1>3, <2>2
    <3>2. g[s \ {First(s)}] = h[s \ {First(s)}]
      BY <1>5, <3>1
    <3> QED BY <2>2, <3>2
  <2> QED BY <2>1, <2>2
<1> HIDE DEF e, rank, n, it
<1>6. Ranked(n, D, Nat, rank, body)
  <2> HIDE DEF D
  <2>1. ASSUME NEW g \in [D -> Nat] PROVE body[g] = [s \in D |-> e(g, s)]
    OBVIOUS
  <2>2. body \in [[D -> Nat] -> [D -> Nat]]
    BY <1>4
  <2>3. \A g \in [D -> Nat] : \A s \in D : body[g][s] = e(g, s)
    BY <2>1
  <2> HIDE DEF body
  <2> QED BY <1>2, <1>5, <2>2, <2>3 DEF Ranked
<1>7. PICK g \in [D -> Nat] : g = body[g]
  <2> HIDE DEF D, body
  <2> QED BY <1>2, <1>6, Fixpoint
<1>8. Def(it)
  <2>1. Def(g)
    BY <1>7
  <2> HIDE DEF Def
  <2> QED BY <2>1 DEF it
<1>9. it \in [D -> Nat]
  <2> DEFINE T == {s \in D : it[s] \in Nat}
  <2>1. \A s \in D : it[s] = e(it, s)
    BY <1>8
  <2>2. ASSUME NEW s \in D, \A t \in D : rank[t] < rank[s] => t \in T PROVE s \in T
    <3>1. CASE s = {}
      BY <2>1, <3>1 DEF e
    <3>2. CASE s # {}
      <4> DEFINE t == s \ {First(s)}
      <4>1. First(s) \in Dims /\ t \in D /\ rank[t] < rank[s]
        BY <1>3, <3>2
      <4>2. it[t] \in Nat
        BY <2>2, <4>1
      <4>3. it[s] = f[First(s)] + it[t]
        BY <2>1, <3>2 DEF e
      <4> QED BY <4>1, <4>2, <4>3
    <3> QED BY <3>1, <3>2
  <2>3. \A s \in D : s \in T
    <3> HIDE DEF T, D
    <3>1. rank \in [D -> Nat]
      BY <1>2
    <3> QED BY <2>2, <3>1, ByRank
  <2>4. it = [s \in D |-> it[s]]
    <3> HIDE DEF e, D
    <3> QED BY <1>8
  <2> QED BY <2>3, <2>4
<1>10. Sums(f, it)
  <2>1. \A s \in D : it[s] = e(it, s)
    BY <1>8
  <2> QED BY <1>9, <2>1 DEF Sums, e
<1> QED BY <1>1, <1>10

\* A sum of greater numbers is greater, and none of its terms is greater than it.
LEMMA SumBounds ==
  ASSUME NEW f \in [Dims -> Nat], NEW g \in [Dims -> Nat]
  PROVE  /\ SumFunction(f) \in Nat
         /\ \A d \in Dims : f[d] <= SumFunction(f)
         /\ ((\A d \in Dims : f[d] <= g[d]) => SumFunction(f) <= SumFunction(g))
<1>1. PICK x : Sums(f, x) /\ SumFunction(f) = x[Dims]
  BY SumIs
<1>2. PICK y : Sums(g, y) /\ SumFunction(g) = y[Dims]
  BY SumIs
<1> DEFINE D == SUBSET Dims
           Less == \A d \in Dims : f[d] <= g[d]
           rank == [s \in D |-> Cardinality(s)]
           Fine(s) == (\A d \in s : f[d] <= x[s]) /\ (Less => x[s] <= y[s])
           T == {s \in D : Fine(s)}
<1>3. rank \in [D -> Nat]
  BY BspAssumption, FS_Subset, FS_CardinalityType
<1>4. {} \in T
  BY <1>1, <1>2 DEF Sums
<1>5. ASSUME NEW s \in D, s # {}, \A t \in D : rank[t] < rank[s] => t \in T PROVE s \in T
  <2> DEFINE d == First(s)
             t == s \ {d}
  <2>1. d \in s /\ d \in Dims /\ t \in D
    BY <1>5 DEF First
  <2>2. rank[t] < rank[s]
    <3>1. IsFiniteSet(s)
      BY BspAssumption, FS_Subset
    <3> HIDE DEF d
    <3>2. Cardinality(s \ {d}) = Cardinality(s) - 1 /\ Cardinality(s) \in Nat
      BY <2>1, <3>1, FS_RemoveElement, FS_CardinalityType
    <3> QED BY <2>1, <3>2
  <2>3. x[s] = f[d] + x[t] /\ y[s] = g[d] + y[t] /\ x[t] \in Nat /\ y[t] \in Nat
        /\ f[d] \in Nat /\ g[d] \in Nat
    BY <1>1, <1>2, <1>5, <2>1 DEF Sums
  <2>4. Fine(t)
    BY <1>5, <2>1, <2>2
  <2> HIDE DEF d
  <2>5. ASSUME NEW c \in s PROVE f[c] <= x[s]
    <3>1. CASE c = d
      BY <2>3, <3>1
    <3>2. CASE c # d
      <4>1. f[c] <= x[t] /\ f[c] \in Nat
        BY <2>4, <3>2
      <4> HIDE DEF t
      <4> QED BY <2>3, <4>1
    <3> QED BY <3>1, <3>2
  <2>6. Less => x[s] <= y[s]
    <3> SUFFICES ASSUME Less PROVE x[s] <= y[s]
      OBVIOUS
    <3>1. f[d] <= g[d] /\ x[t] <= y[t]
      BY <2>1, <2>4
    <3> HIDE DEF t
    <3> QED BY <2>3, <3>1
  <2> QED BY <2>5, <2>6
<1>6. Dims \in T
  <2> HIDE DEF T, rank
  <2>1. \A s \in D : s \in T
    <3>1. \A s \in D : (\A t \in D : rank[t] < rank[s] => t \in T) => s \in T
      BY <1>4, <1>5
    <3> HIDE DEF D
    <3> QED BY <1>3, <3>1, ByRank
  <2> QED BY <2>1
<1>7. x[Dims] \in Nat
  BY <1>1 DEF Sums
<1> QED BY <1>1, <1>2, <1>6, <1>7

-----------------------------------------------------------------------------
(* Spheres *)

\* The square of a distance grows with it.
LEMMA SquareGrows ==
  ASSUME NEW x \in Int, NEW y \in Int, (0 <= x /\ x <= y) \/ (y <= x /\ x <= 0)
  PROVE  Squared(x) \in Nat /\ Squared(y) \in Nat /\ Squared(x) <= Squared(y)
<1>1. ASSUME NEW a \in Nat, NEW b \in Nat PROVE a * b \in Nat
  OBVIOUS
<1>2. CASE 0 <= x /\ x <= y
  <2>1. x \in Nat /\ y \in Nat /\ y - x \in Nat
    BY <1>2
  <2>2. x * x \in Nat /\ y * y \in Nat /\ (y - x) * y \in Nat /\ x * (y - x) \in Nat
    BY <1>1, <2>1
  <2>3. y * y = x * x + x * (y - x) + (y - x) * y
    BY <2>1
  <2> QED BY <2>2, <2>3 DEF Squared
<1>3. CASE y <= x /\ x <= 0
  <2>1. -x \in Nat /\ -y \in Nat /\ x - y \in Nat
    BY <1>3
  <2>2. (-x) * (-x) \in Nat /\ (-y) * (-y) \in Nat
        /\ (x - y) * (-y) \in Nat /\ (-x) * (x - y) \in Nat
    BY <1>1, <2>1
  <2>3. /\ y * y = (-y) * (-y) /\ x * x = (-x) * (-x)
        /\ (-y) * (-y) = (-x) * (-x) + (-x) * (x - y) + (x - y) * (-y)
    BY <2>1
  <2> QED BY <2>2, <2>3 DEF Squared
<1> QED BY <1>2, <1>3

\* A square is no less than 0.
LEMMA SquareIs ==
  ASSUME NEW x \in Int
  PROVE  Squared(x) \in Nat
BY SquareGrows

\* The squares of the distances of a node's faces from the center of a sphere,
\* and of that of a position.
ToLow(path, center, d) == Squared(center[d] - Low(path, d))
ToHigh(path, center, d) == Squared(center[d] - High(path, d))
Beside(path, center, d) == center[d] \in Low(path, d) .. High(path, d)
Apart(position, center) == SumFunction([d \in Dims |-> Squared(position[d] - center[d])])

\* The sphere is in the volume of a node.
Encloses(path, center, radius) ==
  \A d \in Dims : /\ Beside(path, center, d)
                  /\ ToLow(path, center, d) > Squared(radius)
                  /\ ToHigh(path, center, d) > Squared(radius)

\* The faces of a node's volume.
LEMMA Faces ==
  ASSUME NEW path \in Paths, NEW d \in Dims
  PROVE  Low(path, d) \in Int /\ High(path, d) \in Int /\ Center(path, d) \in Int
         /\ Low(path, d) <= Center(path, d) /\ Center(path, d) <= High(path, d)
BY VolumeIs DEF Low, High, Center, Middle, Volumes

\* The faces of an octrant's.
LEMMA OctrantFaces ==
  ASSUME NEW path \in Paths, Len(path) < BSP_MAX_DEPTH, NEW q \in Octrants, NEW d \in Dims
  PROVE  /\ Low(Append(path, q), d) = IF q[d] = 0 THEN Low(path, d) ELSE Center(path, d)
         /\ High(Append(path, q), d) = IF q[d] = 0 THEN Center(path, d) ELSE High(path, d)
<1>1. Append(path, q) \in Paths /\ Append(path, q) # <<>>
      /\ Front(Append(path, q)) = path /\ Last(Append(path, q)) = q
  BY ChildNode
<1>2. Volume[Append(path, q)] = Octrant(Volume[path], q)
  BY <1>1, VolumeIs
<1> QED BY <1>2 DEF Low, High, Center, Octrant

\* A position between two faces is no farther than one of them, and no nearer
\* than both if the center is not between them.
LEMMA BetweenFaces ==
  ASSUME NEW c \in Int, NEW p \in Int, NEW lo \in Int, NEW hi \in Int, lo <= p, p <= hi
  PROVE  /\ Squared(p - c) \in Nat /\ Squared(c - lo) \in Nat /\ Squared(c - hi) \in Nat
         /\ Squared(p - c) <= Squared(c - lo) \/ Squared(p - c) <= Squared(c - hi)
         /\ c \notin lo .. hi => \/ Squared(c - lo) <= Squared(p - c)
                                 \/ Squared(c - hi) <= Squared(p - c)
<1>1. Squared(p - c) = Squared(c - p)
  BY DEF Squared
<1>2. CASE p <= c
  <2>1. Squared(c - p) <= Squared(c - lo)
    BY <1>2, SquareGrows
  <2>2. c > hi => Squared(c - hi) <= Squared(c - p)
    <3>1. c > hi => 0 <= c - hi /\ c - hi <= c - p
      OBVIOUS
    <3> QED BY <3>1, SquareGrows
  <2>3. c \notin lo .. hi => c > hi
    BY <1>2
  <2> QED BY <1>1, <2>1, <2>2, <2>3, SquareIs
<1>3. CASE c <= p
  <2>1. Squared(c - p) <= Squared(c - hi)
    BY <1>3, SquareGrows
  <2>2. c < lo => Squared(c - lo) <= Squared(c - p)
    <3>1. c < lo => c - p <= c - lo /\ c - lo <= 0
      OBVIOUS
    <3> QED BY <3>1, SquareGrows
  <2>3. c \notin lo .. hi => c < lo
    BY <1>3
  <2> QED BY <1>1, <2>1, <2>2, <2>3, SquareIs
<1> QED BY <1>2, <1>3

\* What is between two spheres is in no node that has nothing between them.
LEMMA Nearness ==
  ASSUME NEW path \in Paths, NEW center \in [Dims -> Int], NEW position \in [Dims -> Int],
         NEW rmin \in Int, NEW rmax \in Int, Within(path, position),
         Squared(rmin) < Apart(position, center), Apart(position, center) < Squared(rmax)
  PROVE  Between(path, center, rmin, rmax) # "none"
<1> DEFINE a(d) == ToLow(path, center, d)
           b(d) == ToHigh(path, center, d)
           far == [d \in Dims |-> IF a(d) > b(d) THEN a(d) ELSE b(d)]
           near == [d \in Dims |-> IF Beside(path, center, d) THEN 0 
                                   ELSE IF a(d) < b(d) THEN a(d) ELSE b(d)]
           at == [d \in Dims |-> Squared(position[d] - center[d])]
           square == Apart(position, center)
           least == SumFunction(near)
           most == SumFunction(far)
<1>1. ASSUME NEW d \in Dims
      PROVE  /\ at[d] \in Nat /\ near[d] \in Nat /\ far[d] \in Nat
             /\ near[d] <= at[d] /\ at[d] <= far[d]
  <2> DEFINE c == center[d]  p == position[d]  lo == Low(path, d)  hi == High(path, d)
  <2>1. c \in Int /\ p \in Int /\ lo \in Int /\ hi \in Int /\ lo <= p /\ p <= hi
    BY Faces DEF Within
  <2>2. a(d) = Squared(c - lo) /\ b(d) = Squared(c - hi) /\ at[d] = Squared(p - c)
        /\ (Beside(path, center, d) <=> c \in lo .. hi)
    BY DEF ToLow, ToHigh, Beside
  <2>3. /\ far[d] = IF a(d) > b(d) THEN a(d) ELSE b(d)
        /\ near[d] = IF Beside(path, center, d) THEN 0 ELSE IF a(d) < b(d) THEN a(d) ELSE b(d)
    OBVIOUS
  <2> HIDE DEF c, p, lo, hi, a, b, at, near, far
  <2>4. /\ Squared(p - c) \in Nat /\ Squared(c - lo) \in Nat /\ Squared(c - hi) \in Nat
        /\ Squared(p - c) <= Squared(c - lo) \/ Squared(p - c) <= Squared(c - hi)
        /\ c \notin lo .. hi => \/ Squared(c - lo) <= Squared(p - c)
                                \/ Squared(c - hi) <= Squared(p - c)
    BY <2>1, BetweenFaces
  <2> QED BY <2>2, <2>3, <2>4
<1>2. at \in [Dims -> Nat] /\ near \in [Dims -> Nat] /\ far \in [Dims -> Nat]
  <2>1. /\ at = [d \in Dims |-> at[d]] /\ near = [d \in Dims |-> near[d]]
        /\ far = [d \in Dims |-> far[d]]
    OBVIOUS
  <2> HIDE DEF at, near, far
  <2> QED BY <1>1, <2>1
<1>3. square = SumFunction(at)
  BY DEF Apart
<1>4. least <= square /\ square <= most
      /\ least \in Nat /\ most \in Nat /\ square \in Nat
  <2> HIDE DEF at, near, far, square
  <2> QED BY <1>1, <1>2, <1>3, SumBounds
<1>5. ASSUME NEW radius \in Int
      PROVE  /\ aabb_overlaps_sphere(path, center, radius) = "box in sphere" => most < Squared(radius)
             /\ aabb_overlaps_sphere(path, center, radius) = "none" => least > Squared(radius)
             /\ Squared(radius) \in Nat
  <2> DEFINE o == aabb_overlaps_sphere(path, center, radius)
             r2 == Squared(radius)
  <2>1. o = IF most < r2 THEN "box in sphere"
            ELSE IF Encloses(path, center, radius) THEN "sphere in box"
            ELSE IF least <= r2 THEN "partly" ELSE "none"
    BY DEF aabb_overlaps_sphere, ToLow, ToHigh, Beside, Encloses
  <2>2. r2 \in Nat
    BY SquareIs
  <2> HIDE DEF least, most, square, o, r2
  <2>3. least \in Nat /\ most \in Nat
    BY <1>4
  <2>4. o = "box in sphere" => most < r2
    BY <2>1, <2>2, <2>3
  <2>5. o = "none" => least > r2
    BY <2>1, <2>2, <2>3
  <2> QED BY <2>2, <2>4, <2>5 DEF o, r2
<1>6. aabb_overlaps_sphere(path, center, rmax) # "none"
  <2> DEFINE o == aabb_overlaps_sphere(path, center, rmax)
             r2 == Squared(rmax)
  <2>1. square < r2 /\ (o = "none" => least > r2) /\ r2 \in Nat
    BY <1>5
  <2> HIDE DEF o, r2, square, least, most
  <2>2. o # "none"
    BY <1>4, <2>1
  <2> QED BY <2>2 DEF o
<1>7. aabb_overlaps_sphere(path, center, rmin) # "box in sphere"
  <2> DEFINE o == aabb_overlaps_sphere(path, center, rmin)
             r2 == Squared(rmin)
  <2>1. r2 < square /\ (o = "box in sphere" => most < r2) /\ r2 \in Nat
    BY <1>5
  <2> HIDE DEF o, r2, square, least, most
  <2>2. ~(most < r2)
    <3>1. square <= most /\ most \in Nat /\ square \in Nat
      BY <1>4
    <3>2. r2 < square /\ r2 \in Nat
      BY <2>1
    <3>3. r2 < most
      BY <3>1, <3>2
    <3> QED BY <3>1, <3>2, <3>3
  <2>3. o # "box in sphere"
    BY <2>1, <2>2
  <2> QED BY <2>3 DEF o
<1> QED BY <1>6, <1>7 DEF Between, Meets

\* A node that encloses the sphere is all the search finds there.
LEMMA Enclosed ==
  ASSUME NEW path \in Paths, NEW center, NEW rmin, NEW rmax,
         Between(path, center, rmin, rmax) = "sphere in box"
  PROVE  Encloses(path, center, rmax)
<1>1. aabb_overlaps_sphere(path, center, rmax) = "sphere in box"
  BY DEF Between, Meets
<1> QED BY <1>1 DEF aabb_overlaps_sphere, Encloses, ToLow, ToHigh, Beside

\* So does its parent.
LEMMA EnclosesMore ==
  ASSUME NEW path \in Paths, Len(path) < BSP_MAX_DEPTH, NEW q \in Octrants,
         NEW center \in [Dims -> Int], NEW radius \in Int,
         Encloses(Append(path, q), center, radius)
  PROVE  Encloses(path, center, radius)
<1>1. SUFFICES ASSUME NEW d \in Dims
               PROVE  /\ Beside(path, center, d)
                      /\ ToLow(path, center, d) > Squared(radius)
                      /\ ToHigh(path, center, d) > Squared(radius)
  BY DEF Encloses
<1> DEFINE c == center[d]  lo == Low(path, d)  hi == High(path, d)  mid == Center(path, d)
           l == Low(Append(path, q), d)  h == High(Append(path, q), d)
<1>2. c \in Int /\ lo \in Int /\ hi \in Int /\ mid \in Int /\ lo <= mid /\ mid <= hi
  BY Faces
<1>3. l = (IF q[d] = 0 THEN lo ELSE mid) /\ h = (IF q[d] = 0 THEN mid ELSE hi)
  BY OctrantFaces
<1>4. c \in l .. h /\ Squared(c - l) > Squared(radius) /\ Squared(c - h) > Squared(radius)
  BY DEF Encloses, Beside, ToLow, ToHigh
<1> HIDE DEF c, lo, hi, mid, l, h
<1>5. lo <= l /\ l <= c /\ c <= h /\ h <= hi /\ l \in Int /\ h \in Int
  BY <1>2, <1>3, <1>4
<1>6. Squared(c - l) <= Squared(c - lo) /\ Squared(c - h) <= Squared(c - hi)
      /\ Squared(c - l) \in Nat /\ Squared(c - h) \in Nat
      /\ Squared(c - lo) \in Nat /\ Squared(c - hi) \in Nat
  <2>1. 0 <= c - l /\ c - l <= c - lo /\ c - hi <= c - h /\ c - h <= 0
    BY <1>2, <1>5
  <2>2. c - l \in Int /\ c - lo \in Int /\ c - hi \in Int /\ c - h \in Int
    BY <1>2, <1>5
  <2> QED BY <2>1, <2>2, SquareGrows
<1>7. Squared(radius) \in Nat
  BY SquareIs
<1>8. c \in lo .. hi /\ Squared(c - lo) > Squared(radius) /\ Squared(c - hi) > Squared(radius)
  BY <1>2, <1>4, <1>5, <1>6, <1>7
<1> QED BY <1>8 DEF Beside, ToLow, ToHigh, c, lo, hi

\* What is within a sphere is in no octrant but the one that encloses it.
LEMMA Elsewhere ==
  ASSUME NEW path \in Paths, Len(path) < BSP_MAX_DEPTH, NEW q \in Octrants, NEW m \in Octrants,
         m # q, NEW center \in [Dims -> Int], NEW position \in [Dims -> Int], NEW radius \in Int,
         Within(Append(path, q), position), Apart(position, center) < Squared(radius)
  PROVE  ~Encloses(Append(path, m), center, radius)
<1> SUFFICES ASSUME Encloses(Append(path, m), center, radius) PROVE FALSE
  OBVIOUS
<1>2. PICK d \in Dims : m[d] # q[d]
  BY DEF Octrants
<1>3. m[d] \in {0, 1} /\ q[d] \in {0, 1}
  BY DEF Octrants
<1> DEFINE c == center[d]  p == position[d]  mid == Center(path, d)
           lo == Low(path, d)  hi == High(path, d)
<1>4. c \in Int /\ p \in Int /\ mid \in Int /\ lo \in Int /\ hi \in Int
  BY Faces
<1>5. p \in (IF q[d] = 0 THEN lo ELSE mid) .. (IF q[d] = 0 THEN mid ELSE hi)
  BY OctrantFaces DEF Within
<1>6. /\ c \in (IF m[d] = 0 THEN lo ELSE mid) .. (IF m[d] = 0 THEN mid ELSE hi)
      /\ Squared(c - mid) > Squared(radius)
  <2> DEFINE l == Low(Append(path, m), d)  h == High(Append(path, m), d)
  <2>1. c \in l .. h /\ Squared(c - l) > Squared(radius) /\ Squared(c - h) > Squared(radius)
    BY DEF Encloses, Beside, ToLow, ToHigh
  <2>2. l = (IF m[d] = 0 THEN lo ELSE mid) /\ h = (IF m[d] = 0 THEN mid ELSE hi)
    BY OctrantFaces
  <2> HIDE DEF l, h, c, lo, hi, mid
  <2> QED BY <1>3, <2>1, <2>2
<1>7. Squared(p - c) <= Apart(position, center) /\ Apart(position, center) \in Nat
  <2> DEFINE at == [e \in Dims |-> Squared(position[e] - center[e])]
  <2>1. at \in [Dims -> Nat]
    <3>1. \A e \in Dims : position[e] - center[e] \in Int
      OBVIOUS
    <3> QED BY <3>1, SquareIs
  <2>2. at[d] = Squared(p - c) /\ Apart(position, center) = SumFunction(at)
    BY DEF Apart
  <2> HIDE DEF at, p, c
  <2> QED BY <2>1, <2>2, SumBounds
<1>8. Squared(c - mid) > Squared(radius) /\ ((p <= mid /\ mid <= c) \/ (c <= mid /\ mid <= p))
  <2> HIDE DEF c, p, mid, lo, hi
  <2> QED BY <1>2, <1>3, <1>4, <1>5, <1>6
<1>9. Squared(c - mid) <= Squared(c - p) /\ Squared(c - p) = Squared(p - c)
      /\ Squared(c - mid) \in Nat /\ Squared(c - p) \in Nat
  <2> HIDE DEF c, p, mid, lo, hi
  <2>1. c - mid \in Int /\ c - p \in Int
        /\ ((0 <= c - mid /\ c - mid <= c - p) \/ (c - p <= c - mid /\ c - mid <= 0))
    BY <1>4, <1>8
  <2>2. Squared(c - p) = Squared(p - c)
    BY <1>4 DEF Squared
  <2> QED BY <2>1, <2>2, SquareGrows
<1>10. Squared(radius) \in Nat
  BY SquareIs
<1> HIDE DEF c, p, mid
<1> QED BY <1>7, <1>8, <1>9, <1>10

-----------------------------------------------------------------------------
(* Searches *)

\* What is in the volume of an octrant is in its node's.
LEMMA WithinParent ==
  ASSUME NEW path \in Paths, path # <<>>, NEW position, Within(path, position)
  PROVE  Within(Front(path), position)
<1> DEFINE m == Front(path)
           q == Last(path)
<1>1. m \in Paths /\ Len(m) < BSP_MAX_DEPTH /\ q \in Octrants /\ Append(m, q) = path
  <2>1. Len(path) <= BSP_MAX_DEPTH /\ Len(path) \in Nat /\ BSP_MAX_DEPTH \in Nat
    BY NodeDepth, RootNode
  <2>2. m \in Paths /\ Len(m) = Len(path) - 1 /\ q \in Octrants /\ Append(m, q) = path
    BY ParentNode
  <2> HIDE DEF m, q
  <2> QED BY <2>1, <2>2
<1>2. ASSUME NEW d \in Dims PROVE position[d] \in Low(m, d) .. High(m, d)
  <2>1. position[d] \in Low(path, d) .. High(path, d)
    BY DEF Within
  <2>2. /\ Low(path, d) = IF q[d] = 0 THEN Low(m, d) ELSE Center(m, d)
        /\ High(path, d) = IF q[d] = 0 THEN Center(m, d) ELSE High(m, d)
    <3> HIDE DEF m, q
    <3> QED BY <1>1, OctrantFaces
  <2>3. /\ Low(m, d) \in Int /\ High(m, d) \in Int /\ Center(m, d) \in Int
        /\ Low(m, d) <= Center(m, d) /\ Center(m, d) <= High(m, d)
    <3> HIDE DEF m
    <3> QED BY <1>1, Faces
  <2> HIDE DEF m, q
  <2> QED BY <2>1, <2>2, <2>3
<1> QED BY <1>2 DEF Within

-----------------------------------------------------------------------------
(* Searches *)

\* A set is made a sequence of its elements.
LEMMA SetAsSeq ==
  ASSUME NEW S, IsFiniteSet(S)
  PROVE  SetToSeq(S) \in Seq(S) /\ \A e \in S : \E i \in DOMAIN SetToSeq(S) : SetToSeq(S)[i] = e
<1> DEFINE n == Cardinality(S)
           t == SetToSeq(S)
<1>1. n \in Nat /\ ExistsBijection(1 .. n, S)
  BY FS_CardinalityType
<1>2. \E f \in [1 .. n -> S] : IsInjective(f)
  BY <1>1 DEF ExistsBijection, Bijection, Injection, IsInjective
<1>3. t \in [1 .. n -> S] /\ IsInjective(t)
  BY <1>2 DEF SetToSeq
<1> HIDE DEF t
<1>4. t \in Injection(1 .. n, S)
  BY <1>3 DEF Injection, IsInjective
<1>5. IsFiniteSet(1 .. n) /\ Cardinality(1 .. n) = n
  BY <1>1, FS_Interval
<1>6. t \in Surjection(1 .. n, S)
  <2> HIDE DEF n
  <2>1. Cardinality(1 .. n) = Cardinality(S)
    BY <1>5 DEF n
  <2> QED BY <1>4, <2>1, FS_Injection
<1> HIDE DEF n
<1>7. t \in Seq(S) /\ DOMAIN t = 1 .. n
  BY <1>1, <1>3
<1>8. \A e \in S : \E i \in 1 .. n : t[i] = e
  BY <1>6 DEF Surjection
<1> QED BY <1>7, <1>8 DEF t

\* The order of the search has all octrants.
LEMMA SearchOrderIs ==
  /\ SearchOrder \in Seq(Octrants)
  /\ \A q \in Octrants : \E i \in DOMAIN SearchOrder : SearchOrder[i] = q
<1> DEFINE A == [d \in Dims |-> 0]
           B == [d \in Dims |-> 1]
           corners == <<A, B>>
           S == Octrants \ {A, B}
           t == SetToSeq(S)
           order == corners \o t
<1>1. A \in Octrants /\ B \in Octrants
  BY DEF Octrants
<1>2. SearchOrder = order
  BY DEF SearchOrder
<1> HIDE DEF A, B
<1>3. IsFiniteSet(S)
  BY OctrantsFinite, FS_Subset
<1>4. t \in Seq(S) /\ \A e \in S : \E i \in DOMAIN t : t[i] = e
  <2> HIDE DEF S
  <2> QED BY <1>3, SetAsSeq
<1> HIDE DEF t
<1>5. corners \in Seq(Octrants) /\ t \in Seq(Octrants)
  BY <1>1, <1>4
<1>6. A \in ToSet(corners) /\ B \in ToSet(corners) /\ S \subseteq ToSet(t)
  <2>1. corners[1] = A /\ corners[2] = B /\ DOMAIN corners = {1, 2}
    OBVIOUS
  <2> HIDE DEF corners, S
  <2> QED BY <1>4, <2>1 DEF ToSet
<1>7. order \in Seq(Octrants) /\ ToSet(order) = ToSet(corners) \cup ToSet(t)
  <2> HIDE DEF corners
  <2> QED BY <1>5, Joined
<1> HIDE DEF order
<1>8. Octrants \subseteq ToSet(order)
  BY <1>6, <1>7
<1>9. \A q \in Octrants : \E i \in DOMAIN order : order[i] = q
  BY <1>8 DEF ToSet
<1> QED BY <1>2, <1>7, <1>9

Overlaps == {"none", "partly", "box in sphere", "sphere in box"}
Found == [leaves : SUBSET Paths, res : Overlaps]

\* The search of a node finds nodes.
LEMMA OctrantsFound ==
  ASSUME NEW path \in Paths, Len(path) < BSP_MAX_DEPTH, NEW f \in [Paths -> Found]
  PROVE  search_octrants(f, path) \in Found
<1> DEFINE child(i) == f[Append(path, SearchOrder[i])]
           over(i) == child(i).res = "sphere in box"
           searched == {i \in DOMAIN SearchOrder : \A j \in 1 .. i - 1 : ~over(j)}
           leaves == UNION {child(i).leaves : i \in searched}
           res == IF \E i \in searched : over(i) THEN "sphere in box" ELSE "partly"
<1>1. ASSUME NEW i \in DOMAIN SearchOrder PROVE child(i).leaves \in SUBSET Paths
  <2>1. SearchOrder[i] \in Octrants
    BY SearchOrderIs
  <2>2. Append(path, SearchOrder[i]) \in Paths
    BY <2>1, ChildNode
  <2> QED BY <2>2 DEF Found
<1>2. search_octrants(f, path) = [leaves |-> leaves, res |-> res]
  BY DEF search_octrants
<1>3. leaves \in SUBSET Paths
  <2>1. \A i \in searched : child(i).leaves \in SUBSET Paths
    BY <1>1
  <2> HIDE DEF searched, child
  <2> QED BY <2>1
<1>4. res \in Overlaps
  BY DEF Overlaps
<1> HIDE DEF leaves, res
<1> QED BY <1>2, <1>3, <1>4 DEF Found

\* It depends on what is found in the node's octrants.
LEMMA OctrantsSame ==
  ASSUME NEW path \in Paths, NEW f, NEW g,
         \A q \in Octrants : f[Append(path, q)] = g[Append(path, q)]
  PROVE  search_octrants(f, path) = search_octrants(g, path)
<1> DEFINE n == Len(SearchOrder)
           child(h, i) == h[Append(path, SearchOrder[i])]
           over(h, i) == child(h, i).res = "sphere in box"
           searched(h) == {i \in DOMAIN SearchOrder : \A j \in 1 .. i - 1 : ~over(h, j)}
           leaves(h) == UNION {child(h, i).leaves : i \in searched(h)}
           res(h) == IF \E i \in searched(h) : over(h, i) THEN "sphere in box" ELSE "partly"
<1>1. n \in Nat /\ DOMAIN SearchOrder = 1 .. n /\ \A i \in 1 .. n : SearchOrder[i] \in Octrants
  BY SearchOrderIs
<1> HIDE DEF n
<1>2. \A i \in 1 .. n : child(f, i) = child(g, i)
  BY <1>1
<1> HIDE DEF child
<1>3. searched(f) = searched(g) /\ searched(f) \subseteq 1 .. n
  <2>1. ASSUME NEW i \in 1 .. n, NEW j \in 1 .. i - 1 PROVE over(f, j) = over(g, j)
    <3>1. j \in 1 .. n
      BY <1>1
    <3> QED BY <1>2, <3>1
  <2> HIDE DEF over
  <2> QED BY <1>1, <2>1
<1>4. leaves(f) = leaves(g)
  <2> HIDE DEF searched
  <2>1. \A i \in searched(f) : child(f, i) = child(g, i)
    BY <1>2, <1>3
  <2> QED BY <1>3, <2>1
<1>5. res(f) = res(g)
  <2> HIDE DEF searched
  <2> QED BY <1>2, <1>3
<1>6. /\ search_octrants(f, path) = [leaves |-> leaves(f), res |-> res(f)]
      /\ search_octrants(g, path) = [leaves |-> leaves(g), res |-> res(g)]
  BY DEF search_octrants, child
<1> HIDE DEF leaves, res
<1> QED BY <1>4, <1>5, <1>6

\* A search of the tree finds in a node what it finds in its octrants.
LEMMA SearchIs ==
  ASSUME NEW b, NEW live, TreeOK(b, live), NEW center, NEW rmin, NEW rmax
  PROVE  \E search :
            /\ \A path \in Paths : search[path] =
                  _bsp_search_sphere(search, b, path, Between(path, center, rmin, rmax))
            /\ bsp_search_sphere(b, center, rmin, rmax) = search[<<>>]
<1> DEFINE n == BSP_MAX_DEPTH
           X == [Paths -> Found]
           rank == [path \in Paths |-> n - Len(path)]
           e(s, path) == _bsp_search_sphere(s, b, path, Between(path, center, rmin, rmax))
           body == [s \in X |-> [path \in Paths |-> e(s, path)]]
           Def(s) == s = [path \in Paths |-> e(s, path)]
           search == CHOOSE s : Def(s)
<1>1. n \in Nat /\ rank \in [Paths -> 0 .. n]
  <2>1. n \in Nat
    BY BspAssumption
  <2>2. \A path \in Paths : Len(path) \in Nat /\ Len(path) <= n
    BY NodeDepth
  <2> HIDE DEF n
  <2> QED BY <2>1, <2>2
<1>2. bsp_search_sphere(b, center, rmin, rmax) = search[<<>>]
  BY DEF bsp_search_sphere
<1>3. ASSUME NEW path \in Paths, b.octrants[path] # Leaf PROVE Len(path) < n
  BY <1>3 DEF TreeOK, Inner
<1>4. ASSUME NEW s \in X, NEW path \in Paths PROVE e(s, path) \in Found
  <2> DEFINE res == Between(path, center, rmin, rmax)
  <2>1. res \in Overlaps
    BY DEF Between, Meets, aabb_overlaps_sphere, Overlaps
  <2> HIDE DEF res
  <2>2. CASE res = "none"
    BY <2>1, <2>2 DEF _bsp_search_sphere, Found, res
  <2>3. CASE res # "none" /\ b.octrants[path] = Leaf
    BY <2>1, <2>3 DEF _bsp_search_sphere, Found, res
  <2>4. CASE res # "none" /\ b.octrants[path] # Leaf
    <3>1. e(s, path) = search_octrants(s, path)
      BY <2>4 DEF _bsp_search_sphere, res
    <3> QED BY <1>3, <2>4, <3>1, OctrantsFound
  <2> QED BY <2>2, <2>3, <2>4
<1>5. ASSUME NEW s, NEW t, NEW path \in Paths,
             \A y \in Paths : rank[y] < rank[path] => s[y] = t[y]
      PROVE  e(s, path) = e(t, path)
  <2>1. CASE b.octrants[path] = Leaf
    BY <2>1 DEF _bsp_search_sphere
  <2>2. CASE b.octrants[path] # Leaf
    <3>1. ASSUME NEW q \in Octrants PROVE s[Append(path, q)] = t[Append(path, q)]
      <4>1. Append(path, q) \in Paths /\ Len(Append(path, q)) = Len(path) + 1
        BY <1>3, <2>2, ChildNode
      <4>2. Len(path) \in Nat /\ n \in Nat
        BY <1>1, NodeDepth
      <4>3. rank[Append(path, q)] < rank[path]
        <5> HIDE DEF n
        <5> QED BY <4>1, <4>2
      <4> QED BY <1>5, <4>1, <4>3
    <3>2. search_octrants(s, path) = search_octrants(t, path)
      BY <3>1, OctrantsSame
    <3> QED BY <3>2 DEF _bsp_search_sphere
  <2> QED BY <2>1, <2>2
<1> HIDE DEF n, rank, e
<1>6. Ranked(n, Paths, Found, rank, body)
  <2>1. \A s \in X : body[s] = [path \in Paths |-> e(s, path)]
    OBVIOUS
  <2>2. body \in [X -> X]
    BY <1>4
  <2>3. \A s \in X : \A path \in Paths : body[s][path] = e(s, path)
    BY <2>1
  <2>4. Found # {}
    <3>1. [leaves |-> {}, res |-> "none"] \in Found
      BY DEF Found, Overlaps
    <3> QED BY <3>1
  <2> HIDE DEF body
  <2> QED BY <1>1, <1>5, <2>2, <2>3, <2>4 DEF Ranked
<1>7. PICK s \in X : s = body[s]
  <2> HIDE DEF body
  <2> QED BY <1>1, <1>6, Fixpoint
<1>8. Def(s)
  BY <1>7
<1>9. Def(search)
  <2> HIDE DEF Def
  <2> QED BY <1>8
<1>10. \A path \in Paths : search[path] = e(search, path)
  BY <1>9
<1> HIDE DEF search
<1> QED BY <1>2, <1>10 DEF e

\* A search of the space between two spheres comes by every leaf that has a
\* position between them in its volume.
LEMMA SearchFinds ==
  ASSUME NEW b, NEW live, TreeOK(b, live),
         NEW l, OnTree(b, l), b.octrants[l] = Leaf,
         NEW center \in [Dims -> Int], NEW position \in [Dims -> Int],
         NEW rmin \in Int, NEW rmax \in Int, Within(l, position),
         Squared(rmin) < Apart(position, center), Apart(position, center) < Squared(rmax)
  PROVE  l \in bsp_search_sphere(b, center, rmin, rmax).leaves
<1> DEFINE N == BSP_MAX_DEPTH
           res(path) == Between(path, center, rmin, rmax)
           depth == [path \in Paths |-> Len(path)]
           height == [path \in Paths |-> N - Len(path)]
<1>1. PICK search :
         /\ \A path \in Paths : search[path] = _bsp_search_sphere(search, b, path, res(path))
         /\ bsp_search_sphere(b, center, rmin, rmax) = search[<<>>]
  BY SearchIs
<1>2. /\ N \in Nat /\ \A path \in Paths : Len(path) \in Nat /\ Len(path) <= N
      /\ depth \in [Paths -> Nat] /\ height \in [Paths -> Nat]
  <2>1. N \in Nat
    BY BspAssumption
  <2>2. \A path \in Paths : Len(path) \in Nat /\ Len(path) <= N
    BY NodeDepth
  <2> HIDE DEF N
  <2> QED BY <2>1, <2>2
<1>3. ASSUME NEW path \in Paths, b.octrants[path] # Leaf
      PROVE  /\ Len(path) < BSP_MAX_DEPTH
             /\ \A q \in Octrants : /\ Append(path, q) \in Paths
                                    /\ height[Append(path, q)] < height[path]
  <2>1. Len(path) < BSP_MAX_DEPTH
    BY <1>3 DEF TreeOK, Inner
  <2>2. ASSUME NEW q \in Octrants
        PROVE  Append(path, q) \in Paths /\ Len(Append(path, q)) = Len(path) + 1
    BY <2>1, ChildNode
  <2>3. \A q \in Octrants : height[Append(path, q)] < height[path]
    <3> HIDE DEF N
    <3> QED BY <1>2, <2>2
  <2> QED BY <2>1, <2>2, <2>3
<1>4. \A i \in DOMAIN SearchOrder : SearchOrder[i] \in Octrants
  BY SearchOrderIs
<1> HIDE DEF depth, height, N
\* A search that is over has come by a node that encloses the outer sphere.
<1> DEFINE O == {path \in Paths : search[path].res = "sphere in box" => Encloses(path, center, rmax)}
<1>5. \A path \in Paths : path \in O
  <2>1. ASSUME NEW path \in Paths, \A m \in Paths : height[m] < height[path] => m \in O,
               search[path].res = "sphere in box"
        PROVE  Encloses(path, center, rmax)
    <3>1. CASE res(path) = "none" \/ b.octrants[path] = Leaf
      <4>1. \/ search[path] = [leaves |-> {}, res |-> res(path)]
            \/ search[path] = [leaves |-> {path}, res |-> res(path)]
        <5> HIDE DEF res
        <5> QED BY <1>1, <3>1 DEF _bsp_search_sphere
      <4>2. search[path].res = res(path)
        <5> HIDE DEF res
        <5> QED BY <4>1
      <4> QED BY <2>1, <4>2, Enclosed
    <3>2. CASE res(path) # "none" /\ b.octrants[path] # Leaf
      <4> DEFINE over(i) == search[Append(path, SearchOrder[i])].res = "sphere in box"
                 searched == {i \in DOMAIN SearchOrder : \A j \in 1 .. i - 1 : ~over(j)}
      <4>1. search[path] = search_octrants(search, path)
        BY <1>1, <3>2 DEF _bsp_search_sphere
      <4>2. PICK i \in DOMAIN SearchOrder : over(i)
        <5>1. search_octrants(search, path).res =
                 IF \E i \in searched : over(i) THEN "sphere in box" ELSE "partly"
          BY DEF search_octrants
        <5>2. searched \subseteq DOMAIN SearchOrder
          OBVIOUS
        <5> HIDE DEF searched, over
        <5> QED BY <2>1, <4>1, <5>1, <5>2
      <4> DEFINE q == SearchOrder[i]
      <4>3. q \in Octrants
        BY <1>4
      <4> HIDE DEF q
      <4>4. Encloses(Append(path, q), center, rmax)
        BY <1>3, <2>1, <3>2, <4>2, <4>3 DEF q
      <4> QED BY <1>3, <3>2, <4>3, <4>4, EnclosesMore
    <3> QED BY <3>1, <3>2
  <2> HIDE DEF O
  <2>2. \A path \in Paths : (\A m \in Paths : height[m] < height[path] => m \in O) => path \in O
    BY <2>1 DEF O
  <2> QED BY <1>2, <2>2, ByRank
\* What is found in a node on the way to the leaf is found by the search.
<1> DEFINE Way(path) == /\ OnTree(b, path) /\ Within(path, position) /\ l \in search[path].leaves
           T == {path \in Paths : Way(path) => l \in search[<<>>].leaves}
<1>6. ASSUME NEW path \in Paths, path # <<>>, Way(path)
      PROVE  Way(Front(path)) /\ Front(path) \in Paths /\ depth[Front(path)] < depth[path]
  <2> DEFINE m == Front(path)
             q == Last(path)
  <2>1. m \in Paths /\ q \in Octrants /\ Append(m, q) = path /\ Len(m) = Len(path) - 1
    BY <1>6, ParentNode
  <2>2. depth[m] < depth[path]
    BY <1>2, <2>1 DEF depth
  <2>3. b.octrants[m] # Leaf /\ OnTree(b, m)
    BY <1>6, <2>1 DEF TreeOK, OnTree, Inner
  <2>4. Within(m, position)
    BY <1>6, WithinParent
  <2> HIDE DEF m, q
  <2>5. res(m) # "none"
    BY <2>1, <2>4, Nearness
  <2>6. search[m] = search_octrants(search, m)
    BY <1>1, <2>1, <2>3, <2>5 DEF _bsp_search_sphere
  <2> DEFINE child(i) == search[Append(m, SearchOrder[i])]
             over(i) == child(i).res = "sphere in box"
             searched == {i \in DOMAIN SearchOrder : \A j \in 1 .. i - 1 : ~over(j)}
             K == {i \in DOMAIN SearchOrder : SearchOrder[i] = q}
  <2>7. /\ Len(SearchOrder) \in Nat /\ DOMAIN SearchOrder = 1 .. Len(SearchOrder)
        /\ K # {} /\ K \in SUBSET Nat
    BY <2>1, SearchOrderIs
  <2>8. PICK k \in K : \A i \in K : k <= i
    <3> HIDE DEF K
    <3> QED BY <2>7, LeastNumber
  <2>9. k \in searched
    <3>1. ASSUME NEW j \in 1 .. k - 1, over(j) PROVE FALSE
      <4>1. j \in DOMAIN SearchOrder /\ SearchOrder[j] # q
        BY <2>7, <2>8
      <4>2. SearchOrder[j] \in Octrants
        BY <1>4, <4>1
      <4>3. Encloses(Append(m, SearchOrder[j]), center, rmax)
        BY <1>3, <1>5, <2>1, <2>3, <3>1, <4>2
      <4>4. Within(Append(m, q), position)
        BY <1>6, <2>1
      <4> QED BY <1>3, <2>1, <2>3, <4>1, <4>2, <4>3, <4>4, Elsewhere
    <3> HIDE DEF over
    <3> QED BY <2>8, <3>1
  <2>10. l \in child(k).leaves
    BY <1>6, <2>1, <2>8
  <2>11. search[m].leaves = UNION {child(i).leaves : i \in searched}
    <3>1. search_octrants(search, m).leaves = UNION {child(i).leaves : i \in searched}
      BY DEF search_octrants
    <3> HIDE DEF child, searched
    <3> QED BY <2>6, <3>1
  <2>12. l \in search[m].leaves
    <3> HIDE DEF child, searched
    <3> QED BY <2>9, <2>10, <2>11
  <2> QED BY <2>1, <2>2, <2>3, <2>4, <2>12 DEF m
<1>7. \A path \in Paths : path \in T
  <2>1. ASSUME NEW path \in Paths, \A m \in Paths : depth[m] < depth[path] => m \in T,
               Way(path)
        PROVE  l \in search[<<>>].leaves
    <3>1. CASE path = <<>>
      BY <2>1, <3>1
    <3>2. CASE path # <<>>
      <4>1. Way(Front(path)) /\ Front(path) \in Paths /\ depth[Front(path)] < depth[path]
        <5> HIDE DEF Way
        <5> QED BY <1>6, <2>1, <3>2
      <4> HIDE DEF Way
      <4> QED BY <2>1, <4>1
    <3> QED BY <3>1, <3>2
  <2> HIDE DEF T
  <2>2. \A path \in Paths : (\A m \in Paths : depth[m] < depth[path] => m \in T) => path \in T
    <3> HIDE DEF Way
    <3> QED BY <2>1 DEF T
  <2> QED BY <1>2, <2>2, ByRank
<1>8. Way(l) /\ l \in Paths
  <2>1. l \in Paths
    BY DEF OnTree
  <2>2. res(l) # "none"
    BY <2>1, Nearness
  <2>3. search[l] = [leaves |-> {l}, res |-> res(l)]
    BY <1>1, <2>1, <2>2 DEF _bsp_search_sphere
  <2> QED BY <2>1, <2>3
<1> QED BY <1>1, <1>7, <1>8

-----------------------------------------------------------------------------
(* The particles *)

Rockets(x) == {p \in Ids : x.ops[p] = "rocket"}
Sizes(x) == [p \in Ids |-> context_size(x.ops[p])]

\* A particle is in one list, and nothing but all of those that live is closed
\* under children and holds the top level: there is no cycle, and no orphan.
Forest(x) ==
  /\ \A o \in Owners(x) : ListOf(x, o) \in Seq(Alive(x)) /\ IsInjective(ListOf(x, o))
  /\ \A o, q \in Owners(x) : o # q => ToSet(ListOf(x, o)) \cap ToSet(ListOf(x, q)) = {}
  /\ \A S \in SUBSET Alive(x) : ToSet(x.active) \subseteq S /\ Closed(x, S) => S = Alive(x)

Particles(x) ==
  /\ x = [chunker |-> x.chunker, bsp |-> x.bsp, active |-> x.active, children |-> x.children,
          ops |-> x.ops, position |-> x.position, expired |-> x.expired, thrust |-> x.thrust,
          age |-> x.age, moved |-> x.moved, rockets |-> x.rockets]
  /\ x.active \in Seq(Ids) /\ x.children \in [Ids -> Seq(Ids)]
  /\ x.ops \in [Ids -> Kinds \cup {"none"}]
  /\ x.position \in [Ids -> [Dims -> Int]] /\ x.age \in [Ids -> Nat]
  /\ x.moved = [p \in Ids |-> x.moved[p]]
  /\ Cardinality(Alive(x)) <= MaxParticles
  /\ x.rockets = Cardinality(Rockets(x)) /\ x.rockets <= ROCKETS_MAX

WorldOK(x) ==
  /\ Particles(x)
  /\ ChunkerOK(x.chunker, x.chunker.chunk, MaxParticles + 1, Alive(x), Sizes(x), ChunkSize)
  /\ TreeOK(x.bsp, Alive(x))
  /\ \A p \in Alive(x) : ~x.moved[p] /\ InCube(x.position[p]) => Within(x.bsp.leaf[p], x.position[p])
  /\ Forest(x)

\* A walk goes down from the top level, from a particle to a child of it, and
\* its next entry in a list is another one of that list.
OwnerAt(k, i) == IF i = 1 THEN End ELSE k[i - 1].p
Entry(x, k, i) ==
  /\ OwnerAt(k, i) \in Owners(x)
  /\ k[i].next \in (ToSet(ListOf(x, OwnerAt(k, i))) \ {k[i].p}) \cup {End}
InList(x, k, i) == k[i].p \in ToSet(ListOf(x, OwnerAt(k, i)))

\* The particle of the last entry may have gone already.
Trail(x, k) ==
  /\ k \in Seq([p : Ids, next : Ids \cup {End}])
  /\ \A i \in 1 .. Len(k) : Entry(x, k, i) /\ (i # Len(k) => InList(x, k, i))
  /\ \A i, j \in 1 .. Len(k) : k[i].p = k[j].p => i = j
WalkOK(x, k) == Trail(x, k) /\ \A i \in 1 .. Len(k) : InList(x, k, i)

\* The inductive invariant.
IInv ==
  /\ WorldOK(w) /\ WalkOK(w, walk)
  /\ rockets_cnt = w.rockets
  /\ phase \in {"none", "frame", "sim"} /\ (phase # "sim" => walk = <<>>)
  /\ (phase = "none" => w = particles_new)

\* What the code allocates fits a chunk, and there are chunks enough.
LEMMA Sizable ==
  /\ MaxParticles + 1 \in Nat /\ ChunkSize \in Nat /\ Cardinality(Chunks) = MaxParticles + 1
  /\ \A ops : Fits(context_size(ops), ChunkSize)
  /\ End \notin Ids /\ IsFiniteSet(Ids)
<1>1. /\ MaxParticles + 1 \in Nat /\ ChunkSize \in Nat /\ ChunkSize >= 2
  BY SparklerAssumption
<1>2. \A ops : Fits(context_size(ops), ChunkSize)
  BY <1>1 DEF Fits, context_size
<1>3. Cardinality(Chunks) = MaxParticles + 1 /\ IsFiniteSet(Chunks)
  BY <1>1, FS_Interval DEF Chunks
<1>4. End \notin Ids
  BY DEF End, Ids
<1>5. IsFiniteSet(Ids)
  <2>1. IsFiniteSet(0 .. ChunkSize - 1)
    BY <1>1, FS_Interval
  <2> QED BY <1>3, <2>1, FS_Product DEF Ids
<1> QED BY <1>1, <1>2, <1>3, <1>4, <1>5

\* The successor of an entry is one of the same list.
LEMMA NextIn ==
  ASSUME NEW x, Forest(x), NEW o \in Owners(x), NEW p \in ToSet(ListOf(x, o))
  PROVE  NextOf(x, p) \in (ToSet(ListOf(x, o)) \ {p}) \cup {End}
<1> DEFINE owner == CHOOSE q \in Owners(x) : p \in ToSet(ListOf(x, q))
           list == ListOf(x, owner)
           n == Len(list)
           i == CHOOSE j \in 1 .. n : list[j] = p
<1>1. owner \in Owners(x) /\ p \in ToSet(ListOf(x, owner))
  OBVIOUS
<1>2. owner = o
  <2> HIDE DEF owner
  <2> QED BY <1>1 DEF Forest
<1>3. list \in Seq(Alive(x)) /\ IsInjective(list) /\ n \in Nat
  <2>1. list \in Seq(Alive(x)) /\ IsInjective(list)
    BY <1>1 DEF Forest
  <2> HIDE DEF list
  <2> QED BY <2>1
<1>4. NextOf(x, p) = IF i = n THEN End ELSE list[i + 1]
  BY DEF NextOf
<1> HIDE DEF owner
<1>5. p \in ToSet(list)
  BY <1>1
<1>6. ListOf(x, o) = list
  BY <1>2
<1> HIDE DEF list
<1>7. i \in 1 .. n /\ list[i] = p
  <2>1. \E j \in 1 .. n : list[j] = p
    BY <1>3, <1>5, Entries
  <2> QED BY <2>1
<1> HIDE DEF i
<1>8. CASE i # n
  <2>1. i + 1 \in 1 .. n /\ i + 1 # i
    BY <1>3, <1>7, <1>8
  <2>2. list[i + 1] \in ToSet(list) /\ list[i + 1] # p
    BY <1>3, <1>7, <2>1, Entries
  <2> QED BY <1>4, <1>6, <1>8, <2>2
<1>9. CASE i = n
  BY <1>4, <1>9
<1> QED BY <1>8, <1>9

\* y is x with the particle p added to the list of its parent.
Joins(x, y, p, parent, ops) ==
  /\ y.active = IF parent = End THEN <<p>> \o x.active ELSE x.active
  /\ y.children = [q \in Ids |-> IF q = p THEN <<>> ELSE
                                 IF q = parent THEN <<p>> \o x.children[q] ELSE x.children[q]]
  /\ y.ops = [q \in Ids |-> IF q = p THEN ops ELSE x.ops[q]]

\* Nothing has left its list.
Grown(x, y) ==
  \A o \in Owners(x) : o \in Owners(y) /\ ToSet(ListOf(x, o)) \subseteq ToSet(ListOf(y, o))

\* Nobody has gone, changed or grown older.
Kept(x, y) == \A p \in Alive(x) : y.ops[p] = x.ops[p] /\ y.age[p] = x.age[p]

\* A new particle, first in a list and without children, keeps the forest one.
LEMMA JoinsKeeps ==
  ASSUME NEW x, NEW y, Forest(x), NEW p \in Ids, p \notin Alive(x), NEW parent \in Owners(x),
         NEW ops \in Kinds, Joins(x, y, p, parent, ops)
  PROVE  Alive(y) = Alive(x) \cup {p} /\ Forest(y) /\ Grown(x, y)
<1>1. End \notin Ids /\ Alive(x) \subseteq Ids /\ parent # p /\ ops # "none" /\ p # End
  BY Sizable DEF Owners, Alive, Kinds
<1>2. Alive(y) = Alive(x) \cup {p} /\ Owners(y) = Owners(x) \cup {p}
  BY <1>1 DEF Joins, Alive, Owners
<1>3. ListOf(y, p) = <<>>
  BY <1>1 DEF Joins, ListOf
<1>4. ListOf(y, parent) = <<p>> \o ListOf(x, parent)
  <2>1. CASE parent = End
    BY <2>1 DEF Joins, ListOf
  <2>2. CASE parent # End
    <3>1. parent \in Ids
      BY <1>1, <2>2 DEF Owners
    <3> QED BY <1>1, <2>2, <3>1 DEF Joins, ListOf
  <2> QED BY <2>1, <2>2
<1>5. ASSUME NEW o \in Owners(x), o # parent PROVE ListOf(y, o) = ListOf(x, o)
  <2>1. CASE o = End
    BY <1>5, <2>1 DEF Joins, ListOf
  <2>2. CASE o # End
    <3>1. o \in Ids /\ o # p
      BY <1>1, <2>2 DEF Owners
    <3> QED BY <1>5, <2>2, <3>1 DEF Joins, ListOf
  <2> QED BY <2>1, <2>2
<1>6. \A o \in Owners(x) : /\ ListOf(x, o) \in Seq(Alive(x)) /\ IsInjective(ListOf(x, o))
                           /\ ToSet(ListOf(x, o)) \subseteq Alive(x)
  BY Entries DEF Forest
<1>7. <<>> \in Seq(Alive(y)) /\ IsInjective(<<>>) /\ ToSet(<<>>) = {}
  BY DEF IsInjective, ToSet
<1>8. /\ ListOf(y, parent) \in Seq(Alive(y)) /\ IsInjective(ListOf(y, parent))
      /\ ToSet(ListOf(y, parent)) = {p} \cup ToSet(ListOf(x, parent))
  <2> DEFINE old == ListOf(x, parent)
  <2>1. old \in Seq(Alive(x)) /\ IsInjective(old) /\ p \notin ToSet(old)
    BY <1>1, <1>6
  <2> HIDE DEF old
  <2>2. old \in Seq(Alive(y)) /\ p \in Alive(y)
    BY <1>2, <2>1
  <2> QED BY <1>4, <2>1, <2>2, Pushed DEF old
<1>9. \A o \in Owners(x) : o # parent => /\ ListOf(y, o) \in Seq(Alive(y)) /\ IsInjective(ListOf(y, o))
                                         /\ ToSet(ListOf(y, o)) = ToSet(ListOf(x, o))
  BY <1>2, <1>5, <1>6
<1>10. \A o \in Owners(y) : ListOf(y, o) \in Seq(Alive(y)) /\ IsInjective(ListOf(y, o))
  BY <1>2, <1>3, <1>7, <1>8, <1>9
<1>11. \A o, q \in Owners(y) : o # q => ToSet(ListOf(y, o)) \cap ToSet(ListOf(y, q)) = {}
  <2>1. \A o, q \in Owners(x) : o # q => ToSet(ListOf(x, o)) \cap ToSet(ListOf(x, q)) = {}
    BY DEF Forest
  <2>2. \A o \in Owners(x) : p \notin ToSet(ListOf(x, o))
    BY <1>1, <1>6
  <2>3. \A o, q \in Owners(x) : o # q => ToSet(ListOf(y, o)) \cap ToSet(ListOf(y, q)) = {}
    BY <1>8, <1>9, <2>1, <2>2
  <2>4. ToSet(ListOf(y, p)) = {}
    BY <1>3, <1>7
  <2> QED BY <1>2, <2>3, <2>4
<1>12. Grown(x, y)
  BY <1>2, <1>8, <1>9 DEF Grown
<1>13. ASSUME NEW S \in SUBSET Alive(y), ToSet(y.active) \subseteq S, Closed(y, S) PROVE S = Alive(y)
  <2> DEFINE R == S \ {p}
  <2>1. End \in Owners(x) /\ ListOf(x, End) = x.active /\ ListOf(y, End) = y.active
    BY DEF Owners, ListOf
  <2>2. R \in SUBSET Alive(x)
    BY <1>2
  <2>3. ToSet(x.active) \subseteq R
    BY <1>1, <1>6, <1>12, <1>13, <2>1 DEF Grown
  <2>4. ASSUME NEW q \in R PROVE ToSet(x.children[q]) \subseteq R
    <3>1. q \in Owners(x) /\ q # End /\ q \in S
      BY <1>1, <2>2 DEF Owners
    <3>2. ListOf(x, q) = x.children[q] /\ ListOf(y, q) = y.children[q]
      BY <3>1 DEF ListOf
    <3>3. ToSet(y.children[q]) \subseteq S
      BY <1>13, <3>1 DEF Closed
    <3>4. ToSet(ListOf(x, q)) \subseteq ToSet(ListOf(y, q)) /\ p \notin ToSet(ListOf(x, q))
      BY <1>1, <1>6, <1>12, <3>1 DEF Grown
    <3> QED BY <3>2, <3>3, <3>4
  <2>5. R = Alive(x)
    <3> HIDE DEF R
    <3>1. Closed(x, R)
      BY <2>4 DEF Closed
    <3> QED BY <2>2, <2>3, <3>1 DEF Forest
  <2>6. p \in S
    <3>1. p \in ToSet(ListOf(y, parent))
      BY <1>8
    <3>2. CASE parent = End
      BY <1>13, <2>1, <3>1, <3>2
    <3>3. CASE parent # End
      <4>1. parent \in S /\ ListOf(y, parent) = y.children[parent]
        BY <2>5, <3>3 DEF Owners, ListOf
      <4> QED BY <1>13, <3>1, <4>1 DEF Closed
    <3> QED BY <3>2, <3>3
  <2> QED BY <1>2, <2>5, <2>6
<1>14. Forest(y)
  BY <1>10, <1>11, <1>13 DEF Forest
<1> QED BY <1>2, <1>12, <1>14

\* y is x without the particle p, whose children are the top level's.
Leaves(x, y, p) ==
  /\ y.active = x.children[p] \o Unlinked(x.active, p)
  /\ y.children = [q \in Ids |-> IF q = p THEN <<>> ELSE Unlinked(x.children[q], p)]
  /\ y.ops = [q \in Ids |-> IF q = p THEN "none" ELSE x.ops[q]]

\* A particle that goes leaves its children to the top level.
LEMMA LeavesKeeps ==
  ASSUME NEW x, NEW y, Forest(x), NEW p \in Alive(x), Leaves(x, y, p)
  PROVE  /\ Alive(y) = Alive(x) \ {p} /\ Forest(y)
         /\ \A o \in Owners(x) : o # p => /\ o \in Owners(y)
                                          /\ ToSet(ListOf(x, o)) \ {p} \subseteq ToSet(ListOf(y, o))
<1>1. End \notin Ids /\ Alive(x) \subseteq Ids /\ p # End /\ p \in Ids
  BY Sizable DEF Alive
<1>2. Alive(y) = Alive(x) \ {p} /\ Owners(y) = Owners(x) \ {p}
  BY <1>1 DEF Leaves, Alive, Owners
<1>3. \A o \in Owners(x) : /\ ListOf(x, o) \in Seq(Alive(x)) /\ IsInjective(ListOf(x, o))
                           /\ ToSet(ListOf(x, o)) \subseteq Alive(x)
  BY Entries DEF Forest
<1>4. \A o, q \in Owners(x) : o # q => ToSet(ListOf(x, o)) \cap ToSet(ListOf(x, q)) = {}
  BY DEF Forest
<1>5. /\ End \in Owners(x) /\ ListOf(x, End) = x.active /\ ListOf(y, End) = y.active
      /\ p \in Owners(x) /\ ListOf(x, p) = x.children[p]
      /\ \A q \in Alive(x) : q \in Owners(x) /\ ListOf(x, q) = x.children[q] /\ ListOf(y, q) = y.children[q]
  BY <1>1 DEF Owners, ListOf
<1>6. p \notin ToSet(x.children[p])
  <2> SUFFICES ASSUME p \in ToSet(x.children[p]) PROVE FALSE
    OBVIOUS
  <2> DEFINE S == Alive(x) \ {p}
  <2>1. \A o \in Owners(x) : o # p => p \notin ToSet(ListOf(x, o))
    BY <1>4, <1>5
  <2>2. ToSet(x.active) \subseteq S
    BY <1>1, <1>3, <1>5, <2>1
  <2>3. Closed(x, S)
    BY <1>3, <1>5, <2>1 DEF Closed
  <2>4. S = Alive(x)
    <3> HIDE DEF S
    <3>1. S \in SUBSET Alive(x)
      BY DEF S
    <3> QED BY <2>2, <2>3, <3>1 DEF Forest
  <2> QED BY <2>4
<1>7. \A o \in Owners(x) :
         /\ Unlinked(ListOf(x, o), p) \in Seq(Alive(x)) /\ IsInjective(Unlinked(ListOf(x, o), p))
         /\ ToSet(Unlinked(ListOf(x, o), p)) = ToSet(ListOf(x, o)) \ {p}
  BY <1>3, UnlinkedIs
<1>8. ASSUME NEW list \in Seq(Alive(x)), p \notin ToSet(list) PROVE list \in Seq(Alive(y))
  <2>1. /\ \A i \in 1 .. Len(list) : list[i] \in Alive(y)
        /\ list = [i \in 1 .. Len(list) |-> list[i]] /\ Len(list) \in Nat
    BY <1>2, <1>8, Entries
  <2> QED BY <2>1
<1>9. ASSUME NEW o \in Owners(y), o # End
      PROVE  /\ ListOf(y, o) \in Seq(Alive(y)) /\ IsInjective(ListOf(y, o))
             /\ ToSet(ListOf(y, o)) = ToSet(ListOf(x, o)) \ {p} /\ o \in Owners(x) /\ o # p
  <2>1. o \in Alive(x) /\ o # p /\ o \in Ids
    BY <1>1, <1>2, <1>9 DEF Owners
  <2>2. ListOf(y, o) = Unlinked(ListOf(x, o), p)
    <3>1. y.children[o] = Unlinked(x.children[o], p)
      BY <2>1 DEF Leaves
    <3> QED BY <1>5, <2>1, <3>1
  <2>3. p \notin ToSet(ListOf(y, o))
    BY <1>5, <1>7, <2>1, <2>2
  <2> QED BY <1>5, <1>7, <1>8, <2>1, <2>2, <2>3
<1>10. /\ y.active \in Seq(Alive(y)) /\ IsInjective(y.active)
       /\ ToSet(y.active) = ToSet(x.children[p]) \cup (ToSet(x.active) \ {p})
  <2> DEFINE one == x.children[p]
             two == Unlinked(x.active, p)
  <2>1. /\ one \in Seq(Alive(x)) /\ IsInjective(one) /\ p \notin ToSet(one)
        /\ two \in Seq(Alive(x)) /\ IsInjective(two) /\ ToSet(two) = ToSet(x.active) \ {p}
        /\ ToSet(one) \cap ToSet(two) = {}
    BY <1>1, <1>3, <1>4, <1>5, <1>6, <1>7
  <2> HIDE DEF one, two
  <2>2. one \in Seq(Alive(y)) /\ two \in Seq(Alive(y))
    BY <1>8, <2>1
  <2>3. y.active = one \o two
    BY DEF Leaves, one, two
  <2> QED BY <2>1, <2>2, <2>3, Joined DEF one
<1>11. \A o \in Owners(y) : ListOf(y, o) \in Seq(Alive(y)) /\ IsInjective(ListOf(y, o))
  BY <1>5, <1>9, <1>10
<1>12. \A o, q \in Owners(y) : o # q => ToSet(ListOf(y, o)) \cap ToSet(ListOf(y, q)) = {}
  <2>1. ASSUME NEW o \in Owners(y), o # End PROVE ToSet(ListOf(y, o)) \cap ToSet(ListOf(y, End)) = {}
    <3>1. /\ o \in Owners(x) /\ o # p /\ ToSet(ListOf(y, o)) \subseteq ToSet(ListOf(x, o))
      BY <1>9, <2>1
    <3>2. /\ ToSet(ListOf(x, o)) \cap ToSet(x.children[p]) = {}
          /\ ToSet(ListOf(x, o)) \cap ToSet(x.active) = {}
      BY <1>4, <1>5, <2>1, <3>1
    <3> QED BY <1>5, <1>10, <3>1, <3>2
  <2>2. ASSUME NEW o \in Owners(y), NEW q \in Owners(y), o # q, o # End, q # End
        PROVE  ToSet(ListOf(y, o)) \cap ToSet(ListOf(y, q)) = {}
    BY <1>4, <1>9, <2>2
  <2> QED BY <2>1, <2>2
<1>13. ASSUME NEW S \in SUBSET Alive(y), ToSet(y.active) \subseteq S, Closed(y, S) PROVE S = Alive(y)
  <2> DEFINE R == S \cup {p}
  <2>1. R \in SUBSET Alive(x) /\ p \notin S
    BY <1>2
  <2>2. ToSet(x.active) \subseteq R
    BY <1>10, <1>13
  <2>3. ASSUME NEW q \in R PROVE ToSet(x.children[q]) \subseteq R
    <3>1. CASE q = p
      BY <1>10, <1>13, <3>1
    <3>2. CASE q # p
      <4>1. q \in S /\ q \in Alive(x) /\ q \in Owners(y) /\ q # End
        BY <1>1, <1>2, <2>1, <3>2 DEF Owners
      <4>2. ToSet(y.children[q]) = ToSet(x.children[q]) \ {p}
        BY <1>5, <1>9, <4>1
      <4>3. ToSet(y.children[q]) \subseteq S
        BY <1>13, <4>1 DEF Closed
      <4> QED BY <4>2, <4>3
    <3> QED BY <3>1, <3>2
  <2>4. R = Alive(x)
    <3> HIDE DEF R
    <3>1. Closed(x, R)
      BY <2>3 DEF Closed
    <3> QED BY <2>1, <2>2, <3>1 DEF Forest
  <2> QED BY <1>2, <2>1, <2>4
<1>14. Forest(y)
  BY <1>11, <1>12, <1>13 DEF Forest
<1>15. ASSUME NEW o \in Owners(x), o # p
       PROVE  o \in Owners(y) /\ ToSet(ListOf(x, o)) \ {p} \subseteq ToSet(ListOf(y, o))
  <2>1. o \in Owners(y)
    BY <1>2, <1>15
  <2>2. CASE o = End
    BY <1>5, <1>10, <2>1, <2>2
  <2>3. CASE o # End
    BY <1>9, <2>1, <2>3
  <2> QED BY <2>1, <2>2, <2>3
<1> QED BY <1>2, <1>14, <1>15

\* Only the sizes of what is live count.
LEMMA SameSizes ==
  ASSUME NEW k, NEW own, NEW N, NEW live, NEW sz, NEW room, ChunkerOK(k, own, N, live, sz, room),
         NEW sz2, \A m \in live : sz2[m] = sz[m]
  PROVE  ChunkerOK(k, own, N, live, sz2, room)
BY DEF ChunkerOK

\* What a particle is given is an address that no other has.
LEMMA Given ==
  ASSUME NEW x, WorldOK(x), NEW n, Fits(n, ChunkSize)
  PROVE  LET a == chunker_alloc(x.chunker, n, ChunkSize) IN
         /\ a.mem \in Ids /\ a.mem \notin Alive(x)
         /\ \A sz2 : Sized(sz2, Sizes(x), Alive(x), a.mem, n)
               => ChunkerOK(a.chunker, a.chunker.chunk, MaxParticles + 1, Alive(x) \cup {a.mem}, sz2, ChunkSize)
<1> DEFINE k == x.chunker
           N == MaxParticles + 1
           live == Alive(x)
           sz == Sizes(x)
           a == chunker_alloc(k, n, ChunkSize)
<1>1. /\ ChunkerOK(k, k.chunk, N, live, sz, ChunkSize) /\ Cardinality(live) < N
      /\ N \in Nat /\ ChunkSize \in Nat /\ n \in 1 .. ChunkSize
  <2>1. Cardinality(live) <= MaxParticles /\ ChunkerOK(k, k.chunk, N, live, sz, ChunkSize)
    BY DEF WorldOK, Particles
  <2>2. Cardinality(live) \in Nat
    BY <2>1, FS_CardinalityType DEF ChunkerOK
  <2> HIDE DEF live, k, sz
  <2>3. MaxParticles \in Nat
    BY SparklerAssumption
  <2> QED BY <2>1, <2>2, <2>3, Sizable DEF Fits
<1>2. a.mem \in (1 .. N) \X (0 .. ChunkSize - 1) => a.mem \in Ids
  BY DEF Ids, Chunks
<1> HIDE DEF N, live, sz, k
<1>3. /\ a.mem \in (1 .. N) \X (0 .. ChunkSize - n) /\ a.mem \notin live
      /\ \A sz2 : Sized(sz2, sz, live, a.mem, n)
               => ChunkerOK(a.chunker, a.chunker.chunk, N, live \cup {a.mem}, sz2, ChunkSize)
  BY <1>1, AllocKeeps
<1> HIDE DEF a
<1>4. a.mem \in (1 .. N) \X (0 .. ChunkSize - 1)
  BY <1>1, <1>3
<1> QED BY <1>2, <1>3, <1>4 DEF a, k, N, live, sz

\* One that fails to initialise is freed at once.
LEMMA Refused ==
  ASSUME NEW x, WorldOK(x), NEW n, Fits(n, ChunkSize)
  PROVE  LET a == chunker_alloc(x.chunker, n, ChunkSize)
             y == [x EXCEPT !.chunker = chunker_free(a.chunker, a.mem)]
         IN  WorldOK(y) /\ Grown(x, y) /\ Kept(x, y)
<1> DEFINE a == chunker_alloc(x.chunker, n, ChunkSize)
           p == a.mem
           k == chunker_free(a.chunker, p)
           y == [x EXCEPT !.chunker = k]
           N == MaxParticles + 1
           live == Alive(x)
           sz2 == [q \in Ids |-> IF q = p THEN n ELSE Sizes(x)[q]]
<1>1. /\ p \in Ids /\ p \notin live
      /\ ChunkerOK(a.chunker, a.chunker.chunk, N, live \cup {p}, sz2, ChunkSize)
  <2> HIDE DEF a
  <2>1. p \in Ids /\ p \notin live
    BY Given DEF a
  <2>2. Sized(sz2, Sizes(x), live, p, n)
    BY <2>1 DEF Sized, Alive
  <2> HIDE DEF sz2
  <2> QED BY <2>1, <2>2, Given DEF a
<1> HIDE DEF a
<1>2. ChunkerOK(k, k.chunk, N, live, Sizes(x), ChunkSize)
  <2>1. N \in Nat /\ ChunkSize \in Nat /\ p \in live \cup {p} /\ (live \cup {p}) \ {p} = live
    BY <1>1, Sizable
  <2>2. \A m \in live : sz2[m] = Sizes(x)[m]
    BY <1>1 DEF Alive
  <2> DEFINE more == live \cup {p}
  <2>3. ChunkerOK(a.chunker, a.chunker.chunk, N, more, sz2, ChunkSize) /\ p \in more /\ more \ {p} = live
    BY <1>1, <2>1
  <2> HIDE DEF N, sz2, live, more, p, k
  <2>4. ChunkerOK(k, k.chunk, N, live, sz2, ChunkSize)
    BY <2>1, <2>3, FreeKeeps DEF k
  <2> QED BY <2>2, <2>4, SameSizes
<1>3. /\ y = [chunker |-> y.chunker, bsp |-> y.bsp, active |-> y.active, children |-> y.children,
              ops |-> y.ops, position |-> y.position, expired |-> y.expired, thrust |-> y.thrust,
              age |-> y.age, moved |-> y.moved, rockets |-> y.rockets]
      /\ y.chunker = k /\ y.bsp = x.bsp /\ y.active = x.active /\ y.children = x.children
      /\ y.ops = x.ops /\ y.position = x.position /\ y.moved = x.moved /\ y.rockets = x.rockets
      /\ y.age = x.age
  <2>1. y = [x EXCEPT !.chunker = k]
    OBVIOUS
  <2>2. x = [chunker |-> x.chunker, bsp |-> x.bsp, active |-> x.active, children |-> x.children,
             ops |-> x.ops, position |-> x.position, expired |-> x.expired, thrust |-> x.thrust,
             age |-> x.age, moved |-> x.moved, rockets |-> x.rockets]
    BY DEF WorldOK, Particles
  <2> HIDE DEF k, y
  <2> QED BY <2>1, <2>2
<1> HIDE DEF y, k
<1>4. /\ Alive(y) = Alive(x) /\ Owners(y) = Owners(x) /\ Sizes(y) = Sizes(x) /\ Rockets(y) = Rockets(x)
      /\ \A o : ListOf(y, o) = ListOf(x, o)
      /\ \A S : Closed(y, S) <=> Closed(x, S)
  BY <1>3 DEF Alive, Owners, Sizes, Rockets, ListOf, Closed
<1>5. Particles(y)
  BY <1>3, <1>4 DEF WorldOK, Particles
<1>6. Forest(y)
  BY <1>3, <1>4 DEF WorldOK, Forest
<1>7. WorldOK(y)
  BY <1>2, <1>3, <1>4, <1>5, <1>6 DEF WorldOK
<1>8. Grown(x, y)
  BY <1>4 DEF Grown
<1>9. Kept(x, y)
  BY <1>3 DEF Kept
<1> QED BY <1>3, <1>7, <1>8, <1>9 DEF y, k, a

\* One that is added is in the list of its parent and in its leaf's volume.
LEMMA Admitted ==
  ASSUME NEW x, WorldOK(x), NEW parent \in Owners(x), NEW ops \in Kinds,
         NEW position \in [Dims -> Int],
         particle_init(x, ops), Cardinality(Alive(x)) # MaxParticles
  PROVE  LET y == _particles_add_particle(x, parent, ops, position) IN
         WorldOK(y) /\ Grown(x, y) /\ Kept(x, y)
<1> DEFINE n == context_size(ops)
           a == chunker_alloc(x.chunker, n, ChunkSize)
           p == a.mem
           k == a.chunker
           live == Alive(x)
           positions == [x.position EXCEPT ![p] = position]
           b == bsp_add_occupant(x.bsp, p, positions)
           active == IF parent = End THEN <<p>> \o x.active ELSE x.active
           children == [q \in Ids |-> IF q = p THEN <<>> ELSE
                                      IF q = parent THEN <<p>> \o x.children[q] ELSE x.children[q]]
           moved == [x.moved EXCEPT ![p] = FALSE]
           opsOf == [x.ops EXCEPT ![p] = ops]
           rockets == IF ops = "rocket" THEN x.rockets + 1 ELSE x.rockets
           expired == [x.expired EXCEPT ![p] = FALSE]
           thrust == [x.thrust EXCEPT ![p] = FALSE]
           age == [x.age EXCEPT ![p] = 0]
           y == _particles_add_particle(x, parent, ops, position)
<1>2. /\ x = [chunker |-> x.chunker, bsp |-> x.bsp, active |-> x.active, children |-> x.children,
              ops |-> x.ops, position |-> x.position, expired |-> x.expired, thrust |-> x.thrust,
              age |-> x.age, moved |-> x.moved, rockets |-> x.rockets]
      /\ x.active \in Seq(Ids) /\ x.children \in [Ids -> Seq(Ids)]
      /\ x.ops \in [Ids -> Kinds \cup {"none"}]
      /\ x.position \in [Ids -> [Dims -> Int]] /\ x.age \in [Ids -> Nat]
      /\ x.moved = [q \in Ids |-> x.moved[q]]
      /\ Cardinality(live) <= MaxParticles
      /\ x.rockets = Cardinality(Rockets(x)) /\ x.rockets <= ROCKETS_MAX
  BY DEF WorldOK, Particles
<1>1. y = [x EXCEPT !.chunker = k, !.bsp = b, !.position = positions, !.moved = moved, !.ops = opsOf,
               !.expired = expired, !.thrust = thrust, !.age = age, !.rockets = rockets,
               !.active = active, !.children = children]
  <2> DEFINE e == [x EXCEPT !.chunker = k, !.bsp = b, !.position = positions,
                     !.moved[p] = FALSE,
                     !.ops[p] = ops, !.expired[p] = FALSE, !.thrust[p] = FALSE, !.age[p] = 0,
                     !.rockets = IF ops = "rocket" THEN @ + 1 ELSE @,
                     !.active = IF parent = End THEN <<p>> \o @ ELSE @,
                     !.children = children]
  <2>1. y = e
    <3>1. y = IF ~particle_init(x, ops) THEN [x EXCEPT !.chunker = chunker_free(k, p)]
              ELSE IF Cardinality(Alive(x)) = MaxParticles THEN x ELSE e
      BY DEF _particles_add_particle, Placed
    <3> HIDE DEF e, y
    <3> QED BY <3>1
  <2>2. e = [x EXCEPT !.chunker = k, !.bsp = b, !.position = positions, !.moved = moved, !.ops = opsOf,
                      !.expired = expired, !.thrust = thrust, !.age = age, !.rockets = rockets,
                      !.active = active, !.children = children]
    <3> HIDE DEF k, p, b, positions
    <3> QED BY <1>2
  <2> QED BY <2>1, <2>2
<1>3. TreeOK(x.bsp, live) /\ Forest(x) /\ IsFiniteSet(live)
      /\ \A q \in live : ~x.moved[q] /\ InCube(x.position[q]) => Within(x.bsp.leaf[q], x.position[q])
  BY DEF WorldOK, ChunkerOK
<1>4. /\ p \in Ids /\ p \notin live
      /\ \A sz2 : Sized(sz2, Sizes(x), live, p, n)
               => ChunkerOK(k, k.chunk, MaxParticles + 1, live \cup {p}, sz2, ChunkSize)
  <2>1. Fits(n, ChunkSize)
    BY Sizable
  <2> HIDE DEF n
  <2> QED BY <2>1, Given
<1> HIDE DEF a, k, p
<1> USE DEF live
<1>5. live \subseteq Ids /\ parent # p /\ End \notin Ids /\ p # End /\ ops # "none"
  BY <1>4, Sizable DEF Alive, Owners, Kinds
<1>6. /\ y = [chunker |-> y.chunker, bsp |-> y.bsp, active |-> y.active, children |-> y.children,
              ops |-> y.ops, position |-> y.position, expired |-> y.expired, thrust |-> y.thrust,
              age |-> y.age, moved |-> y.moved, rockets |-> y.rockets]
      /\ y.chunker = k /\ y.bsp = b /\ y.active = active /\ y.children = children
      /\ y.ops = opsOf /\ y.position = positions /\ y.moved = moved /\ y.rockets = rockets
      /\ y.age = age
  <2> HIDE DEF y, k, b, active, children, opsOf, positions, moved, rockets, expired, thrust, age
  <2> QED BY <1>1, <1>2
<1> HIDE DEF y, b
<1>7. Joins(x, y, p, parent, ops)
  <2>1. y.ops = [q \in Ids |-> IF q = p THEN ops ELSE x.ops[q]]
    BY <1>2, <1>4, <1>6
  <2> QED BY <1>6, <2>1 DEF Joins
<1>8. Alive(y) = live \cup {p} /\ Forest(y) /\ Grown(x, y)
  BY <1>3, <1>4, <1>7, JoinsKeeps
<1>9. \A q \in Ids : y.ops[q] = IF q = p THEN ops ELSE x.ops[q]
  BY <1>7 DEF Joins
<1>10. ChunkerOK(y.chunker, y.chunker.chunk, MaxParticles + 1, Alive(y), Sizes(y), ChunkSize)
  <2>1. Sized(Sizes(y), Sizes(x), live, p, n)
    <3>1. Sizes(y)[p] = n
      BY <1>4, <1>9 DEF Sizes
    <3>2. \A m \in live : Sizes(y)[m] = Sizes(x)[m]
      BY <1>4, <1>5, <1>9 DEF Sizes
    <3> HIDE DEF n
    <3> QED BY <3>1, <3>2 DEF Sized
  <2> HIDE DEF n
  <2> QED BY <1>4, <1>6, <1>8, <2>1
<1>11. /\ TreeOK(y.bsp, Alive(y))
       /\ (InCube(y.position[p]) => Within(y.bsp.leaf[p], y.position[p]))
       /\ \A q \in live : Within(x.bsp.leaf[q], y.position[q]) => Within(y.bsp.leaf[q], y.position[q])
  <2> DEFINE places == y.position
             old == x.bsp
             s == bsp_add_occupant(old, p, places)
  <2>1. live \in SUBSET Ids /\ p \in Ids /\ p \notin live /\ TreeOK(old, live)
    BY <1>3, <1>4, <1>5
  <2>2. y.bsp = s /\ Alive(y) = live \cup {p}
    BY <1>6, <1>8 DEF b
  <2> HIDE DEF live, places, old
  <2>3. /\ TreeOK(s, live \cup {p})
        /\ (InCube(places[p]) => Within(s.leaf[p], places[p]))
        /\ \A q \in live : Within(old.leaf[q], places[q]) => Within(s.leaf[q], places[q])
    BY <2>1, AddKeeps
  <2> HIDE DEF s
  <2> QED BY <2>2, <2>3 DEF places, old
<1>12. \A q \in Alive(y) : ~y.moved[q] /\ InCube(y.position[q]) => Within(y.bsp.leaf[q], y.position[q])
  <2>1. ASSUME NEW q \in live, ~y.moved[q], InCube(y.position[q])
        PROVE  Within(y.bsp.leaf[q], y.position[q])
    <3>1. q \in Ids /\ q # p
      BY <1>4, <1>5
    <3>2. y.moved[q] = x.moved[q] /\ y.position[q] = x.position[q]
      BY <1>2, <1>4, <1>6, <3>1
    <3> QED BY <1>3, <1>11, <2>1, <3>2
  <2> QED BY <1>8, <1>11, <2>1
<1>13. y.rockets = Cardinality(Rockets(y)) /\ y.rockets <= ROCKETS_MAX
  <2>1. IsFiniteSet(Rockets(x)) /\ Cardinality(Rockets(x)) \in Nat /\ p \notin Rockets(x)
    <3>1. Rockets(x) \in SUBSET Ids
      BY DEF Rockets
    <3>2. p \notin Rockets(x)
      BY <1>4 DEF Rockets, Alive
    <3> QED BY <3>1, <3>2, Sizable, FS_Subset, FS_CardinalityType
  <2>2. CASE ops = "rocket"
    <3>1. Rockets(y) = Rockets(x) \cup {p}
      BY <1>4, <1>9, <2>2 DEF Rockets
    <3>2. x.rockets < ROCKETS_MAX /\ y.rockets = x.rockets + 1 /\ ROCKETS_MAX \in Nat
      BY <1>6, <2>2, SparklerAssumption DEF particle_init
    <3>3. Cardinality(Rockets(x) \cup {p}) = Cardinality(Rockets(x)) + 1
      BY <2>1, FS_AddElement
    <3> QED BY <1>2, <2>1, <3>1, <3>2, <3>3
  <2>3. CASE ops # "rocket"
    <3>1. Rockets(y) = Rockets(x)
      BY <1>4, <1>9, <2>1, <2>3 DEF Rockets
    <3> QED BY <1>2, <1>6, <2>3, <3>1
  <2> QED BY <2>2, <2>3
<1>14. Cardinality(Alive(y)) <= MaxParticles
  <2>1. Cardinality(Alive(y)) = Cardinality(live) + 1 /\ Cardinality(live) \in Nat
    <3> HIDE DEF live
    <3> QED BY <1>3, <1>4, <1>8, FS_AddElement, FS_CardinalityType
  <2>2. MaxParticles \in Nat
    BY SparklerAssumption
  <2> QED BY <1>2, <2>1, <2>2
<1>15. y.active \in Seq(Ids) /\ y.children \in [Ids -> Seq(Ids)]
  <2>1. active \in Seq(Ids)
    BY <1>2, <1>4, Pushed
  <2>2. \A q \in Ids : x.children[q] \in Seq(Ids) /\ <<p>> \o x.children[q] \in Seq(Ids)
    BY <1>2, <1>4, Pushed
  <2>3. <<>> \in Seq(Ids)
    OBVIOUS
  <2>4. /\ y.children = [q \in Ids |-> y.children[q]]
        /\ \A q \in Ids : y.children[q] \in {<<>>, x.children[q], <<p>> \o x.children[q]}
    BY <1>7 DEF Joins
  <2>5. \A q \in Ids : y.children[q] \in Seq(Ids)
    BY <2>2, <2>3, <2>4
  <2>6. y.active \in Seq(Ids)
    BY <1>6, <2>1
  <2> QED BY <2>4, <2>5, <2>6
<1>16. /\ y.ops \in [Ids -> Kinds \cup {"none"}]
       /\ y.position \in [Ids -> [Dims -> Int]] /\ y.age \in [Ids -> Nat]
       /\ y.moved = [q \in Ids |-> y.moved[q]]
  <2>1. y.ops = [q \in Ids |-> y.ops[q]] /\ \A q \in Ids : y.ops[q] \in {ops, x.ops[q]}
    BY <1>7, <1>9 DEF Joins
  <2>2. \A q \in Ids : y.ops[q] \in Kinds \cup {"none"}
    BY <1>2, <2>1
  <2>3. y.ops \in [Ids -> Kinds \cup {"none"}]
    BY <2>1, <2>2
  <2>4. y.position \in [Ids -> [Dims -> Int]] /\ y.age \in [Ids -> Nat]
        /\ y.moved = [q \in Ids |-> y.moved[q]]
    <3> DEFINE Places3 == [Dims -> Int]
    <3>1. position \in Places3 /\ x.position \in [Ids -> Places3]
      BY <1>2
    <3> HIDE DEF Places3
    <3>2. positions \in [Ids -> Places3]
      BY <3>1
    <3>3. age \in [Ids -> Nat] /\ moved = [q \in Ids |-> moved[q]]
      BY <1>2
    <3> QED BY <1>6, <3>2, <3>3 DEF Places3
  <2> QED BY <2>3, <2>4
<1>17. Particles(y)
  BY <1>6, <1>13, <1>14, <1>15, <1>16 DEF Particles
<1>18. WorldOK(y)
  BY <1>8, <1>10, <1>11, <1>12, <1>17 DEF WorldOK
<1>19. Kept(x, y)
  <2>1. ASSUME NEW q \in live PROVE y.ops[q] = x.ops[q] /\ y.age[q] = x.age[q]
    <3>1. q \in Ids /\ q # p
      BY <1>4, <1>5
    <3> QED BY <1>2, <1>4, <1>6, <1>9, <3>1
  <2> QED BY <2>1 DEF Kept
<1> QED BY <1>8, <1>18, <1>19 DEF y

\* Whatever comes of it, a particle that is to be added leaves all as it must be.
LEMMA AddWorld ==
  ASSUME NEW x, WorldOK(x), NEW parent \in Owners(x), NEW ops \in Kinds,
         NEW position \in [Dims -> Int]
  PROVE  LET y == _particles_add_particle(x, parent, ops, position) IN
         WorldOK(y) /\ Grown(x, y) /\ Kept(x, y)
<1> DEFINE y == _particles_add_particle(x, parent, ops, position)
           n == context_size(ops)
<1>1. CASE ~particle_init(x, ops)
  <2> DEFINE a == chunker_alloc(x.chunker, n, ChunkSize)
  <2>1. y = [x EXCEPT !.chunker = chunker_free(a.chunker, a.mem)]
    BY <1>1 DEF _particles_add_particle, Placed
  <2>2. Fits(n, ChunkSize)
    BY Sizable
  <2> HIDE DEF n, y
  <2>3. WorldOK(y) /\ Grown(x, y) /\ Kept(x, y)
    BY <2>1, <2>2, Refused
  <2> QED BY <2>3 DEF y
<1>2. CASE particle_init(x, ops) /\ Cardinality(Alive(x)) = MaxParticles
  <2>1. y = x
    BY <1>2 DEF _particles_add_particle, Placed
  <2> QED BY <2>1 DEF Grown, Kept
<1>3. CASE particle_init(x, ops) /\ Cardinality(Alive(x)) # MaxParticles
  BY <1>3, Admitted
<1> QED BY <1>1, <1>2, <1>3

\* The middle of the frame.
LEMMA MiddlePlace == Center0 \in [Dims -> Int]
BY BspAssumption DEF Center0

\* A particle that is reaped leaves its address, its leaf and its list, and all
\* others where they are.
LEMMA ReapWorld ==
  ASSUME NEW x, WorldOK(x), NEW p \in Alive(x)
  PROVE  LET y == particles_reap_particle(x, p) IN
         /\ WorldOK(y)
         /\ \A o \in Owners(x) : o # p => /\ o \in Owners(y)
                                          /\ ToSet(ListOf(x, o)) \ {p} \subseteq ToSet(ListOf(y, o))
         /\ \A q \in Alive(x) : y.age[q] = IF q = p THEN 0 ELSE x.age[q]
<1> DEFINE live == Alive(x)
           k == chunker_free(x.chunker, p)
           b == bsp_delete_occupant(x.bsp, p)
           active == x.children[p] \o Unlinked(x.active, p)
           children == [q \in Ids |-> IF q = p THEN <<>> ELSE Unlinked(x.children[q], p)]
           opsOf == [x.ops EXCEPT ![p] = "none"]
           position == [x.position EXCEPT ![p] = Center0]
           moved == [x.moved EXCEPT ![p] = FALSE]
           expired == [x.expired EXCEPT ![p] = FALSE]
           thrust == [x.thrust EXCEPT ![p] = FALSE]
           age == [x.age EXCEPT ![p] = 0]
           rockets == IF x.ops[p] = "rocket" THEN x.rockets - 1 ELSE x.rockets
           y == particles_reap_particle(x, p)
<1>1. /\ x = [chunker |-> x.chunker, bsp |-> x.bsp, active |-> x.active, children |-> x.children,
              ops |-> x.ops, position |-> x.position, expired |-> x.expired, thrust |-> x.thrust,
              age |-> x.age, moved |-> x.moved, rockets |-> x.rockets]
      /\ x.active \in Seq(Ids) /\ x.children \in [Ids -> Seq(Ids)]
      /\ x.ops \in [Ids -> Kinds \cup {"none"}]
      /\ x.position \in [Ids -> [Dims -> Int]] /\ x.age \in [Ids -> Nat]
      /\ x.moved = [q \in Ids |-> x.moved[q]]
      /\ Cardinality(live) <= MaxParticles
      /\ x.rockets = Cardinality(Rockets(x)) /\ x.rockets <= ROCKETS_MAX
  BY DEF WorldOK, Particles
<1>2. /\ TreeOK(x.bsp, live) /\ Forest(x) /\ IsFiniteSet(live)
      /\ ChunkerOK(x.chunker, x.chunker.chunk, MaxParticles + 1, live, Sizes(x), ChunkSize)
      /\ \A q \in live : ~x.moved[q] /\ InCube(x.position[q]) => Within(x.bsp.leaf[q], x.position[q])
      /\ live \subseteq Ids /\ p \in Ids
  BY DEF WorldOK, ChunkerOK, Alive
<1>3. y = [x EXCEPT !.active = active, !.children = children, !.bsp = b, !.chunker = k, !.ops = opsOf,
               !.position = position, !.expired = expired, !.thrust = thrust, !.age = age,
               !.moved = moved, !.rockets = rockets]
  <2> DEFINE e == [x EXCEPT !.active = x.children[p] \o Unlinked(@, p),
                     !.children = children,
                     !.bsp = bsp_delete_occupant(@, p),
                     !.chunker = chunker_free(@, p), !.ops[p] = "none",
                     !.position[p] = Center0, !.expired[p] = FALSE, !.thrust[p] = FALSE,
                     !.age[p] = 0, !.moved[p] = FALSE,
                     !.rockets = IF x.ops[p] = "rocket" THEN @ - 1 ELSE @]
  <2>1. y = e
    BY DEF particles_reap_particle
  <2>2. e = [x EXCEPT !.active = active, !.children = children, !.bsp = b, !.chunker = k, !.ops = opsOf,
               !.position = position, !.expired = expired, !.thrust = thrust, !.age = age,
               !.moved = moved, !.rockets = rockets]
    <3> HIDE DEF children
    <3> QED BY <1>1
  <2> QED BY <2>1, <2>2
<1>4. /\ y = [chunker |-> y.chunker, bsp |-> y.bsp, active |-> y.active, children |-> y.children,
              ops |-> y.ops, position |-> y.position, expired |-> y.expired, thrust |-> y.thrust,
              age |-> y.age, moved |-> y.moved, rockets |-> y.rockets]
      /\ y.chunker = k /\ y.bsp = b /\ y.active = active /\ y.children = children
      /\ y.ops = opsOf /\ y.position = position /\ y.moved = moved /\ y.rockets = rockets
      /\ y.age = age
  <2> HIDE DEF y, k, b, active, children, opsOf, position, moved, rockets, expired, thrust, age
  <2> QED BY <1>1, <1>3
<1> HIDE DEF y
<1>5. Leaves(x, y, p)
  <2>1. y.ops = [q \in Ids |-> IF q = p THEN "none" ELSE x.ops[q]]
    BY <1>1, <1>2, <1>4
  <2> QED BY <1>4, <2>1 DEF Leaves
<1>6. /\ Alive(y) = live \ {p} /\ Forest(y)
      /\ \A o \in Owners(x) : o # p => /\ o \in Owners(y)
                                       /\ ToSet(ListOf(x, o)) \ {p} \subseteq ToSet(ListOf(y, o))
  BY <1>2, <1>5, LeavesKeeps
<1> HIDE DEF live
<1>7. \A q \in Ids : q # p => y.ops[q] = x.ops[q]
  BY <1>5 DEF Leaves
<1>8. ChunkerOK(y.chunker, y.chunker.chunk, MaxParticles + 1, Alive(y), Sizes(y), ChunkSize)
  <2> DEFINE N == MaxParticles + 1
             c == x.chunker
             sz == Sizes(x)
             room == ChunkSize
  <2>1. N \in Nat /\ room \in Nat /\ ChunkerOK(c, c.chunk, N, live, sz, room) /\ p \in live
    BY <1>2, Sizable DEF live
  <2>2. y.chunker = chunker_free(c, p)
    BY <1>4
  <2> HIDE DEF N, c, sz, room
  <2>3. ChunkerOK(y.chunker, y.chunker.chunk, N, live \ {p}, sz, room)
    BY <2>1, <2>2, FreeKeeps
  <2>4. \A m \in live \ {p} : Sizes(y)[m] = sz[m]
    BY <1>2, <1>7 DEF Sizes, sz
  <2>5. ChunkerOK(y.chunker, y.chunker.chunk, N, live \ {p}, Sizes(y), room)
    BY <2>3, <2>4, SameSizes
  <2> QED BY <1>6, <2>5 DEF N, room
<1>9. TreeOK(y.bsp, Alive(y)) /\ \A q \in Alive(y) : y.bsp.leaf[q] = x.bsp.leaf[q]
  <2>1. p \in live /\ live \in SUBSET Ids /\ y.bsp = bsp_delete_occupant(x.bsp, p)
    BY <1>2, <1>4 DEF live
  <2> QED BY <1>2, <1>6, <2>1, DeleteKeeps
<1>10. \A q \in Alive(y) : ~y.moved[q] /\ InCube(y.position[q]) => Within(y.bsp.leaf[q], y.position[q])
  <2>1. ASSUME NEW q \in live \ {p} PROVE y.moved[q] = x.moved[q] /\ y.position[q] = x.position[q]
    <3>1. q \in Ids /\ q # p
      BY <1>2
    <3> QED BY <1>1, <1>2, <1>4, <3>1
  <2> QED BY <1>2, <1>6, <1>9, <2>1
<1>11. y.rockets = Cardinality(Rockets(y)) /\ y.rockets <= ROCKETS_MAX
  <2>1. IsFiniteSet(Rockets(x)) /\ Cardinality(Rockets(x)) \in Nat /\ ROCKETS_MAX \in Nat
    <3>1. Rockets(x) \in SUBSET Ids
      BY DEF Rockets
    <3> QED BY <3>1, Sizable, FS_Subset, FS_CardinalityType, SparklerAssumption
  <2>2. y.ops[p] = "none"
    BY <1>2, <1>5 DEF Leaves
  <2>3. CASE x.ops[p] = "rocket"
    <3>1. Rockets(y) = Rockets(x) \ {p} /\ p \in Rockets(x)
      BY <1>2, <1>7, <2>2, <2>3 DEF Rockets
    <3>2. Cardinality(Rockets(x) \ {p}) = Cardinality(Rockets(x)) - 1
      BY <2>1, <3>1, FS_RemoveElement
    <3> QED BY <1>1, <1>4, <2>1, <2>3, <3>1, <3>2
  <2>4. CASE x.ops[p] # "rocket"
    <3>1. Rockets(y) = Rockets(x)
      BY <1>2, <1>7, <2>2, <2>4 DEF Rockets
    <3> QED BY <1>1, <1>4, <2>4, <3>1
  <2> QED BY <2>3, <2>4
<1>12. Cardinality(Alive(y)) <= MaxParticles
  <2>1. Cardinality(live \ {p}) = Cardinality(live) - 1 /\ Cardinality(live) \in Nat /\ MaxParticles \in Nat
    BY <1>2, FS_RemoveElement, FS_CardinalityType, SparklerAssumption DEF live
  <2> QED BY <1>1, <1>6, <2>1
<1>13. y.active \in Seq(Ids) /\ y.children \in [Ids -> Seq(Ids)]
  <2>3. ASSUME NEW q \in Ids PROVE Unlinked(x.children[q], p) \in Seq(Ids)
    <3> DEFINE list == x.children[q]
    <3>1. list \in Seq(Ids)
      BY <1>1
    <3>2. RemoveAt(list, CHOOSE j \in 1 .. Len(list) : list[j] = p) \in Seq(Ids) \/ p \notin ToSet(list)
      <4> SUFFICES ASSUME p \in ToSet(list) PROVE RemoveAt(list, CHOOSE j \in 1 .. Len(list) : list[j] = p) \in Seq(Ids)
        OBVIOUS
      <4> DEFINE j == CHOOSE i \in 1 .. Len(list) : list[i] = p
      <4> HIDE DEF list
      <4>1. j \in 1 .. Len(list) /\ Len(list) \in Nat
        BY <3>1, Entries
      <4> HIDE DEF j
      <4>2. SubSeq(list, 1, j - 1) \in Seq(Ids) /\ SubSeq(list, j + 1, Len(list)) \in Seq(Ids)
        BY <3>1, <4>1
      <4>3. RemoveAt(list, j) \in Seq(Ids)
        BY <4>2 DEF RemoveAt
      <4> QED BY <4>3 DEF j
    <3> HIDE DEF list
    <3>3. Unlinked(list, p) \in Seq(Ids)
      BY <3>1, <3>2 DEF Unlinked
    <3> QED BY <3>3 DEF list
  <2>4. y.active \in Seq(Ids)
    <3>1. y.active \in Seq(Alive(y)) /\ Alive(y) \subseteq Ids
      BY <1>6 DEF Forest, Owners, ListOf, Alive
    <3> QED BY <3>1
  <2>5. /\ y.children = [q \in Ids |-> y.children[q]]
        /\ \A q \in Ids : y.children[q] \in {<<>>, Unlinked(x.children[q], p)}
    BY <1>5 DEF Leaves
  <2>6. <<>> \in Seq(Ids)
    OBVIOUS
  <2>7. \A q \in Ids : y.children[q] \in Seq(Ids)
    BY <2>3, <2>5, <2>6
  <2> QED BY <2>4, <2>5, <2>7
<1>14. /\ y.ops \in [Ids -> Kinds \cup {"none"}]
       /\ y.position \in [Ids -> [Dims -> Int]] /\ y.age \in [Ids -> Nat]
       /\ y.moved = [q \in Ids |-> y.moved[q]]
  <2> DEFINE S == [Dims -> Int]
  <2>1. Center0 \in S /\ x.position \in [Ids -> S]
    BY <1>1, MiddlePlace
  <2> HIDE DEF S
  <2>2. position \in [Ids -> S]
    BY <2>1
  <2>3. y.ops \in [Ids -> Kinds \cup {"none"}] /\ y.moved = [q \in Ids |-> y.moved[q]]
    BY <1>1, <1>4
  <2>4. age \in [Ids -> Nat]
    <3>1. x.age \in [Ids -> Nat]
      BY <1>1
    <3> QED BY <3>1
  <2> HIDE DEF age
  <2>5. y.age \in [Ids -> Nat]
    BY <1>4, <2>4
  <2> QED BY <1>4, <2>2, <2>3, <2>5 DEF S
<1>15. Particles(y)
  BY <1>4, <1>11, <1>12, <1>13, <1>14 DEF Particles
<1>16. WorldOK(y)
  BY <1>6, <1>8, <1>9, <1>10, <1>15 DEF WorldOK
<1>17. \A q \in Alive(x) : y.age[q] = IF q = p THEN 0 ELSE x.age[q]
  BY <1>1, <1>4 DEF Alive
<1> QED BY <1>6, <1>16, <1>17 DEF y

-----------------------------------------------------------------------------
(* The walk *)

\* What is listed lives, and is in no other list.
LEMMA Lists ==
  ASSUME NEW x, Forest(x)
  PROVE  /\ \A o \in Owners(x) : ToSet(ListOf(x, o)) \subseteq Alive(x)
         /\ Alive(x) \subseteq Ids /\ End \notin Ids /\ End \in Owners(x) /\ Alive(x) \subseteq Owners(x)
         /\ \A o, q \in Owners(x) : o # q => ToSet(ListOf(x, o)) \cap ToSet(ListOf(x, q)) = {}
<1>1. \A o \in Owners(x) : ListOf(x, o) \in Seq(Alive(x))
  BY DEF Forest
<1>2. \A o \in Owners(x) : ToSet(ListOf(x, o)) \subseteq Alive(x)
  BY <1>1, Entries
<1> QED BY <1>2, Sizable DEF Forest, Owners, Alive

\* The lists that a walk is in are different ones.
LEMMA Levels ==
  ASSUME NEW x, Forest(x), NEW k, Trail(x, k)
  PROVE  /\ Len(k) \in Nat
         /\ \A i \in 1 .. Len(k) : k[i].p \in Ids /\ k[i].next \in Ids \cup {End}
         /\ \A i, j \in 1 .. Len(k) : OwnerAt(k, i) = OwnerAt(k, j) => i = j
<1>1. Len(k) \in Nat /\ \A i \in 1 .. Len(k) : k[i] \in [p : Ids, next : Ids \cup {End}]
  <2> DEFINE S == [p : Ids, next : Ids \cup {End}]
  <2>1. k \in Seq(S)
    BY DEF Trail
  <2> HIDE DEF S
  <2>2. Len(k) \in Nat /\ \A i \in 1 .. Len(k) : k[i] \in S
    BY <2>1
  <2> QED BY <2>2 DEF S
<1>2. \A i \in 1 .. Len(k) : k[i].p \in Ids /\ k[i].next \in Ids \cup {End}
  BY <1>1
<1>3. ASSUME NEW i \in 1 .. Len(k), NEW j \in 1 .. Len(k), OwnerAt(k, i) = OwnerAt(k, j) PROVE i = j
  <2>1. \A l \in 1 .. Len(k) : l # 1 => l - 1 \in 1 .. Len(k)
    BY <1>1
  <2>2. CASE i # 1 /\ j # 1
    <3>1. k[i - 1].p = k[j - 1].p
      BY <1>3, <2>2 DEF OwnerAt
    <3>2. i - 1 = j - 1
      BY <2>1, <2>2, <3>1 DEF Trail
    <3> QED BY <3>2
  <2>3. \A l \in 1 .. Len(k) : l # 1 => OwnerAt(k, l) \in Ids
    BY <1>2, <2>1 DEF OwnerAt
  <2>4. OwnerAt(k, 1) = End /\ End \notin Ids
    BY Sizable DEF OwnerAt
  <2> QED BY <1>3, <2>2, <2>3, <2>4
<1> QED BY <1>1, <1>2, <1>3

\* A walk goes on where more has been added.
LEMMA GrownWalk ==
  ASSUME NEW x, NEW y, Grown(x, y), NEW k, WalkOK(x, k)
  PROVE  WalkOK(y, k)
<1>1. ASSUME NEW i \in 1 .. Len(k) PROVE Entry(y, k, i) /\ InList(y, k, i)
  <2> DEFINE o == OwnerAt(k, i)
  <2>1. o \in Owners(x) /\ k[i].p \in ToSet(ListOf(x, o))
        /\ k[i].next \in (ToSet(ListOf(x, o)) \ {k[i].p}) \cup {End}
    BY DEF WalkOK, Trail, Entry, InList
  <2>2. o \in Owners(y) /\ ToSet(ListOf(x, o)) \subseteq ToSet(ListOf(y, o))
    BY <2>1 DEF Grown
  <2> QED BY <2>1, <2>2 DEF Entry, InList
<1> QED BY <1>1 DEF WalkOK, Trail

\* No entry is left to come to a particle that has been reaped.
LEMMA ReapedWalk ==
  ASSUME NEW x, Forest(x), NEW k, WalkOK(x, k), NEW n, n = Len(k), n # 0, NEW y,
         \A o \in Owners(x) : o # k[n].p => /\ o \in Owners(y)
                                            /\ ToSet(ListOf(x, o)) \ {k[n].p} \subseteq ToSet(ListOf(y, o))
  PROVE  Trail(y, k)
<1> DEFINE p == k[n].p
<1>1. Trail(x, k) /\ \A i \in 1 .. Len(k) : Entry(x, k, i) /\ InList(x, k, i)
  BY DEF WalkOK, Trail
<1>2. n \in Nat /\ n \in 1 .. Len(k)
      /\ \A i, j \in 1 .. Len(k) : OwnerAt(k, i) = OwnerAt(k, j) => i = j
  BY <1>1, Levels
<1>3. p \in ToSet(ListOf(x, OwnerAt(k, n))) /\ OwnerAt(k, n) \in Owners(x)
  BY <1>1, <1>2 DEF InList, Entry
<1>4. ASSUME NEW i \in 1 .. Len(k) PROVE Entry(y, k, i) /\ (i # Len(k) => InList(y, k, i))
  <2> DEFINE o == OwnerAt(k, i)
  <2>1. o \in Owners(x) /\ k[i].p \in ToSet(ListOf(x, o))
        /\ k[i].next \in (ToSet(ListOf(x, o)) \ {k[i].p}) \cup {End}
    BY <1>1 DEF Entry, InList
  <2>2. o # p
    <3>1. CASE i = 1
      <4>1. p \in Ids /\ o = End
        BY <1>1, <1>2, <3>1, Levels DEF OwnerAt
      <4> QED BY <4>1, Sizable
    <3>2. CASE i # 1
      <4>1. i - 1 \in 1 .. Len(k) /\ i - 1 # n /\ o = k[i - 1].p
        BY <1>2, <3>2 DEF OwnerAt
      <4> QED BY <1>1, <1>2, <4>1 DEF Trail
    <3> QED BY <3>1, <3>2
  <2>3. o \in Owners(y) /\ ToSet(ListOf(x, o)) \ {p} \subseteq ToSet(ListOf(y, o))
    BY <2>1, <2>2
  <2>4. k[i].next # p
    <3> SUFFICES ASSUME k[i].next = p PROVE FALSE
      OBVIOUS
    <3>1. p \in ToSet(ListOf(x, o)) /\ p # k[i].p
      <4>1. p \in Ids /\ End \notin Ids
        BY <1>1, <1>2, Levels, Sizable
      <4> QED BY <2>1, <4>1
    <3>2. o = OwnerAt(k, n)
      BY <1>3, <2>1, <3>1, Lists
    <3>3. i = n
      BY <1>2, <3>2
    <3> QED BY <3>1, <3>3
  <2>5. i # Len(k) => k[i].p # p
    BY <1>1, <1>2 DEF Trail
  <2> HIDE DEF p
  <2> QED BY <2>1, <2>3, <2>4, <2>5 DEF Entry, InList
<1> QED BY <1>1, <1>4 DEF Trail

\* The walk goes on in a list of its last particle, or of the top level.
LEMMA Entered ==
  ASSUME NEW x, Forest(x), NEW k, WalkOK(x, k),
         NEW q \in ToSet(ListOf(x, OwnerAt(k, Len(k) + 1))), OwnerAt(k, Len(k) + 1) \in Owners(x)
  PROVE  WalkOK(x, Append(k, Enter(x, q)))
<1> DEFINE n == Len(k)
           o == OwnerAt(k, n + 1)
           e == Enter(x, q)
           new == Append(k, e)
           S == [p : Ids, next : Ids \cup {End}]
<1>1. Trail(x, k) /\ k \in Seq(S) /\ n \in Nat
      /\ \A i \in 1 .. n : Entry(x, k, i) /\ InList(x, k, i)
  BY DEF WalkOK, Trail
<1>2. e.p = q /\ e.next \in (ToSet(ListOf(x, o)) \ {q}) \cup {End} /\ e \in S
  <2>1. e = [p |-> q, next |-> NextOf(x, q)]
    BY DEF Enter
  <2>2. NextOf(x, q) \in (ToSet(ListOf(x, o)) \ {q}) \cup {End}
    BY NextIn
  <2>3. ToSet(ListOf(x, o)) \subseteq Ids
    BY Lists
  <2> DEFINE next == NextOf(x, q)
  <2>4. q \in Ids /\ next \in Ids \cup {End}
    BY <2>2, <2>3
  <2> HIDE DEF e, next
  <2>5. e.p = q /\ e.next = next
    BY <2>1 DEF next
  <2>6. e \in S
    BY <2>1, <2>4 DEF next
  <2> QED BY <2>2, <2>5, <2>6 DEF next
<1>3. /\ new \in Seq(S) /\ Len(new) = n + 1 /\ new[n + 1] = e
      /\ \A i \in 1 .. n : new[i] = k[i]
  <2> HIDE DEF S, e
  <2> QED BY <1>1, <1>2
<1> HIDE DEF new, e
<1>4. \A i \in 1 .. n + 1 : OwnerAt(new, i) = OwnerAt(k, i) /\ (i = n + 1 \/ i \in 1 .. n)
  <2>1. \A i \in 1 .. n + 1 : (i = 1 \/ i - 1 \in 1 .. n) /\ (i = n + 1 \/ i \in 1 .. n)
    BY <1>1
  <2> QED BY <1>3, <2>1 DEF OwnerAt
<1>5. ASSUME NEW i \in 1 .. n + 1 PROVE Entry(x, new, i) /\ InList(x, new, i)
  <2>1. CASE i = n + 1
    <3>1. OwnerAt(new, i) = o /\ new[i] = e
      BY <1>3, <1>4, <2>1
    <3> QED BY <1>2, <3>1 DEF Entry, InList
  <2>2. CASE i \in 1 .. n
    <3>1. OwnerAt(new, i) = OwnerAt(k, i) /\ new[i] = k[i]
      BY <1>3, <1>4, <2>2
    <3> QED BY <1>1, <2>2, <3>1 DEF Entry, InList
  <2> QED BY <1>4, <2>1, <2>2
<1>6. ASSUME NEW i \in 1 .. n PROVE k[i].p # q
  <2> SUFFICES ASSUME k[i].p = q PROVE FALSE
    OBVIOUS
  <2>1. OwnerAt(k, i) = o
    <3>1. OwnerAt(k, i) \in Owners(x) /\ q \in ToSet(ListOf(x, OwnerAt(k, i)))
      BY <1>1 DEF Entry, InList
    <3> HIDE DEF o
    <3> QED BY <3>1, Lists DEF o
  <2>2. o = k[n].p /\ n \in 1 .. n
    BY <1>1 DEF OwnerAt
  <2>3. k[n].p \in Ids
    BY <1>1, <2>2, Levels
  <2>4. CASE i = 1
    BY <2>1, <2>2, <2>3, <2>4, Sizable DEF OwnerAt
  <2>5. CASE i # 1
    <3>1. i - 1 \in 1 .. n /\ k[i - 1].p = k[n].p /\ i - 1 # n
      BY <1>1, <2>1, <2>2, <2>5 DEF OwnerAt
    <3> QED BY <1>1, <2>2, <3>1 DEF Trail
  <2> QED BY <2>4, <2>5
<1>7. \A i, j \in 1 .. n + 1 : new[i].p = new[j].p => i = j
  <2>1. \A i, j \in 1 .. n : k[i].p = k[j].p => i = j
    BY <1>1 DEF Trail
  <2>2. new[n + 1].p = q
    BY <1>2, <1>3
  <2> QED BY <1>3, <1>4, <1>6, <2>1, <2>2
<1>8. WalkOK(x, new)
  BY <1>3, <1>5, <1>7 DEF WalkOK, Trail
<1> QED BY <1>8 DEF new, e

\* From the last list that has one, the walk goes on to the next entry.
LEMMA Advances ==
  ASSUME NEW x, Forest(x), NEW k, Trail(x, k)
  PROVE  WalkOK(x, Advance(x, k))
<1> DEFINE n == Len(k)
           more == {i \in 1 .. n : k[i].next # End}
           i == CHOOSE j \in more : \A l \in more : l <= j
           S == [p : Ids, next : Ids \cup {End}]
<1>1. n \in Nat /\ k \in Seq(S)
  BY DEF Trail
<1>2. Advance(x, k) = IF more = {} THEN <<>> ELSE Append(SubSeq(k, 1, i - 1), Enter(x, k[i].next))
  BY DEF Advance
<1>3. CASE more = {}
  <2>1. Advance(x, k) = <<>>
    BY <1>2, <1>3
  <2>2. <<>> \in Seq(S) /\ Len(<<>>) = 0 /\ \A j \in 1 .. Len(<<>>) : FALSE
    OBVIOUS
  <2>3. WalkOK(x, <<>>)
    BY <2>2 DEF WalkOK, Trail
  <2> QED BY <2>1, <2>3
<1>4. CASE more # {}
  <2>1. i \in more
    <3>1. more \in SUBSET (0 .. n)
      BY <1>1
    <3> HIDE DEF more
    <3>2. \E j \in more : \A l \in more : l <= j
      BY <1>1, <1>4, <3>1, GreatestNumber
    <3> QED BY <3>2
  <2>2. i \in 1 .. n /\ k[i].next # End
    BY <2>1
  <2> HIDE DEF i, more
  <2> DEFINE r == SubSeq(k, 1, i - 1)
             q == k[i].next
  <2>3. r \in Seq(S) /\ Len(r) = i - 1 /\ i - 1 \in Nat /\ \A j \in 1 .. i - 1 : r[j] = k[j]
    <3> HIDE DEF S
    <3> QED BY <1>1, <2>2
  <2> HIDE DEF r
  <2>4. \A j \in 1 .. i : OwnerAt(r, j) = OwnerAt(k, j)
    <3>1. \A j \in 1 .. i : j = 1 \/ j - 1 \in 1 .. i - 1
      BY <2>2, <1>1
    <3> QED BY <2>3, <3>1 DEF OwnerAt
  <2>5. \A j \in 1 .. i - 1 : j \in 1 .. n /\ j # n /\ j \in 1 .. i
    BY <1>1, <2>2
  <2>6. WalkOK(x, r)
    <3>1. ASSUME NEW j \in 1 .. i - 1 PROVE Entry(x, r, j) /\ InList(x, r, j)
      <4>1. Entry(x, k, j) /\ InList(x, k, j) /\ OwnerAt(r, j) = OwnerAt(k, j) /\ r[j] = k[j]
        BY <2>3, <2>4, <2>5 DEF Trail
      <4> QED BY <4>1 DEF Entry, InList
    <3>2. \A j, l \in 1 .. i - 1 : r[j].p = r[l].p => j = l
      BY <2>3, <2>5 DEF Trail
    <3> QED BY <2>3, <3>1, <3>2 DEF WalkOK, Trail
  <2>7. OwnerAt(r, Len(r) + 1) = OwnerAt(k, i) /\ OwnerAt(k, i) \in Owners(x)
        /\ q \in ToSet(ListOf(x, OwnerAt(k, i)))
    <3>1. Len(r) + 1 = i /\ i \in 1 .. i
      BY <1>1, <2>2, <2>3
    <3>2. Entry(x, k, i)
      BY <2>2 DEF Trail
    <3> QED BY <2>2, <2>4, <3>1, <3>2 DEF Entry
  <2> HIDE DEF q
  <2>8. WalkOK(x, Append(r, Enter(x, q)))
    BY <2>6, <2>7, Entered
  <2> QED BY <1>2, <1>4, <2>8 DEF r, q
<1> QED BY <1>3, <1>4

-----------------------------------------------------------------------------
(* The steps *)

\* What a context starts with.
LEMMA NewChunker ==
  ASSUME NEW N \in Nat, NEW sz, NEW room \in Nat
  PROVE  LET k == chunker_new(1 .. N) IN ChunkerOK(k, k.chunk, N, {}, sz, room)
<1> DEFINE k == chunker_new(1 .. N)
<1>1. k = [chunk |-> 0, free_chunks |-> <<>>,
           n_refs |-> [c \in 1 .. N |-> 0], next_offset |-> [c \in 1 .. N |-> 0]]
  BY DEF chunker_new
<1> HIDE DEF k
<1>2. \A c \in 1 .. N : InChunk({}, c) = {} /\ Own(0, c) = 0
  BY DEF InChunk, Own
<1>3. IsFiniteSet({}) /\ Cardinality({}) = 0
  BY FS_EmptySet
<1>4. <<>> \in Seq(1 .. N) /\ IsInjective(<<>>) /\ ToSet(<<>>) = {}
  BY DEF IsInjective, ToSet
<1>5. k.n_refs \in [1 .. N -> Nat] /\ k.next_offset \in [1 .. N -> 0 .. room]
  BY <1>1
<1>6. \A c \in 1 .. N : k.n_refs[c] = Cardinality(InChunk({}, c)) + Own(0, c)
  <2>1. \A c \in 1 .. N : k.n_refs[c] = 0
    BY <1>1
  <2> QED BY <1>2, <1>3, <2>1
<1>7. /\ k = [chunk |-> k.chunk, free_chunks |-> k.free_chunks,
             n_refs |-> k.n_refs, next_offset |-> k.next_offset]
      /\ k.chunk = 0 /\ k.free_chunks = <<>> /\ 0 \in 0 .. N
  BY <1>1
<1> QED BY <1>3, <1>4, <1>5, <1>6, <1>7 DEF ChunkerOK, k

\* A new tree is a leaf, the root.
LEMMA NewTree == TreeOK(bsp_new(Ids), {})
<1> DEFINE b == bsp_new(Ids)
<1>1. b = [chunker |-> chunker_new(1 .. MaxClusters), octrants |-> [n \in Paths |-> Leaf],
           occupants |-> [n \in Paths |-> {}], leaf |-> [o \in Ids |-> NoNode], cache |-> <<>>]
  BY DEF bsp_new, MaxClusters
<1>2. Inner(b) = {} /\ ClustersOf(b) = {}
  BY <1>1 DEF Inner, ClustersOf
<1>3. MaxClusters \in Nat /\ Clusters \in Nat
  BY PathsFinite, FS_CardinalityType, BspAssumption DEF MaxClusters
<1>4. ChunkerOK(b.chunker, b.chunker.chunk, MaxClusters, ClustersOf(b), Ones, Clusters)
  <2> DEFINE k == chunker_new(1 .. MaxClusters)
  <2>1. ChunkerOK(k, k.chunk, MaxClusters, {}, Ones, Clusters)
    BY <1>3, NewChunker
  <2>2. b.chunker = k
    BY <1>1
  <2> HIDE DEF k, b
  <2> QED BY <1>2, <2>1, <2>2
<1>5. b.occupants \in [Paths -> SUBSET {}] /\ b.octrants = [n \in Paths |-> b.octrants[n]]
      /\ b.leaf = [p \in Ids |-> b.leaf[p]]
  BY <1>1
<1>6. OnTree(b, b.cache)
  BY <1>1, RootNode DEF OnTree
<1>7. b = [chunker |-> b.chunker, octrants |-> b.octrants, occupants |-> b.occupants,
           leaf |-> b.leaf, cache |-> b.cache]
  BY <1>1
<1> HIDE DEF b
<1> QED BY <1>2, <1>4, <1>5, <1>6, <1>7 DEF TreeOK, b

\* A new context has no particles.
LEMMA NewWorld ==
  WorldOK(particles_new) /\ particles_new.rockets = 0 /\ Alive(particles_new) = {}
<1> DEFINE x == particles_new
           k == chunker_new(Chunks)
           b == bsp_new(Ids)
<1>1. x = [chunker |-> k, bsp |-> b, active |-> <<>>, children |-> [p \in Ids |-> <<>>],
           ops |-> [p \in Ids |-> "none"], position |-> [p \in Ids |-> Center0],
           expired |-> [p \in Ids |-> FALSE], thrust |-> [p \in Ids |-> FALSE],
           age |-> [p \in Ids |-> 0], moved |-> [p \in Ids |-> FALSE], rockets |-> 0]
  BY DEF particles_new
<1>2. TreeOK(b, {})
  BY NewTree
<1>3. ChunkerOK(k, k.chunk, MaxParticles + 1, {}, Sizes(x), ChunkSize)
  <2>1. MaxParticles + 1 \in Nat /\ ChunkSize \in Nat
    BY Sizable
  <2>2. k = chunker_new(1 .. (MaxParticles + 1))
    BY DEF Chunks
  <2> HIDE DEF k, x
  <2> QED BY <2>1, <2>2, NewChunker
<1> HIDE DEF k, b, x
<1>4. Alive(x) = {} /\ Rockets(x) = {} /\ Owners(x) = {End} /\ ListOf(x, End) = <<>>
  BY <1>1 DEF Alive, Rockets, Owners, ListOf
<1>5. <<>> \in Seq(Alive(x)) /\ <<>> \in Seq(Ids) /\ IsInjective(<<>>)
  BY DEF IsInjective
<1>6. Forest(x)
  BY <1>4, <1>5 DEF Forest
<1>7. Particles(x)
  <2>1. Cardinality({}) = 0 /\ 0 <= MaxParticles /\ 0 <= ROCKETS_MAX
    BY FS_EmptySet, SparklerAssumption
  <2>2. x = [chunker |-> x.chunker, bsp |-> x.bsp, active |-> x.active, children |-> x.children,
             ops |-> x.ops, position |-> x.position, expired |-> x.expired, thrust |-> x.thrust,
             age |-> x.age, moved |-> x.moved, rockets |-> x.rockets]
    BY <1>1
  <2>3. x.active \in Seq(Ids) /\ x.children \in [Ids -> Seq(Ids)] /\ x.ops \in [Ids -> Kinds \cup {"none"}]
    BY <1>1, <1>5
  <2>4. x.position \in [Ids -> [Dims -> Int]] /\ x.age \in [Ids -> Nat]
        /\ x.moved = [p \in Ids |-> x.moved[p]] /\ x.rockets = 0
    BY <1>1, MiddlePlace
  <2> QED BY <1>4, <2>1, <2>2, <2>3, <2>4 DEF Particles
<1>8. x.chunker = k /\ x.bsp = b /\ x.rockets = 0
  BY <1>1
<1>9. WorldOK(x)
  BY <1>2, <1>3, <1>4, <1>6, <1>7, <1>8 DEF WorldOK
<1> QED BY <1>4, <1>8, <1>9 DEF x

\* What is changed of x in y is not what holds the particles together, and who
\* is moved is marked.
Touched(x, y) ==
  /\ y = [chunker |-> y.chunker, bsp |-> y.bsp, active |-> y.active, children |-> y.children,
          ops |-> y.ops, position |-> y.position, expired |-> y.expired, thrust |-> y.thrust,
          age |-> y.age, moved |-> y.moved, rockets |-> y.rockets]
  /\ y.chunker = x.chunker /\ y.bsp = x.bsp /\ y.active = x.active /\ y.children = x.children
  /\ y.ops = x.ops /\ y.rockets = x.rockets
  /\ y.position \in [Ids -> [Dims -> Int]] /\ y.age \in [Ids -> Nat]
  /\ y.moved = [p \in Ids |-> y.moved[p]]
  /\ \A p \in Ids : ~y.moved[p] => ~x.moved[p] /\ y.position[p] = x.position[p]

\* That keeps the particles together.
LEMMA TouchedWorld ==
  ASSUME NEW x, WorldOK(x), NEW y, Touched(x, y)
  PROVE  WorldOK(y) /\ Grown(x, y)
<1>1. /\ Alive(y) = Alive(x) /\ Owners(y) = Owners(x) /\ Sizes(y) = Sizes(x) /\ Rockets(y) = Rockets(x)
      /\ \A o : ListOf(y, o) = ListOf(x, o)
      /\ \A S : Closed(y, S) <=> Closed(x, S)
  BY DEF Touched, Alive, Owners, Sizes, Rockets, ListOf, Closed
<1>2. Particles(y)
  <2>1. Particles(x)
    BY DEF WorldOK
  <2> QED BY <1>1, <2>1 DEF Touched, Particles
<1>3. Forest(y)
  BY <1>1 DEF WorldOK, Forest, Touched
<1>4. \A q \in Alive(y) : ~y.moved[q] /\ InCube(y.position[q]) => Within(y.bsp.leaf[q], y.position[q])
  <2>1. Alive(x) \subseteq Ids
    BY DEF Alive
  <2> QED BY <1>1, <2>1 DEF WorldOK, Touched
<1>5. WorldOK(y)
  BY <1>1, <1>2, <1>3, <1>4 DEF WorldOK, Touched
<1>6. Grown(x, y)
  BY <1>1 DEF Grown
<1> QED BY <1>5, <1>6

\* Adding a simple particle changes no count of rockets.
LEMMA SimpleCountsNot ==
  ASSUME NEW x, WorldOK(x), NEW parent, NEW position
  PROVE  _particles_add_particle(x, parent, "simple", position).rockets = x.rockets
<1> DEFINE a == chunker_alloc(x.chunker, context_size("simple"), ChunkSize)
           p == a.mem
           positions == [x.position EXCEPT ![p] = position]
           b == bsp_add_occupant(x.bsp, p, positions)
           children == [q \in Ids |-> IF q = p THEN <<>> ELSE
                                      IF q = parent THEN <<p>> \o x.children[q] ELSE x.children[q]]
           e == [x EXCEPT !.chunker = a.chunker, !.bsp = b, !.position = positions,
                   !.moved[p] = FALSE,
                   !.ops[p] = "simple", !.expired[p] = FALSE, !.thrust[p] = FALSE, !.age[p] = 0,
                   !.rockets = IF "simple" = "rocket" THEN @ + 1 ELSE @,
                   !.active = IF parent = End THEN <<p>> \o @ ELSE @,
                   !.children = children]
           f == [x EXCEPT !.chunker = chunker_free(a.chunker, p)]
           y == _particles_add_particle(x, parent, "simple", position)
<1>1. y \in {e, f, x}
  <2>1. y = IF ~particle_init(x, "simple") THEN f
            ELSE IF Cardinality(Alive(x)) = MaxParticles THEN x ELSE e
    BY DEF _particles_add_particle, Placed
  <2> HIDE DEF e, f, y
  <2> QED BY <2>1
<1>2. x = [chunker |-> x.chunker, bsp |-> x.bsp, active |-> x.active, children |-> x.children,
           ops |-> x.ops, position |-> x.position, expired |-> x.expired, thrust |-> x.thrust,
           age |-> x.age, moved |-> x.moved, rockets |-> x.rockets]
  BY DEF WorldOK, Particles
<1>3. e.rockets = x.rockets
  <2> HIDE DEF p, b, positions, children
  <2>1. "simple" # "rocket"
    OBVIOUS
  <2> QED BY <1>2, <2>1
<1>4. f.rockets = x.rockets
  <2> DEFINE k == chunker_free(a.chunker, p)
  <2>1. f = [x EXCEPT !.chunker = k]
    OBVIOUS
  <2> HIDE DEF k, f
  <2> QED BY <1>2, <2>1
<1> HIDE DEF e, f, y
<1>5. y.rockets = x.rockets
  BY <1>1, <1>3, <1>4
<1> QED BY <1>5 DEF y

\* Adding several particles of a list of kinds, one after the other, keeps all in
\* place, and changes no count of rockets if they are simple.
LEMMA AddedWorld ==
  ASSUME NEW x, WorldOK(x), NEW parent \in Owners(x), NEW kinds \in Seq(Kinds),
         NEW position \in [Dims -> Int]
  PROVE  LET y == Added(x, parent, kinds, position) IN
         /\ WorldOK(y) /\ Grown(x, y) /\ Kept(x, y) /\ (kinds = <<>> => y = x)
         /\ ((\A i \in 1 .. Len(kinds) : kinds[i] = "simple") => y.rockets = x.rockets)
<1> DEFINE N == Len(kinds)
           next(v, i) == _particles_add_particle(v, parent, kinds[i], position)
           Simple == \A i \in 1 .. N : kinds[i] = "simple"
           Good(v) == WorldOK(v) /\ Grown(x, v) /\ Kept(x, v) /\ (Simple => v.rockets = x.rockets)
           Upto(m, f) == /\ f = [i \in 0 .. m |-> f[i]]
                         /\ f[0] = x
                         /\ \A i \in 1 .. m : f[i] = next(f[i - 1], i)
           T == {m \in 0 .. N : \E f : Upto(m, f)}
           e(f, i) == IF i = 0 THEN x ELSE next(f[i - 1], i)
           Def(f) == f = [i \in 0 .. N |-> e(f, i)]
           added == CHOOSE f : Def(f)
<1>1. Added(x, parent, kinds, position) = added[N]
  BY DEF Added
<1> HIDE DEF added
<1>2. N \in Nat /\ \A i \in 1 .. N : kinds[i] \in Kinds
  OBVIOUS
<1>3. ASSUME NEW i \in 1 .. N, NEW v, Good(v) PROVE Good(next(v, i))
  <2> DEFINE ops == kinds[i]
             y == _particles_add_particle(v, parent, ops, position)
  <2>1. parent \in Owners(v) /\ ops \in Kinds /\ WorldOK(v) /\ Grown(x, v) /\ Kept(x, v)
    BY <1>2, <1>3 DEF Grown
  <2>2. Simple => ops = "simple" /\ v.rockets = x.rockets
    BY <1>3
  <2> HIDE DEF ops
  <2>3. WorldOK(y) /\ Grown(v, y) /\ Kept(v, y)
    BY <2>1, AddWorld
  <2>4. Grown(x, y) /\ Kept(x, y)
    <3>1. Grown(x, y)
      BY <2>1, <2>3 DEF Grown
    <3>2. Alive(x) \subseteq Alive(v)
      BY <2>1 DEF Kept, Alive
    <3> QED BY <2>1, <2>3, <3>1, <3>2 DEF Kept
  <2>5. ops = "simple" => y.rockets = v.rockets
    BY <2>1, SimpleCountsNot
  <2> HIDE DEF y, Simple
  <2>6. Good(y)
    BY <2>2, <2>3, <2>4, <2>5
  <2> QED BY <2>6 DEF y, ops
<1>4. 0 \in T
  <2> DEFINE f == [i \in 0 .. 0 |-> x]
  <2>1. Upto(0, f)
    OBVIOUS
  <2> HIDE DEF Upto, f
  <2> QED BY <1>2, <2>1
<1>5. Good(x)
  BY DEF Grown, Kept
<1> HIDE DEF Good, N, next
<1>6. ASSUME NEW m \in 1 .. N, m - 1 \in T PROVE m \in T
  <2>1. PICK f : Upto(m - 1, f)
    BY <1>6
  <2> DEFINE h == [i \in 0 .. m |-> IF i = m THEN next(f[m - 1], m) ELSE f[i]]
  <2>2. h[m] = next(f[m - 1], m) /\ (\A i \in 0 .. m - 1 : h[i] = f[i])
    OBVIOUS
  <2>3. h = [i \in 0 .. m |-> h[i]]
    OBVIOUS
  <2> HIDE DEF h
  <2>4. h[0] = x
    BY <2>1, <2>2
  <2>5. ASSUME NEW i \in 1 .. m PROVE h[i] = next(h[i - 1], i)
    <3>1. i - 1 \in 0 .. m - 1 /\ h[i - 1] = f[i - 1]
      BY <2>2
    <3>2. CASE i = m
      BY <2>2, <3>1, <3>2
    <3>3. CASE i # m
      <4>1. i \in 1 .. m - 1 /\ i \in 0 .. m - 1
        BY <3>3
      <4> QED BY <2>1, <2>2, <3>1, <4>1
    <3> QED BY <3>2, <3>3
  <2>6. Upto(m, h)
    BY <2>3, <2>4, <2>5
  <2>7. m \in 0 .. N
    BY <1>2
  <2> HIDE DEF Upto
  <2>8. \E g : Upto(m, g)
    BY <2>6
  <2> QED BY <2>7, <2>8
<1>7. N \in T
  <2> HIDE DEF T
  <2>1. N \in Nat /\ N \in 0 .. N
    BY <1>2
  <2>2. \A i \in 0 .. N : i \in T
    BY <1>4, <1>6, <2>1, Upward
  <2> QED BY <2>1, <2>2
<1>8. PICK h : Upto(N, h)
  BY <1>7
<1>9. Def(h)
  <2>1. h = [i \in 0 .. N |-> h[i]] /\ \A i \in 0 .. N : h[i] = e(h, i)
    <3>1. \A i \in 0 .. N : i # 0 => i \in 1 .. N
      BY <1>2
    <3> QED BY <1>8, <3>1
  <2> HIDE DEF e
  <2> QED BY <2>1
<1>10. Def(added)
  <2>1. Def(h)
    BY <1>9
  <2> HIDE DEF Def
  <2> QED BY <2>1 DEF added
<1>11. \A i \in 0 .. N : added[i] = e(added, i)
  <2> HIDE DEF e
  <2> QED BY <1>10
<1> DEFINE U == {i \in 0 .. N : Good(added[i])}
<1>12. 0 \in U
  <2>1. 0 \in 0 .. N /\ added[0] = x
    BY <1>2, <1>11
  <2> QED BY <1>5, <2>1
<1>13. ASSUME NEW i \in 1 .. N, i - 1 \in U PROVE i \in U
  <2>1. i \in 0 .. N /\ i # 0
    BY <1>2
  <2>2. added[i] = next(added[i - 1], i)
    BY <1>11, <2>1
  <2>3. Good(added[i - 1])
    BY <1>13
  <2> QED BY <1>3, <2>1, <2>2, <2>3
<1>14. Good(added[N])
  <2>1. \A i \in 0 .. N : i \in U
    <3>1. N \in Nat
      BY <1>2
    <3> HIDE DEF U
    <3> QED BY <1>12, <1>13, <3>1, Upward
  <2>2. N \in 0 .. N
    BY <1>2
  <2> QED BY <2>1, <2>2
<1>15. kinds = <<>> => added[N] = x
  <2>1. kinds = <<>> => N = 0
    BY DEF N
  <2> QED BY <1>2, <1>11, <2>1
<1> QED BY <1>1, <1>14, <1>15 DEF Good, N

\* Simple particles, however many, are added to the top level.
LEMMA SimplesWorld ==
  ASSUME NEW x, WorldOK(x), NEW n \in Nat
  PROVE  LET y == particles_add_particles(x, n) IN
         WorldOK(y) /\ Kept(x, y) /\ y.rockets = x.rockets
<1> DEFINE kinds == Several(n, "simple")
<1>1. kinds \in Seq(Kinds) /\ Len(kinds) = n /\ \A i \in 1 .. n : kinds[i] = "simple"
  BY DEF Several, Kinds
<1>2. End \in Owners(x)
  BY DEF Owners
<1> HIDE DEF kinds
<1>3. LET y == Added(x, End, kinds, Center0) IN
      WorldOK(y) /\ Kept(x, y) /\ y.rockets = x.rockets
  BY <1>1, <1>2, AddedWorld, MiddlePlace
<1> QED BY <1>3 DEF kinds, particles_add_particles

\* No kind spawns what is not a kind.
LEMMA SimsAre ==
  ASSUME NEW p, w.ops[p] \in Kinds, NEW s \in sim(p)
  PROVE  s.spawned \in Seq(Kinds)
<1>1. /\ "simple" \in Kinds /\ "rocket" \in Kinds /\ "spark" \in Kinds
      /\ "xplode" \in Kinds /\ "burst" \in Kinds
  BY DEF Kinds
<1>2. /\ <<>> \in Seq(Kinds) /\ \A a \in Kinds : <<a>> \in Seq(Kinds)
      /\ \A n \in Nat, a \in Kinds : Several(n, a) \in Seq(Kinds)
      /\ \A one, two \in Seq(Kinds) : one \o two \in Seq(Kinds)
  BY DEF Several
<1>3. \A t : Dies(t).spawned = t /\ Lives(t).spawned = t
  BY DEF Dies, Lives
<1>4. s \in simple_sim(p) \/ s \in rocket_sim(p) \/ s \in spark_sim(p) \/ s \in xplode_sim(p)
      \/ s \in burst_sim(p)
  BY DEF sim, Kinds
<1>5. CASE s \in simple_sim(p)
  <2> DEFINE list(n) == [i \in 1 .. n |-> IF i = SIMPLE_MAX_SPAWN - 1 THEN "rocket" ELSE "simple"]
             numbers == SIMPLE_MIN_SPAWN .. SIMPLE_MAX_SPAWN
  <2>1. \A n \in numbers : list(n) \in Seq(Kinds)
    <3>1. numbers \subseteq Nat
      BY SparklerAssumption
    <3>2. \A n \in Nat : list(n) \in Seq(Kinds)
      BY <1>1
    <3> HIDE DEF numbers, list
    <3> QED BY <3>1, <3>2
  <2>2. s \in {Dies(<<>>), Lives(<<>>)} \/ s \in {Lives(list(n)) : n \in numbers}
    BY <1>5 DEF simple_sim
  <2> HIDE DEF list, numbers
  <2>3. CASE s \in {Dies(<<>>), Lives(<<>>)}
    BY <1>2, <1>3, <2>3
  <2>4. CASE s \in {Lives(list(n)) : n \in numbers}
    <3>1. PICK n \in numbers : s = Lives(list(n))
      BY <2>4
    <3>2. s.spawned = list(n)
      BY <1>3, <3>1
    <3> QED BY <2>1, <3>2
  <2> QED BY <2>2, <2>3, <2>4
<1>6. CASE s \in rocket_sim(p)
  <2>1. s \in {Dies(<<"burst">> \o Several(n, "xplode")) : n \in Xplodes}
        \/ s \in {Lives(Several(n, "spark")) : n \in Sparks}
    BY <1>6 DEF rocket_sim
  <2>2. CASE s \in {Dies(<<"burst">> \o Several(n, "xplode")) : n \in Xplodes}
    <3>1. PICK n \in Xplodes : s = Dies(<<"burst">> \o Several(n, "xplode"))
      BY <2>2
    <3>2. s.spawned = <<"burst">> \o Several(n, "xplode") /\ n \in Nat
      BY <1>3, <3>1, SparklerAssumption
    <3>3. <<"burst">> \in Seq(Kinds) /\ Several(n, "xplode") \in Seq(Kinds)
      BY <1>1, <1>2, <3>2
    <3> QED BY <1>2, <3>2, <3>3
  <2>3. CASE s \in {Lives(Several(n, "spark")) : n \in Sparks}
    <3>1. PICK n \in Sparks : s = Lives(Several(n, "spark"))
      BY <2>3
    <3>2. s.spawned = Several(n, "spark") /\ n \in Nat
      BY <1>3, <3>1, SparklerAssumption
    <3> QED BY <1>1, <1>2, <3>2
  <2> QED BY <2>1, <2>2, <2>3
<1>7. CASE s \in spark_sim(p)
  BY <1>2, <1>3, <1>7 DEF spark_sim
<1>8. CASE s \in xplode_sim(p)
  <2>1. s \in {Dies(<<>>), Lives(<<>>), Lives(<<"xplode">>)}
    BY <1>8 DEF xplode_sim
  <2> QED BY <1>1, <1>2, <1>3, <2>1
<1>9. CASE s \in burst_sim(p)
  BY <1>2, <1>3, <1>9 DEF burst_sim
<1> QED BY <1>4, <1>5, <1>6, <1>7, <1>8, <1>9

\* What a particle does in its step keeps the others, and the walk.
LEMMA SimulatedWorld ==
  ASSUME NEW x, WorldOK(x), NEW k, WalkOK(x, k), NEW n, n = Len(k), n # 0,
         NEW p, p = k[n].p, NEW s, s.spawned \in Seq(Kinds)
  PROVE  LET y == Simulated(x, p, s) IN
         WorldOK(y) /\ Trail(y, k) /\ (~s.dead => WalkOK(y, k))
<1> DEFINE v == particles_spawn_particle(x, p, s.spawned)
           y == Simulated(x, p, s)
<1>1. p \in Alive(x) /\ p \in Ids /\ p \in Owners(x) /\ p # End
  <2>1. Forest(x) /\ Trail(x, k)
    BY DEF WorldOK, WalkOK
  <2>2. n \in 1 .. n
    BY <2>1, Levels
  <2>3. OwnerAt(k, n) \in Owners(x) /\ p \in ToSet(ListOf(x, OwnerAt(k, n)))
    BY <2>1, <2>2 DEF WalkOK, Trail, InList, Entry
  <2> QED BY <2>1, <2>3, Lists
<1>2. WorldOK(v) /\ Grown(x, v)
  <2>1. v = Added(x, p, s.spawned, x.position[p])
    BY DEF particles_spawn_particle
  <2>2. x.position[p] \in [Dims -> Int]
    BY <1>1 DEF WorldOK, Particles
  <2> HIDE DEF v
  <2> QED BY <1>1, <2>1, <2>2, AddedWorld
<1>3. y = IF s.dead THEN particles_reap_particle(v, p)
          ELSE IF v.ops[p] = "burst" THEN burst_cb(v, p) ELSE [v EXCEPT !.thrust[p] = FALSE]
  BY DEF Simulated, Outcome
<1> HIDE DEF v, y
<1>4. WalkOK(v, k) /\ p \in Alive(v) /\ Forest(v) /\ Particles(v)
  BY <1>1, <1>2, GrownWalk DEF Grown, Owners, WorldOK
<1>5. CASE s.dead
  <2>1. y = particles_reap_particle(v, p)
    BY <1>3, <1>5
  <2>2. /\ WorldOK(y)
        /\ \A o \in Owners(v) : o # p => /\ o \in Owners(y)
                                         /\ ToSet(ListOf(v, o)) \ {p} \subseteq ToSet(ListOf(y, o))
    BY <1>2, <1>4, <2>1, ReapWorld
  <2>3. Trail(y, k)
    BY <1>4, <2>2, ReapedWalk
  <2> QED BY <1>5, <2>2, <2>3 DEF y
<1>6. CASE ~s.dead
  <2>1. Touched(v, y)
    <3>1. v = [chunker |-> v.chunker, bsp |-> v.bsp, active |-> v.active, children |-> v.children,
               ops |-> v.ops, position |-> v.position, expired |-> v.expired, thrust |-> v.thrust,
               age |-> v.age, moved |-> v.moved, rockets |-> v.rockets]
          /\ v.position \in [Ids -> [Dims -> Int]] /\ v.moved = [q \in Ids |-> v.moved[q]]
          /\ v.age \in [Ids -> Nat]
      BY <1>4 DEF Particles
    <3>2. \E age, thrust : age \in [Ids -> Nat] /\ y = [v EXCEPT !.age = age, !.thrust = thrust]
      <4>1. CASE v.ops[p] = "burst"
        <5> DEFINE r == v.age[p] + 1
                   found == bsp_search_sphere(v.bsp, v.position[p], r, r + Shell)
                   thrust == [q \in Ids |-> v.thrust[q] \/
                               (/\ \E l \in found.leaves : q \in v.bsp.occupants[l]
                                /\ InShell(v, v.position[p], r, q))]
                   age == [v.age EXCEPT ![p] = @ + 1]
        <5>1. y = burst_cb(v, p)
          BY <1>3, <1>6, <4>1
        <5>2. burst_cb(v, p) = [v EXCEPT !.age = age, !.thrust = thrust]
          BY DEF burst_cb
        <5>3. age \in [Ids -> Nat]
          <6>1. v.age \in [Ids -> Nat] /\ p \in Ids
            BY <1>1, <3>1
          <6>2. v.age[p] + 1 \in Nat
            BY <6>1
          <6> QED BY <6>1, <6>2
        <5> HIDE DEF age, thrust
        <5> QED BY <5>1, <5>2, <5>3
      <4>2. CASE v.ops[p] # "burst"
        <5> DEFINE thrust == [v.thrust EXCEPT ![p] = FALSE]
        <5>1. y = [v EXCEPT !.thrust = thrust]
          BY <1>3, <1>6, <4>2
        <5> HIDE DEF thrust
        <5>2. y = [v EXCEPT !.age = v.age, !.thrust = thrust]
          BY <3>1, <5>1
        <5> QED BY <3>1, <5>2
      <4> QED BY <4>1, <4>2
    <3>3. PICK age, thrust : age \in [Ids -> Nat] /\ y = [v EXCEPT !.age = age, !.thrust = thrust]
      BY <3>2
    <3>4. /\ y = [chunker |-> y.chunker, bsp |-> y.bsp, active |-> y.active, children |-> y.children,
                  ops |-> y.ops, position |-> y.position, expired |-> y.expired, thrust |-> y.thrust,
                  age |-> y.age, moved |-> y.moved, rockets |-> y.rockets]
          /\ y.chunker = v.chunker /\ y.bsp = v.bsp /\ y.active = v.active /\ y.children = v.children
          /\ y.ops = v.ops /\ y.position = v.position /\ y.moved = v.moved /\ y.rockets = v.rockets
          /\ y.age \in [Ids -> Nat]
      BY <3>1, <3>3
    <3> QED BY <3>1, <3>4 DEF Touched
  <2>2. WorldOK(y) /\ WalkOK(y, k)
    BY <1>2, <1>4, <2>1, TouchedWorld, GrownWalk
  <2> QED BY <2>2 DEF y, WalkOK
<1> QED BY <1>5, <1>6

-----------------------------------------------------------------------------
(* The specification *)

\* From the top level all particles are found, and no others.
LEMMA ListedAll ==
  ASSUME NEW x, Forest(x)
  PROVE  Listed(x, x.active) = Alive(x)
<1>1. ToSet(x.active) \subseteq Alive(x) /\ Closed(x, Alive(x)) /\ Alive(x) \in SUBSET Alive(x)
  <2>1. \A p \in Alive(x) : p \in Owners(x) /\ p # End
    BY Lists
  <2>2. ListOf(x, End) = x.active /\ \A p \in Alive(x) : ListOf(x, p) = x.children[p]
    BY <2>1 DEF ListOf
  <2> QED BY <2>1, <2>2, Lists DEF Closed
<1>2. \A S \in SUBSET Alive(x) : ToSet(x.active) \subseteq S /\ Closed(x, S) => S = Alive(x)
  BY DEF Forest
<1>3. Alive(x) \subseteq Ids
  BY DEF Alive
<1>4. ASSUME NEW p \in Listed(x, x.active) PROVE p \in Alive(x)
  BY <1>1 DEF Listed
<1>5. ASSUME NEW p \in Alive(x) PROVE p \in Listed(x, x.active)
  BY <1>2, <1>3 DEF Listed
<1> QED BY <1>4, <1>5

\* No walk is under way.
LEMMA EmptyWalk == ASSUME NEW x PROVE WalkOK(x, <<>>)
<1> DEFINE S == [p : Ids, next : Ids \cup {End}]
<1>1. <<>> \in Seq(S) /\ Len(<<>>) = 0 /\ \A i \in 1 .. Len(<<>>) : FALSE
  OBVIOUS
<1> QED BY <1>1 DEF WalkOK, Trail

\* IInv is inductive: it holds of the initial state and each action keeps it.
LEMMA InitHolds == Init => IInv
<1> SUFFICES ASSUME Init PROVE IInv
  OBVIOUS
<1>1. w = particles_new /\ rockets_cnt = 0 /\ walk = <<>> /\ phase = "none"
  BY DEF Init
<1>2. WorldOK(particles_new) /\ particles_new.rockets = 0
  BY NewWorld
<1> QED BY <1>1, <1>2, EmptyWalk DEF IInv

\* A context starts with one particle, and with what is left of the count.
LEMMA CreateKeeps == IInv /\ sparkler_create_context => IInv'
<1> SUFFICES ASSUME IInv, sparkler_create_context PROVE IInv'
  OBVIOUS
<1>1. /\ phase = "none" /\ phase' = "frame" /\ walk = <<>> /\ walk' = <<>>
      /\ w = particles_new /\ rockets_cnt = w.rockets /\ rockets_cnt' = rockets_cnt
  BY DEF IInv, sparkler_create_context
<1>2. [particles_new EXCEPT !.rockets = rockets_cnt] = particles_new
  <2>1. rockets_cnt = particles_new.rockets
    BY <1>1
  <2>2. particles_new.rockets = 0
    BY NewWorld
  <2> QED BY <2>1, <2>2 DEF particles_new
<1>3. w' = particles_add_particles(w, INIT_PARTS)
  BY <1>1, <1>2 DEF sparkler_create_context
<1>4. WorldOK(w) /\ INIT_PARTS \in Nat
  BY SparklerAssumption DEF IInv
<1>5. WorldOK(w') /\ w'.rockets = w.rockets
  BY <1>3, <1>4, SimplesWorld
<1>6. WalkOK(w', walk')
  BY <1>1, EmptyWalk
<1> QED BY <1>1, <1>5, <1>6 DEF IInv

\* Cleaning up all that the top level leads to leaves no rocket counted.
LEMMA DestroyKeeps == IInv /\ sparkler_destroy_context => IInv'
<1> SUFFICES ASSUME IInv, sparkler_destroy_context PROVE IInv'
  OBVIOUS
<1>1. /\ phase = "frame" /\ phase' = "none" /\ walk = <<>> /\ walk' = <<>>
      /\ w' = particles_new /\ rockets_cnt = w.rockets /\ rockets_cnt' = particles_free
  BY DEF IInv, sparkler_destroy_context
<1>2. WorldOK(w)
  BY DEF IInv
<1>3. {p \in Listed(w, w.active) : w.ops[p] = "rocket"} = Rockets(w)
  <2>1. Listed(w, w.active) = Alive(w)
    BY <1>2, ListedAll DEF WorldOK
  <2> QED BY <2>1 DEF Rockets, Alive
<1>4. particles_free = 0
  <2>1. w.rockets = Cardinality(Rockets(w))
    BY <1>2 DEF WorldOK, Particles
  <2>2. Rockets(w) \in SUBSET Ids
    BY DEF Rockets
  <2>3. Cardinality(Rockets(w)) \in Nat
    BY <2>2, Sizable, FS_Subset, FS_CardinalityType
  <2>4. particles_free = rockets_cnt - Cardinality(Rockets(w))
    BY <1>3 DEF particles_free
  <2> QED BY <1>1, <2>1, <2>3, <2>4
<1>5. WorldOK(w') /\ w'.rockets = 0
  BY <1>1, NewWorld
<1>6. WalkOK(w', walk')
  BY <1>1, EmptyWalk
<1> QED BY <1>1, <1>4, <1>5, <1>6 DEF IInv

\* A walk starts at the first entry of the top level.
LEMMA StartKeeps == IInv /\ particles_sim => IInv'
<1> SUFFICES ASSUME IInv, particles_sim PROVE IInv'
  OBVIOUS
<1>1. /\ walk' = IF w.active = <<>> THEN <<>> ELSE <<Enter(w, w.active[1])>>
      /\ phase' = "sim" /\ w' = w /\ rockets_cnt' = rockets_cnt
      /\ WorldOK(w) /\ rockets_cnt = w.rockets
  BY DEF IInv, particles_sim
<1>2. WalkOK(w, walk')
  <2>1. CASE w.active = <<>>
    BY <1>1, <2>1, EmptyWalk
  <2>2. CASE w.active # <<>>
    <3> DEFINE q == w.active[1]
               o == OwnerAt(<<>>, Len(<<>>) + 1)
    <3>1. o = End /\ End \in Owners(w) /\ ListOf(w, End) = w.active
      BY DEF OwnerAt, Owners, ListOf
    <3>2. q \in ToSet(w.active)
      <4>1. w.active \in Seq(Ids)
        BY <1>1 DEF WorldOK, Particles
      <4>2. 1 \in 1 .. Len(w.active)
        BY <2>2, <4>1
      <4> QED BY <4>1, <4>2, Entries
    <3>3. q \in ToSet(ListOf(w, o)) /\ o \in Owners(w)
      BY <3>1, <3>2
    <3>4. Forest(w) /\ WalkOK(w, <<>>)
      BY <1>1, EmptyWalk DEF WorldOK
    <3> HIDE DEF q
    <3>5. WalkOK(w, Append(<<>>, Enter(w, q)))
      BY <3>3, <3>4, Entered
    <3>6. Append(<<>>, Enter(w, q)) = <<Enter(w, q)>>
      OBVIOUS
    <3> QED BY <1>1, <2>2, <3>5, <3>6 DEF q
  <2> QED BY <2>1, <2>2
<1>3. WorldOK(w') /\ WalkOK(w', walk') /\ rockets_cnt' = w'.rockets /\ phase' = "sim"
  BY <1>1, <1>2
<1> QED BY <1>3 DEF IInv

\* A particle may spawn and may be reaped, and the walk goes on from it.
LEMMA SimKeeps == IInv /\ _particles_sim => IInv'
<1> SUFFICES ASSUME IInv, _particles_sim PROVE IInv'
  OBVIOUS
<1> DEFINE n == Len(walk)
           p == walk[n].p
<1>1. WorldOK(w) /\ WalkOK(w, walk) /\ phase = "sim" /\ walk # <<>> /\ phase' = phase
      /\ rockets_cnt' = w'.rockets
  BY DEF IInv, _particles_sim
<1>2. n \in Nat /\ n # 0
  <2> DEFINE S == [p : Ids, next : Ids \cup {End}]
  <2>1. walk \in Seq(S)
    BY <1>1 DEF WalkOK, Trail
  <2> HIDE DEF S
  <2> QED BY <1>1, <2>1
<1>3. PICK s \in sim(p) :
        /\ w' = Simulated(w, p, s)
        /\ walk' = IF ~s.dead /\ w'.children[p] # <<>>
                   THEN Append(walk, Enter(w', w'.children[p][1]))
                   ELSE Advance(w', walk)
  BY DEF _particles_sim, Last
<1>4. p \in Alive(w) /\ w.ops[p] \in Kinds
  <2>1. Forest(w) /\ Trail(w, walk) /\ n \in 1 .. n
    BY <1>1, <1>2 DEF WorldOK, WalkOK
  <2>2. OwnerAt(walk, n) \in Owners(w) /\ p \in ToSet(ListOf(w, OwnerAt(walk, n)))
    BY <1>1, <2>1 DEF WalkOK, Trail, InList, Entry
  <2>3. p \in Alive(w)
    BY <2>1, <2>2, Lists
  <2>4. w.ops \in [Ids -> Kinds \cup {"none"}]
    BY <1>1 DEF WorldOK, Particles
  <2> QED BY <2>3, <2>4 DEF Alive
<1>5. s.spawned \in Seq(Kinds)
  BY <1>3, <1>4, SimsAre
<1>6. p = walk[n].p /\ n = Len(walk)
  OBVIOUS
<1> HIDE DEF n, p
<1>7. WorldOK(w') /\ Trail(w', walk) /\ (~s.dead => WalkOK(w', walk))
  BY <1>1, <1>2, <1>3, <1>5, <1>6, SimulatedWorld
<1>8. Forest(w') /\ w'.children \in [Ids -> Seq(Ids)]
  BY <1>7 DEF WorldOK, Particles
<1>9. WalkOK(w', walk')
  <2>1. CASE ~s.dead /\ w'.children[p] # <<>>
    <3> DEFINE q == w'.children[p][1]
               o == OwnerAt(walk, Len(walk) + 1)
    <3>1. o = p /\ p \in Ids /\ p # End
      <4>1. Len(walk) + 1 # 1 /\ (Len(walk) + 1) - 1 = n
        BY <1>2, <1>6
      <4>2. o = walk[n].p
        BY <4>1 DEF OwnerAt
      <4> QED BY <1>4, <1>6, <4>2, Sizable DEF Alive
    <3>2. p \in Owners(w')
      <4>1. n \in 1 .. Len(walk)
        BY <1>2, <1>6
      <4>2. OwnerAt(walk, n) \in Owners(w') /\ p \in ToSet(ListOf(w', OwnerAt(walk, n)))
        BY <1>6, <1>7, <2>1, <4>1 DEF WalkOK, Trail, InList, Entry
      <4> QED BY <1>8, <4>2, Lists
    <3>3. ListOf(w', p) = w'.children[p]
      BY <3>1 DEF ListOf
    <3>4. q \in ToSet(w'.children[p])
      <4>1. w'.children[p] \in Seq(Ids)
        BY <1>8, <3>1
      <4>2. 1 \in 1 .. Len(w'.children[p])
        BY <2>1, <4>1
      <4> QED BY <4>1, <4>2, Entries
    <3>5. q \in ToSet(ListOf(w', o)) /\ o \in Owners(w')
      BY <3>1, <3>2, <3>3, <3>4
    <3> HIDE DEF q
    <3>6. WalkOK(w', Append(walk, Enter(w', q)))
      BY <1>7, <1>8, <2>1, <3>5, Entered
    <3> QED BY <1>3, <2>1, <3>6 DEF q
  <2>2. CASE ~(~s.dead /\ w'.children[p] # <<>>)
    <3>1. walk' = Advance(w', walk)
      BY <1>3, <2>2
    <3> QED BY <1>7, <1>8, <3>1, Advances
  <2> QED BY <2>1, <2>2
<1> QED BY <1>1, <1>7, <1>9 DEF IInv

\* One more is added, and positions change of those that are marked.
LEMMA RenderKeeps == IInv /\ sparkler_render => IInv'
<1> SUFFICES ASSUME IInv, sparkler_render PROVE IInv'
  OBVIOUS
<1> DEFINE x == particles_add_particles(w, FRAME_PARTS)
<1>1. /\ WorldOK(w) /\ walk' = <<>> /\ phase' = "frame"
      /\ rockets_cnt' = rockets_cnt /\ rockets_cnt = w.rockets
  BY DEF IInv, sparkler_render
<1>2. PICK movers \in SUBSET (Alive(x) \ Virtual(x)), step \in Steps :
         w' = particles_draw(particles_age(x, movers, step))
  BY DEF sparkler_render, AgedAndDrawn
<1>3. WorldOK(x) /\ x.rockets = w.rockets
  BY <1>1, SimplesWorld, SparklerAssumption
<1> HIDE DEF x
<1>4. Touched(x, w')
  <2> DEFINE moved == [p \in Ids |-> x.moved[p] \/ p \in movers]
             position == [p \in Ids |-> IF p \in movers
                                        THEN [d \in Dims |-> x.position[p][d] + step[d]]
                                        ELSE x.position[p]]
             v == particles_age(x, movers, step)
             expired == [p \in Ids |->
                v.expired[p] \/ (v.ops[p] \notin {"none", "burst"} /\ offscreen(v.position[p]))]
  <2>1. x = [chunker |-> x.chunker, bsp |-> x.bsp, active |-> x.active, children |-> x.children,
             ops |-> x.ops, position |-> x.position, expired |-> x.expired, thrust |-> x.thrust,
             age |-> x.age, moved |-> x.moved, rockets |-> x.rockets]
        /\ x.position \in [Ids -> [Dims -> Int]] /\ x.age \in [Ids -> Nat]
    BY <1>3 DEF WorldOK, Particles
  <2>2. v = [x EXCEPT !.moved = moved, !.position = position]
    <3>1. v = [x EXCEPT !.bsp = x.bsp, !.moved = moved, !.position = position]
      BY DEF particles_age, bsp_move_occupant
    <3> HIDE DEF v, moved, position
    <3> QED BY <2>1, <3>1
  <2>3. w' = [v EXCEPT !.expired = expired]
    BY <1>2 DEF particles_draw
  <2>4. \A p \in Ids : ~moved[p] => ~x.moved[p] /\ position[p] = x.position[p]
    OBVIOUS
  <2>5. moved = [p \in Ids |-> moved[p]] /\ position \in [Ids -> [Dims -> Int]]
    <3>1. moved = [p \in Ids |-> moved[p]]
      OBVIOUS
    <3>2. \A p \in Ids : [d \in Dims |-> x.position[p][d] + step[d]] \in [Dims -> Int]
      BY <2>1, SparklerAssumption DEF Steps
    <3>3. position \in [Ids -> [Dims -> Int]]
      <4> DEFINE S == [Dims -> Int]
                 on(p) == [d \in Dims |-> x.position[p][d] + step[d]]
      <4>1. \A p \in Ids : on(p) \in S /\ x.position[p] \in S
        BY <2>1, <3>2
      <4> HIDE DEF S, on
      <4> QED BY <4>1 DEF on, S
    <3> QED BY <3>1, <3>3
  <2> HIDE DEF v, moved, position, expired
  <2>6. /\ v = [chunker |-> v.chunker, bsp |-> v.bsp, active |-> v.active, children |-> v.children,
                ops |-> v.ops, position |-> v.position, expired |-> v.expired, thrust |-> v.thrust,
                age |-> v.age, moved |-> v.moved, rockets |-> v.rockets]
        /\ v.chunker = x.chunker /\ v.bsp = x.bsp /\ v.active = x.active /\ v.children = x.children
        /\ v.ops = x.ops /\ v.position = position /\ v.moved = moved /\ v.rockets = x.rockets
        /\ v.age = x.age
    BY <2>1, <2>2
  <2> DEFINE y == w'
  <2>7. y = [v EXCEPT !.expired = expired]
    BY <2>3
  <2> HIDE DEF y
  <2>8. /\ y = [chunker |-> y.chunker, bsp |-> y.bsp, active |-> y.active, children |-> y.children,
                ops |-> y.ops, position |-> y.position, expired |-> y.expired, thrust |-> y.thrust,
                age |-> y.age, moved |-> y.moved, rockets |-> y.rockets]
        /\ y.chunker = v.chunker /\ y.bsp = v.bsp /\ y.active = v.active /\ y.children = v.children
        /\ y.ops = v.ops /\ y.position = v.position /\ y.moved = v.moved /\ y.rockets = v.rockets
        /\ y.age = v.age
    BY <2>6, <2>7
  <2>9. Touched(x, y)
    BY <2>1, <2>4, <2>5, <2>6, <2>8 DEF Touched
  <2> QED BY <2>9 DEF y
<1>5. WorldOK(w') /\ w'.rockets = x.rockets
  <2>1. WorldOK(w')
    BY <1>3, <1>4, TouchedWorld
  <2> QED BY <1>4, <2>1 DEF Touched
<1>6. WalkOK(w', walk')
  BY <1>1, EmptyWalk
<1> QED BY <1>1, <1>3, <1>5, <1>6 DEF IInv

\* So IInv holds of every state.
LEMMA Invariant == SparklerSpec => []IInv
<1>1. IInv /\ UNCHANGED vars => IInv'
  BY DEF IInv, vars
<1>2. IInv /\ Next => IInv'
  BY CreateKeeps, DestroyKeeps, StartKeeps, SimKeeps, RenderKeeps DEF Next
<1> QED BY <1>1, <1>2, InitHolds, PTL DEF SparklerSpec

\* It implies each of the invariants that are checked.
LEMMA TypeHolds == IInv => TypeOK
<1> SUFFICES ASSUME IInv PROVE TypeOK
  OBVIOUS
<1>1. Particles(w) /\ Forest(w) /\ Trail(w, walk) /\ phase \in {"none", "frame", "sim"}
      /\ rockets_cnt = w.rockets
  BY DEF IInv, WorldOK, WalkOK
<1>2. w.ops \in [Ids -> Kinds \cup {"none"}]
      /\ w.rockets = Cardinality(Rockets(w)) /\ w.rockets <= ROCKETS_MAX
  BY <1>1 DEF Particles
<1>3. Cardinality(Rockets(w)) \in Nat
  <2>1. Rockets(w) \in SUBSET Ids
    BY DEF Rockets
  <2> QED BY <2>1, Sizable, FS_Subset, FS_CardinalityType
<1>4. rockets_cnt \in 0 .. ROCKETS_MAX
  BY <1>1, <1>2, <1>3, SparklerAssumption
<1>5. \A i \in 1 .. Len(walk) : walk[i].p \in Ids /\ walk[i].next \in Ids \cup {End}
  BY <1>1, Levels
<1> QED BY <1>1, <1>2, <1>4, <1>5 DEF TypeOK

\* Counts and places of chunks are what Holds says.
LEMMA PinnedHolds == IInv => ChunksPinned
<1> SUFFICES ASSUME IInv PROVE ChunksPinned
  OBVIOUS
<1> DEFINE one(m) == 1
           b == w.bsp
<1>1. /\ ChunkerOK(w.chunker, w.chunker.chunk, MaxParticles + 1, Live, Sizes(w), ChunkSize)
      /\ TreeOK(b, Live)
  BY DEF IInv, WorldOK, Live
<1>2. Holds(w.chunker, Live, size)
  <2>1. \A m \in Live : Sizes(w)[m] = size(m)
    BY DEF Live, Alive, Sizes, size
  <2> DEFINE k == w.chunker
  <2>2. ChunkerOK(k, k.chunk, MaxParticles + 1, Live, Sizes(w), ChunkSize)
    BY <1>1
  <2> HIDE DEF k
  <2>3. /\ \A c \in DOMAIN k.n_refs :
             k.n_refs[c] = Cardinality({m \in Live : m[1] = c}) + (IF c = k.chunk THEN 1 ELSE 0)
        /\ \A i \in 1 .. Len(k.free_chunks) : k.n_refs[k.free_chunks[i]] = 0
    <3>1. DOMAIN k.n_refs = 1 .. (MaxParticles + 1)
      BY <2>2 DEF ChunkerOK
    <3>2. \A c : InChunk(Live, c) = {m \in Live : m[1] = c}
          /\ Own(k.chunk, c) = IF c = k.chunk THEN 1 ELSE 0
      BY DEF InChunk, Own
    <3>3. \A i \in 1 .. Len(k.free_chunks) : k.free_chunks[i] \in ToSet(k.free_chunks)
      BY DEF ToSet
    <3> QED BY <2>2, <3>1, <3>2, <3>3 DEF ChunkerOK
  <2>4. /\ \A m \in Live : m[2] + size(m) <= k.next_offset[m[1]]
        /\ \A m, n \in Live : m[1] = n[1] /\ m[2] < n[2] => m[2] + size(m) <= n[2]
    BY <2>1, <2>2 DEF ChunkerOK
  <2> QED BY <2>3, <2>4 DEF Holds, k
<1>3. Holds(b.chunker, ClustersOf(b), one)
  <2> DEFINE k == b.chunker
             live == ClustersOf(b)
  <2>1. ChunkerOK(k, k.chunk, MaxClusters, live, Ones, Clusters)
    BY <1>1 DEF TreeOK
  <2>2. \A m \in live : Ones[m] = 1
    <3>1. live \subseteq (1 .. MaxClusters) \X Nat
      BY <2>1 DEF ChunkerOK
    <3> QED BY <3>1 DEF Ones
  <2> HIDE DEF k, live
  <2>3. /\ \A c \in DOMAIN k.n_refs :
             k.n_refs[c] = Cardinality({m \in live : m[1] = c}) + (IF c = k.chunk THEN 1 ELSE 0)
        /\ \A i \in 1 .. Len(k.free_chunks) : k.n_refs[k.free_chunks[i]] = 0
    <3>1. DOMAIN k.n_refs = 1 .. MaxClusters
      BY <2>1 DEF ChunkerOK
    <3>2. \A c : InChunk(live, c) = {m \in live : m[1] = c}
          /\ Own(k.chunk, c) = IF c = k.chunk THEN 1 ELSE 0
      BY DEF InChunk, Own
    <3>3. \A i \in 1 .. Len(k.free_chunks) : k.free_chunks[i] \in ToSet(k.free_chunks)
      BY DEF ToSet
    <3> QED BY <2>1, <3>1, <3>2, <3>3 DEF ChunkerOK
  <2>4. /\ \A m \in live : m[2] + 1 <= k.next_offset[m[1]]
        /\ \A m, n \in live : m[1] = n[1] /\ m[2] < n[2] => m[2] + 1 <= n[2]
    BY <2>1, <2>2 DEF ChunkerOK
  <2> QED BY <2>3, <2>4 DEF Holds, k, live
<1>4. \A m, n \in Inner(b) : m # n => b.octrants[m] # b.octrants[n]
  BY <1>1 DEF TreeOK
<1> QED BY <1>2, <1>3, <1>4 DEF ChunksPinned, Inner, ClustersOf

\* Lists form a tree, and the walk is over what lives.
LEMMA WholeHolds == IInv => TreeWhole
<1> SUFFICES ASSUME IInv PROVE TreeWhole
  OBVIOUS
<1>1. Particles(w) /\ Forest(w) /\ WalkOK(w, walk) /\ rockets_cnt = w.rockets
  BY DEF IInv, WorldOK
<1>2. Listed(w, w.active) = Live
  BY <1>1, ListedAll DEF Live
<1>3. /\ \A o \in Owners(w) : IsInjective(ListOf(w, o))
      /\ \A o, q \in Owners(w) : o # q => ToSet(ListOf(w, o)) \cap ToSet(ListOf(w, q)) = {}
  BY <1>1 DEF Forest
<1>4. \A i \in 1 .. Len(walk) : walk[i].p \in Live /\ walk[i].next \in Live \cup {End}
  <2> TAKE i \in 1 .. Len(walk)
  <2> DEFINE o == OwnerAt(walk, i)
  <2>1. o \in Owners(w) /\ walk[i].p \in ToSet(ListOf(w, o))
        /\ walk[i].next \in (ToSet(ListOf(w, o)) \ {walk[i].p}) \cup {End}
    BY <1>1 DEF WalkOK, Trail, Entry, InList
  <2>2. ToSet(ListOf(w, o)) \subseteq Live
    BY <1>1, <2>1, Lists DEF Live
  <2> QED BY <2>1, <2>2
<1>5. rockets_cnt = Cardinality({p \in Live : w.ops[p] = "rocket"})
  <2>1. Rockets(w) = {p \in Live : w.ops[p] = "rocket"}
    BY DEF Rockets, Live, Alive
  <2> QED BY <1>1, <2>1 DEF Particles
<1> QED BY <1>2, <1>3, <1>4, <1>5 DEF TreeWhole

\* Occupants and leaves belong to each other.
LEMMA LeavesHold == IInv => LeavesLive
<1> SUFFICES ASSUME IInv PROVE LeavesLive
  OBVIOUS
<1> DEFINE b == w.bsp
<1>1. /\ TreeOK(b, Live)
      /\ \A p \in Live : ~w.moved[p] /\ InCube(w.position[p]) => Within(b.leaf[p], w.position[p])
  BY DEF IInv, WorldOK, Live
<1>2. \A n : OnTree(b, n) <=> InTree(n)
  BY DEF OnTree, InTree
<1>3. InTree(b.cache) /\ \A n \in Paths : b.occupants[n] \subseteq Live
  BY <1>1, <1>2 DEF TreeOK
<1>4. ASSUME NEW p \in Live
      PROVE  /\ InTree(b.leaf[p]) /\ b.octrants[b.leaf[p]] = Leaf
             /\ {n \in Paths : p \in b.occupants[n]} = {b.leaf[p]}
  <2>1. /\ OnTree(b, b.leaf[p]) /\ b.octrants[b.leaf[p]] = Leaf
        /\ \A n \in Paths : p \in b.occupants[n] <=> n = b.leaf[p]
    BY <1>1 DEF TreeOK
  <2>2. b.leaf[p] \in Paths
    BY <2>1 DEF OnTree
  <2> QED BY <1>2, <2>1, <2>2
<1> QED BY <1>1, <1>3, <1>4 DEF LeavesLive

-----------------------------------------------------------------------------
(* Shock waves *)

\* Who is between a burst's spheres and in the volume of their leaf is found by
\* the burst, and pushed.
LEMMA BurstPushes ==
  ASSUME NEW x, WorldOK(x), NEW p \in Alive(x), NEW q \in Alive(x), ~x.moved[q],
         InCube(x.position[q]), InShell(x, x.position[p], x.age[p] + 1, q)
  PROVE  burst_cb(x, p).thrust[q]
<1> DEFINE r == x.age[p] + 1
           found == bsp_search_sphere(x.bsp, x.position[p], r, r + Shell)
           thrust == [i \in Ids |-> x.thrust[i] \/
                       (/\ \E l \in found.leaves : i \in x.bsp.occupants[l]
                        /\ InShell(x, x.position[p], r, i))]
           age == [x.age EXCEPT ![p] = @ + 1]
           y == burst_cb(x, p)
           l == x.bsp.leaf[q]
           S == [Dims -> Int]
<1>1. /\ x = [chunker |-> x.chunker, bsp |-> x.bsp, active |-> x.active, children |-> x.children,
              ops |-> x.ops, position |-> x.position, expired |-> x.expired, thrust |-> x.thrust,
              age |-> x.age, moved |-> x.moved, rockets |-> x.rockets]
      /\ x.position \in [Ids -> S] /\ x.age \in [Ids -> Nat]
      /\ p \in Ids /\ q \in Ids
  BY DEF WorldOK, Particles, Alive
<1>2. /\ TreeOK(x.bsp, Alive(x)) /\ OnTree(x.bsp, l) /\ x.bsp.octrants[l] = Leaf
      /\ q \in x.bsp.occupants[l] /\ Within(l, x.position[q])
  <2>1. TreeOK(x.bsp, Alive(x)) /\ Within(l, x.position[q])
    BY DEF WorldOK
  <2>2. OnTree(x.bsp, l) /\ x.bsp.octrants[l] = Leaf
        /\ \A n \in Paths : q \in x.bsp.occupants[n] <=> n = l
    BY <2>1 DEF TreeOK
  <2>3. l \in Paths
    BY <2>2 DEF OnTree
  <2> QED BY <2>1, <2>2, <2>3
<1>3. y.thrust = thrust
  <2>1. y = [x EXCEPT !.age = age, !.thrust = thrust]
    BY DEF burst_cb
  <2> HIDE DEF y, age, thrust
  <2> QED BY <1>1, <2>1
<1>4. r \in Int /\ r + Shell \in Int
  <2>1. x.age[p] \in Nat /\ Shell \in Nat
    BY <1>1, SparklerAssumption
  <2> QED BY <2>1
<1>5. x.position[p] \in S /\ x.position[q] \in S
  BY <1>1
<1>6. /\ Squared(r) < Apart(x.position[q], x.position[p])
      /\ Apart(x.position[q], x.position[p]) < Squared(r + Shell)
  <2>1. InShell(x, x.position[p], r, q)
    OBVIOUS
  <2> HIDE DEF r
  <2> QED BY <2>1 DEF InShell, Apart
<1> HIDE DEF r, l
<1>7. l \in found.leaves
  BY <1>2, <1>4, <1>5, <1>6, SearchFinds DEF S
<1>8. InShell(x, x.position[p], r, q)
  BY DEF r
<1> HIDE DEF found, S
<1>9. thrust[q]
  BY <1>1, <1>2, <1>7, <1>8, Zenon
<1> QED BY <1>3, <1>9

\* In the step of a particle nobody else grows older, and it does so itself if
\* it is a burst that spawns nothing and is not reaped.
LEMMA WhoAges ==
  ASSUME NEW x, WorldOK(x), NEW p \in Alive(x), NEW s, s.spawned \in Seq(Kinds),
         NEW q \in Alive(x), Simulated(x, p, s).age[q] = x.age[q] + 1
  PROVE  /\ q = p /\ x.ops[p] = "burst" /\ ~s.dead
         /\ (s.spawned = <<>> => Simulated(x, p, s) = burst_cb(x, p))
<1> DEFINE v == particles_spawn_particle(x, p, s.spawned)
           y == Simulated(x, p, s)
<1>1. /\ p \in Ids /\ q \in Ids /\ p \in Owners(x) /\ x.position[p] \in [Dims -> Int]
      /\ x.age[q] \in Nat
  BY DEF WorldOK, Particles, Alive, Owners
<1>2. /\ WorldOK(v) /\ v.ops[p] = x.ops[p] /\ v.age[q] = x.age[q]
      /\ p \in Alive(v) /\ q \in Alive(v) /\ (s.spawned = <<>> => v = x)
  <2>1. v = Added(x, p, s.spawned, x.position[p])
    BY DEF particles_spawn_particle
  <2> HIDE DEF v
  <2>2. WorldOK(v) /\ Kept(x, v) /\ (s.spawned = <<>> => v = x)
    BY <1>1, <2>1, AddedWorld
  <2> QED BY <1>1, <2>2 DEF Kept, Alive
<1>3. y = IF s.dead THEN particles_reap_particle(v, p)
          ELSE IF v.ops[p] = "burst" THEN burst_cb(v, p) ELSE [v EXCEPT !.thrust[p] = FALSE]
  BY DEF Simulated, Outcome
<1>4. y.age[q] = x.age[q] + 1
  OBVIOUS
<1> HIDE DEF v, y
<1>5. /\ v = [chunker |-> v.chunker, bsp |-> v.bsp, active |-> v.active, children |-> v.children,
              ops |-> v.ops, position |-> v.position, expired |-> v.expired, thrust |-> v.thrust,
              age |-> v.age, moved |-> v.moved, rockets |-> v.rockets]
      /\ v.age \in [Ids -> Nat]
  BY <1>2 DEF WorldOK, Particles
<1>6. ~s.dead
  <2> SUFFICES ASSUME s.dead PROVE FALSE
    OBVIOUS
  <2>1. y = particles_reap_particle(v, p)
    BY <1>3
  <2>2. y.age[q] = IF q = p THEN 0 ELSE v.age[q]
    BY <1>2, <2>1, ReapWorld
  <2> QED BY <1>1, <1>2, <1>4, <2>2
<1>7. v.ops[p] = "burst"
  <2> SUFFICES ASSUME v.ops[p] # "burst" PROVE FALSE
    OBVIOUS
  <2> DEFINE thrust == [v.thrust EXCEPT ![p] = FALSE]
  <2>1. y = [v EXCEPT !.thrust = thrust]
    BY <1>3, <1>6
  <2> HIDE DEF thrust
  <2>2. y.age = v.age
    BY <1>5, <2>1
  <2> QED BY <1>1, <1>2, <1>4, <2>2
<1>8. y = burst_cb(v, p)
  BY <1>3, <1>6, <1>7
<1>9. q = p
  <2> DEFINE r == v.age[p] + 1
             found == bsp_search_sphere(v.bsp, v.position[p], r, r + Shell)
             thrust == [i \in Ids |-> v.thrust[i] \/
                         (/\ \E l \in found.leaves : i \in v.bsp.occupants[l]
                          /\ InShell(v, v.position[p], r, i))]
             age == [v.age EXCEPT ![p] = @ + 1]
  <2>1. burst_cb(v, p) = [v EXCEPT !.age = age, !.thrust = thrust]
    BY DEF burst_cb
  <2>2. q # p => age[q] = v.age[q]
    BY <1>1, <1>5
  <2> HIDE DEF age, thrust
  <2>3. y.age = age
    BY <1>5, <1>8, <2>1
  <2> QED BY <1>1, <1>2, <1>4, <2>2, <2>3
<1> QED BY <1>2, <1>6, <1>7, <1>8, <1>9 DEF y

\* No other step makes anybody older.
LEMMA NobodyAges ==
  ASSUME IInv, \/ sparkler_create_context \/ sparkler_destroy_context \/ particles_sim
               \/ sparkler_render \/ UNCHANGED vars
  PROVE  \A p \in Live : w'.age[p] # w.age[p] + 1
<1> SUFFICES ASSUME NEW p \in Live PROVE w'.age[p] # w.age[p] + 1
  OBVIOUS
<1>1. p \in Alive(w) /\ p \in Ids /\ WorldOK(w) /\ w.age[p] \in Nat
  BY DEF IInv, WorldOK, Particles, Live, Alive
<1>2. CASE sparkler_create_context
  BY <1>1, <1>2, NewWorld DEF sparkler_create_context, IInv
<1>3. CASE sparkler_destroy_context
  <2>1. w'.age = [i \in Ids |-> 0]
    BY <1>3 DEF sparkler_destroy_context, particles_new
  <2>2. w'.age[p] = 0
    BY <1>1, <2>1
  <2> QED BY <1>1, <2>2
<1>4. CASE particles_sim \/ UNCHANGED vars
  <2>1. w' = w
    BY <1>4 DEF particles_sim, vars
  <2> QED BY <1>1, <2>1
<1>5. CASE sparkler_render
  <2> DEFINE x == particles_add_particles(w, FRAME_PARTS)
  <2>1. WorldOK(x) /\ x.age[p] = w.age[p]
    BY <1>1, SimplesWorld, SparklerAssumption DEF Kept
  <2>2. PICK movers \in SUBSET (Alive(x) \ Virtual(x)), step \in Steps :
           w' = particles_draw(particles_age(x, movers, step))
    BY <1>5 DEF sparkler_render, AgedAndDrawn
  <2> HIDE DEF x
  <2>3. x = [chunker |-> x.chunker, bsp |-> x.bsp, active |-> x.active, children |-> x.children,
             ops |-> x.ops, position |-> x.position, expired |-> x.expired, thrust |-> x.thrust,
             age |-> x.age, moved |-> x.moved, rockets |-> x.rockets]
    BY <2>1 DEF WorldOK, Particles
  <2>4. w'.age = x.age
    BY <2>2, <2>3 DEF particles_draw, particles_age
  <2> QED BY <1>1, <2>1, <2>4
<1> QED BY <1>2, <1>3, <1>4, <1>5

\* So the step that makes a burst older is its own, and pushes who is to be pushed.
Felt ==
  \A p \in Live : w'.age[p] = w.age[p] + 1 =>
     \A q \in Live :
        ~w.moved[q] /\ InCube(w.position[q]) /\ InShell(w, w.position[p], w'.age[p], q)
        => w'.thrust[q]
LEMMA ShockHolds == IInv /\ [Next]_vars => Felt
<1> SUFFICES ASSUME IInv, [Next]_vars,
                    NEW p \in Live, w'.age[p] = w.age[p] + 1,
                    NEW q \in Live, ~w.moved[q], InCube(w.position[q]),
                    InShell(w, w.position[p], w'.age[p], q)
             PROVE  w'.thrust[q]
  BY DEF Felt
<1>1. _particles_sim
  BY NobodyAges DEF Next
<1> DEFINE n == Len(walk)
           o == walk[n].p
<1>2. WorldOK(w) /\ WalkOK(w, walk) /\ walk # <<>>
  BY <1>1 DEF IInv, _particles_sim
<1>3. PICK s \in sim(o) : w' = Simulated(w, o, s)
  BY <1>1 DEF _particles_sim, Last
<1>4. o \in Live
  <2> DEFINE S == [p : Ids, next : Ids \cup {End}]
  <2>1. walk \in Seq(S)
    BY <1>2 DEF WalkOK, Trail
  <2> HIDE DEF S
  <2>2. n \in 1 .. Len(walk)
    BY <1>2, <2>1
  <2> QED BY <2>2, WholeHolds DEF TreeWhole
<1> HIDE DEF o
<1>5. o \in Alive(w) /\ p \in Alive(w) /\ q \in Alive(w) /\ w.ops[o] \in Kinds
  BY <1>2, <1>4 DEF Live, Alive, WorldOK, Particles
<1>6. s.spawned \in Seq(Kinds)
  BY <1>3, <1>5, SimsAre
<1>7. p = o /\ w.ops[o] = "burst" /\ ~s.dead /\ (s.spawned = <<>> => w' = burst_cb(w, o))
  BY <1>2, <1>3, <1>5, <1>6, WhoAges
<1>8. s.spawned = <<>>
  <2>1. s \in burst_sim(o)
    BY <1>3, <1>7 DEF sim
  <2> QED BY <1>7, <2>1 DEF burst_sim, Dies, Lives
<1>9. w' = burst_cb(w, p)
  BY <1>7, <1>8
<1>10. InShell(w, w.position[p], w.age[p] + 1, q)
  OBVIOUS
<1>11. burst_cb(w, p).thrust[q]
  BY <1>2, <1>5, <1>10, BurstPushes
<1> QED BY <1>9, <1>11

-----------------------------------------------------------------------------
(* The theorems *)

\* Particles are of a known kind, no more rockets than ROCKETS_MAX are counted,
\* and a walk is over addresses of particles.
THEOREM TypeCorrect == SparklerSpec => []TypeOK
BY Invariant, TypeHolds, PTL

\* However particles and clusters come and go, chunker.c counts for each chunk
\* what of it is live, so that it frees none that is in use, and hands out no
\* place that is taken.
THEOREM ChunksPinnedCorrect == SparklerSpec => []ChunksPinned
BY Invariant, PinnedHolds, PTL

\* While particles spawn, die and hand over their children in the middle of a
\* walk over the lists (particles.c), the lists remain a tree of what lives, the
\* walk comes to no particle that has been freed, and the count of rockets
\* (rocket.c) is that of those that live, over all contexts.
THEOREM TreeWholeCorrect == SparklerSpec => []TreeWhole
BY Invariant, WholeHolds, PTL

\* However nodes are subdivided and collapsed (bsp.c), no particle points to
\* a node that is gone, nor the cache, no node lists a particle that is gone,
\* and one that did not move is in its leaf's volume.
THEOREM LeavesLiveCorrect == SparklerSpec => []LeavesLive
BY Invariant, LeavesHold, PTL

\* What is between the spheres of a burst's shock wave, and has not moved since
\* it was added, is pushed: bsp_search_sphere() skips nodes and stops early
\* (bsp.c), and misses no leaf that burst.c looks for.
THEOREM ShockFeltCorrect == SparklerSpec => ShockFelt
<1>1. IInv /\ [Next]_vars => [Felt]_vars
  BY ShockHolds
<1> QED BY <1>1, Invariant, PTL DEF SparklerSpec, ShockFelt, Felt
=============================================================================
