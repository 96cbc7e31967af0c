--------------------------- MODULE FunctionsProofs ----------------------------
(***************************************************************************)
(* Proofs about the functions of RunFunctions, for lists of any length: the *)
(* fold that combines job states, the volumes and the mounts of a pod, and *)
(* the directories that intermediate directories give the runs.            *)
(***************************************************************************)
EXTENDS RunFunctions, TLAPS, SequenceTheorems, NaturalsInduction,
        WellFoundedInduction

(* Induction and folds. *)

\* A set of numbers that has zero and the successor of each of its members is Nat.
LEMMA Induction ==
  ASSUME NEW S, 0 \in S, \A n \in Nat : n \in S => n + 1 \in S
  PROVE  \A n \in Nat : n \in S
<1>1. SUFFICES ASSUME Nat \ S # {} PROVE FALSE
  OBVIOUS
<1>2. PICK x \in Nat \ S : \A y \in Nat \ S : <<y, x>> \notin OpToRel(<, Nat)
  <2>1. Nat \ S \subseteq Nat
    OBVIOUS
  <2> QED BY <1>1, <2>1, NatLessThanWellFounded, WFMin
<1>3. x # 0
  OBVIOUS
<1>4. x - 1 \in Nat /\ (x - 1) + 1 = x /\ x - 1 < x
  BY <1>3
<1>5. x - 1 \in S
  <2> SUFFICES ASSUME x - 1 \notin S PROVE FALSE
    OBVIOUS
  <2>1. <<x - 1, x>> \in Nat \X Nat
    BY <1>4
  <2>2. <<x - 1, x>> \in OpToRel(<, Nat)
    BY <2>1, <1>4 DEF OpToRel
  <2> QED BY <1>2, <1>4, <2>2
<1> QED BY <1>4, <1>5

\* The greatest element of a set of numbers that has an upper bound in it.
LEMMA MaxIs ==
  ASSUME NEW t \in SUBSET Nat, NEW x \in t, \A y \in t : y <= x
  PROVE  Max(t) = x
<1>1. \E z \in t : \A y \in t : z >= y
  OBVIOUS
<1>2. Max(t) \in t /\ \A y \in t : Max(t) >= y
  BY <1>1 DEF Max
<1>3. Max(t) <= x /\ x <= Max(t)
  BY <1>2
<1>4. Max(t) \in Nat /\ x \in Nat
  BY <1>2
<1> QED BY <1>3, <1>4

\* A set of the first numbers has a greatest element.
LEMMA MaxAmong ==
  ASSUME NEW n \in Nat, NEW t \in SUBSET (1..n), t # {}
  PROVE  Max(t) \in t /\ \A y \in t : y <= Max(t)
<1> DEFINE Up == {m \in Nat : \A u \in SUBSET (1..m) :
                     u # {} => \E x \in u : \A y \in u : x >= y}
<1>1. 0 \in Up
  <2>1. \A u \in SUBSET (1..0) : u = {}
    OBVIOUS
  <2> QED BY <2>1
<1>2. ASSUME NEW m \in Nat, m \in Up PROVE m + 1 \in Up
  <2> SUFFICES ASSUME NEW u \in SUBSET (1..(m + 1)), u # {}
               PROVE  \E x \in u : \A y \in u : x >= y
    OBVIOUS
  <2>1. CASE m + 1 \in u
    <3>1. \A y \in u : m + 1 >= y
      OBVIOUS
    <3> QED BY <2>1, <3>1
  <2>2. CASE m + 1 \notin u
    <3>1. u \in SUBSET (1..m)
      BY <2>2
    <3> QED BY <1>2, <3>1
  <2> QED BY <2>1, <2>2
<1> HIDE DEF Up
<1>3. n \in Up
  BY <1>1, <1>2, Induction
<1>4. \E x \in t : \A y \in t : x >= y
  BY <1>3 DEF Up
<1>5. Max(t) \in t /\ \A y \in t : Max(t) >= y
  BY <1>4 DEF Max
<1> QED BY <1>5

\* g is the function over sets of indices by which a fold over the list s is defined.
IsFold(base, F, n, s, g) ==
  \A t \in SUBSET (1..n) :
    g[t] = IF t = {} THEN base ELSE F[<<g[t \ {Max(t)}], s[Max(t)]>>]

\* That function exists.
LEMMA FoldExists ==
  ASSUME NEW A, NEW B, NEW base \in A, NEW F \in [A \X B -> A],
         NEW n \in Nat, NEW s \in [1..n -> B]
  PROVE  \E g \in [SUBSET (1..n) -> A] : IsFold(base, F, n, s, g)
<1> DEFINE Folds(g, m) == IsFold(base, F, m, s, g)
           Exists(m) == \E g \in [SUBSET (1..m) -> A] : Folds(g, m)
           Up == {m \in Nat : m <= n => Exists(m)}
<1>1. 0 \in Up
  <2> DEFINE g == [t \in SUBSET (1..0) |-> base]
  <2>1. g \in [SUBSET (1..0) -> A]
    OBVIOUS
  <2>2. \A t \in SUBSET (1..0) : t = {}
    OBVIOUS
  <2>3. Folds(g, 0)
    BY <2>2 DEF IsFold
  <2> QED BY <2>1, <2>3
<1> HIDE DEF Folds, Exists
<1>2. ASSUME NEW m \in Nat, m \in Up PROVE m + 1 \in Up
  <2> SUFFICES ASSUME m + 1 <= n PROVE Exists(m + 1)
    OBVIOUS
  <2>0. Exists(m)
    BY <1>2
  <2>1. PICK g \in [SUBSET (1..m) -> A] : Folds(g, m)
    BY <2>0 DEF Exists
  <2> DEFINE Next1(t) == IF m + 1 \in t THEN F[<<g[t \ {m + 1}], s[m + 1]>>] ELSE g[t]
             k == [t \in SUBSET (1..(m + 1)) |-> Next1(t)]
  <2>2. s[m + 1] \in B
    OBVIOUS
  <2>3. \A t \in SUBSET (1..(m + 1)) : t \ {m + 1} \in SUBSET (1..m)
    OBVIOUS
  <2>4. \A t \in SUBSET (1..(m + 1)) : m + 1 \notin t => t \in SUBSET (1..m)
    OBVIOUS
  <2>5. \A t \in SUBSET (1..(m + 1)) : Next1(t) \in A
    <3> SUFFICES ASSUME NEW t \in SUBSET (1..(m + 1)) PROVE Next1(t) \in A
      OBVIOUS
    <3>1. CASE m + 1 \in t
      <4>1. g[t \ {m + 1}] \in A
        BY <2>3
      <4>2. <<g[t \ {m + 1}], s[m + 1]>> \in A \X B
        BY <4>1, <2>2
      <4> QED BY <3>1, <4>2
    <3>2. CASE m + 1 \notin t
      BY <3>2, <2>4
    <3> QED BY <3>1, <3>2
  <2>6. k \in [SUBSET (1..(m + 1)) -> A]
    BY <2>5
  <2>7. \A t \in SUBSET (1..(m + 1)) : k[t] = Next1(t)
    OBVIOUS
  <2>8. Folds(k, m + 1)
    <3> SUFFICES ASSUME NEW t \in SUBSET (1..(m + 1))
                 PROVE  k[t] = IF t = {} THEN base
                               ELSE F[<<k[t \ {Max(t)}], s[Max(t)]>>]
      BY DEF Folds, IsFold
    <3> HIDE DEF k
    <3>1. CASE m + 1 \in t
      <4>1. t \in SUBSET Nat /\ \A y \in t : y <= m + 1
        OBVIOUS
      <4>2. Max(t) = m + 1
        BY <3>1, <4>1, MaxIs
      <4>3. t \ {m + 1} \in SUBSET (1..(m + 1)) /\ m + 1 \notin t \ {m + 1}
        OBVIOUS
      <4>4. k[t \ {m + 1}] = g[t \ {m + 1}]
        BY <4>3, <2>7
      <4> QED BY <3>1, <4>2, <4>4, <2>7
    <3>2. CASE m + 1 \notin t
      <4>1. t \in SUBSET (1..m) /\ k[t] = g[t]
        BY <3>2, <2>4, <2>7
      <4>2. CASE t = {}
        BY <4>1, <4>2, <2>1 DEF Folds, IsFold
      <4>3. CASE t # {}
        <5>1. t \ {Max(t)} \in SUBSET (1..(m + 1)) /\ m + 1 \notin t \ {Max(t)}
          BY <3>2
        <5>2. k[t \ {Max(t)}] = g[t \ {Max(t)}]
          BY <5>1, <2>7
        <5> QED BY <4>1, <4>3, <5>2, <2>1 DEF Folds, IsFold
      <4> QED BY <4>2, <4>3
    <3> QED BY <3>1, <3>2
  <2> HIDE DEF k
  <2> QED BY <2>6, <2>8 DEF Exists
<1> HIDE DEF Up
<1>3. n \in Up
  BY <1>1, <1>2, Induction
<1>4. Exists(n)
  BY <1>3 DEF Up
<1> QED BY <1>4 DEF Exists, Folds

\* The first numbers are the greatest of them and the ones before it.
LEMMA FirstNumbers ==
  ASSUME NEW n \in Nat, NEW m \in 1..n
  PROVE  /\ 1..m \in SUBSET (1..n)
         /\ 1..m # {}
         /\ Max(1..m) = m
         /\ (1..m) \ {Max(1..m)} = 1..(m - 1)
<1>1. 1..m \in SUBSET (1..n) /\ 1..m # {}
  OBVIOUS
<1>2. Max(1..m) = m
  <2>1. 1..m \in SUBSET Nat /\ m \in 1..m /\ \A y \in 1..m : y <= m
    OBVIOUS
  <2> QED BY <2>1, MaxIs
<1>3. (1..m) \ {m} = 1..(m - 1)
  OBVIOUS
<1> QED BY <1>1, <1>2, <1>3

--------------------------------------------------------------------------------
(* The state of a run. *)

\* DetermineJobStateFromOrder gives a state.
LEMMA OrderType ==
  ASSUME NEW p \in JobStates, NEW q \in JobStates
  PROVE  DetermineJobStateFromOrder(p, q) \in JobStates
BY DEF DetermineJobStateFromOrder

\* updateRunStatus combines the states of the listed jobs one after the other.
LEMMA FoldOfStates ==
  ASSUME NEW s \in Seq(JobStates)
  PROVE  \E h : /\ h[0] = JobStateUnknown
                /\ \A m \in 1..Len(s) : h[m] = DetermineJobStateFromOrder(h[m - 1], s[m])
                /\ h[Len(s)] = FoldLeft(DetermineJobStateFromOrder, JobStateUnknown, s)
<1> DEFINE n == Len(s)
           F == [p \in JobStates \X JobStates |-> DetermineJobStateFromOrder(p[1], p[2])]
<1>1. n \in Nat /\ s \in [1..n -> JobStates] /\ DOMAIN s = 1..n
  OBVIOUS
<1>2. JobStateUnknown \in JobStates
  BY DEF JobStateUnknown, JobStates, NamedState, StateOrder
<1>3. F \in [JobStates \X JobStates -> JobStates]
  BY OrderType
<1>4. \A p, q \in JobStates : F[<<p, q>>] = DetermineJobStateFromOrder(p, q)
  OBVIOUS
<1> HIDE DEF n, F
<1>5. PICK g \in [SUBSET (1..n) -> JobStates] : IsFold(JobStateUnknown, F, n, s, g)
  BY <1>1, <1>2, <1>3, FoldExists
<1> DEFINE Of(f, t) == IF t = {} THEN JobStateUnknown
                       ELSE LET x == Max(t) IN DetermineJobStateFromOrder(f[t \ {x}], s[x])
<1>6. \A t \in SUBSET (1..n) : g[t] = Of(g, t)
  <2> SUFFICES ASSUME NEW t \in SUBSET (1..n), t # {}
               PROVE  g[t] = DetermineJobStateFromOrder(g[t \ {Max(t)}], s[Max(t)])
    BY <1>5 DEF IsFold
  <2>1. Max(t) \in t
    BY <1>1, MaxAmong
  <2>2. g[t \ {Max(t)}] \in JobStates
    OBVIOUS
  <2>3. s[Max(t)] \in JobStates
    BY <2>1, <1>1
  <2> QED BY <2>2, <2>3, <1>4, <1>5 DEF IsFold
<1> DEFINE H == CHOOSE f : f = [t \in SUBSET (1..n) |-> Of(f, t)]
<1>7. g = [t \in SUBSET (1..n) |-> Of(g, t)]
  BY <1>6
<1>8. H = [t \in SUBSET (1..n) |-> Of(H, t)]
  BY <1>7
<1>9. FoldLeft(DetermineJobStateFromOrder, JobStateUnknown, s) = H[1..n]
  BY <1>1 DEF FoldLeft, MapThenFoldSet
<1>10. \A t \in SUBSET (1..n) : H[t] = Of(H, t)
  <2> HIDE DEF H, Of
  <2> QED BY <1>8
<1> HIDE DEF H
<1> DEFINE h == [m \in 0..n |-> H[1..m]]
<1>11. h[0] = JobStateUnknown
  <2>1. 1..0 = {} /\ {} \in SUBSET (1..n)
    OBVIOUS
  <2>2. H[{}] = JobStateUnknown
    BY <2>1, <1>10
  <2>3. h[0] = H[1..0]
    BY <1>1
  <2> QED BY <2>1, <2>2, <2>3
<1>12. ASSUME NEW m \in 1..n PROVE h[m] = DetermineJobStateFromOrder(h[m - 1], s[m])
  <2>1. H[1..m] = DetermineJobStateFromOrder(H[(1..m) \ {Max(1..m)}], s[Max(1..m)])
    BY <1>1, <1>10, FirstNumbers
  <2>2. H[1..m] = DetermineJobStateFromOrder(H[1..(m - 1)], s[m])
    BY <2>1, <1>1, FirstNumbers
  <2>3. h[m] = H[1..m] /\ h[m - 1] = H[1..(m - 1)]
    BY <1>1
  <2> HIDE DEF h
  <2> QED BY <2>2, <2>3
<1>13. h[n] = H[1..n]
  BY <1>1
<1> HIDE DEF h
<1> QED BY <1>9, <1>11, <1>12, <1>13 DEF n

\* The states DetermineJobStateFrom and a new job can give.
Listable == JobStates \ {JobStateUnknown}

\* No two of them have the same rank.
LEMMA RanksDiffer ==
  /\ \A p \in JobStates : Rank(p) \in Nat
  /\ Rank(JobStateUnknown) = 0
  /\ \A p, q \in Listable : Rank(p) = Rank(q) => p = q
<1> DEFINE Named == {"failed", "running", "initializing", "waiting", "completed", "deleting",
                     "stopping", "deleted"}
<1>1. /\ Rank("failed") = 8 /\ Rank("running") = 7 /\ Rank("initializing") = 6
      /\ Rank("waiting") = 5 /\ Rank("completed") = 4 /\ Rank("deleting") = 3
      /\ Rank("stopping") = 2 /\ Rank("deleted") = 1
  BY DEF Rank, StateOrder
<1>2. Rank(JobStateUnknown) = 0 /\ Rank(NoState) = 0
  BY DEF Rank, StateOrder, JobStateUnknown, NoState
<1>3. JobStates = Named \cup {JobStateUnknown, NoState}
  BY DEF JobStates, NamedState, StateOrder, JobStateUnknown
<1>4. \A p \in Named : Rank(p) \in 1..8
  BY <1>1
<1>5. \A p, q \in Named : Rank(p) = Rank(q) => p = q
  <2> SUFFICES ASSUME NEW p \in Named, NEW q \in Named, Rank(p) = Rank(q) PROVE p = q
    OBVIOUS
  <2> QED BY <1>1
<1> HIDE DEF Named
<1>6. \A p \in JobStates : Rank(p) \in Nat
  BY <1>2, <1>3, <1>4
<1>7. \A p \in Listable : p \in Named \/ p = NoState
  BY <1>3 DEF Listable
<1>8. \A p, q \in Listable : Rank(p) = Rank(q) => p = q
  BY <1>2, <1>4, <1>5, <1>7
<1> QED BY <1>2, <1>6, <1>8

\* Among states that can be listed, the highest is the one of highest rank.
LEMMA HighestIs ==
  ASSUME NEW S \in SUBSET Listable, NEW x \in S, \A t \in S : Rank(t) <= Rank(x)
  PROVE  HighestState(S) = x
<1>1. S # {}
  OBVIOUS
<1> DEFINE c == CHOOSE p \in S : \A t \in S : Rank(t) <= Rank(p)
<1>2. c \in S /\ \A t \in S : Rank(t) <= Rank(c)
  OBVIOUS
<1> HIDE DEF c
<1>3. Rank(c) <= Rank(x) /\ Rank(x) <= Rank(c)
  BY <1>2
<1>4. c \in Listable /\ x \in Listable
  BY <1>2
<1>5. Rank(c) \in Nat /\ Rank(x) \in Nat
  BY <1>4, RanksDiffer DEF Listable
<1>6. c = x
  BY <1>3, <1>4, <1>5, RanksDiffer
<1> QED BY <1>1, <1>6 DEF HighestState, c

\* Combining the states of a list one after the other gives the highest of them.
LEMMA FoldHighest ==
  ASSUME NEW s \in Seq(Listable)
  PROVE  FoldLeft(DetermineJobStateFromOrder, JobStateUnknown, s) = HighestState(ToSet(s))
<1>1. s \in Seq(JobStates) /\ Len(s) \in Nat /\ DOMAIN s = 1..Len(s)
  BY DEF Listable
<1>2. \A i \in 1..Len(s) : s[i] \in Listable /\ Rank(s[i]) \in Nat
  BY RanksDiffer DEF Listable
<1>3. PICK h : /\ h[0] = JobStateUnknown
               /\ \A m \in 1..Len(s) : h[m] = DetermineJobStateFromOrder(h[m - 1], s[m])
               /\ h[Len(s)] = FoldLeft(DetermineJobStateFromOrder, JobStateUnknown, s)
  BY <1>1, FoldOfStates
<1> DEFINE Highest(m) == /\ \E i \in 1..m : h[m] = s[i]
                         /\ \A i \in 1..m : Rank(s[i]) <= Rank(h[m])
           Up == {m \in Nat : m \in 1..Len(s) => Highest(m)}
<1>4. 0 \in Up
  OBVIOUS
<1>5. ASSUME NEW m \in Nat, m \in Up PROVE m + 1 \in Up
  <2> SUFFICES ASSUME m + 1 \in 1..Len(s) PROVE Highest(m + 1)
    OBVIOUS
  <2>1. h[m + 1] = DetermineJobStateFromOrder(h[m], s[m + 1])
    <3>1. h[m + 1] = DetermineJobStateFromOrder(h[(m + 1) - 1], s[m + 1])
      BY <1>3
    <3>2. (m + 1) - 1 = m
      OBVIOUS
    <3> QED BY <3>1, <3>2
  <2>2. s[m + 1] \in Listable /\ Rank(s[m + 1]) \in Nat
    BY <1>2
  <2>3. CASE m = 0
    <3>1. h[1] = s[1]
      <4>1. h[1] = DetermineJobStateFromOrder(JobStateUnknown, s[1])
        BY <2>1, <2>3, <1>3
      <4>2. ~(Rank(JobStateUnknown) > Rank(s[1]))
        BY <2>2, <2>3, RanksDiffer
      <4> QED BY <4>1, <4>2 DEF DetermineJobStateFromOrder
    <3>2. \A i \in 1..1 : i = 1
      OBVIOUS
    <3>3. Rank(s[1]) <= Rank(s[1])
      BY <2>2, <2>3
    <3> QED BY <3>1, <3>2, <3>3, <2>3
  <2>4. CASE m # 0
    <3>1. Highest(m)
      BY <1>5, <2>4
    <3>2. PICK k \in 1..m : h[m] = s[k]
      BY <3>1
    <3>3. Rank(h[m]) \in Nat
      BY <3>2, <1>1, <1>2
    <3>4. \A i \in 1..(m + 1) : i \in 1..m \/ i = m + 1
      OBVIOUS
    <3>5. \A i \in 1..m : Rank(s[i]) \in Nat
      BY <1>1, <1>2
    <3>6. CASE Rank(h[m]) > Rank(s[m + 1])
      <4>1. h[m + 1] = h[m]
        BY <2>1, <3>6 DEF DetermineJobStateFromOrder
      <4>2. \A i \in 1..(m + 1) : Rank(s[i]) <= Rank(h[m])
        BY <3>1, <3>3, <3>4, <3>6, <2>2
      <4> QED BY <4>1, <4>2, <3>2
    <3>7. CASE ~(Rank(h[m]) > Rank(s[m + 1]))
      <4>1. h[m + 1] = s[m + 1]
        BY <2>1, <3>7 DEF DetermineJobStateFromOrder
      <4>2. \A i \in 1..(m + 1) : Rank(s[i]) <= Rank(s[m + 1])
        BY <3>1, <3>3, <3>4, <3>5, <3>7, <2>2
      <4> QED BY <4>1, <4>2
    <3> QED BY <3>6, <3>7
  <2> QED BY <2>3, <2>4
<1> HIDE DEF Up
<1>6. Len(s) \in Up
  BY <1>1, <1>4, <1>5, Induction
<1>7. CASE Len(s) = 0
  <2>1. ToSet(s) = {}
    BY <1>1, <1>7 DEF ToSet
  <2> QED BY <1>3, <1>7, <2>1 DEF HighestState
<1>8. CASE Len(s) # 0
  <2>1. Highest(Len(s))
    BY <1>1, <1>6, <1>8 DEF Up
  <2>2. ToSet(s) \in SUBSET Listable
    BY <1>1, <1>2 DEF ToSet
  <2>3. h[Len(s)] \in ToSet(s) /\ \A t \in ToSet(s) : Rank(t) <= Rank(h[Len(s)])
    BY <2>1, <1>1 DEF ToSet
  <2>4. HighestState(ToSet(s)) = h[Len(s)]
    BY <2>2, <2>3, HighestIs
  <2> QED BY <2>4, <1>3
<1> QED BY <1>7, <1>8

--------------------------------------------------------------------------------
(* The volumes of a pod and the mounts of its container. *)

\* A turn of the loop of parseVolumeWithPVCFromJob.
WithVolume(vs, e) ==
  IF Contains(vs, VolumeName(e)) THEN vs ELSE Append(vs, VolumeName(e))

\* parseVolumeWithPVCFromJob takes the io specs one after the other.
LEMMA FoldOfVolumes ==
  ASSUME NEW B, NEW p, AllIO(p) \in Seq(B)
  PROVE  \E h : /\ h[0] = <<>>
                /\ \A m \in 1..Len(AllIO(p)) : h[m] = WithVolume(h[m - 1], AllIO(p)[m])
                /\ h[Len(AllIO(p))] = VolumeList(p)
<1> DEFINE s == AllIO(p)
           n == Len(s)
           V == {VolumeName(e) : e \in B}
           A == Seq(V)
           F == [q \in A \X B |-> WithVolume(q[1], q[2])]
           Of(f, t) == IF t = {} THEN <<>>
                       ELSE LET x == Max(t) IN WithVolume(f[t \ {x}], s[x])
           H == CHOOSE f : f = [t \in SUBSET (1..n) |-> Of(f, t)]
<1>1. VolumeList(p) = H[1..n]
  <2>1. DOMAIN s = 1..n
    OBVIOUS
  <2> QED BY <2>1 DEF VolumeList, FoldLeft, MapThenFoldSet, WithVolume
<1>2. n \in Nat /\ s \in [1..n -> B] /\ DOMAIN s = 1..n
  OBVIOUS
<1> HIDE DEF s, n
<1>3. \A vs \in A, e \in B : WithVolume(vs, e) \in A
  <2> SUFFICES ASSUME NEW vs \in A, NEW e \in B PROVE WithVolume(vs, e) \in A
    OBVIOUS
  <2>1. VolumeName(e) \in V
    OBVIOUS
  <2> HIDE DEF V
  <2>2. Append(vs, VolumeName(e)) \in Seq(V)
    BY <2>1
  <2> QED BY <2>2 DEF WithVolume
<1>4. <<>> \in A
  OBVIOUS
<1> HIDE DEF A
<1>5. F \in [A \X B -> A]
  BY <1>3
<1>6. \A vs \in A, e \in B : F[<<vs, e>>] = WithVolume(vs, e)
  OBVIOUS
<1> HIDE DEF F
<1>7. PICK g \in [SUBSET (1..n) -> A] : IsFold(<<>>, F, n, s, g)
  BY <1>2, <1>4, <1>5, FoldExists
<1>8. \A t \in SUBSET (1..n) : g[t] = Of(g, t)
  <2> SUFFICES ASSUME NEW t \in SUBSET (1..n), t # {}
               PROVE  g[t] = WithVolume(g[t \ {Max(t)}], s[Max(t)])
    BY <1>7 DEF IsFold
  <2>1. Max(t) \in t
    BY <1>2, MaxAmong
  <2>2. g[t \ {Max(t)}] \in A
    OBVIOUS
  <2>3. s[Max(t)] \in B
    BY <2>1, <1>2
  <2> QED BY <2>2, <2>3, <1>6, <1>7 DEF IsFold
<1>9. g = [t \in SUBSET (1..n) |-> Of(g, t)]
  BY <1>8
<1>10. H = [t \in SUBSET (1..n) |-> Of(H, t)]
  BY <1>9
<1>11. \A t \in SUBSET (1..n) : H[t] = Of(H, t)
  <2> HIDE DEF H, Of
  <2> QED BY <1>10
<1> HIDE DEF H
<1> DEFINE h == [m \in 0..n |-> H[1..m]]
<1>12. h[0] = <<>>
  <2>1. 1..0 = {} /\ {} \in SUBSET (1..n)
    OBVIOUS
  <2>2. H[{}] = <<>>
    BY <2>1, <1>11
  <2>3. h[0] = H[1..0]
    BY <1>2
  <2> QED BY <2>1, <2>2, <2>3
<1>13. ASSUME NEW m \in 1..n PROVE h[m] = WithVolume(h[m - 1], s[m])
  <2>1. H[1..m] = WithVolume(H[(1..m) \ {Max(1..m)}], s[Max(1..m)])
    BY <1>2, <1>11, FirstNumbers
  <2>2. H[1..m] = WithVolume(H[1..(m - 1)], s[m])
    BY <2>1, <1>2, FirstNumbers
  <2>3. h[m] = H[1..m] /\ h[m - 1] = H[1..(m - 1)]
    BY <1>2
  <2> HIDE DEF h
  <2> QED BY <2>2, <2>3
<1>14. h[n] = H[1..n]
  BY <1>2
<1> HIDE DEF h
<1> QED BY <1>1, <1>12, <1>13, <1>14 DEF n, s

\* The list has the volume of each io spec and no other, and has it once.
LEMMA VolumesOnce ==
  ASSUME NEW B, NEW p, AllIO(p) \in Seq(B)
  PROVE  /\ ToSet(VolumeList(p)) = {VolumeName(e) : e \in ToSet(AllIO(p))}
         /\ IsInjective(VolumeList(p))
<1> DEFINE s == AllIO(p)
           Of(i) == VolumeName(s[i])
           V == {VolumeName(e) : e \in B}
<1>1. Len(s) \in Nat /\ DOMAIN s = 1..Len(s) /\ \A i \in 1..Len(s) : s[i] \in B
  OBVIOUS
<1>2. \A i \in 1..Len(s) : Of(i) \in V
  BY <1>1
<1>3. PICK h : /\ h[0] = <<>>
               /\ \A m \in 1..Len(s) : h[m] = WithVolume(h[m - 1], s[m])
               /\ h[Len(s)] = VolumeList(p)
  BY FoldOfVolumes
<1> HIDE DEF s, V
<1> DEFINE Good(m) == /\ h[m] \in Seq(V)
                      /\ \A i \in 1..m : \E j \in 1..Len(h[m]) : h[m][j] = Of(i)
                      /\ \A j \in 1..Len(h[m]) : \E i \in 1..m : h[m][j] = Of(i)
                      /\ \A j, k \in 1..Len(h[m]) : h[m][j] = h[m][k] => j = k
           Up == {m \in Nat : m <= Len(s) => Good(m)}
<1>4. 0 \in Up
  <2>1. Good(0)
    BY <1>3
  <2> QED BY <2>1
<1>5. ASSUME NEW m \in Nat, m \in Up PROVE m + 1 \in Up
  <2> SUFFICES ASSUME m + 1 <= Len(s) PROVE Good(m + 1)
    OBVIOUS
  <2> DEFINE v == h[m]
             w == h[m + 1]
             name == Of(m + 1)
  <2>1. Good(m)
    BY <1>1, <1>5
  <2>2. w = IF Contains(v, name) THEN v ELSE Append(v, name)
    <3>1. (m + 1) - 1 = m /\ m + 1 \in 1..Len(s)
      BY <1>1
    <3>2. h[m + 1] = WithVolume(h[(m + 1) - 1], s[m + 1])
      BY <3>1, <1>3
    <3> QED BY <3>1, <3>2 DEF WithVolume
  <2>3. name \in V
    BY <1>1, <1>2
  <2>4. \A i \in 1..(m + 1) : i \in 1..m \/ i = m + 1
    OBVIOUS
  <2>5. \A i \in 1..m : i \in 1..(m + 1)
    OBVIOUS
  <2>6. v \in Seq(V)
    BY <2>1
  <2>7. \A i \in 1..m : \E j \in 1..Len(v) : v[j] = Of(i)
    BY <2>1
  <2>8. \A j \in 1..Len(v) : \E i \in 1..m : v[j] = Of(i)
    BY <2>1
  <2>9. \A j, k \in 1..Len(v) : v[j] = v[k] => j = k
    BY <2>1
  <2>10. m + 1 \in 1..(m + 1)
    OBVIOUS
  <2>11. Contains(v, name) <=> \E j \in 1..Len(v) : v[j] = name
    BY DEF Contains
  <2> SUFFICES /\ w \in Seq(V)
               /\ \A i \in 1..(m + 1) : \E j \in 1..Len(w) : w[j] = Of(i)
               /\ \A j \in 1..Len(w) : \E i \in 1..(m + 1) : w[j] = Of(i)
               /\ \A j, k \in 1..Len(w) : w[j] = w[k] => j = k
    OBVIOUS
  <2> HIDE DEF v, w
  <2>12. CASE Contains(v, name)
    <3>1. w = v
      BY <2>2, <2>12
    <3>2. \A i \in 1..(m + 1) : \E j \in 1..Len(v) : v[j] = Of(i)
      BY <2>4, <2>7, <2>11, <2>12
    <3>3. \A j \in 1..Len(v) : \E i \in 1..(m + 1) : v[j] = Of(i)
      BY <2>5, <2>8
    <3> QED BY <3>1, <3>2, <3>3, <2>6, <2>9
  <2>13. CASE ~Contains(v, name)
    <3>1. w = Append(v, name)
      BY <2>2, <2>13
    <3>2. w \in Seq(V)
      BY <3>1, <2>3, <2>6
    <3>3. Len(w) = Len(v) + 1 /\ Len(v) \in Nat
      BY <3>1, <2>3, <2>6
    <3>4. \A j \in 1..Len(v) : w[j] = v[j]
      BY <3>1, <2>3, <2>6
    <3>5. w[Len(v) + 1] = name
      BY <3>1, <2>3, <2>6
    <3>6. \A j \in 1..Len(w) : j \in 1..Len(v) \/ j = Len(v) + 1
      BY <3>3
    <3>7. \A j \in 1..Len(v) : j \in 1..Len(w)
      BY <3>3
    <3>8. Len(v) + 1 \in 1..Len(w)
      BY <3>3
    <3> HIDE DEF name
    <3>9. ASSUME NEW i \in 1..(m + 1) PROVE \E j \in 1..Len(w) : w[j] = Of(i)
      <4>1. CASE i \in 1..m
        <5>1. PICK j \in 1..Len(v) : v[j] = Of(i)
          BY <4>1, <2>7
        <5> QED BY <5>1, <3>4, <3>7
      <4>2. CASE i = m + 1
        BY <4>2, <3>5, <3>8 DEF name
      <4> QED BY <4>1, <4>2, <2>4
    <3>10. ASSUME NEW j \in 1..Len(w) PROVE \E i \in 1..(m + 1) : w[j] = Of(i)
      <4>1. CASE j \in 1..Len(v)
        <5>1. PICK i \in 1..m : v[j] = Of(i)
          BY <4>1, <2>8
        <5> QED BY <5>1, <4>1, <3>4, <2>5
      <4>2. CASE j = Len(v) + 1
        BY <4>2, <3>5, <2>10 DEF name
      <4> QED BY <4>1, <4>2, <3>6
    <3>11. \A j \in 1..Len(v) : v[j] # name
      BY <2>11, <2>13
    <3>12. ASSUME NEW j \in 1..Len(w), NEW k \in 1..Len(w), w[j] = w[k] PROVE j = k
      <4>1. CASE j \in 1..Len(v) /\ k \in 1..Len(v)
        BY <4>1, <3>4, <3>12, <2>9
      <4>2. CASE j = Len(v) + 1 /\ k \in 1..Len(v)
        BY <4>2, <3>4, <3>5, <3>11, <3>12
      <4>3. CASE k = Len(v) + 1 /\ j \in 1..Len(v)
        BY <4>3, <3>4, <3>5, <3>11, <3>12
      <4> QED BY <4>1, <4>2, <4>3, <3>6
    <3> QED BY <3>2, <3>9, <3>10, <3>12
  <2> QED BY <2>12, <2>13
<1> HIDE DEF Up
<1>6. Good(Len(s))
  <2>1. Len(s) \in Up
    BY <1>1, <1>4, <1>5, Induction
  <2> QED BY <2>1, <1>1 DEF Up
<1> DEFINE vs == VolumeList(p)
<1>7. /\ vs \in Seq(V)
      /\ \A i \in 1..Len(s) : \E j \in 1..Len(vs) : vs[j] = Of(i)
      /\ \A j \in 1..Len(vs) : \E i \in 1..Len(s) : vs[j] = Of(i)
      /\ \A j, k \in 1..Len(vs) : vs[j] = vs[k] => j = k
  BY <1>3, <1>6
<1> HIDE DEF vs
<1>8. DOMAIN vs = 1..Len(vs)
  BY <1>7
<1>9. IsInjective(vs)
  BY <1>7, <1>8 DEF IsInjective
<1>10. ToSet(vs) = {VolumeName(e) : e \in ToSet(s)}
  <2>1. ToSet(vs) \subseteq {VolumeName(e) : e \in ToSet(s)}
    BY <1>1, <1>7, <1>8 DEF ToSet
  <2>2. {VolumeName(e) : e \in ToSet(s)} \subseteq ToSet(vs)
    BY <1>1, <1>7, <1>8 DEF ToSet
  <2> QED BY <2>1, <2>2
<1> QED BY <1>9, <1>10 DEF vs, s

\* Pods of any number of io specs.
Pods ==
  [ runInputs : Seq(IOVolumeSpecs), runOutputs : Seq(IOVolumeSpecs),
    jobInputs : Seq(IOVolumeSpecs), jobOutputs : Seq(IOVolumeSpecs) ]

\* Where a joined list has what.
LEMMA JoinedLists ==
  ASSUME NEW S, NEW a \in Seq(S), NEW b \in Seq(S)
  PROVE  /\ a \o b \in Seq(S)
         /\ Len(a \o b) = Len(a) + Len(b) /\ Len(a) \in Nat /\ Len(b) \in Nat
         /\ \A i \in 1..Len(a) : (a \o b)[i] = a[i]
         /\ \A i \in 1..Len(b) : (a \o b)[Len(a) + i] = b[i]
<1>1. a \o b \in Seq(S)
  OBVIOUS
<1>2. Len(a \o b) = Len(a) + Len(b) /\ Len(a) \in Nat /\ Len(b) \in Nat
  OBVIOUS
<1>3. \A i \in 1..Len(a) : (a \o b)[i] = a[i]
  OBVIOUS
<1>4. \A i \in 1..Len(b) : (a \o b)[Len(a) + i] = b[i]
  OBVIOUS
<1> QED BY <1>1, <1>2, <1>3, <1>4

\* What a joined list holds.
LEMMA HeldByBoth ==
  ASSUME NEW S, NEW a \in Seq(S), NEW b \in Seq(S)
  PROVE  a \o b \in Seq(S) /\ ToSet(a \o b) = ToSet(a) \cup ToSet(b)
<1> DEFINE c == a \o b
<1>1. c \in Seq(S)
  OBVIOUS
<1>2. Len(c) = Len(a) + Len(b) /\ Len(a) \in Nat /\ Len(b) \in Nat
  BY JoinedLists
<1>3. \A i \in 1..Len(a) : c[i] = a[i]
  BY JoinedLists
<1>4. \A i \in 1..Len(b) : c[Len(a) + i] = b[i]
  BY JoinedLists
<1>5. DOMAIN c = 1..Len(c) /\ DOMAIN a = 1..Len(a) /\ DOMAIN b = 1..Len(b)
  BY <1>1
<1> HIDE DEF c
<1>6. ToSet(c) \subseteq ToSet(a) \cup ToSet(b)
  <2> SUFFICES ASSUME NEW i \in 1..Len(c) PROVE c[i] \in ToSet(a) \cup ToSet(b)
    BY <1>5 DEF ToSet
  <2>1. CASE i <= Len(a)
    <3>1. i \in 1..Len(a)
      BY <1>2, <2>1
    <3> QED BY <3>1, <1>3, <1>5 DEF ToSet
  <2>2. CASE ~(i <= Len(a))
    <3>1. i - Len(a) \in 1..Len(b) /\ Len(a) + (i - Len(a)) = i
      BY <1>2, <2>2
    <3>2. c[i] = b[i - Len(a)]
      BY <3>1, <1>4
    <3> QED BY <3>1, <3>2, <1>5 DEF ToSet
  <2> QED BY <2>1, <2>2
<1>7. ToSet(a) \subseteq ToSet(c)
  <2> SUFFICES ASSUME NEW i \in 1..Len(a) PROVE a[i] \in ToSet(c)
    BY <1>5 DEF ToSet
  <2>1. i \in 1..Len(c)
    BY <1>2
  <2> QED BY <2>1, <1>3, <1>5 DEF ToSet
<1>8. ToSet(b) \subseteq ToSet(c)
  <2> SUFFICES ASSUME NEW i \in 1..Len(b) PROVE b[i] \in ToSet(c)
    BY <1>5 DEF ToSet
  <2>1. Len(a) + i \in 1..Len(c)
    BY <1>2
  <2> QED BY <2>1, <1>4, <1>5 DEF ToSet
<1> QED BY <1>1, <1>6, <1>7, <1>8 DEF c

\* The io specs of a pod are those of its four lists.
LEMMA HeldByPod ==
  ASSUME NEW p \in Pods
  PROVE  /\ AllIO(p) \in Seq(IOVolumeSpecs)
         /\ ToSet(AllIO(p)) = ToSet(p.runInputs) \cup ToSet(p.runOutputs)
                                \cup ToSet(p.jobInputs) \cup ToSet(p.jobOutputs)
<1>1. /\ p.runInputs \in Seq(IOVolumeSpecs) /\ p.runOutputs \in Seq(IOVolumeSpecs)
      /\ p.jobInputs \in Seq(IOVolumeSpecs) /\ p.jobOutputs \in Seq(IOVolumeSpecs)
  BY DEF Pods
<1> DEFINE a == p.runInputs \o p.runOutputs
           b == a \o p.jobInputs
<1>2. a \in Seq(IOVolumeSpecs) /\ ToSet(a) = ToSet(p.runInputs) \cup ToSet(p.runOutputs)
  BY <1>1, HeldByBoth
<1> HIDE DEF a
<1>3. b \in Seq(IOVolumeSpecs) /\ ToSet(b) = ToSet(a) \cup ToSet(p.jobInputs)
  BY <1>1, <1>2, HeldByBoth
<1> HIDE DEF b
<1>4. /\ b \o p.jobOutputs \in Seq(IOVolumeSpecs)
      /\ ToSet(b \o p.jobOutputs) = ToSet(b) \cup ToSet(p.jobOutputs)
  BY <1>1, <1>3, HeldByBoth
<1>5. AllIO(p) = b \o p.jobOutputs
  BY DEF AllIO, a, b
<1> QED BY <1>2, <1>3, <1>4, <1>5

\* A list of mounts, one for each io spec.
MountsOf(r, es, readOnly) == [i \in DOMAIN es |-> Mount(r, es[i], readOnly)]

MountsFrom(r, S) == {Mount(r, e, b) : e \in S, b \in BOOLEAN}

NamesIn(ms) == {m.name : m \in ToSet(ms)}

VolumesIn(es) == {VolumeName(e) : e \in ToSet(es)}

\* The names of these mounts are the volumes of the io specs.
LEMMA MountsOfNames ==
  ASSUME NEW r, NEW S, NEW es \in Seq(S), NEW readOnly \in BOOLEAN
  PROVE  /\ MountsOf(r, es, readOnly) \in Seq(MountsFrom(r, S))
         /\ NamesIn(MountsOf(r, es, readOnly)) = VolumesIn(es)
<1> DEFINE ms == MountsOf(r, es, readOnly)
           M == MountsFrom(r, S)
<1>1. DOMAIN es = 1..Len(es) /\ Len(es) \in Nat /\ \A i \in 1..Len(es) : es[i] \in S
  OBVIOUS
<1>2. ms = [i \in 1..Len(es) |-> Mount(r, es[i], readOnly)]
  BY <1>1 DEF MountsOf
<1>3. \A i \in 1..Len(es) : Mount(r, es[i], readOnly) \in M
  BY <1>1 DEF MountsFrom
<1>4. \A i \in 1..Len(es) : Mount(r, es[i], readOnly).name = VolumeName(es[i])
  BY DEF Mount
<1> HIDE DEF ms, M
<1>5. DOMAIN ms = 1..Len(es) /\ \A i \in 1..Len(es) : ms[i].name = VolumeName(es[i])
  BY <1>2, <1>4
<1>6. ms \in Seq(M)
  BY <1>1, <1>2, <1>3
<1>7. NamesIn(ms) = VolumesIn(es)
  BY <1>1, <1>5 DEF NamesIn, VolumesIn, ToSet
<1> QED BY <1>6, <1>7 DEF ms, M

\* The mounts of a pod have the volumes of its io specs as names.
LEMMA MountNames ==
  ASSUME NEW p \in Pods, NEW r
  PROVE  NamesIn(VolumeMountList(r, p)) = VolumesIn(AllIO(p))
<1> DEFINE M == MountsFrom(r, IOVolumeSpecs)
           a == MountsOf(r, p.runInputs, TRUE)
           b == MountsOf(r, p.runOutputs, FALSE)
           c == MountsOf(r, p.jobInputs, TRUE)
           d == MountsOf(r, p.jobOutputs, FALSE)
           ab == a \o b
           abc == ab \o c
           abcd == abc \o d
<1>1. /\ p.runInputs \in Seq(IOVolumeSpecs) /\ p.runOutputs \in Seq(IOVolumeSpecs)
      /\ p.jobInputs \in Seq(IOVolumeSpecs) /\ p.jobOutputs \in Seq(IOVolumeSpecs)
  BY DEF Pods
<1>2. a \in Seq(M) /\ NamesIn(a) = VolumesIn(p.runInputs)
  BY <1>1, MountsOfNames
<1>3. b \in Seq(M) /\ NamesIn(b) = VolumesIn(p.runOutputs)
  BY <1>1, MountsOfNames
<1>4. c \in Seq(M) /\ NamesIn(c) = VolumesIn(p.jobInputs)
  BY <1>1, MountsOfNames
<1>5. d \in Seq(M) /\ NamesIn(d) = VolumesIn(p.jobOutputs)
  BY <1>1, MountsOfNames
<1>6. VolumeMountList(r, p) = abcd
  BY DEF VolumeMountList, MountsOf
<1> HIDE DEF M, a, b, c, d
<1>7. ab \in Seq(M) /\ ToSet(ab) = ToSet(a) \cup ToSet(b)
  BY <1>2, <1>3, HeldByBoth
<1> HIDE DEF ab
<1>8. abc \in Seq(M) /\ ToSet(abc) = ToSet(ab) \cup ToSet(c)
  BY <1>4, <1>7, HeldByBoth
<1> HIDE DEF abc
<1>9. ToSet(abcd) = ToSet(abc) \cup ToSet(d)
  BY <1>5, <1>8, HeldByBoth
<1> HIDE DEF abcd
<1>10. NamesIn(abcd) = NamesIn(a) \cup NamesIn(b) \cup NamesIn(c) \cup NamesIn(d)
  BY <1>7, <1>8, <1>9 DEF NamesIn
<1>11. VolumesIn(AllIO(p)) = VolumesIn(p.runInputs) \cup VolumesIn(p.runOutputs)
                               \cup VolumesIn(p.jobInputs) \cup VolumesIn(p.jobOutputs)
  BY HeldByPod DEF VolumesIn
<1> QED BY <1>2, <1>3, <1>4, <1>5, <1>6, <1>10, <1>11

--------------------------------------------------------------------------------
(* The directories of a pod's mounts. *)

\* A turn of the walk over the parts of a path.
Keep(kept, part) == IF part = "" THEN kept ELSE Append(kept, part)

\* h holds what is kept of the first parts of s.
Cleans(h, s) == h[0] = <<>> /\ \A m \in 1..Len(s) : h[m] = Keep(h[m - 1], s[m])

\* What is kept are parts.
LEMMA KeepType ==
  ASSUME NEW X, NEW kept \in Seq(X), NEW part \in X
  PROVE  Keep(kept, part) \in Seq(X)
<1>1. Append(kept, part) \in Seq(X)
  OBVIOUS
<1> QED BY <1>1 DEF Keep

\* Clean takes the parts one after the other.
LEMMA FoldOfParts ==
  ASSUME NEW X, NEW s \in Seq(X)
  PROVE  \E h : Cleans(h, s) /\ h[Len(s)] = Clean(s)
<1> DEFINE n == Len(s)
           A == Seq(X)
           F == [q \in A \X X |-> Keep(q[1], q[2])]
           Of(f, t) == IF t = {} THEN <<>>
                       ELSE LET x == Max(t) IN Keep(f[t \ {x}], s[x])
           H == CHOOSE f : f = [t \in SUBSET (1..n) |-> Of(f, t)]
<1>1. Clean(s) = H[1..n]
  <2>1. DOMAIN s = 1..n
    OBVIOUS
  <2> QED BY <2>1 DEF Clean, FoldLeft, MapThenFoldSet, Keep
<1>2. n \in Nat /\ s \in [1..n -> X] /\ DOMAIN s = 1..n
  OBVIOUS
<1> HIDE DEF n
<1>3. \A kept \in A, part \in X : Keep(kept, part) \in A
  BY KeepType
<1>4. <<>> \in A
  OBVIOUS
<1> HIDE DEF A
<1>5. F \in [A \X X -> A]
  BY <1>3
<1>6. \A kept \in A, part \in X : F[<<kept, part>>] = Keep(kept, part)
  OBVIOUS
<1> HIDE DEF F
<1>7. PICK g \in [SUBSET (1..n) -> A] : IsFold(<<>>, F, n, s, g)
  BY <1>2, <1>4, <1>5, FoldExists
<1>8. \A t \in SUBSET (1..n) : g[t] = Of(g, t)
  <2> SUFFICES ASSUME NEW t \in SUBSET (1..n), t # {}
               PROVE  g[t] = Keep(g[t \ {Max(t)}], s[Max(t)])
    BY <1>7 DEF IsFold
  <2>1. Max(t) \in t
    BY <1>2, MaxAmong
  <2>2. g[t \ {Max(t)}] \in A
    OBVIOUS
  <2>3. s[Max(t)] \in X
    BY <2>1, <1>2
  <2> QED BY <2>2, <2>3, <1>6, <1>7 DEF IsFold
<1>9. g = [t \in SUBSET (1..n) |-> Of(g, t)]
  BY <1>8
<1>10. H = [t \in SUBSET (1..n) |-> Of(H, t)]
  BY <1>9
<1>11. \A t \in SUBSET (1..n) : H[t] = Of(H, t)
  <2> HIDE DEF H, Of
  <2> QED BY <1>10
<1> HIDE DEF H
<1> DEFINE h == [m \in 0..n |-> H[1..m]]
<1>12. h[0] = <<>>
  <2>1. 1..0 = {} /\ {} \in SUBSET (1..n)
    OBVIOUS
  <2>2. H[{}] = <<>>
    BY <2>1, <1>11
  <2>3. h[0] = H[1..0]
    BY <1>2
  <2> QED BY <2>1, <2>2, <2>3
<1>13. ASSUME NEW m \in 1..n PROVE h[m] = Keep(h[m - 1], s[m])
  <2>1. H[1..m] = Keep(H[(1..m) \ {Max(1..m)}], s[Max(1..m)])
    BY <1>2, <1>11, FirstNumbers
  <2>2. H[1..m] = Keep(H[1..(m - 1)], s[m])
    BY <2>1, <1>2, FirstNumbers
  <2>3. h[m] = H[1..m] /\ h[m - 1] = H[1..(m - 1)]
    BY <1>2
  <2> HIDE DEF h
  <2> QED BY <2>2, <2>3
<1>14. h[n] = H[1..n]
  BY <1>2
<1> HIDE DEF h
<1>15. Cleans(h, s)
  BY <1>12, <1>13 DEF Cleans, n
<1> QED BY <1>1, <1>14, <1>15 DEF n

\* What is kept of the first parts of s is the same however it is written down.
LEMMA CleansIs ==
  ASSUME NEW X, NEW s \in Seq(X), NEW h, Cleans(h, s)
  PROVE  h[Len(s)] = Clean(s) /\ \A m \in 0..Len(s) : h[m] \in Seq(X)
<1> DEFINE n == Len(s)
<1>1. n \in Nat /\ \A m \in 1..n : s[m] \in X
  OBVIOUS
<1>2. PICK f : Cleans(f, s) /\ f[n] = Clean(s)
  BY FoldOfParts
<1>3. /\ h[0] = <<>> /\ f[0] = <<>>
      /\ \A m \in 1..n : h[m] = Keep(h[m - 1], s[m]) /\ f[m] = Keep(f[m - 1], s[m])
  BY <1>2 DEF Cleans
<1> HIDE DEF n
<1> DEFINE Up == {m \in Nat : m <= n => h[m] = f[m] /\ h[m] \in Seq(X)}
<1>4. 0 \in Up
  <2>1. <<>> \in Seq(X)
    OBVIOUS
  <2> QED BY <2>1, <1>3
<1>5. ASSUME NEW m \in Nat, m \in Up PROVE m + 1 \in Up
  <2> SUFFICES ASSUME m + 1 <= n PROVE h[m + 1] = f[m + 1] /\ h[m + 1] \in Seq(X)
    OBVIOUS
  <2>1. m + 1 \in 1..n /\ (m + 1) - 1 = m
    BY <1>1
  <2>2. h[m + 1] = Keep(h[m], s[m + 1]) /\ f[m + 1] = Keep(f[m], s[m + 1])
    BY <2>1, <1>3
  <2>3. h[m] = f[m] /\ h[m] \in Seq(X)
    BY <1>1, <1>5
  <2>4. s[m + 1] \in X
    BY <2>1, <1>1
  <2> QED BY <2>2, <2>3, <2>4, KeepType
<1> HIDE DEF Up
<1>6. \A m \in Nat : m \in Up
  BY <1>4, <1>5, Induction
<1>7. \A m \in 0..n : h[m] = f[m] /\ h[m] \in Seq(X)
  BY <1>1, <1>6 DEF Up
<1> QED BY <1>1, <1>2, <1>7 DEF n

\* A clean path is a list of parts, and nothing is kept of nothing.
LEMMA CleanType ==
  ASSUME NEW X, NEW s \in Seq(X)
  PROVE  Clean(s) \in Seq(X) /\ (s = <<>> => Clean(s) = <<>>)
<1>1. PICK h : Cleans(h, s) /\ h[Len(s)] = Clean(s)
  BY FoldOfParts
<1>2. Len(s) \in 0..Len(s) /\ (s = <<>> => Len(s) = 0)
  OBVIOUS
<1>3. Clean(s) \in Seq(X)
  BY <1>1, <1>2, CleansIs
<1>4. s = <<>> => Clean(s) = <<>>
  BY <1>1, <1>2 DEF Cleans
<1> QED BY <1>3, <1>4

\* A part at the end of a path.
LEMMA CleanLast ==
  ASSUME NEW X, NEW s \in Seq(X), NEW x \in X
  PROVE  Clean(Append(s, x)) = Keep(Clean(s), x)
<1> DEFINE t == Append(s, x)
           n == Len(s)
<1>1. t \in Seq(X)
  OBVIOUS
<1>2. Len(t) = n + 1 /\ n \in Nat
  OBVIOUS
<1>3. \A m \in 1..n : t[m] = s[m]
  OBVIOUS
<1>4. t[n + 1] = x
  OBVIOUS
<1> HIDE DEF t
<1>5. PICK h : Cleans(h, t) /\ h[Len(t)] = Clean(t)
  BY <1>1, FoldOfParts
<1>6. h[0] = <<>> /\ \A m \in 1..(n + 1) : h[m] = Keep(h[m - 1], t[m])
  BY <1>2, <1>5 DEF Cleans
<1>7. Cleans(h, s)
  <2>1. \A m \in 1..n : m \in 1..(n + 1)
    BY <1>2
  <2> QED BY <2>1, <1>3, <1>6 DEF Cleans
<1>8. h[n] = Clean(s)
  BY <1>7, CleansIs
<1>9. n + 1 \in 1..(n + 1) /\ (n + 1) - 1 = n
  BY <1>2
<1>10. h[n + 1] = Keep(h[n], x)
  BY <1>4, <1>6, <1>9
<1> QED BY <1>2, <1>5, <1>8, <1>10 DEF t

\* A part at the start of a path.
LEMMA CleanFirst ==
  ASSUME NEW X, NEW s \in Seq(X), NEW x \in X
  PROVE  Clean(<<x>> \o s) = Keep(<<>>, x) \o Clean(s)
<1> DEFINE t == <<x>> \o s
           n == Len(s)
           k == Keep(<<>>, x)
<1>1. t \in Seq(X)
  OBVIOUS
<1>2. Len(t) = n + 1 /\ n \in Nat
  OBVIOUS
<1>3. t[1] = x
  OBVIOUS
<1>4. \A m \in 1..n : t[m + 1] = s[m]
  <2> DEFINE u == <<x>>
  <2>1. u \in Seq(X)
    OBVIOUS
  <2>2. Len(u) = 1
    OBVIOUS
  <2>3. t = u \o s
    OBVIOUS
  <2> HIDE DEF u, t
  <2>4. \A m \in 1..Len(s) : (u \o s)[Len(u) + m] = s[m]
    BY <2>1, JoinedLists
  <2>5. \A m \in 1..n : t[1 + m] = s[m]
    BY <2>2, <2>3, <2>4
  <2> QED BY <2>5, <1>2
<1>5. k \in Seq(X)
  <2>1. <<>> \in Seq(X)
    OBVIOUS
  <2> QED BY <2>1, KeepType
<1>6. \A m \in 1..n : s[m] \in X
  OBVIOUS
<1> HIDE DEF t, k
<1>7. PICK h : Cleans(h, s) /\ h[n] = Clean(s)
  BY FoldOfParts
<1>8. \A m \in 0..n : h[m] \in Seq(X)
  BY <1>7, CleansIs
<1> DEFINE f == [m \in 0..(n + 1) |-> IF m = 0 THEN <<>> ELSE k \o h[m - 1]]
<1>9. f[0] = <<>> /\ \A m \in 0..n : f[m + 1] = k \o h[m]
  <2>1. 0 \in 0..(n + 1)
    BY <1>2
  <2>2. \A m \in 0..n : m + 1 \in 0..(n + 1) /\ m + 1 # 0 /\ (m + 1) - 1 = m
    BY <1>2
  <2> HIDE DEF n
  <2> QED BY <2>1, <2>2
<1> HIDE DEF f
<1>10. h[0] = <<>> /\ \A m \in 1..n : h[m] = Keep(h[m - 1], s[m])
  BY <1>7 DEF Cleans
<1>11. f[1] = k
  <2>1. f[0 + 1] = k \o h[0]
    BY <1>2, <1>9
  <2>2. k \o <<>> = k
    BY <1>5
  <2> QED BY <2>1, <2>2, <1>10
<1>12. ASSUME NEW m \in 1..n PROVE f[m + 1] = Keep(f[m], s[m])
  <2>1. m \in 0..n /\ m - 1 \in 0..n /\ (m - 1) + 1 = m
    BY <1>2
  <2>2. f[m + 1] = k \o h[m] /\ f[m] = k \o h[m - 1]
    BY <2>1, <1>9
  <2>3. h[m] = Keep(h[m - 1], s[m])
    BY <1>10
  <2> DEFINE a == h[m - 1]
             p == s[m]
  <2>4. a \in Seq(X) /\ p \in X
    BY <2>1, <1>6, <1>8
  <2> HIDE DEF a, p
  <2>5. k \o Append(a, p) = Append(k \o a, p)
    BY <2>4, <1>5
  <2>6. k \o Keep(a, p) = Keep(k \o a, p)
    BY <2>5 DEF Keep
  <2> QED BY <2>2, <2>3, <2>6 DEF a, p
<1>13. Cleans(f, t)
  <2> SUFFICES ASSUME NEW m \in 1..(n + 1) PROVE f[m] = Keep(f[m - 1], t[m])
    BY <1>2, <1>9 DEF Cleans
  <2>1. CASE m = 1
    BY <2>1, <1>3, <1>9, <1>11 DEF k
  <2>2. CASE m # 1
    <3>1. m - 1 \in 1..n /\ (m - 1) + 1 = m
      BY <2>2, <1>2
    <3> QED BY <3>1, <1>4, <1>12
  <2> QED BY <2>1, <2>2
<1>14. f[n + 1] = Clean(t)
  BY <1>1, <1>2, <1>13, CleansIs
<1>15. f[n + 1] = k \o h[n]
  BY <1>2, <1>9
<1> QED BY <1>7, <1>14, <1>15 DEF t, k

\* A list that is not empty is its first member and the rest, and its last member
\* after the others.
LEMMA FirstAndLast ==
  ASSUME NEW X, NEW s \in Seq(X), s # <<>>
  PROVE  /\ Len(s) \in Nat \ {0} /\ s[1] \in X /\ Last(s) \in X
         /\ Tail(s) \in Seq(X) /\ Len(Tail(s)) = Len(s) - 1 /\ s = <<s[1]>> \o Tail(s)
         /\ Front(s) \in Seq(X) /\ Len(Front(s)) = Len(s) - 1
         /\ s = Append(Front(s), Last(s))
<1>1. Len(s) \in Nat \ {0}
  OBVIOUS
<1>2. s[1] \in X /\ Last(s) \in X
  BY <1>1 DEF Last
<1>3. Tail(s) \in Seq(X) /\ Len(Tail(s)) = Len(s) - 1
  OBVIOUS
<1>4. s = <<s[1]>> \o Tail(s)
  OBVIOUS
<1>5. Front(s) \in Seq(X)
  BY <1>1 DEF Front
<1>6. Len(Front(s)) = Len(s) - 1
  BY <1>1 DEF Front
<1>7. s = Append(Front(s), Last(s))
  BY <1>1 DEF Front, Last
<1> QED BY <1>1, <1>2, <1>3, <1>4, <1>5, <1>6, <1>7

\* Two parts that are nothing add nothing.
LEMMA NothingKept ==
  ASSUME NEW X, NEW s \in Seq(X)
  PROVE  Keep(s, "") = s /\ Keep(<<>>, "") \o s = s
<1>1. Keep(s, "") = s /\ Keep(<<>>, "") = <<>>
  BY DEF Keep
<1>2. <<>> \o s = s
  OBVIOUS
<1> QED BY <1>1, <1>2

\* The parts of paths: of names as users write them, and the names of runs.
Parts == STRING \cup Runs \cup {""}

\* A part may be empty.
LEMMA BlankIsPart == "" \in Parts
BY DEF Parts

\* Taking slashes away at the ends leaves a path as it is, and leaves a text.
LEMMA TrimKeeps ==
  ASSUME NEW s \in Seq(Parts), s # <<>>
  PROVE  /\ TrimSlashes(s) \in Seq(Parts) /\ TrimSlashes(s) # <<>>
         /\ Clean(TrimSlashes(s)) = Clean(s)
<1> DEFINE t == IF HasSlashPrefix(s) THEN Tail(s) ELSE s
           u == IF HasSlashSuffix(t) THEN Front(t) ELSE t
<1>1. t \in Seq(Parts) /\ t # <<>> /\ Clean(t) = Clean(s)
  <2>1. CASE HasSlashPrefix(s)
    <3>1. Len(s) > 1 /\ s[1] = ""
      BY <2>1 DEF HasSlashPrefix
    <3>2. Tail(s) \in Seq(Parts) /\ Len(Tail(s)) = Len(s) - 1 /\ s = <<"">> \o Tail(s)
      BY <3>1, FirstAndLast
    <3>3. Tail(s) # <<>>
      <4>1. Len(s) \in Nat
        BY FirstAndLast
      <4> DEFINE before == Len(s)
                 after == Len(Tail(s))
      <4>2. before > 1 /\ after = before - 1 /\ before \in Nat
        BY <3>1, <3>2, <4>1
      <4>3. Tail(s) = <<>> => after = 0
        <5>1. Len(<<>>) = 0
          OBVIOUS
        <5> QED BY <5>1
      <4> HIDE DEF before, after
      <4>4. after # 0
        BY <4>2
      <4> QED BY <4>3, <4>4
    <3>4. Clean(s) = Keep(<<>>, "") \o Clean(Tail(s))
      BY <3>2, CleanFirst, BlankIsPart
    <3>5. Clean(s) = Clean(Tail(s))
      BY <3>2, <3>4, CleanType, NothingKept
    <3> QED BY <2>1, <3>2, <3>3, <3>5
  <2>2. CASE ~HasSlashPrefix(s)
    BY <2>2
  <2> QED BY <2>1, <2>2
<1> HIDE DEF t
<1>2. u \in Seq(Parts) /\ u # <<>> /\ Clean(u) = Clean(t)
  <2>1. CASE HasSlashSuffix(t)
    <3>1. Len(t) > 1 /\ Last(t) = ""
      BY <2>1 DEF HasSlashSuffix
    <3>2. Front(t) \in Seq(Parts) /\ Len(Front(t)) = Len(t) - 1 /\ t = Append(Front(t), "")
      BY <1>1, <3>1, FirstAndLast
    <3>3. Front(t) # <<>>
      <4>1. Len(t) \in Nat
        BY <1>1, FirstAndLast
      <4> DEFINE before == Len(t)
                 after == Len(Front(t))
      <4>2. before > 1 /\ after = before - 1 /\ before \in Nat
        BY <3>1, <3>2, <4>1
      <4>3. Front(t) = <<>> => after = 0
        <5>1. Len(<<>>) = 0
          OBVIOUS
        <5> QED BY <5>1
      <4> HIDE DEF before, after
      <4>4. after # 0
        BY <4>2
      <4> QED BY <4>3, <4>4
    <3>4. Clean(t) = Keep(Clean(Front(t)), "")
      BY <3>2, CleanLast, BlankIsPart
    <3>5. Clean(t) = Clean(Front(t))
      BY <3>2, <3>4, CleanType, NothingKept
    <3> QED BY <2>1, <3>2, <3>3, <3>5
  <2>2. CASE ~HasSlashSuffix(t)
    BY <1>1, <2>2
  <2> QED BY <2>1, <2>2
<1>3. TrimSlashes(s) = u
  BY DEF TrimSlashes, t
<1> HIDE DEF u
<1> QED BY <1>1, <1>2, <1>3

\* A list of one part, and a list with a part before it.
LEMMA FirstPart ==
  ASSUME NEW X, NEW x \in X, NEW s \in Seq(X)
  PROVE  /\ <<x>> \in Seq(X) /\ <<x>> # <<>> /\ Append(<<>>, x) = <<x>>
         /\ <<x>> \o s \in Seq(X) /\ <<x>> \o s # <<>>
         /\ (<<x>> \o s)[1] = x /\ Tail(<<x>> \o s) = s
<1> DEFINE u == <<x>>
           t == u \o s
<1>1. u \in Seq(X) /\ Len(u) = 1
  OBVIOUS
<1>2. u # <<>> /\ Append(<<>>, x) = u
  OBVIOUS
<1>3. t \in Seq(X)
  OBVIOUS
<1>4. Len(t) = 1 + Len(s) /\ Len(s) \in Nat
  OBVIOUS
<1>5. t[1] = x
  OBVIOUS
<1> HIDE DEF u
<1>6. t # <<>>
  <2>1. Len(<<>>) = 0
    OBVIOUS
  <2> HIDE DEF t
  <2> QED BY <2>1, <1>4
<1>7. Tail(t) = s
  <2>1. \A i \in 1..Len(s) : t[i + 1] = s[i]
    <3>1. u \in Seq(X)
      BY <1>1
    <3>2. \A i \in 1..Len(s) : t[Len(u) + i] = s[i]
      BY <3>1, JoinedLists
    <3> HIDE DEF t
    <3>3. Len(u) = 1
      BY <1>1
    <3>4. \A i \in 1..Len(s) : t[1 + i] = s[i]
      BY <3>2, <3>3
    <3> QED BY <3>4, <1>4
  <2> HIDE DEF t
  <2>2. Tail(t) \in Seq(X) /\ Len(Tail(t)) = Len(s)
    BY <1>3, <1>4, <1>6
  <2>3. \A i \in 1..Len(s) : Tail(t)[i] = s[i]
    BY <1>3, <1>4, <1>6, <2>1
  <2> QED BY <2>2, <2>3
<1> QED BY <1>1, <1>2, <1>3, <1>5, <1>6, <1>7 DEF u

\* An io spec whose name has a volume.
HasVolume(e) == e.name \in Seq(Parts) /\ e.name # <<>> /\ VolumeName(e) # ""

\* What is named: the volume, and the path below it without empty parts.
LEMMA NamedPath ==
  ASSUME NEW e, HasVolume(e)
  PROVE  /\ VolumeName(e) \in Parts
         /\ SubPath(e) \in Seq(Parts)
         /\ Clean(e.name) = <<VolumeName(e)>> \o Clean(SubPath(e))
<1> DEFINE c == SplitVolumeCorpus(e.name)
           below == IF Len(c) > 1 THEN Tail(c) ELSE Blank
<1>1. c \in Seq(Parts) /\ c # <<>> /\ Clean(c) = Clean(e.name)
  BY TrimKeeps DEF SplitVolumeCorpus, HasVolume
<1>2. VolumeName(e) = c[1] /\ SubPath(e) = TrimSlashes(below)
  BY DEF VolumeName, SubPath
<1> HIDE DEF c
<1>3. /\ Len(c) \in Nat \ {0} /\ c[1] \in Parts
      /\ Tail(c) \in Seq(Parts) /\ Len(Tail(c)) = Len(c) - 1 /\ c = <<c[1]>> \o Tail(c)
  BY <1>1, FirstAndLast
<1>4. Blank \in Seq(Parts) /\ Blank # <<>> /\ Clean(Blank) = <<>>
  <2>1. <<>> \in Seq(Parts)
    OBVIOUS
  <2>2. Blank \in Seq(Parts) /\ Blank # <<>> /\ Append(<<>>, "") = Blank
    BY <2>1, BlankIsPart, FirstPart DEF Blank
  <2>3. Clean(<<>>) = <<>>
    BY <2>1, CleanType
  <2>4. Clean(Append(<<>>, "")) = Keep(Clean(<<>>), "")
    BY <2>1, BlankIsPart, CleanLast
  <2>5. Keep(<<>>, "") = <<>>
    BY <2>1, NothingKept
  <2> QED BY <2>2, <2>3, <2>4, <2>5
<1>5. below \in Seq(Parts) /\ below # <<>> /\ Clean(below) = Clean(Tail(c))
  <2>1. CASE Len(c) > 1
    <3> DEFINE before == Len(c)
               after == Len(Tail(c))
    <3>1. before \in Nat /\ before > 1 /\ after = before - 1
      BY <2>1, <1>3
    <3> HIDE DEF before, after
    <3>2. after # 0
      BY <3>1
    <3>3. Len(<<>>) = 0
      OBVIOUS
    <3>4. Tail(c) # <<>>
      BY <3>2, <3>3, Zenon DEF after
    <3> QED BY <2>1, <1>3, <3>4
  <2>2. CASE ~(Len(c) > 1)
    <3>1. Len(c) \in Nat \ {0} /\ Len(Tail(c)) = Len(c) - 1
      BY <1>3
    <3>2. Len(Tail(c)) = 0
      BY <2>2, <3>1
    <3>3. Tail(c) \in Seq(Parts)
      BY <1>3
    <3>4. Tail(c) = <<>>
      BY <3>2, <3>3, EmptySeq
    <3>5. Clean(Tail(c)) = <<>>
      BY <3>3, <3>4, CleanType
    <3> QED BY <2>2, <1>4, <3>5
  <2> QED BY <2>1, <2>2
<1> HIDE DEF below
<1>6. SubPath(e) \in Seq(Parts) /\ Clean(SubPath(e)) = Clean(Tail(c))
  BY <1>2, <1>5, TrimKeeps
<1>7. Clean(c) = Keep(<<>>, c[1]) \o Clean(Tail(c))
  <2>1. Clean(<<c[1]>> \o Tail(c)) = Keep(<<>>, c[1]) \o Clean(Tail(c))
    BY <1>3, CleanFirst
  <2> QED BY <2>1, <1>3, Zenon
<1>8. Keep(<<>>, c[1]) = <<c[1]>>
  <2>1. c[1] # ""
    BY <1>2 DEF HasVolume
  <2>2. <<>> \in Seq(Parts)
    OBVIOUS
  <2>3. Append(<<>>, c[1]) = <<c[1]>>
    BY <1>3, <2>2, FirstPart
  <2> QED BY <2>1, <2>3, Zenon DEF Keep
<1> QED BY <1>1, <1>2, <1>3, <1>6, <1>7, <1>8

\* With an intermediate directory a mount shows a directory of the run: its volume, the
\* run and the path below the volume.
LEMMA DirectoryOf ==
  ASSUME NEW r \in Runs, NEW e, HasVolume(e), e.useIntermediateDirectory
  PROVE  Directory(MountOf(r, e)) = <<VolumeName(e)>> \o (<<r>> \o Clean(SubPath(e)))
<1> DEFINE path == <<r>> \o SubPath(e)
<1>1. r \in Parts /\ r # ""
  BY RunsAssumption DEF Parts
<1>2. SubPath(e) \in Seq(Parts)
  BY NamedPath
<1>3. path \in Seq(Parts) /\ path # <<>> /\ Append(<<>>, r) = <<r>>
  <2> DEFINE below == SubPath(e)
  <2>1. below \in Seq(Parts) /\ r \in Parts
    BY <1>1, <1>2
  <2> HIDE DEF below
  <2>2. /\ <<r>> \o below \in Seq(Parts) /\ <<r>> \o below # <<>>
        /\ Append(<<>>, r) = <<r>>
    BY <2>1, FirstPart
  <2> QED BY <2>2 DEF below
<1>4. Clean(path) = Keep(<<>>, r) \o Clean(SubPath(e))
  BY <1>1, <1>2, CleanFirst
<1>5. Clean(path) = <<r>> \o Clean(SubPath(e))
  BY <1>1, <1>3, <1>4, Zenon DEF Keep
<1>6. SubPathWithIntermediateDirectory(r, e) = TrimSlashes(path)
  BY DEF SubPathWithIntermediateDirectory
<1> HIDE DEF path
<1>7. Clean(SubPathWithIntermediateDirectory(r, e)) = <<r>> \o Clean(SubPath(e))
  BY <1>3, <1>5, <1>6, TrimKeeps
<1>8. /\ MountOf(r, e).name = VolumeName(e)
      /\ MountOf(r, e).subPath = SubPathWithIntermediateDirectory(r, e)
  BY DEF MountOf, Mount
<1> QED BY <1>7, <1>8 DEF Directory

\* Of two lists with different second parts none starts with the other.
LEMMA StartsDiffer ==
  ASSUME NEW X, NEW v \in X, NEW r \in X, NEW a \in Seq(X),
         NEW w \in X, NEW q \in X, NEW b \in Seq(X), r # q
  PROVE  ~IsPrefix(<<v>> \o (<<r>> \o a), <<w>> \o (<<q>> \o b))
<1> DEFINE s == <<v>> \o (<<r>> \o a)
           t == <<w>> \o (<<q>> \o b)
<1>1. s \in Seq(X) /\ t \in Seq(X)
  OBVIOUS
<1>2. Len(s) = Len(a) + 2 /\ Len(t) = Len(b) + 2 /\ Len(a) \in Nat /\ Len(b) \in Nat
  OBVIOUS
<1>3. s[2] = r /\ t[2] = q
  OBVIOUS
<1> HIDE DEF s, t
<1> SUFFICES ASSUME IsPrefix(s, t) PROVE s[2] = t[2]
  BY <1>3 DEF s, t
<1>4. Len(s) <= Len(t) /\ SubSeq(s, 1, Len(s)) = SubSeq(t, 1, Len(s))
  BY DEF IsPrefix
<1>5. SubSeq(s, 1, Len(s))[2] = s[2]
  BY <1>1, <1>2
<1>6. SubSeq(t, 1, Len(s))[2] = t[2]
  BY <1>1, <1>2, <1>4
<1> QED BY <1>4, <1>5, <1>6

\* A path below a part, and one below two.
Below(v, a) == <<v>> \o a

BelowBoth(v, r, a) == <<v>> \o (<<r>> \o a)

\* A part that two lists share in the second place does not tell them apart.
LEMMA StartsAgree ==
  ASSUME NEW X, NEW v \in X, NEW r \in X, NEW a \in Seq(X), NEW w \in X, NEW b \in Seq(X)
  PROVE  BelowBoth(v, r, a) = BelowBoth(w, r, b) <=> Below(v, a) = Below(w, b)
<1> DEFINE ra == <<r>> \o a
           rb == <<r>> \o b
           s == <<v>> \o ra
           t == <<w>> \o rb
           c == <<v>> \o a
           d == <<w>> \o b
<1>1. ra \in Seq(X) /\ rb \in Seq(X) /\ Tail(ra) = a /\ Tail(rb) = b
  BY FirstPart
<1>2. c[1] = v /\ Tail(c) = a /\ d[1] = w /\ Tail(d) = b
  BY FirstPart
<1>3. a = b => ra = rb
  OBVIOUS
<1> HIDE DEF ra, rb
<1>4. s[1] = v /\ Tail(s) = ra /\ t[1] = w /\ Tail(t) = rb
  BY <1>1, FirstPart
<1>5. v = w /\ ra = rb => s = t
  OBVIOUS
<1>6. v = w /\ a = b => c = d
  OBVIOUS
<1> HIDE DEF s, t, c, d
<1>7. s = t => v = w /\ a = b
  BY <1>1, <1>4
<1>8. c = d => v = w /\ a = b
  BY <1>2
<1>9. s = t <=> c = d
  BY <1>3, <1>5, <1>6, <1>7, <1>8
<1> QED BY <1>9 DEF s, t, c, d, ra, rb, Below, BelowBoth

--------------------------------------------------------------------------------
(* The invariants. *)

\* The listed states are states that can be listed, and the pod is made of io specs.
FunctionsType == listed \in Seq(Listable) /\ pod \in Pods

\* FunctionsType is an invariant.
THEOREM FunctionsTypeInvariant == Spec => []FunctionsType
<1>1. Init => FunctionsType
  BY DEF Init, NoIO, FunctionsType, Pods
<1>2. FunctionsType /\ [Next]_<<listed, pod>> => FunctionsType'
  <2> SUFFICES ASSUME FunctionsType, [Next]_<<listed, pod>> PROVE FunctionsType'
    OBVIOUS
  <2>1. CASE ListJob
    <3>1. PICK s \in JobStates \ {JobStateUnknown} : listed' = Append(listed, s)
      BY <2>1 DEF ListJob
    <3>2. s \in Listable
      BY DEF Listable
    <3> QED BY <2>1, <3>1, <3>2 DEF FunctionsType, ListJob
  <2>2. CASE AddIO
    <3>1. DOMAIN pod = {"runInputs", "runOutputs", "jobInputs", "jobOutputs"}
      BY DEF FunctionsType, Pods
    <3>2. PICK f \in DOMAIN pod, e \in IOVolumeSpecs : pod' = [pod EXCEPT ![f] = Append(@, e)]
      BY <2>2 DEF AddIO
    <3>3. pod[f] \in Seq(IOVolumeSpecs)
      BY <3>1 DEF FunctionsType, Pods
    <3>4. Append(pod[f], e) \in Seq(IOVolumeSpecs)
      BY <3>3
    <3>5. pod' \in Pods
      BY <3>1, <3>2, <3>4 DEF FunctionsType, Pods
    <3> QED BY <2>2, <3>5 DEF FunctionsType, AddIO
  <2>3. CASE UNCHANGED <<listed, pod>>
    BY <2>3 DEF FunctionsType
  <2> QED BY <2>1, <2>2, <2>3 DEF Next
<1> QED BY <1>1, <1>2, PTL DEF Spec

\* The state that updateRunStatus gives a run is the highest of its jobs' states, in
\* whatever order and however many the informer lists.
THEOREM RunShowsHighest == Spec => []FoldIsHighest
<1>1. FunctionsType => FoldIsHighest
  BY FoldHighest DEF FunctionsType, FoldIsHighest, FoldedState
<1> QED BY <1>1, FunctionsTypeInvariant, PTL

\* The container mounts the volumes of its pod and no other, and the pod names each once,
\* for any number of io specs.
THEOREM MountsAndVolumesAgree == Spec => []MountsMatchVolumes
<1>1. FunctionsType => MountsMatchVolumes
  <2> SUFFICES ASSUME pod \in Pods, NEW r \in Runs
               PROVE  /\ {m.name : m \in ToSet(VolumeMountList(r, pod))} = ToSet(VolumeList(pod))
                      /\ IsInjective(VolumeList(pod))
    BY DEF FunctionsType, MountsMatchVolumes
  <2>1. AllIO(pod) \in Seq(IOVolumeSpecs)
    BY HeldByPod
  <2>2. ToSet(VolumeList(pod)) = VolumesIn(AllIO(pod)) /\ IsInjective(VolumeList(pod))
    BY <2>1, VolumesOnce DEF VolumesIn
  <2>3. NamesIn(VolumeMountList(r, pod)) = VolumesIn(AllIO(pod))
    BY MountNames
  <2> QED BY <2>2, <2>3 DEF NamesIn
<1> QED BY <1>1, FunctionsTypeInvariant, PTL

\* A part of a name is a part.
LEMMA NamesAreParts == \A name \in Names : name \in Seq(Parts) /\ name # <<>>
<1>1. STRING \subseteq Parts
  BY DEF Parts
<1>2. Seq(STRING) \subseteq Seq(Parts)
  <2> SUFFICES ASSUME NEW s \in Seq(STRING) PROVE s \in Seq(Parts)
    OBVIOUS
  <2>1. Len(s) \in Nat /\ s \in [1..Len(s) -> STRING]
    OBVIOUS
  <2>2. s \in [1..Len(s) -> Parts]
    BY <2>1, <1>1
  <2> QED BY <2>1, <2>2
<1> QED BY <1>2, NamesAssumption DEF NamesAssumption

\* Intermediate directories keep the runs of a pipeline apart and join the jobs of a run
\* exactly where they name the same path, for all names.
THEOREM RunsKeptApart == Spec => []RunsAreIsolated
<1>1. FunctionsType => RunsAreIsolated
  <2> SUFFICES ASSUME pod \in Pods, Parses(pod),
                      NEW d \in ToSet(AllIO(pod)), NEW e \in ToSet(AllIO(pod)),
                      d.useIntermediateDirectory, e.useIntermediateDirectory,
                      NEW r \in Runs, NEW q \in Runs
               PROVE  IF r = q
                      THEN Directory(MountOf(r, d)) = Directory(MountOf(q, e))
                             <=> Clean(d.name) = Clean(e.name)
                      ELSE /\ ~IsPrefix(Directory(MountOf(r, d)), Directory(MountOf(q, e)))
                           /\ ~IsPrefix(Directory(MountOf(q, e)), Directory(MountOf(r, d)))
    BY DEF FunctionsType, RunsAreIsolated
  <2>1. ASSUME NEW f \in ToSet(AllIO(pod)) PROVE HasVolume(f)
    <3>1. AllIO(pod) \in Seq(IOVolumeSpecs)
      BY HeldByPod
    <3>2. f \in IOVolumeSpecs
      BY <3>1 DEF ToSet
    <3>3. f.name \in Names
      BY <3>2 DEF IOVolumeSpecs
    <3>4. VolumeName(f) # ""
      BY DEF Parses
    <3> QED BY <3>3, <3>4, NamesAreParts DEF HasVolume
  <2>2. HasVolume(d) /\ HasVolume(e)
    BY <2>1
  <2> DEFINE v == VolumeName(d)
             w == VolumeName(e)
             a == Clean(SubPath(d))
             b == Clean(SubPath(e))
  <2>3. v \in Parts /\ a \in Seq(Parts) /\ Clean(d.name) = <<v>> \o a
    BY <2>2, NamedPath, CleanType
  <2>4. w \in Parts /\ b \in Seq(Parts) /\ Clean(e.name) = <<w>> \o b
    BY <2>2, NamedPath, CleanType
  <2>5. /\ Directory(MountOf(r, d)) = <<v>> \o (<<r>> \o a)
        /\ Directory(MountOf(q, e)) = <<w>> \o (<<q>> \o b)
    BY <2>2, DirectoryOf
  <2>6. r \in Parts /\ q \in Parts
    BY DEF Parts
  <2> HIDE DEF v, w, a, b
  <2>7. CASE r = q
    <3>1. /\ v \in Parts /\ r \in Parts /\ a \in Seq(Parts)
          /\ w \in Parts /\ b \in Seq(Parts)
      BY <2>3, <2>4, <2>6
    <3>2. BelowBoth(v, r, a) = BelowBoth(w, r, b) <=> Below(v, a) = Below(w, b)
      BY <3>1, StartsAgree
    <3> QED BY <2>3, <2>4, <2>5, <2>7, <3>2 DEF Below, BelowBoth
  <2>8. CASE r # q
    <3>1. ~IsPrefix(<<v>> \o (<<r>> \o a), <<w>> \o (<<q>> \o b))
      BY <2>3, <2>4, <2>6, <2>8, StartsDiffer
    <3>2. ~IsPrefix(<<w>> \o (<<q>> \o b), <<v>> \o (<<r>> \o a))
      BY <2>3, <2>4, <2>6, <2>8, StartsDiffer
    <3> QED BY <2>5, <2>8, <3>1, <3>2
  <2> QED BY <2>7, <2>8
<1> QED BY <1>1, FunctionsTypeInvariant, PTL
=============================================================================
