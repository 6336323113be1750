------------------------- MODULE TopologyProofs -------------------------
(***************************************************************************)
(* Lemmas about the operators on topologies, for the proofs about the apps *)
(* that are built from them.                                               *)
(***************************************************************************)
EXTENDS Topology, WellFoundedInduction, SequenceTheorems, TLAPS

(* Induction over the natural numbers, with a set in place of a formula:   *)
(* the theorems of the library are about operators, which the provers      *)
(* cannot instantiate.                                                     *)
LEMMA NaturalInduction ==
  ASSUME NEW S, 0 \in S, \A n \in Nat : n \in S => n + 1 \in S
  PROVE  Nat \subseteq S
<1> SUFFICES ASSUME Nat \ S # {}
             PROVE  FALSE
  OBVIOUS
<1> DEFINE R == OpToRel(<, Nat)
<1>1. IsWellFoundedOn(R, Nat)
  BY NatLessThanWellFounded
<1>2. \A x, y \in Nat : y < x => <<y, x>> \in R
  BY DEF OpToRel
<1> HIDE DEF R
<1>3. PICK x \in Nat \ S : \A y \in Nat \ S : ~(<<y, x>> \in R)
  BY <1>1, WFMin
<1>4. x # 0 /\ x - 1 \in Nat /\ x - 1 < x /\ (x - 1) + 1 = x
  BY <1>3
<1>5. x - 1 \in S
  BY <1>2, <1>3, <1>4
<1> QED
  BY <1>3, <1>4, <1>5

(* The greatest of numbers up to n + 1 that are given n + 1.               *)
LEMMA MaxIsLast ==
  ASSUME NEW n \in Nat, NEW S \in SUBSET (1..(n + 1)), n + 1 \in S
  PROVE  Max(S) = n + 1
<1>1. \A y \in S : n + 1 >= y
  OBVIOUS
<1>2. \A x \in S : (\A y \in S : x >= y) => x = n + 1
  OBVIOUS
<1> QED
  BY <1>1, <1>2 DEF Max

(* The function by which AddInjects folds over the numbers of the injects. *)
Folding(g, ns, hostname, injects, n) ==
  g = [s \in SUBSET (1..n) |->
        IF s = {} THEN ns
        ELSE AddInject(g[s \ {Max(s)}], hostname, injects[Max(s)])]

(* There is one for every number of injects.                               *)
LEMMA FoldingExists ==
  ASSUME NEW ns, NEW hostname, NEW injects
  PROVE  \A n \in Nat : \E g : Folding(g, ns, hostname, injects, n)
<1> DEFINE S == {n \in Nat : \E g : Folding(g, ns, hostname, injects, n)}
<1>1. 0 \in S
  <2> DEFINE g == [s \in SUBSET (1..0) |-> ns]
  <2>1. \A s \in SUBSET (1..0) : s = {}
    OBVIOUS
  <2>2. Folding(g, ns, hostname, injects, 0)
    BY <2>1 DEF Folding
  <2> QED
    BY <2>2
<1>2. \A n \in Nat : n \in S => n + 1 \in S
  <2> SUFFICES ASSUME NEW n \in Nat, NEW f, Folding(f, ns, hostname, injects, n)
               PROVE  \E g : Folding(g, ns, hostname, injects, n + 1)
    OBVIOUS
  <2> DEFINE g == [s \in SUBSET (1..(n + 1)) |->
                    IF n + 1 \in s THEN AddInject(f[s \ {n + 1}], hostname, injects[n + 1]) ELSE f[s]]
  <2>1. \A s \in SUBSET (1..(n + 1)) : s \ {n + 1} \in SUBSET (1..n) /\ (n + 1 \notin s => s \in SUBSET (1..n))
    OBVIOUS
  <2>2. ASSUME NEW s \in SUBSET (1..(n + 1))
        PROVE  g[s] = IF s = {} THEN ns
                      ELSE AddInject(g[s \ {Max(s)}], hostname, injects[Max(s)])
    <3>1. CASE n + 1 \in s
      <4>1. Max(s) = n + 1 /\ s # {}
        BY <3>1, MaxIsLast
      <4>2. g[s \ {n + 1}] = f[s \ {n + 1}]
        OBVIOUS
      <4> QED
        BY <3>1, <4>1, <4>2
    <3>2. CASE n + 1 \notin s
      <4>1. s \in SUBSET (1..n) /\ g[s] = f[s]
        BY <2>1, <3>2
      <4>2. g[s \ {Max(s)}] = f[s \ {Max(s)}]
        BY <3>2
      <4> HIDE DEF g
      <4> QED
        BY <4>1, <4>2 DEF Folding
    <3> QED
      BY <3>1, <3>2
  <2>3. g = [s \in SUBSET (1..(n + 1)) |-> g[s]]
    OBVIOUS
  <2>4. Folding(g, ns, hostname, injects, n + 1)
    <3> HIDE DEF g
    <3> QED
      BY <2>2, <2>3 DEF Folding
  <2> QED
    BY <2>4
<1>3. Nat \subseteq S
  <2> HIDE DEF S
  <2> QED
    BY <1>1, <1>2, NaturalInduction
<1> QED
  BY <1>3

(* AddInjects is its last value.                                           *)
LEMMA FoldIsFolding ==
  ASSUME NEW ns, NEW hostname, NEW T, NEW injects \in Seq(T)
  PROVE  \E g : /\ Folding(g, ns, hostname, injects, Len(injects))
                /\ AddInjects(ns, hostname, injects) = g[1..Len(injects)]
<1> DEFINE n == Len(injects)
           g == CHOOSE g : Folding(g, ns, hostname, injects, n)
<1>1. DOMAIN injects = 1..n /\ n \in Nat
  OBVIOUS
<1>2. Folding(g, ns, hostname, injects, n)
  BY <1>1, FoldingExists, Zenon
<1>3. AddInjects(ns, hostname, injects) = g[1..n]
  BY <1>1 DEF AddInjects, FoldLeft, MapThenFoldSet, Folding
<1> QED
  BY <1>2, <1>3

(* AddInjects adds one inject after the other.                             *)
LEMMA AddingSteps ==
  ASSUME NEW ns, NEW hostname, NEW T, NEW injects \in Seq(T)
  PROVE  \E f : /\ f[0] = ns
                /\ \A k \in 1..Len(injects) : f[k] = AddInject(f[k - 1], hostname, injects[k])
                /\ AddInjects(ns, hostname, injects) = f[Len(injects)]
<1> DEFINE n == Len(injects)
<1>1. n \in Nat
  OBVIOUS
<1>2. PICK g : /\ Folding(g, ns, hostname, injects, n)
               /\ AddInjects(ns, hostname, injects) = g[1..n]
  BY FoldIsFolding
<1> DEFINE f == [k \in 0..n |-> g[1..k]]
<1>3. f[0] = ns
  BY <1>1, <1>2 DEF Folding
<1>4. ASSUME NEW k \in 1..n
      PROVE  f[k] = AddInject(f[k - 1], hostname, injects[k])
  <2>1. k - 1 \in Nat /\ (k - 1) + 1 = k /\ k \in 1..k /\ 1..k \in SUBSET (1..n)
    BY <1>1
  <2>2. Max(1..k) = k
    BY <2>1, MaxIsLast
  <2>3. (1..k) \ {k} = 1..(k - 1)
    BY <2>1
  <2>4. g[1..k] = AddInject(g[1..(k - 1)], hostname, injects[k])
    BY <1>2, <2>1, <2>2, <2>3 DEF Folding
  <2> QED
    BY <1>1, <2>1, <2>4
<1>5. AddInjects(ns, hostname, injects) = f[n]
  BY <1>1, <1>2
<1> QED
  <2> HIDE DEF f
  <2> QED
    BY <1>3, <1>4, <1>5

(* What Min is.                                                            *)
LEMMA LeastNumber ==
  ASSUME NEW S \in SUBSET Nat, S # {}
  PROVE  Min(S) \in S /\ \A y \in S : Min(S) <= y
<1> DEFINE R == OpToRel(<, Nat)
<1>1. IsWellFoundedOn(R, Nat)
  BY NatLessThanWellFounded
<1>2. \A x, y \in Nat : y < x => <<y, x>> \in R
  BY DEF OpToRel
<1> HIDE DEF R
<1>3. PICK x \in S : \A y \in S : ~(<<y, x>> \in R)
  BY <1>1, WFMin
<1>4. ASSUME NEW y \in S
      PROVE  x =< y
  <2>1. x \in Nat /\ y \in Nat /\ ~(<<y, x>> \in R)
    BY <1>3
  <2>2. ~(y < x)
    BY <1>2, <2>1
  <2> QED
    BY <2>1, <2>2
<1> QED
  BY <1>3, <1>4 DEF Min

(* Only nodes of that name differ, and nothing has been renamed.           *)
OnlyChanged(ns, ms, hostname) ==
  /\ DOMAIN ms = DOMAIN ns
  /\ \A j \in DOMAIN ns : ms[j].hostname = ns[j].hostname /\ (ns[j].hostname # hostname => ms[j] = ns[j])

(* NodeIndex is 0 or the place of a node of that name.                     *)
LEMMA NodeIsFound ==
  ASSUME NEW ns, IsTopology(ns), NEW hostname
  PROVE  \/ NodeIndex(ns, hostname) = 0 /\ \A j \in DOMAIN ns : ns[j].hostname # hostname
         \/ NodeIndex(ns, hostname) \in DOMAIN ns /\ ns[NodeIndex(ns, hostname)].hostname = hostname
<1> DEFINE I == {j \in 1..Len(ns) : ns[j].hostname = hostname}
<1>1. DOMAIN ns = 1..Len(ns) /\ Len(ns) \in Nat
  BY DEF IsTopology
<1>2. NodeIndex(ns, hostname) = IF I # {} THEN Min(I) ELSE 0
  BY DEF NodeIndex, SelectInSeq
<1>3. I # {} => Min(I) \in I
  <2>1. I \in SUBSET Nat
    BY <1>1
  <2> QED
    BY <2>1, LeastNumber
<1> QED
  BY <1>1, <1>2, <1>3

(* A topology with one node changed is a topology, and only that node      *)
(* differs.                                                                *)
LEMMA ChangesOne ==
  ASSUME NEW ns, IsTopology(ns), NEW hostname, NEW field \in {"federate", "injects"}, NEW value,
         NEW ms, ms = [ns EXCEPT ![NodeIndex(ns, hostname)][field] = value]
  PROVE  IsTopology(ms) /\ OnlyChanged(ns, ms, hostname)
<1> DEFINE k == NodeIndex(ns, hostname)
<1>1. k \in DOMAIN ns => ns[k].hostname = hostname
  BY NodeIsFound DEF IsTopology
<1>2. DOMAIN ms = DOMAIN ns /\ ms = [j \in DOMAIN ns |-> ms[j]]
  BY DEF IsTopology
<1>3. \A j \in DOMAIN ns : ms[j] = IF j = k THEN [ns[j] EXCEPT ![field] = value] ELSE ns[j]
  BY DEF IsTopology
<1> HIDE DEF k
<1>4. \A j \in DOMAIN ns : IsNode(ms[j]) /\ ms[j].hostname = ns[j].hostname
  BY <1>3 DEF IsTopology, IsNode
<1>5. ms \in Seq(ToSet(ms))
  <2>1. DOMAIN ns = 1..Len(ns) /\ Len(ns) \in Nat
    BY DEF IsTopology
  <2>2. ms \in [1..Len(ns) -> ToSet(ms)]
    BY <1>2, <2>1 DEF ToSet
  <2>3. Seq(ToSet(ms)) = UNION {[1..n -> ToSet(ms)] : n \in Nat}
    BY SeqDef
  <2> QED
    BY <2>1, <2>2, <2>3
<1> QED
  BY <1>1, <1>2, <1>3, <1>4, <1>5 DEF IsTopology, OnlyChanged

(* Adding an inject changes only the node it is for.                       *)
LEMMA AddInjectKeeps ==
  ASSUME NEW ns, IsTopology(ns), NEW hostname, NEW inject
  PROVE  /\ IsTopology(AddInject(ns, hostname, inject))
         /\ OnlyChanged(ns, AddInject(ns, hostname, inject), hostname)
<1> DEFINE old == ns[NodeIndex(ns, hostname)].injects
           new == IF Contains(old, inject) THEN old ELSE Append(old, inject)
<1>1. AddInject(ns, hostname, inject) = [ns EXCEPT ![NodeIndex(ns, hostname)].injects = new]
  BY DEF AddInject
<1> HIDE DEF new
<1>2. AddInject(ns, hostname, inject) = [ns EXCEPT ![NodeIndex(ns, hostname)]["injects"] = new]
  BY <1>1
<1> QED
  BY <1>2, ChangesOne

(* An annotation changes neither names nor injects.                        *)
LEMMA AddAnnotationKeeps ==
  ASSUME NEW ns, IsTopology(ns), NEW hostname, NEW value, NEW ms, ms = AddAnnotation(ns, hostname, value)
  PROVE  /\ IsTopology(ms) /\ DOMAIN ms = DOMAIN ns
         /\ \A j \in DOMAIN ns : ms[j].hostname = ns[j].hostname /\ ms[j].injects = ns[j].injects
<1> DEFINE k == NodeIndex(ns, hostname)
<1>1. ms = [ns EXCEPT ![k]["federate"] = value]
  BY DEF AddAnnotation
<1>2. IsTopology(ms) /\ DOMAIN ms = DOMAIN ns
  <2>1. IsTopology(ms) /\ OnlyChanged(ns, ms, hostname)
    BY <1>1, ChangesOne
  <2> QED
    BY <2>1 DEF OnlyChanged
<1> HIDE DEF k
<1>3. \A j \in DOMAIN ns : ms[j] = IF j = k THEN [ns[j] EXCEPT !["federate"] = value] ELSE ns[j]
  BY <1>1 DEF IsTopology
<1> QED
  BY <1>2, <1>3 DEF IsTopology, IsNode

(* Nor do several injects change any other node.                           *)
LEMMA AddInjectsKeep ==
  ASSUME NEW ns, IsTopology(ns), NEW hostname, NEW T, NEW injects \in Seq(T)
  PROVE  /\ IsTopology(AddInjects(ns, hostname, injects))
         /\ OnlyChanged(ns, AddInjects(ns, hostname, injects), hostname)
<1> DEFINE n == Len(injects)
<1>1. n \in Nat
  OBVIOUS
<1>2. PICK f : /\ f[0] = ns
               /\ \A k \in 1..n : f[k] = AddInject(f[k - 1], hostname, injects[k])
               /\ AddInjects(ns, hostname, injects) = f[n]
  BY AddingSteps
<1> DEFINE S == {k \in Nat : k <= n => IsTopology(f[k]) /\ OnlyChanged(ns, f[k], hostname)}
<1>3. 0 \in S
  BY <1>2 DEF OnlyChanged
<1>4. ASSUME NEW k \in Nat, k \in S
      PROVE  k + 1 \in S
  <2> SUFFICES ASSUME k + 1 <= n
               PROVE  IsTopology(f[k + 1]) /\ OnlyChanged(ns, f[k + 1], hostname)
    OBVIOUS
  <2>1. f[k + 1] = AddInject(f[k], hostname, injects[k + 1])
    BY <1>1, <1>2
  <2>2. IsTopology(f[k]) /\ OnlyChanged(ns, f[k], hostname)
    BY <1>1, <1>4
  <2>3. IsTopology(f[k + 1]) /\ OnlyChanged(f[k], f[k + 1], hostname)
    BY <2>1, <2>2, AddInjectKeeps
  <2> QED
    BY <2>2, <2>3 DEF OnlyChanged
<1>5. n \in S
  <2> HIDE DEF S
  <2> QED
    BY <1>1, <1>3, <1>4, NaturalInduction
<1> QED
  BY <1>1, <1>2, <1>5

(* A node more leaves a topology a topology.                               *)
LEMMA AppendKeeps ==
  ASSUME NEW ns, IsTopology(ns), NEW node, IsNode(node)
  PROVE  IsTopology(Append(ns, node))
<1>1. ns \in Seq(ToSet(ns) \cup {node})
  BY SeqMonotonic DEF IsTopology
<1>2. /\ Append(ns, node) \in Seq(ToSet(ns) \cup {node})
      /\ DOMAIN Append(ns, node) = 1..(Len(ns) + 1)
      /\ Len(ns) \in Nat
      /\ \A j \in DOMAIN ns : Append(ns, node)[j] = ns[j]
      /\ Append(ns, node)[Len(ns) + 1] = node
      /\ DOMAIN ns = 1..Len(ns)
  BY <1>1
<1>3. ToSet(Append(ns, node)) = ToSet(ns) \cup {node}
  BY <1>2 DEF ToSet
<1> QED
  BY <1>2, <1>3 DEF IsTopology

(* A function on 1..n is a sequence.                                       *)
LEMMA FunctionIsSequence ==
  ASSUME NEW f, NEW n \in Nat, f = [j \in 1..n |-> f[j]]
  PROVE  f \in Seq(ToSet(f)) /\ Len(f) = n /\ DOMAIN f = 1..n
<1>1. f \in [1..n -> ToSet(f)]
  BY DEF ToSet
<1>2. Seq(ToSet(f)) = UNION {[1..m -> ToSet(f)] : m \in Nat}
  BY SeqDef
<1>3. f \in Seq(ToSet(f))
  BY <1>1, <1>2
<1> QED
  BY <1>1, <1>3

-----------------------------------------------------------------------------
(* What a list of steps makes of a value.                                  *)
Chain(f, D, b, n, F) ==
  f \in [0..n -> D] /\ f[0] = b /\ \A k \in 1..n : f[k] = F[<<f[k - 1], k>>]

(* A step for every value and number makes one chain from every value.     *)
LEMMA ChainExists ==
  ASSUME NEW D, NEW b \in D, NEW n \in Nat, NEW F \in [D \X (1..n) -> D]
  PROVE  \E f : Chain(f, D, b, n, F)
<1> DEFINE S == {m \in Nat : m <= n => \E f : Chain(f, D, b, m, F)}
<1>1. 0 \in S
  <2> DEFINE f == [k \in 0..0 |-> b]
  <2>1. Chain(f, D, b, 0, F)
    BY DEF Chain
  <2> QED
    BY <2>1
<1>2. ASSUME NEW m \in Nat, m \in S
      PROVE  m + 1 \in S
  <2> SUFFICES ASSUME m + 1 <= n
               PROVE  \E f : Chain(f, D, b, m + 1, F)
    OBVIOUS
  <2>1. PICK g : Chain(g, D, b, m, F)
    BY <1>2
  <2> DEFINE f == [k \in 0..(m + 1) |-> IF k = m + 1 THEN F[<<g[m], m + 1>>] ELSE g[k]]
  <2>2. g[m] \in D /\ F[<<g[m], m + 1>>] \in D
    BY <2>1 DEF Chain
  <2>3. f \in [0..(m + 1) -> D] /\ f[0] = b
    BY <2>1, <2>2 DEF Chain
  <2>4. ASSUME NEW k \in 1..(m + 1)
        PROVE  f[k] = F[<<f[k - 1], k>>]
    <3>1. CASE k = m + 1
      <4>1. k - 1 = m /\ m \in 0..(m + 1) /\ m # m + 1 /\ m + 1 \in 0..(m + 1)
        BY <3>1
      <4>2. f[m] = g[m] /\ f[m + 1] = F[<<g[m], m + 1>>]
        BY <4>1
      <4> QED
        BY <3>1, <4>1, <4>2
    <3>2. CASE k # m + 1
      <4>1. k \in 1..m /\ k \in 0..(m + 1) /\ k - 1 \in 0..(m + 1) /\ k - 1 # m + 1
        BY <3>2
      <4>2. f[k] = g[k] /\ f[k - 1] = g[k - 1]
        BY <3>2, <4>1
      <4> QED
        BY <2>1, <4>1, <4>2 DEF Chain
    <3> QED
      BY <3>1, <3>2
  <2>5. Chain(f, D, b, m + 1, F)
    BY <2>3, <2>4 DEF Chain
  <2> QED
    BY <2>5
<1>3. n \in S
  <2> HIDE DEF S
  <2> QED
    BY <1>1, <1>2, NaturalInduction
<1> QED
  BY <1>3

(* What a sequence has with one element more.                              *)
LEMMA SetOfAppend ==
  ASSUME NEW T, NEW s \in Seq(T), NEW x
  PROVE  ToSet(Append(s, x)) = ToSet(s) \cup {x}
<1>1. /\ DOMAIN Append(s, x) = 1..(Len(s) + 1) /\ DOMAIN s = 1..Len(s) /\ Len(s) \in Nat
      /\ \A j \in DOMAIN s : Append(s, x)[j] = s[j]
      /\ Append(s, x)[Len(s) + 1] = x
  OBVIOUS
<1> QED
  BY <1>1 DEF ToSet

(* What two sequences have together.                                       *)
LEMMA SetOfConcat ==
  ASSUME NEW T, NEW s \in Seq(T), NEW t \in Seq(T)
  PROVE  ToSet(s \o t) = ToSet(s) \cup ToSet(t)
<1>1. /\ DOMAIN (s \o t) = 1..(Len(s) + Len(t)) /\ DOMAIN s = 1..Len(s) /\ DOMAIN t = 1..Len(t)
      /\ Len(s) \in Nat /\ Len(t) \in Nat
      /\ \A j \in 1..Len(s) : (s \o t)[j] = s[j]
      /\ \A j \in 1..Len(t) : (s \o t)[Len(s) + j] = t[j]
  BY ConcatProperties
<1>2. \A j \in 1..(Len(s) + Len(t)) : j \in 1..Len(s) \/ (j - Len(s) \in 1..Len(t) /\ Len(s) + (j - Len(s)) = j)
  BY <1>1
<1>3. \A j \in 1..Len(s) : j \in 1..(Len(s) + Len(t))
  BY <1>1
<1>4. \A j \in 1..Len(t) : Len(s) + j \in 1..(Len(s) + Len(t))
  BY <1>1
<1>5. ToSet(s \o t) \subseteq ToSet(s) \cup ToSet(t)
  BY <1>1, <1>2 DEF ToSet
<1>6. ToSet(s) \cup ToSet(t) \subseteq ToSet(s \o t)
  BY <1>1, <1>3, <1>4 DEF ToSet
<1> QED
  BY <1>5, <1>6

(* Select goes through the sequence and takes what is in S.                *)
Selecting(f, T, seq, S) ==
  /\ f \in [0..Len(seq) -> Seq(T)] /\ f[0] = << >>
  /\ \A k \in 1..Len(seq) : f[k] = IF seq[k] \in S THEN Append(f[k - 1], seq[k]) ELSE f[k - 1]

(* Select goes through a sequence element by element.                      *)
LEMMA SelectingSteps ==
  ASSUME NEW T, NEW seq \in Seq(T), NEW S
  PROVE  \E f : Selecting(f, T, seq, S) /\ Select(seq, S) = f[Len(seq)]
<1> DEFINE n == Len(seq)
           next(g, m) == IF m = 0 THEN << >> ELSE IF seq[m] \in S THEN Append(g[m - 1], seq[m]) ELSE g[m - 1]
           Eq(g) == g = [m \in 0..n |-> next(g, m)]
           F == [p \in Seq(T) \X (1..n) |-> IF seq[p[2]] \in S THEN Append(p[1], seq[p[2]]) ELSE p[1]]
<1>1. n \in Nat /\ \A k \in 1..n : seq[k] \in T
  OBVIOUS
<1>2. F \in [Seq(T) \X (1..n) -> Seq(T)]
  BY <1>1
<1>3. << >> \in Seq(T)
  OBVIOUS
<1>4. PICK f : Chain(f, Seq(T), << >>, n, F)
  <2> HIDE DEF F, n
  <2> QED
    BY <1>1, <1>2, <1>3, ChainExists
<1>5. \A g \in Seq(T), k \in 1..n : F[<<g, k>>] = IF seq[k] \in S THEN Append(g, seq[k]) ELSE g
  OBVIOUS
<1>6. Selecting(f, T, seq, S)
  <2> HIDE DEF F
  <2>1. f \in [0..n -> Seq(T)] /\ f[0] = << >> /\ \A k \in 1..n : f[k] = F[<<f[k - 1], k>>]
    BY <1>4 DEF Chain
  <2>2. \A k \in 1..n : f[k - 1] \in Seq(T)
    BY <1>1, <2>1
  <2> QED
    BY <1>5, <2>1, <2>2 DEF Selecting
<1>7. Eq(f)
  <2>1. ASSUME NEW m \in 0..n
        PROVE  f[m] = next(f, m)
    <3>1. CASE m = 0
      BY <1>6, <3>1 DEF Selecting
    <3>2. CASE m # 0
      <4>1. m \in 1..n
        BY <1>1, <3>2
      <4> QED
        BY <1>6, <3>2, <4>1 DEF Selecting
    <3> QED
      BY <3>1, <3>2
  <2>2. f = [m \in 0..n |-> f[m]]
    BY <1>6 DEF Selecting
  <2> HIDE DEF next
  <2> QED
    BY <2>1, <2>2
<1>8. ASSUME NEW g, Eq(g)
      PROVE  g = f
  <2>1. g = [m \in 0..n |-> g[m]] /\ \A m \in 0..n : g[m] = next(g, m)
    <3> HIDE DEF next
    <3> QED
      BY <1>8
  <2> DEFINE E == {m \in Nat : m <= n => g[m] = f[m]}
  <2>2. 0 \in E
    <3>1. 0 \in 0..n /\ next(g, 0) = << >>
      BY <1>1
    <3>2. g[0] = << >>
      <4> HIDE DEF next
      <4> QED
        BY <2>1, <3>1
    <3> QED
      BY <1>6, <3>2 DEF Selecting
  <2>3. ASSUME NEW m \in Nat, m \in E
        PROVE  m + 1 \in E
    <3> SUFFICES ASSUME m + 1 <= n
                 PROVE  g[m + 1] = f[m + 1]
      OBVIOUS
    <3>1. m + 1 \in 0..n /\ m + 1 # 0 /\ (m + 1) - 1 = m /\ m + 1 \in 1..n /\ g[m] = f[m]
      BY <1>1, <2>3
    <3>2. g[m + 1] = next(g, m + 1)
      <4> HIDE DEF next
      <4> QED
        BY <2>1, <3>1
    <3> QED
      BY <1>6, <3>1, <3>2 DEF Selecting
  <2>4. Nat \subseteq E
    <3> HIDE DEF E
    <3> QED
      BY <2>2, <2>3, NaturalInduction
  <2>5. \A m \in 0..n : g[m] = f[m]
    BY <1>1, <2>4
  <2> HIDE DEF next
  <2>6. f = [m \in 0..n |-> f[m]]
    BY <1>6 DEF Selecting
  <2> QED
    BY <2>1, <2>5, <2>6
<1>9. Select(seq, S) = f[n]
  <2>1. Select(seq, S) = (CHOOSE g : Eq(g))[n]
    BY DEF Select
  <2> HIDE DEF Eq
  <2> QED
    BY <1>7, <1>8, <2>1
<1> QED
  BY <1>6, <1>9

(* A part of the sequence: the members that are in S.                      *)
LEMMA SelectIs ==
  ASSUME NEW T, NEW seq \in Seq(T), NEW S
  PROVE  /\ Select(seq, S) \in Seq(T)
         /\ ToSet(Select(seq, S)) = ToSet(seq) \cap S
<1> DEFINE n == Len(seq)
<1>1. n \in Nat /\ DOMAIN seq = 1..n /\ \A k \in 1..n : seq[k] \in T
  OBVIOUS
<1>2. PICK f : Selecting(f, T, seq, S) /\ Select(seq, S) = f[n]
  BY SelectingSteps
<1> DEFINE E == {m \in Nat : m <= n => ToSet(f[m]) = {seq[k] : k \in 1..m} \cap S}
<1>3. 0 \in E
  BY <1>2 DEF ToSet, Selecting
<1>4. ASSUME NEW m \in Nat, m \in E
      PROVE  m + 1 \in E
  <2> SUFFICES ASSUME m + 1 <= n
               PROVE  ToSet(f[m + 1]) = {seq[k] : k \in 1..(m + 1)} \cap S
    OBVIOUS
  <2>0. m \in 0..n /\ m + 1 \in 1..n /\ (m + 1) - 1 = m
    BY <1>1
  <2>1. f[m] \in Seq(T) /\ ToSet(f[m]) = {seq[k] : k \in 1..m} \cap S /\ seq[m + 1] \in T
    <3>1. f[m] \in Seq(T)
      BY <1>2, <2>0 DEF Selecting
    <3>2. ToSet(f[m]) = {seq[k] : k \in 1..m} \cap S
      BY <1>4, <2>0
    <3> QED
      BY <1>1, <2>0, <3>1, <3>2
  <2>2. f[m + 1] = IF seq[m + 1] \in S THEN Append(f[m], seq[m + 1]) ELSE f[m]
    BY <1>1, <1>2, <2>0 DEF Selecting
  <2>3. {seq[k] : k \in 1..(m + 1)} = {seq[k] : k \in 1..m} \cup {seq[m + 1]}
    OBVIOUS
  <2>4. ToSet(Append(f[m], seq[m + 1])) = ToSet(f[m]) \cup {seq[m + 1]}
    BY <2>1, SetOfAppend
  <2> QED
    BY <2>1, <2>2, <2>3, <2>4
<1>5. n \in E
  <2> HIDE DEF E
  <2> QED
    BY <1>1, <1>3, <1>4, NaturalInduction
<1>6. ToSet(seq) = {seq[k] : k \in 1..n}
  BY <1>1 DEF ToSet
<1>7. f[n] \in Seq(T)
  BY <1>1, <1>2 DEF Selecting
<1> QED
  BY <1>1, <1>2, <1>5, <1>6, <1>7

(* FlattenSeq appends one sequence after the other.                        *)
Flattening(f, T, seqs) ==
  /\ f \in [0..Len(seqs) -> Seq(T)] /\ f[0] = << >>
  /\ \A k \in 1..Len(seqs) : f[k] = f[k - 1] \o seqs[k]

(* FlattenSeq goes through a list of lists one by one.                     *)
LEMMA FlatteningSteps ==
  ASSUME NEW T, NEW seqs \in Seq(Seq(T))
  PROVE  \E f : Flattening(f, T, seqs) /\ FlattenSeq(seqs) = f[Len(seqs)]
<1> DEFINE n == Len(seqs)
           next(g, m) == IF m = 1 THEN seqs[m] ELSE g[m - 1] \o seqs[m]
           Eq(g) == g = [m \in 1..n |-> next(g, m)]
           F == [p \in Seq(T) \X (1..n) |-> p[1] \o seqs[p[2]]]
<1>1. n \in Nat /\ \A k \in 1..n : seqs[k] \in Seq(T)
  OBVIOUS
<1>2. F \in [Seq(T) \X (1..n) -> Seq(T)]
  BY <1>1
<1>3. << >> \in Seq(T)
  OBVIOUS
<1>4. PICK f : Chain(f, Seq(T), << >>, n, F)
  <2> HIDE DEF F, n
  <2> QED
    BY <1>1, <1>2, <1>3, ChainExists
<1>5. \A g \in Seq(T), k \in 1..n : F[<<g, k>>] = g \o seqs[k]
  OBVIOUS
<1>6. Flattening(f, T, seqs)
  <2> HIDE DEF F
  <2>1. f \in [0..n -> Seq(T)] /\ f[0] = << >> /\ \A k \in 1..n : f[k] = F[<<f[k - 1], k>>]
    BY <1>4 DEF Chain
  <2>2. ASSUME NEW k \in 1..n
        PROVE  f[k - 1] \in Seq(T)
    <3>1. k - 1 \in 0..n
      BY <1>1
    <3>2. f \in [0..n -> Seq(T)]
      BY <2>1
    <3> HIDE DEF n
    <3> QED
      BY <3>1, <3>2
  <2> QED
    BY <1>5, <2>1, <2>2 DEF Flattening
<1> DEFINE h == [m \in 1..n |-> f[m]]
<1>7. Eq(h)
  <2>1. ASSUME NEW m \in 1..n
        PROVE  h[m] = next(h, m)
    <3>1. f[m] = f[m - 1] \o seqs[m]
      BY <1>6 DEF Flattening
    <3>2. CASE m = 1
      <4>0. m - 1 = 0 /\ f[0] = << >>
        BY <1>6, <3>2 DEF Flattening
      <4>1. f[1] = << >> \o seqs[1]
        BY <3>1, <3>2, <4>0
      <4>2. seqs[1] \in Seq(T)
        BY <1>1, <3>2
      <4>3. << >> \o seqs[1] = seqs[1]
        BY <4>2
      <4> QED
        BY <3>2, <4>1, <4>3
    <3>3. CASE m # 1
      <4>1. m - 1 \in 1..n
        BY <1>1, <3>3
      <4> QED
        BY <3>1, <3>3, <4>1
    <3> QED
      BY <3>2, <3>3
  <2>2. h = [m \in 1..n |-> h[m]]
    OBVIOUS
  <2> HIDE DEF next, h
  <2> QED
    BY <2>1, <2>2
<1>8. ASSUME NEW g, Eq(g)
      PROVE  g = h
  <2>1. g = [m \in 1..n |-> g[m]] /\ \A m \in 1..n : g[m] = next(g, m)
    <3> HIDE DEF next
    <3> QED
      BY <1>8
  <2>2. h = [m \in 1..n |-> h[m]] /\ \A m \in 1..n : h[m] = next(h, m)
    <3> HIDE DEF next, h
    <3> QED
      BY <1>7
  <2> HIDE DEF h
  <2> DEFINE E == {m \in Nat : m \in 1..n => g[m] = h[m]}
  <2>3. 0 \in E
    OBVIOUS
  <2>4. ASSUME NEW m \in Nat, m \in E
        PROVE  m + 1 \in E
    <3> SUFFICES ASSUME m + 1 \in 1..n
                 PROVE  g[m + 1] = h[m + 1]
      OBVIOUS
    <3>1. g[m + 1] = next(g, m + 1) /\ h[m + 1] = next(h, m + 1)
      <4> HIDE DEF next
      <4> QED
        BY <2>1, <2>2
    <3>2. CASE m = 0
      BY <3>1, <3>2
    <3>3. CASE m # 0
      <4>1. m \in 1..n /\ m + 1 # 1 /\ (m + 1) - 1 = m
        BY <1>1, <3>3
      <4> QED
        BY <2>4, <3>1, <4>1
    <3> QED
      BY <3>2, <3>3
  <2>5. Nat \subseteq E
    <3> HIDE DEF E
    <3> QED
      BY <2>3, <2>4, NaturalInduction
  <2>6. \A m \in 1..n : g[m] = h[m]
    BY <1>1, <2>5
  <2> HIDE DEF next
  <2> QED
    BY <2>1, <2>2, <2>6
<1>9. FlattenSeq(seqs) = f[n]
  <2>1. FlattenSeq(seqs) = IF n = 0 THEN seqs ELSE (CHOOSE g : Eq(g))[n]
    BY DEF FlattenSeq
  <2>2. CASE n = 0
    <3>1. seqs = << >>
      BY <2>2
    <3> QED
      BY <1>6, <2>1, <2>2, <3>1 DEF Flattening
  <2>3. CASE n # 0
    <3>1. h[n] = f[n]
      BY <1>1, <2>3
    <3> HIDE DEF Eq, h
    <3>2. (CHOOSE g : Eq(g)) = h
      BY <1>7, <1>8
    <3> QED
      BY <2>1, <2>3, <3>1, <3>2
  <2> QED
    BY <2>2, <2>3
<1> QED
  BY <1>6, <1>9

(* Of what a flattened sequence is made.                                   *)
LEMMA FlattenIs ==
  ASSUME NEW T, NEW seqs \in Seq(Seq(T))
  PROVE  /\ FlattenSeq(seqs) \in Seq(T)
         /\ ToSet(FlattenSeq(seqs)) = UNION {ToSet(seqs[k]) : k \in DOMAIN seqs}
<1> DEFINE n == Len(seqs)
<1>1. n \in Nat /\ DOMAIN seqs = 1..n /\ \A k \in 1..n : seqs[k] \in Seq(T)
  OBVIOUS
<1>2. PICK f : Flattening(f, T, seqs) /\ FlattenSeq(seqs) = f[n]
  BY FlatteningSteps
<1> DEFINE E == {m \in Nat : m <= n => ToSet(f[m]) = UNION {ToSet(seqs[k]) : k \in 1..m}}
<1>3. 0 \in E
  BY <1>2 DEF ToSet, Flattening
<1>4. ASSUME NEW m \in Nat, m \in E
      PROVE  m + 1 \in E
  <2> SUFFICES ASSUME m + 1 <= n
               PROVE  ToSet(f[m + 1]) = UNION {ToSet(seqs[k]) : k \in 1..(m + 1)}
    OBVIOUS
  <2>0. m \in 0..n /\ m + 1 \in 1..n /\ (m + 1) - 1 = m
    BY <1>1
  <2>1. f[m] \in Seq(T) /\ ToSet(f[m]) = UNION {ToSet(seqs[k]) : k \in 1..m} /\ seqs[m + 1] \in Seq(T)
    BY <1>1, <1>2, <1>4, <2>0 DEF Flattening
  <2>2. f[m + 1] = f[m] \o seqs[m + 1]
    BY <1>1, <1>2, <2>0 DEF Flattening
  <2>3. 1..(m + 1) = (1..m) \cup {m + 1}
    OBVIOUS
  <2>4. UNION {ToSet(seqs[k]) : k \in 1..(m + 1)} = (UNION {ToSet(seqs[k]) : k \in 1..m}) \cup ToSet(seqs[m + 1])
    BY <2>3
  <2>5. ToSet(f[m] \o seqs[m + 1]) = ToSet(f[m]) \cup ToSet(seqs[m + 1])
    BY <2>1, SetOfConcat
  <2> QED
    BY <2>1, <2>2, <2>4, <2>5
<1>5. n \in E
  <2> HIDE DEF E
  <2> QED
    BY <1>1, <1>3, <1>4, NaturalInduction
<1>6. f[n] \in Seq(T)
  BY <1>1, <1>2 DEF Flattening
<1> QED
  BY <1>1, <1>2, <1>5, <1>6

(* A sequence of anything.                                                 *)
IsList(s) == s \in Seq(ToSet(s))

(* A sequence is a list of its elements.                                   *)
LEMMA ListOfSequence ==
  ASSUME NEW T, NEW s \in Seq(T)
  PROVE  IsList(s) /\ ToSet(s) \subseteq T
<1>1. DOMAIN s = 1..Len(s) /\ Len(s) \in Nat /\ s = [j \in 1..Len(s) |-> s[j]] /\ \A j \in 1..Len(s) : s[j] \in T
  OBVIOUS
<1>2. IsList(s)
  BY <1>1, FunctionIsSequence DEF IsList
<1> QED
  BY <1>1, <1>2 DEF ToSet

(* Two lists are a list of the elements of both.                           *)
LEMMA ListOfConcat ==
  ASSUME NEW s, IsList(s), NEW t, IsList(t)
  PROVE  IsList(s \o t) /\ ToSet(s \o t) = ToSet(s) \cup ToSet(t)
<1> DEFINE T == ToSet(s) \cup ToSet(t)
<1>1. s \in Seq(T) /\ t \in Seq(T)
  BY SeqMonotonic DEF IsList
<1>2. s \o t \in Seq(T)
  <2> HIDE DEF T
  <2> QED
    BY <1>1
<1> HIDE DEF T
<1>3. ToSet(s \o t) = ToSet(s) \cup ToSet(t)
  BY <1>1, SetOfConcat
<1> QED
  BY <1>2, <1>3, ListOfSequence

(* A list with one element more is a list.                                 *)
LEMMA ListOfAppend ==
  ASSUME NEW s, IsList(s), NEW x
  PROVE  IsList(Append(s, x)) /\ ToSet(Append(s, x)) = ToSet(s) \cup {x}
<1> DEFINE T == ToSet(s) \cup {x}
<1>1. s \in Seq(T) /\ x \in T
  BY SeqMonotonic DEF IsList
<1> HIDE DEF T
<1>2. Append(s, x) \in Seq(T) /\ ToSet(Append(s, x)) = ToSet(s) \cup {x}
  BY <1>1, SetOfAppend
<1> QED
  BY <1>2, ListOfSequence

(* Tuples are lists of what they show.                                     *)
LEMMA ShortLists ==
  /\ IsList(<< >>) /\ ToSet(<< >>) = {}
  /\ \A a : IsList(<<a>>) /\ ToSet(<<a>>) = {a}
  /\ \A a, b : IsList(<<a, b>>) /\ ToSet(<<a, b>>) = {a, b}
  /\ \A a, b, c : IsList(<<a, b, c>>) /\ ToSet(<<a, b, c>>) = {a, b, c}
  /\ \A a, b, c, d : IsList(<<a, b, c, d>>) /\ ToSet(<<a, b, c, d>>) = {a, b, c, d}
<1>1. IsList(<< >>) /\ ToSet(<< >>) = {}
  BY DEF IsList, ToSet
<1>2. ASSUME NEW a PROVE IsList(<<a>>) /\ ToSet(<<a>>) = {a}
  <2>1. ToSet(<<a>>) = {a}
    BY DEF ToSet
  <2> QED
    BY <2>1 DEF IsList
<1>3. ASSUME NEW a, NEW b PROVE IsList(<<a, b>>) /\ ToSet(<<a, b>>) = {a, b}
  <2>1. ToSet(<<a, b>>) = {a, b}
    BY DEF ToSet
  <2> QED
    BY <2>1 DEF IsList
<1>4. ASSUME NEW a, NEW b, NEW c PROVE IsList(<<a, b, c>>) /\ ToSet(<<a, b, c>>) = {a, b, c}
  <2>1. ToSet(<<a, b, c>>) = {a, b, c}
    BY DEF ToSet
  <2> QED
    BY <2>1 DEF IsList
<1>5. ASSUME NEW a, NEW b, NEW c, NEW d PROVE IsList(<<a, b, c, d>>) /\ ToSet(<<a, b, c, d>>) = {a, b, c, d}
  <2>1. ToSet(<<a, b, c, d>>) = {a, b, c, d}
    BY DEF ToSet
  <2> QED
    BY <2>1 DEF IsList
<1> QED
  BY <1>1, <1>2, <1>3, <1>4, <1>5

(* A topology whose nodes have lists of injects.                           *)
Tidy(ns) == IsTopology(ns) /\ \A j \in DOMAIN ns : IsList(ns[j].injects)

(* ms has the nodes of ns, with other injects.                             *)
SameBut(ns, ms) ==
  /\ DOMAIN ms = DOMAIN ns
  /\ \A j \in DOMAIN ns :
       /\ DOMAIN ms[j] = DOMAIN ns[j]
       /\ \A field \in DOMAIN ns[j] \ {"injects"} : ms[j][field] = ns[j][field]

(* ms is ns with injects in S for node k, and no other difference.         *)
Adds(ns, ms, k, S) ==
  /\ SameBut(ns, ms)
  /\ \A j \in DOMAIN ns : ToSet(ms[j].injects) = ToSet(ns[j].injects) \cup (IF j = k THEN S ELSE {})

(* Injects added one after the other are added together.                   *)
LEMMA AddsMore ==
  ASSUME NEW as, NEW bs, NEW cs, NEW k, NEW S, NEW T, Adds(as, bs, k, S), Adds(bs, cs, k, T)
  PROVE  Adds(as, cs, k, S \cup T)
BY DEF Adds, SameBut

(* A node is found where it was while names stay.                          *)
LEMMA SameNames ==
  ASSUME NEW ns, IsTopology(ns), NEW ms, IsTopology(ms), SameBut(ns, ms), NEW hostname
  PROVE  NodeIndex(ms, hostname) = NodeIndex(ns, hostname)
<1>1. DOMAIN ns = 1..Len(ns) /\ DOMAIN ms = 1..Len(ms) /\ Len(ns) \in Nat /\ Len(ms) \in Nat /\ Len(ms) = Len(ns)
  BY DEF IsTopology, SameBut
<1>2. \A j \in DOMAIN ns : ms[j].hostname = ns[j].hostname
  BY DEF IsTopology, IsNode, SameBut
<1> DEFINE I(xs) == {j \in 1..Len(xs) : xs[j].hostname = hostname}
<1>3. I(ms) = I(ns)
  BY <1>1, <1>2
<1>4. /\ NodeIndex(ms, hostname) = (IF I(ms) # {} THEN Min(I(ms)) ELSE 0)
      /\ NodeIndex(ns, hostname) = (IF I(ns) # {} THEN Min(I(ns)) ELSE 0)
  BY DEF NodeIndex, SelectInSeq
<1> HIDE DEF I
<1> QED
  BY <1>3, <1>4

(* What adding an inject is.                                               *)
LEMMA AddInjectIs ==
  ASSUME NEW ns, Tidy(ns), NEW hostname, InTopology(ns, hostname), NEW inject, NEW ms, ms = AddInject(ns, hostname, inject)
  PROVE  /\ Tidy(ms) /\ Adds(ns, ms, NodeIndex(ns, hostname), {inject})
         /\ inject \in ToSet(ExtractNode(ns, hostname).injects) => ms = ns
<1> DEFINE k == NodeIndex(ns, hostname)
           old == ns[k].injects
           new == IF Contains(old, inject) THEN old ELSE Append(old, inject)
<1>1. k \in DOMAIN ns
  BY NodeIsFound DEF Tidy, InTopology
<1>2. IsTopology(ms)
  BY AddInjectKeeps DEF Tidy
<1>3. IsList(old)
  BY <1>1 DEF Tidy
<1>4. Contains(old, inject) <=> inject \in ToSet(old)
  BY <1>3 DEF Contains, IsList, ToSet
<1>5. IsList(new) /\ ToSet(new) = ToSet(old) \cup {inject}
  <2>1. CASE inject \in ToSet(old)
    BY <1>3, <1>4, <2>1
  <2>2. CASE inject \notin ToSet(old)
    BY <1>3, <1>4, <2>2, ListOfAppend
  <2> QED
    BY <2>1, <2>2
<1>6. inject \in ToSet(old) => new = old
  BY <1>4
<1>7. ms = [ns EXCEPT ![k]["injects"] = new]
  BY DEF AddInject
<1>8. ns = [j \in DOMAIN ns |-> ns[j]] /\ \A j \in DOMAIN ns : ns[j] = [field \in DOMAIN ns[j] |-> ns[j][field]] /\ "injects" \in DOMAIN ns[j]
  BY DEF Tidy, IsTopology, IsNode
<1> HIDE DEF new, old, k
<1>9. DOMAIN ms = DOMAIN ns /\ ms = [j \in DOMAIN ns |-> ms[j]] /\ \A j \in DOMAIN ns : ms[j] = IF j = k THEN [ns[j] EXCEPT !["injects"] = new] ELSE ns[j]
  BY <1>7, <1>8
<1>10. ASSUME NEW j \in DOMAIN ns
       PROVE  /\ DOMAIN ms[j] = DOMAIN ns[j] /\ \A field \in DOMAIN ns[j] \ {"injects"} : ms[j][field] = ns[j][field]
              /\ ms[j].injects = IF j = k THEN new ELSE ns[j].injects
  BY <1>8, <1>9
<1>11. Adds(ns, ms, k, {inject})
  BY <1>5, <1>9, <1>10 DEF Adds, SameBut, old
<1>12. Tidy(ms)
  BY <1>2, <1>5, <1>9, <1>10 DEF Tidy
<1>13. ASSUME inject \in ToSet(old)
       PROVE  ms = ns
  <2>1. ms[k] = [ns[k] EXCEPT !["injects"] = ns[k].injects]
    BY <1>1, <1>6, <1>9, <1>13 DEF old
  <2>2. ms[k] = ns[k]
    BY <1>1, <1>8, <2>1
  <2> QED
    BY <1>8, <1>9, <2>2
<1> QED
  BY <1>11, <1>12, <1>13 DEF k, old, ExtractNode

(* What adding several is.                                                 *)
LEMMA AddInjectsAre ==
  ASSUME NEW ns, Tidy(ns), NEW hostname, InTopology(ns, hostname), NEW injects, IsList(injects)
  PROVE  /\ Tidy(AddInjects(ns, hostname, injects))
         /\ Adds(ns, AddInjects(ns, hostname, injects), NodeIndex(ns, hostname), ToSet(injects))
<1> DEFINE n == Len(injects)
           i == NodeIndex(ns, hostname)
<1>1. n \in Nat /\ DOMAIN injects = 1..n /\ injects \in Seq(ToSet(injects))
  BY DEF IsList
<1>2. PICK f : /\ f[0] = ns
               /\ \A k \in 1..n : f[k] = AddInject(f[k - 1], hostname, injects[k])
               /\ AddInjects(ns, hostname, injects) = f[n]
  BY <1>1, AddingSteps
<1> DEFINE To(k) == {injects[j] : j \in 1..k}
           S == {k \in Nat : k <= n => Tidy(f[k]) /\ Adds(ns, f[k], i, To(k))}
<1>3. 0 \in S
  <2>1. To(0) = {}
    OBVIOUS
  <2>2. Adds(ns, ns, i, {})
    BY DEF Adds, SameBut
  <2> QED
    BY <1>2, <2>1, <2>2
<1>4. ASSUME NEW k \in Nat, k \in S
      PROVE  k + 1 \in S
  <2> SUFFICES ASSUME k + 1 <= n
               PROVE  Tidy(f[k + 1]) /\ Adds(ns, f[k + 1], i, To(k + 1))
    OBVIOUS
  <2>1. f[k + 1] = AddInject(f[k], hostname, injects[k + 1])
    BY <1>1, <1>2
  <2>2. Tidy(f[k]) /\ Adds(ns, f[k], i, To(k))
    BY <1>1, <1>4
  <2> HIDE DEF i
  <2>3. NodeIndex(f[k], hostname) = i
    <3> HIDE DEF To
    <3> QED
      BY <2>2, SameNames DEF Tidy, Adds, i
  <2>4. Tidy(f[k + 1]) /\ Adds(f[k], f[k + 1], i, {injects[k + 1]})
    <3>1. InTopology(f[k], hostname)
      BY <2>3 DEF InTopology, i
    <3> QED
      BY <2>1, <2>2, <2>3, <3>1, AddInjectIs
  <2>5. To(k + 1) = To(k) \cup {injects[k + 1]}
    OBVIOUS
  <2> HIDE DEF To
  <2> QED
    BY <2>2, <2>4, <2>5, AddsMore
<1>5. n \in S
  <2> HIDE DEF S
  <2> QED
    BY <1>1, <1>3, <1>4, NaturalInduction
<1>6. To(n) = ToSet(injects)
  BY <1>1 DEF ToSet
<1> HIDE DEF To
<1> QED
  BY <1>1, <1>2, <1>5, <1>6

-----------------------------------------------------------------------------
(* ms has the machines of ns: hostnames and interfaces.                    *)
SameMachines(ns, ms) ==
  /\ IsTopology(ms) /\ DOMAIN ms = DOMAIN ns
  /\ \A j \in DOMAIN ns :
       /\ "ifaces" \in DOMAIN ms[j]
       /\ ms[j].hostname = ns[j].hostname /\ ms[j].ifaces = ns[j].ifaces

(* Their hosts are in the same places and have the same addresses.         *)
LEMMA SameAddresses ==
  ASSUME NEW ns, IsTopology(ns), NEW ms, SameMachines(ns, ms)
  PROVE  \A hostname : /\ NodeIndex(ms, hostname) = NodeIndex(ns, hostname)
                       /\ \A iface : ExtractNodeInterfaceIp(ms, hostname, iface) = ExtractNodeInterfaceIp(ns, hostname, iface)
<1> TAKE hostname
<1>1. /\ DOMAIN ms = 1..Len(ms) /\ DOMAIN ns = 1..Len(ns) /\ Len(ms) \in Nat /\ Len(ns) \in Nat
      /\ Len(ns) = Len(ms)
  BY DEF IsTopology, SameMachines
<1>2. \A j \in DOMAIN ms : ms[j].hostname = ns[j].hostname /\ ms[j].ifaces = ns[j].ifaces
  BY DEF SameMachines
<1> DEFINE I(xs) == {j \in 1..Len(xs) : xs[j].hostname = hostname}
<1>3. I(ms) = I(ns)
  BY <1>1, <1>2
<1>4. /\ NodeIndex(ms, hostname) = (IF I(ms) # {} THEN Min(I(ms)) ELSE 0)
      /\ NodeIndex(ns, hostname) = (IF I(ns) # {} THEN Min(I(ns)) ELSE 0)
  BY DEF NodeIndex, SelectInSeq
<1> HIDE DEF I
<1>5. NodeIndex(ms, hostname) = NodeIndex(ns, hostname)
  BY <1>3, <1>4
<1>6. \/ ~InTopology(ms, hostname) /\ ~InTopology(ns, hostname)
      \/ /\ InTopology(ms, hostname) /\ InTopology(ns, hostname)
         /\ ExtractNode(ms, hostname).ifaces = ExtractNode(ns, hostname).ifaces
  <2>1. NodeIndex(ms, hostname) = 0 \/ NodeIndex(ms, hostname) \in DOMAIN ms
    BY NodeIsFound DEF SameMachines
  <2> QED
    BY <1>1, <1>2, <1>5, <2>1 DEF InTopology, ExtractNode
<1>7. ASSUME NEW iface
      PROVE  ExtractNodeInterfaceIp(ms, hostname, iface) = ExtractNodeInterfaceIp(ns, hostname, iface)
  <2> DEFINE of(xs) == IF InTopology(xs, hostname) THEN ExtractNode(xs, hostname).ifaces ELSE << >>
             at(fs) == LET i == SelectInSeq(fs, LAMBDA f : iface = None \/ (f.name = iface /\ f.address # None))
                       IN  IF i = 0 THEN None ELSE fs[i].address
  <2>1. of(ms) = of(ns)
    BY <1>6
  <2>2. \A xs : ExtractNodeInterfaceIp(xs, hostname, iface) = at(of(xs))
    BY DEF ExtractNodeInterfaceIp
  <2> HIDE DEF of, at
  <2> QED
    BY <2>1, <2>2
<1> QED
  BY <1>5, <1>7

(* Annotations and injects change no machine.                              *)
LEMMA ChangeKeepsMachines ==
  ASSUME NEW base, NEW ns, SameMachines(base, ns), NEW hostname, NEW field \in {"federate", "injects"}, NEW value,
         NEW ms, ms = [ns EXCEPT ![NodeIndex(ns, hostname)][field] = value]
  PROVE  SameMachines(base, ms)
<1> DEFINE k == NodeIndex(ns, hostname)
<1>1. IsTopology(ns) /\ IsTopology(ms) /\ DOMAIN ms = DOMAIN ns
  BY ChangesOne DEF SameMachines, OnlyChanged
<1> HIDE DEF k
<1>2. \A j \in DOMAIN ns : ms[j] = IF j = k THEN [ns[j] EXCEPT ![field] = value] ELSE ns[j]
  BY <1>1 DEF IsTopology, k
<1>3. ASSUME NEW j \in DOMAIN ns
      PROVE  "ifaces" \in DOMAIN ms[j] /\ ms[j].hostname = ns[j].hostname /\ ms[j].ifaces = ns[j].ifaces
  <2>1. ns[j] = [f \in DOMAIN ns[j] |-> ns[j][f]] /\ {"hostname", "ifaces"} \subseteq DOMAIN ns[j]
    BY <1>1 DEF IsTopology, IsNode, SameMachines
  <2> QED
    BY <1>2, <2>1
<1> QED
  BY <1>1, <1>3 DEF SameMachines

LEMMA AnnotationKeepsMachines ==
  ASSUME NEW base, NEW ns, SameMachines(base, ns), NEW hostname, NEW value
  PROVE  SameMachines(base, AddAnnotation(ns, hostname, value))
<1>1. AddAnnotation(ns, hostname, value) = [ns EXCEPT ![NodeIndex(ns, hostname)]["federate"] = value]
  BY DEF AddAnnotation
<1> QED
  BY <1>1, ChangeKeepsMachines

LEMMA InjectKeepsMachines ==
  ASSUME NEW base, NEW ns, SameMachines(base, ns), NEW hostname, NEW inject
  PROVE  SameMachines(base, AddInject(ns, hostname, inject))
<1> DEFINE old == ns[NodeIndex(ns, hostname)].injects
           new == IF Contains(old, inject) THEN old ELSE Append(old, inject)
<1>1. AddInject(ns, hostname, inject) = [ns EXCEPT ![NodeIndex(ns, hostname)]["injects"] = new]
  BY DEF AddInject
<1> HIDE DEF new
<1> QED
  BY <1>1, ChangeKeepsMachines

LEMMA InjectsKeepMachines ==
  ASSUME NEW base, NEW ns, SameMachines(base, ns), NEW hostname, NEW injects, IsList(injects)
  PROVE  SameMachines(base, AddInjects(ns, hostname, injects))
<1> DEFINE n == Len(injects)
<1>1. n \in Nat /\ injects \in Seq(ToSet(injects))
  BY DEF IsList
<1>2. PICK f : /\ f[0] = ns
               /\ \A k \in 1..n : f[k] = AddInject(f[k - 1], hostname, injects[k])
               /\ AddInjects(ns, hostname, injects) = f[n]
  BY <1>1, AddingSteps
<1> DEFINE S == {k \in Nat : k <= n => SameMachines(base, f[k])}
<1>3. 0 \in S
  BY <1>2
<1>4. ASSUME NEW k \in Nat, k \in S
      PROVE  k + 1 \in S
  <2> SUFFICES ASSUME k + 1 <= n
               PROVE  SameMachines(base, f[k + 1])
    OBVIOUS
  <2>1. f[k + 1] = AddInject(f[k], hostname, injects[k + 1])
    BY <1>1, <1>2
  <2>2. SameMachines(base, f[k])
    BY <1>1, <1>4
  <2> QED
    BY <2>1, <2>2, InjectKeepsMachines
<1>5. n \in S
  <2> HIDE DEF S
  <2> QED
    BY <1>1, <1>3, <1>4, NaturalInduction
<1> QED
  BY <1>1, <1>2, <1>5

-----------------------------------------------------------------------------
(* The host has the injects; one that is not there has nowhere to.         *)
Carries(ns, hostname, injects) ==
  InTopology(ns, hostname) => ToSet(injects) \subseteq ToSet(ExtractNode(ns, hostname).injects)

(* Injects a host has are not added again.                                 *)
LEMMA InjectsAgain ==
  ASSUME NEW ns, Tidy(ns), NEW hostname, NEW injects, IsList(injects), Carries(ns, hostname, injects)
  PROVE  AddInjects(ns, hostname, injects) = ns
<1> DEFINE n == Len(injects)
<1>1. n \in Nat /\ DOMAIN injects = 1..n /\ injects \in Seq(ToSet(injects))
  BY DEF IsList
<1>2. PICK f : /\ f[0] = ns
               /\ \A k \in 1..n : f[k] = AddInject(f[k - 1], hostname, injects[k])
               /\ AddInjects(ns, hostname, injects) = f[n]
  BY <1>1, AddingSteps
<1>3. ASSUME NEW inject \in ToSet(injects)
      PROVE  AddInject(ns, hostname, inject) = ns
  <2>1. CASE InTopology(ns, hostname)
    <3>1. PICK ms : ms = AddInject(ns, hostname, inject)
      OBVIOUS
    <3>2. inject \in ToSet(ExtractNode(ns, hostname).injects)
      BY <2>1 DEF Carries
    <3>3. ms = ns
      BY <2>1, <3>1, <3>2, AddInjectIs
    <3> QED
      BY <3>1, <3>3
  <2>2. CASE ~InTopology(ns, hostname)
    <3> DEFINE old == ns[NodeIndex(ns, hostname)].injects
               new == IF Contains(old, inject) THEN old ELSE Append(old, inject)
    <3>1. AddInject(ns, hostname, inject) = [ns EXCEPT ![NodeIndex(ns, hostname)]["injects"] = new]
      BY DEF AddInject
    <3>2. NodeIndex(ns, hostname) \notin DOMAIN ns /\ ns = [j \in DOMAIN ns |-> ns[j]]
      BY <2>2 DEF Tidy, IsTopology, InTopology
    <3> HIDE DEF new
    <3> QED
      BY <3>1, <3>2
  <2> QED
    BY <2>1, <2>2
<1> DEFINE S == {k \in Nat : k <= n => f[k] = ns}
<1>4. 0 \in S
  BY <1>2
<1>5. ASSUME NEW k \in Nat, k \in S
      PROVE  k + 1 \in S
  <2> SUFFICES ASSUME k + 1 <= n
               PROVE  f[k + 1] = ns
    OBVIOUS
  <2>1. f[k + 1] = AddInject(f[k], hostname, injects[k + 1]) /\ f[k] = ns /\ k + 1 \in DOMAIN injects
    BY <1>1, <1>2, <1>5
  <2>2. injects[k + 1] \in ToSet(injects)
    BY <2>1 DEF ToSet
  <2> QED
    BY <1>3, <2>1, <2>2
<1>6. n \in S
  <2> HIDE DEF S
  <2> QED
    BY <1>1, <1>4, <1>5, NaturalInduction
<1> QED
  BY <1>1, <1>2, <1>6

(* Those added are carried, and so are those that were.                    *)
LEMMA InjectsCarried ==
  ASSUME NEW ns, Tidy(ns), NEW hostname, NEW injects, IsList(injects), NEW ms, ms = AddInjects(ns, hostname, injects)
  PROVE  /\ Tidy(ms) /\ SameBut(ns, ms) /\ Carries(ms, hostname, injects)
         /\ \A x : NodeIndex(ms, x) = NodeIndex(ns, x)
         /\ \A j \in DOMAIN ns : ToSet(ns[j].injects) \subseteq ToSet(ms[j].injects)
<1>1. CASE InTopology(ns, hostname)
  <2>1. Tidy(ms) /\ Adds(ns, ms, NodeIndex(ns, hostname), ToSet(injects))
    BY <1>1, AddInjectsAre
  <2>2. \A x : NodeIndex(ms, x) = NodeIndex(ns, x)
    BY <2>1, SameNames DEF Tidy, Adds
  <2>3. NodeIndex(ns, hostname) \in DOMAIN ns
    BY <1>1, NodeIsFound DEF Tidy, InTopology
  <2> QED
    BY <2>1, <2>2, <2>3 DEF Adds, Carries, ExtractNode
<1>2. CASE ~InTopology(ns, hostname)
  <2>1. ms = ns
    BY <1>2, InjectsAgain DEF Carries
  <2> QED
    BY <1>2, <2>1 DEF Carries, SameBut
<1> QED
  BY <1>1, <1>2

(* An annotation changes one node, and nothing when it is there already.   *)
LEMMA AnnotationIs ==
  ASSUME NEW ns, Tidy(ns), NEW hostname, NEW value, NEW ms, ms = AddAnnotation(ns, hostname, value)
  PROVE  /\ Tidy(ms) /\ DOMAIN ms = DOMAIN ns
         /\ \A j \in DOMAIN ns :
              /\ DOMAIN ms[j] = DOMAIN ns[j]
              /\ \A field \in DOMAIN ns[j] \ {"federate"} : ms[j][field] = ns[j][field]
              /\ ms[j].federate = IF j = NodeIndex(ns, hostname) THEN value ELSE ns[j].federate
         /\ \A x : NodeIndex(ms, x) = NodeIndex(ns, x)
<1> DEFINE k == NodeIndex(ns, hostname)
<1>1. ms = [ns EXCEPT ![k]["federate"] = value]
  BY DEF AddAnnotation
<1>2. IsTopology(ms) /\ DOMAIN ms = DOMAIN ns
  BY AddAnnotationKeeps DEF Tidy
<1>3. IsTopology(ns) /\ \A j \in DOMAIN ns : ns[j] = [field \in DOMAIN ns[j] |-> ns[j][field]] /\ {"hostname", "federate", "injects"} \subseteq DOMAIN ns[j]
  BY DEF Tidy, IsTopology, IsNode
<1> HIDE DEF k
<1>4. \A j \in DOMAIN ns : ms[j] = IF j = k THEN [ns[j] EXCEPT !["federate"] = value] ELSE ns[j]
  BY <1>1, <1>3 DEF IsTopology
<1>5. ASSUME NEW j \in DOMAIN ns
      PROVE  /\ DOMAIN ms[j] = DOMAIN ns[j] /\ \A field \in DOMAIN ns[j] \ {"federate"} : ms[j][field] = ns[j][field]
             /\ ms[j].federate = IF j = k THEN value ELSE ns[j].federate
  BY <1>3, <1>4
<1>6. \A j \in DOMAIN ns : ms[j].hostname = ns[j].hostname /\ ms[j].injects = ns[j].injects
  BY <1>3, <1>5
<1>7. Tidy(ms)
  BY <1>2, <1>6 DEF Tidy
<1>8. ASSUME NEW x
      PROVE  NodeIndex(ms, x) = NodeIndex(ns, x)
  <2>1. DOMAIN ns = 1..Len(ns) /\ DOMAIN ms = 1..Len(ms) /\ Len(ns) \in Nat /\ Len(ms) \in Nat /\ Len(ms) = Len(ns)
    BY <1>2, <1>3 DEF IsTopology
  <2> DEFINE I(xs) == {j \in 1..Len(xs) : xs[j].hostname = x}
  <2>2. I(ms) = I(ns)
    BY <1>6, <2>1
  <2>3. /\ NodeIndex(ms, x) = (IF I(ms) # {} THEN Min(I(ms)) ELSE 0)
        /\ NodeIndex(ns, x) = (IF I(ns) # {} THEN Min(I(ns)) ELSE 0)
    BY DEF NodeIndex, SelectInSeq
  <2> HIDE DEF I
  <2> QED
    BY <2>2, <2>3
<1> QED
  BY <1>2, <1>5, <1>7, <1>8 DEF k

(* Topologies whose nodes have the same fields are the same.               *)
LEMMA SameTopology ==
  ASSUME NEW ns, IsTopology(ns), NEW ms, IsTopology(ms), DOMAIN ms = DOMAIN ns,
         \A j \in DOMAIN ns : DOMAIN ms[j] = DOMAIN ns[j] /\ \A field \in DOMAIN ns[j] : ms[j][field] = ns[j][field]
  PROVE  ms = ns
<1>1. ns = [j \in DOMAIN ns |-> ns[j]] /\ ms = [j \in DOMAIN ns |-> ms[j]]
  BY DEF IsTopology
<1>2. ASSUME NEW j \in DOMAIN ns
      PROVE  ms[j] = ns[j]
  <2>1. ms[j] = [field \in DOMAIN ns[j] |-> ms[j][field]] /\ ns[j] = [field \in DOMAIN ns[j] |-> ns[j][field]]
    BY DEF IsTopology, IsNode
  <2> QED
    BY <2>1
<1> QED
  BY <1>1, <1>2

(* Nodes have interfaces and lists of injects.                             *)
Sound(ns) == Tidy(ns) /\ \A j \in DOMAIN ns : "ifaces" \in DOMAIN ns[j]

(* ms has the machines of ns and perhaps more, with their injects; only    *)
(* nodes in K are annotated anew.                                          *)
Grows(ns, ms, K) ==
  /\ Sound(ns) /\ Sound(ms) /\ DOMAIN ns \subseteq DOMAIN ms
  /\ \A j \in DOMAIN ns :
       /\ ms[j].hostname = ns[j].hostname /\ ms[j].ifaces = ns[j].ifaces
       /\ ToSet(ns[j].injects) \subseteq ToSet(ms[j].injects)
       /\ j \notin K => ms[j].federate = ns[j].federate

(* Growing twice is growing.                                               *)
LEMMA GrowsMore ==
  ASSUME NEW as, NEW bs, NEW cs, NEW K, NEW L, NEW M, Grows(as, bs, K), Grows(bs, cs, L), K \cup L \subseteq M
  PROVE  Grows(as, cs, M)
BY DEF Grows

(* A host keeps its place, its addresses and its injects.                  *)
LEMMA GrowsKeeps ==
  ASSUME NEW ns, NEW ms, NEW K, Grows(ns, ms, K), NEW hostname, InTopology(ns, hostname)
  PROVE  /\ InTopology(ms, hostname) /\ NodeIndex(ms, hostname) = NodeIndex(ns, hostname)
         /\ NodeIndex(ns, hostname) \in DOMAIN ns /\ ns[NodeIndex(ns, hostname)].hostname = hostname
         /\ \A iface : ExtractNodeInterfaceIp(ms, hostname, iface) = ExtractNodeInterfaceIp(ns, hostname, iface)
         /\ \A injects : Carries(ns, hostname, injects) => Carries(ms, hostname, injects)
         /\ NodeIndex(ns, hostname) \notin K => ExtractNode(ms, hostname).federate = ExtractNode(ns, hostname).federate
<1> DEFINE k == NodeIndex(ns, hostname)
<1>1. k \in DOMAIN ns /\ ns[k].hostname = hostname
  BY NodeIsFound DEF Grows, Sound, Tidy, InTopology
<1>2. DOMAIN ns = 1..Len(ns) /\ DOMAIN ms = 1..Len(ms) /\ Len(ns) \in Nat /\ Len(ms) \in Nat
  BY DEF Grows, Sound, Tidy, IsTopology
<1>3. NodeIndex(ms, hostname) = k
  <2> DEFINE I(xs) == {j \in 1..Len(xs) : xs[j].hostname = hostname}
  <2>1. /\ NodeIndex(ms, hostname) = (IF I(ms) # {} THEN Min(I(ms)) ELSE 0)
        /\ NodeIndex(ns, hostname) = (IF I(ns) # {} THEN Min(I(ns)) ELSE 0)
    BY DEF NodeIndex, SelectInSeq
  <2>2. k \in I(ns) /\ k \in I(ms)
    BY <1>1, <1>2 DEF Grows
  <2>3. I(ms) \subseteq Nat /\ I(ns) \subseteq Nat
    BY <1>2
  <2>4. \A j \in I(ms) : j < k => j \in I(ns)
    BY <1>1, <1>2 DEF Grows
  <2>5. I(ns) # {} /\ I(ms) # {}
    BY <2>2
  <2> HIDE DEF I, k
  <2>6. k = Min(I(ns)) /\ \A j \in I(ns) : k <= j
    BY <2>1, <2>3, <2>5, LeastNumber DEF k
  <2>7. Min(I(ms)) \in I(ms) /\ \A j \in I(ms) : Min(I(ms)) <= j
    BY <2>3, <2>5, LeastNumber
  <2>8. PICK m : m = Min(I(ms))
    OBVIOUS
  <2>9. m \in Nat /\ k \in Nat /\ m <= k /\ ~(m < k)
    BY <2>2, <2>3, <2>4, <2>6, <2>7, <2>8
  <2> QED
    BY <2>1, <2>5, <2>8, <2>9
<1>4. InTopology(ms, hostname) /\ ExtractNode(ms, hostname) = ms[k] /\ ExtractNode(ns, hostname) = ns[k]
  BY <1>1, <1>2, <1>3 DEF InTopology, ExtractNode
<1> HIDE DEF k
<1>5. /\ ms[k].ifaces = ns[k].ifaces /\ ToSet(ns[k].injects) \subseteq ToSet(ms[k].injects)
      /\ k \notin K => ms[k].federate = ns[k].federate
  BY <1>1 DEF Grows
<1>6. ASSUME NEW iface
      PROVE  ExtractNodeInterfaceIp(ms, hostname, iface) = ExtractNodeInterfaceIp(ns, hostname, iface)
  <2> DEFINE of(xs) == IF InTopology(xs, hostname) THEN ExtractNode(xs, hostname).ifaces ELSE << >>
             at(fs) == LET i == SelectInSeq(fs, LAMBDA f : iface = None \/ (f.name = iface /\ f.address # None))
                       IN  IF i = 0 THEN None ELSE fs[i].address
  <2>1. of(ms) = of(ns)
    BY <1>4, <1>5
  <2>2. \A xs : ExtractNodeInterfaceIp(xs, hostname, iface) = at(of(xs))
    BY DEF ExtractNodeInterfaceIp
  <2> HIDE DEF of, at
  <2> QED
    BY <2>1, <2>2
<1>7. \A injects : Carries(ns, hostname, injects) => Carries(ms, hostname, injects)
  BY <1>4, <1>5 DEF Carries
<1> QED
  BY <1>1, <1>3, <1>4, <1>5, <1>6, <1>7 DEF k

(* Injects, an annotation and a node make a topology grow.                 *)
LEMMA InjectsGrow ==
  ASSUME NEW ns, Sound(ns), NEW hostname, NEW injects, IsList(injects), NEW ms, ms = AddInjects(ns, hostname, injects)
  PROVE  Grows(ns, ms, {})
<1>1. /\ Tidy(ns) /\ Tidy(ms) /\ SameBut(ns, ms)
      /\ \A j \in DOMAIN ns : ToSet(ns[j].injects) \subseteq ToSet(ms[j].injects)
  BY InjectsCarried DEF Sound
<1>2. \A j \in DOMAIN ns : {"hostname", "federate", "ifaces"} \subseteq DOMAIN ns[j]
  BY DEF Sound, Tidy, IsTopology, IsNode
<1>3. DOMAIN ms = DOMAIN ns /\ \A j \in DOMAIN ns : /\ ms[j].hostname = ns[j].hostname /\ ms[j].ifaces = ns[j].ifaces
                                                     /\ ms[j].federate = ns[j].federate /\ "ifaces" \in DOMAIN ms[j]
  BY <1>1, <1>2 DEF SameBut
<1> QED
  BY <1>1, <1>3 DEF Grows, Sound

LEMMA AnnotationGrows ==
  ASSUME NEW ns, Sound(ns), NEW hostname, NEW value, NEW ms, ms = AddAnnotation(ns, hostname, value)
  PROVE  Grows(ns, ms, {NodeIndex(ns, hostname)})
<1>1. /\ Tidy(ns) /\ Tidy(ms) /\ DOMAIN ms = DOMAIN ns
      /\ \A j \in DOMAIN ns :
           /\ DOMAIN ms[j] = DOMAIN ns[j]
           /\ \A field \in DOMAIN ns[j] \ {"federate"} : ms[j][field] = ns[j][field]
           /\ ms[j].federate = IF j = NodeIndex(ns, hostname) THEN value ELSE ns[j].federate
  BY AnnotationIs DEF Sound
<1>2. \A j \in DOMAIN ns : {"hostname", "injects", "ifaces"} \subseteq DOMAIN ns[j]
  BY DEF Sound, Tidy, IsTopology, IsNode
<1>3. \A j \in DOMAIN ns : /\ ms[j].hostname = ns[j].hostname /\ ms[j].ifaces = ns[j].ifaces /\ ms[j].injects = ns[j].injects
                            /\ "ifaces" \in DOMAIN ms[j]
  BY <1>1, <1>2
<1> QED
  BY <1>1, <1>3 DEF Grows, Sound

LEMMA NodeGrows ==
  ASSUME NEW ns, Sound(ns), NEW node, IsNode(node), "ifaces" \in DOMAIN node, IsList(node.injects), NEW ms, ms = Append(ns, node)
  PROVE  Grows(ns, ms, {}) /\ InTopology(ms, node.hostname)
<1>1. ns \in Seq(ToSet(ns)) /\ IsTopology(ms)
  BY AppendKeeps DEF Sound, Tidy, IsTopology
<1>2. /\ Len(ns) \in Nat /\ DOMAIN ns = 1..Len(ns) /\ DOMAIN ms = 1..(Len(ns) + 1)
      /\ \A j \in DOMAIN ns : ms[j] = ns[j]
      /\ ms[Len(ns) + 1] = node
  BY <1>1
<1>3. DOMAIN ns \subseteq DOMAIN ms /\ \A j \in DOMAIN ms : j \in DOMAIN ns \/ ms[j] = node
  BY <1>2
<1>4. Sound(ms)
  BY <1>1, <1>2, <1>3 DEF Sound, Tidy
<1>5. InTopology(ms, node.hostname)
  <2>1. Len(ns) + 1 \in DOMAIN ms /\ ms[Len(ns) + 1].hostname = node.hostname
    BY <1>2
  <2> QED
    BY <1>1, <2>1, NodeIsFound, 0 \notin DOMAIN ms DEF InTopology
<1> QED
  BY <1>2, <1>3, <1>4, <1>5 DEF Grows

(* Who has an address is in the topology.                                  *)
LEMMA AddressIsOfNode ==
  ASSUME NEW ns, NEW hostname, NEW iface, ExtractNodeInterfaceIp(ns, hostname, iface) # None
  PROVE  InTopology(ns, hostname)
<1> SUFFICES ASSUME ~InTopology(ns, hostname)
             PROVE  ExtractNodeInterfaceIp(ns, hostname, iface) = None
  OBVIOUS
<1>1. SelectInSeq(<< >>, LAMBDA f : iface = None \/ (f.name = iface /\ f.address # None)) = 0
  BY DEF SelectInSeq
<1> QED
  BY <1>1 DEF ExtractNodeInterfaceIp
=============================================================================
