--------------------------- MODULE ExperimentProofs ---------------------------
(***************************************************************************)
(* Proofs about Experiment, for any scenarios whose metadata are what      *)
(* ScenariosAssumption and PlacesAssumption say, any infrastructures and   *)
(* any numbers of starts and changes by the user.                          *)
(***************************************************************************)
EXTENDS Experiment, TopologyProofs

-----------------------------------------------------------------------------
(* Registers by protocol.                                                  *)
IsGroup(g) == g = [proto |-> g.proto, regs |-> g.regs] /\ IsList(g.regs)

IsGroups(groups) == IsList(groups) /\ \A k \in DOMAIN groups : IsGroup(groups[k])

RegsIn(groups) == UNION {ToSet(groups[k].regs) : k \in DOMAIN groups}

(* One list is the beginning of another.                                   *)
Begins(a, b) == Len(a) <= Len(b) /\ \A j \in 1..Len(a) : b[j] = a[j]

(* It still is when more is appended.                                      *)
LEMMA BeginsStill ==
  ASSUME NEW T, NEW s \in Seq(T), NEW t \in Seq(T), NEW a \in Seq(T), Begins(a, s)
  PROVE  Begins(a, s \o t)
<1>1. Len(s \o t) = Len(s) + Len(t) /\ Len(s) \in Nat /\ Len(t) \in Nat /\ Len(a) \in Nat
  OBVIOUS
<1>2. ASSUME NEW j \in 1..Len(a)
      PROVE  (s \o t)[j] = a[j]
  <2>1. j \in 1..Len(s) /\ s[j] = a[j]
    BY <1>1 DEF Begins
  <2> QED
    BY <2>1
<1> QED
  BY <1>1, <1>2 DEF Begins

(* The place of the first group of a protocol, 0 when there is none.       *)
GroupPlace(groups, proto) ==
  LET I == {j \in 1..Len(groups) : groups[j].proto = proto} IN IF I # {} THEN Min(I) ELSE 0

(* It is where the code looks.                                             *)
LEMMA GroupIsFound ==
  ASSUME NEW groups, IsList(groups), NEW proto, NEW k, k = GroupPlace(groups, proto)
  PROVE  \/ k = 0 /\ ~HasProto(groups, proto)
         \/ /\ k \in DOMAIN groups /\ groups[k].proto = proto
            /\ \A j \in DOMAIN groups : groups[j].proto = proto => k <= j
<1> DEFINE S == {j \in 1..Len(groups) : groups[j].proto = proto}
<1>1. DOMAIN groups = 1..Len(groups) /\ Len(groups) \in Nat
  BY DEF IsList
<1>2. (k = IF S = {} THEN 0 ELSE Min(S)) /\ S \in SUBSET Nat
  BY <1>1 DEF GroupPlace
<1>3. CASE S = {}
  BY <1>1, <1>2, <1>3 DEF HasProto
<1>4. CASE S # {}
  <2>1. Min(S) \in S /\ \A j \in S : Min(S) <= j
    <3> HIDE DEF S
    <3> QED
      BY <1>2, <1>4, LeastNumber
  <2> QED
    BY <1>1, <1>2, <1>4, <2>1
<1> QED
  BY <1>3, <1>4

(* What an upstream device adds comes to what there is of its protocol.    *)
LEMMA AddGroupIs ==
  ASSUME NEW groups, IsGroups(groups), NEW g, IsGroup(g), NEW sum, sum = AddGroup(groups, g)
  PROVE  IsGroups(sum) /\ RegsIn(sum) = RegsIn(groups) \cup ToSet(g.regs)
<1> DEFINE k == SelectInSeq(groups, LAMBDA h : h.proto = g.proto)
<1>1. DOMAIN groups = 1..Len(groups) /\ Len(groups) \in Nat /\ IsList(groups)
  BY DEF IsGroups, IsList
<1>2. k = 0 \/ k \in DOMAIN groups
  <2>1. k = GroupPlace(groups, g.proto)
    BY DEF SelectInSeq, GroupPlace
  <2> HIDE DEF k
  <2> QED
    BY <1>1, <2>1, GroupIsFound
<1>3. sum = IF k = 0 THEN Append(groups, g) ELSE [groups EXCEPT ![k] = Group(g.proto, @.regs \o g.regs)]
  BY DEF AddGroup
<1> HIDE DEF k
<1>4. CASE k = 0
  <2>1. sum = Append(groups, g) /\ IsList(sum)
    BY <1>1, <1>3, <1>4, ListOfAppend
  <2>2. DOMAIN sum = 1..(Len(groups) + 1) /\ sum[Len(groups) + 1] = g /\ \A j \in 1..Len(groups) : sum[j] = groups[j]
    BY <1>1, <2>1 DEF IsList
  <2>3. DOMAIN sum = DOMAIN groups \cup {Len(groups) + 1}
    BY <1>1, <2>2
  <2>4. \A j \in DOMAIN sum : IsGroup(sum[j])
    BY <1>1, <2>2, <2>3 DEF IsGroups
  <2>5. RegsIn(sum) = RegsIn(groups) \cup ToSet(g.regs)
    BY <1>1, <2>2, <2>3 DEF RegsIn
  <2> QED
    BY <2>1, <2>4, <2>5 DEF IsGroups
<1>5. CASE k \in DOMAIN groups
  <2>1. k # 0
    BY <1>1, <1>5
  <2>2. IsGroup(groups[k])
    BY <1>5 DEF IsGroups
  <2>3. IsList(groups[k].regs \o g.regs) /\ ToSet(groups[k].regs \o g.regs) = ToSet(groups[k].regs) \cup ToSet(g.regs)
    BY <2>2, ListOfConcat DEF IsGroup
  <2> DEFINE new == [proto |-> g.proto, regs |-> groups[k].regs \o g.regs]
  <2>4. Group(g.proto, groups[k].regs \o g.regs) = new
    BY DEF Group
  <2>5. sum = [groups EXCEPT ![k] = new]
    BY <1>3, <2>1, <2>4
  <2>6. IsGroup(new) /\ ToSet(new.regs) = ToSet(groups[k].regs) \cup ToSet(g.regs)
    BY <2>3 DEF IsGroup
  <2> HIDE DEF new
  <2>7. DOMAIN sum = DOMAIN groups /\ sum[k] = new /\ \A j \in DOMAIN groups : j # k => sum[j] = groups[j]
    BY <1>5, <2>5
  <2>8. IsList(sum)
    <3>1. sum = [j \in 1..Len(groups) |-> sum[j]]
      BY <1>1, <2>5
    <3> QED
      BY <1>1, <3>1, FunctionIsSequence DEF IsList
  <2>9. \A j \in DOMAIN sum : IsGroup(sum[j])
    BY <2>6, <2>7 DEF IsGroups
  <2>10. RegsIn(sum) = RegsIn(groups) \cup ToSet(g.regs)
    BY <1>5, <2>6, <2>7 DEF RegsIn
  <2> QED
    BY <2>8, <2>9, <2>10 DEF IsGroups
<1> QED
  BY <1>2, <1>4, <1>5

(* The function by which a FEP folds over the groups of those upstream of it.*)
Collecting(g, gs, n) ==
  g = [s \in SUBSET (1..n) |-> IF s = {} THEN << >> ELSE AddGroup(g[s \ {Max(s)}], gs[Max(s)])]

(* There is one for every length.                                          *)
LEMMA CollectingExists ==
  ASSUME NEW gs
  PROVE  \A n \in Nat : \E g : Collecting(g, gs, n)
<1> DEFINE S == {n \in Nat : \E g : Collecting(g, gs, n)}
<1>1. 0 \in S
  <2> DEFINE g == [s \in SUBSET (1..0) |-> << >>]
  <2>1. \A s \in SUBSET (1..0) : s = {}
    OBVIOUS
  <2>2. Collecting(g, gs, 0)
    BY <2>1 DEF Collecting
  <2> QED
    BY <2>2
<1>2. \A n \in Nat : n \in S => n + 1 \in S
  <2> SUFFICES ASSUME NEW n \in Nat, NEW f, Collecting(f, gs, n)
               PROVE  \E g : Collecting(g, gs, n + 1)
    OBVIOUS
  <2> DEFINE g == [s \in SUBSET (1..(n + 1)) |->
                    IF n + 1 \in s THEN AddGroup(f[s \ {n + 1}], gs[n + 1]) ELSE f[s]]
  <2>1. \A s \in SUBSET (1..(n + 1)) : s \ {n + 1} \in SUBSET (1..n) /\ (n + 1 \notin s => s \in SUBSET (1..n))
    OBVIOUS
  <2>2. ASSUME NEW s \in SUBSET (1..(n + 1))
        PROVE  g[s] = IF s = {} THEN << >> ELSE AddGroup(g[s \ {Max(s)}], gs[Max(s)])
    <3>1. CASE n + 1 \in s
      <4>1. Max(s) = n + 1 /\ s # {}
        BY <3>1, MaxIsLast
      <4>2. g[s \ {n + 1}] = f[s \ {n + 1}]
        OBVIOUS
      <4> QED
        BY <3>1, <4>1, <4>2
    <3>2. CASE n + 1 \notin s
      <4>1. s \in SUBSET (1..n) /\ g[s] = f[s]
        BY <2>1, <3>2
      <4>2. g[s \ {Max(s)}] = f[s \ {Max(s)}]
        BY <3>2
      <4> HIDE DEF g
      <4> QED
        BY <4>1, <4>2 DEF Collecting
    <3> QED
      BY <3>1, <3>2
  <2>3. g = [s \in SUBSET (1..(n + 1)) |-> g[s]]
    OBVIOUS
  <2>4. Collecting(g, gs, n + 1)
    <3> HIDE DEF g
    <3> QED
      BY <2>2, <2>3 DEF Collecting
  <2> QED
    BY <2>4
<1>3. Nat \subseteq S
  <2> HIDE DEF S
  <2> QED
    BY <1>1, <1>2, NaturalInduction
<1> QED
  BY <1>3

(* It adds one group after the other.                                      *)
LEMMA CollectingSteps ==
  ASSUME NEW T, NEW gs \in Seq(T)
  PROVE  \E f : /\ f[0] = << >>
                /\ \A k \in 1..Len(gs) : f[k] = AddGroup(f[k - 1], gs[k])
                /\ FoldLeft(AddGroup, << >>, gs) = f[Len(gs)]
<1> DEFINE n == Len(gs)
           g == CHOOSE g : Collecting(g, gs, n)
           f == [k \in 0..n |-> g[1..k]]
<1>1. DOMAIN gs = 1..n /\ n \in Nat
  OBVIOUS
<1>2. Collecting(g, gs, n)
  BY <1>1, CollectingExists, Zenon
<1>3. FoldLeft(AddGroup, << >>, gs) = g[1..n]
  BY <1>1 DEF FoldLeft, MapThenFoldSet, Collecting
<1> HIDE DEF g
<1>4. f[0] = << >>
  BY <1>1, <1>2 DEF Collecting
<1>5. ASSUME NEW k \in 1..n
      PROVE  f[k] = AddGroup(f[k - 1], gs[k])
  <2>1. k - 1 \in Nat /\ (k - 1) + 1 = k /\ k \in 1..k /\ 1..k \in SUBSET (1..n)
    BY <1>1
  <2>2. Max(1..k) = k
    BY <2>1, MaxIsLast
  <2>3. (1..k) \ {k} = 1..(k - 1)
    BY <2>1
  <2>4. g[1..k] = AddGroup(g[1..(k - 1)], gs[k])
    BY <1>2, <2>1, <2>2, <2>3 DEF Collecting
  <2> QED
    BY <1>1, <2>1, <2>4
<1>6. FoldLeft(AddGroup, << >>, gs) = f[n]
  BY <1>1, <1>3
<1> QED
  <2> HIDE DEF f
  <2> QED
    BY <1>4, <1>5, <1>6

(* What it collects is all there is upstream.                              *)
LEMMA CollectedIs ==
  ASSUME NEW gs, IsGroups(gs), NEW all, all = FoldLeft(AddGroup, << >>, gs)
  PROVE  IsGroups(all) /\ RegsIn(all) = RegsIn(gs)
<1> DEFINE n == Len(gs)
<1>1. n \in Nat /\ DOMAIN gs = 1..n /\ gs \in Seq(ToSet(gs))
  BY DEF IsGroups, IsList
<1>2. PICK f : /\ f[0] = << >>
               /\ \A k \in 1..n : f[k] = AddGroup(f[k - 1], gs[k])
               /\ all = f[n]
  <2> HIDE DEF n
  <2>1. \E f : /\ f[0] = << >>
               /\ \A k \in 1..Len(gs) : f[k] = AddGroup(f[k - 1], gs[k])
               /\ FoldLeft(AddGroup, << >>, gs) = f[Len(gs)]
    BY <1>1, CollectingSteps
  <2> QED
    BY <2>1 DEF n
<1> DEFINE E == {m \in Nat : m <= n => IsGroups(f[m]) /\ RegsIn(f[m]) = UNION {ToSet(gs[k].regs) : k \in 1..m}}
<1>3. 0 \in E
  <2>1. IsGroups(<< >>) /\ RegsIn(<< >>) = {}
    BY ShortLists DEF IsGroups, RegsIn
  <2> QED
    BY <1>2, <2>1
<1>4. ASSUME NEW m \in Nat, m \in E
      PROVE  m + 1 \in E
  <2> SUFFICES ASSUME m + 1 <= n
               PROVE  IsGroups(f[m + 1]) /\ RegsIn(f[m + 1]) = UNION {ToSet(gs[k].regs) : k \in 1..(m + 1)}
    OBVIOUS
  <2>1. m + 1 \in 1..n /\ (m + 1) - 1 = m /\ m <= n
    BY <1>1
  <2>2. f[m + 1] = AddGroup(f[m], gs[m + 1])
    BY <1>2, <2>1
  <2>3. IsGroups(f[m]) /\ RegsIn(f[m]) = UNION {ToSet(gs[k].regs) : k \in 1..m}
    BY <1>4, <2>1
  <2>4. IsGroup(gs[m + 1])
    BY <1>1, <2>1 DEF IsGroups
  <2>5. IsGroups(f[m + 1]) /\ RegsIn(f[m + 1]) = RegsIn(f[m]) \cup ToSet(gs[m + 1].regs)
    BY <2>2, <2>3, <2>4, AddGroupIs
  <2>6. 1..(m + 1) = (1..m) \cup {m + 1}
    OBVIOUS
  <2> QED
    BY <2>3, <2>5, <2>6
<1>5. n \in E
  <2> HIDE DEF E
  <2> QED
    BY <1>1, <1>3, <1>4, NaturalInduction
<1>6. IsGroups(f[n]) /\ RegsIn(f[n]) = UNION {ToSet(gs[k].regs) : k \in 1..n}
  BY <1>1, <1>5
<1>7. RegsIn(gs) = UNION {ToSet(gs[k].regs) : k \in 1..n}
  BY <1>1 DEF RegsIn
<1> HIDE DEF n, E
<1> QED
  BY <1>2, <1>6, <1>7

(* All registers, and that those of the first protocol come first.         *)
LEMMA AllRegsAre ==
  ASSUME NEW groups, IsGroups(groups), NEW all, all = AllRegs(groups)
  PROVE  /\ IsList(all) /\ ToSet(all) = RegsIn(groups)
         /\ groups # << >> => Begins(groups[1].regs, all)
<1> DEFINE n == Len(groups)
           T == RegsIn(groups)
           seqs == [k \in DOMAIN groups |-> groups[k].regs]
<1>1. n \in Nat /\ DOMAIN groups = 1..n /\ IsList(groups)
  BY DEF IsGroups, IsList
<1>2. ASSUME NEW k \in 1..n
      PROVE  groups[k].regs \in Seq(T)
  <2>1. IsList(groups[k].regs)
    BY <1>1, <1>2 DEF IsGroups, IsGroup
  <2>2. ToSet(groups[k].regs) \subseteq T
    BY <1>1, <1>2 DEF RegsIn
  <2> QED
    BY <2>1, <2>2 DEF IsList
<1>3. seqs \in Seq(Seq(T)) /\ Len(seqs) = n /\ DOMAIN seqs = 1..n /\ \A k \in 1..n : seqs[k] = groups[k].regs
  BY <1>1, <1>2
<1>4. all = FlattenSeq(seqs)
  BY DEF AllRegs
<1> HIDE DEF seqs, T
<1>5. all \in Seq(T) /\ ToSet(all) = UNION {ToSet(seqs[k]) : k \in DOMAIN seqs}
  BY <1>3, <1>4, FlattenIs
<1>6. ToSet(all) = RegsIn(groups)
  BY <1>1, <1>3, <1>5 DEF RegsIn
<1>7. PICK f : Flattening(f, T, seqs) /\ all = f[n]
  BY <1>3, <1>4, FlatteningSteps
<1>8. ASSUME groups # << >>
      PROVE  Begins(groups[1].regs, all)
  <2> DEFINE first == groups[1].regs
             E == {m \in Nat : m + 1 <= n => Begins(first, f[m + 1])}
  <2>1. n >= 1
    BY <1>1, <1>8 DEF IsList
  <2>2. first \in Seq(T)
    BY <1>2, <2>1, <1>1
  <2>3. 0 \in E
    <3>1. f[1] = f[0] \o seqs[1] /\ f[0] = << >> /\ seqs[1] = first
      <4>1. 1 \in 1..n /\ 1 - 1 = 0
        BY <1>1, <2>1
      <4> QED
        BY <1>3, <1>7, <4>1 DEF Flattening
    <3>2. f[1] = first
      BY <2>2, <3>1
    <3> QED
      BY <2>2, <3>2 DEF Begins
  <2>4. ASSUME NEW m \in Nat, m \in E
        PROVE  m + 1 \in E
    <3> HIDE DEF first
    <3> SUFFICES ASSUME (m + 1) + 1 <= n
                 PROVE  Begins(first, f[(m + 1) + 1])
      OBVIOUS
    <3> DEFINE p == m + 1
    <3>1. p \in 0..n /\ p + 1 \in 1..n /\ (p + 1) - 1 = p
      BY <1>1
    <3>2. f[p + 1] = f[p] \o seqs[p + 1]
      BY <1>3, <1>7, <3>1 DEF Flattening
    <3>3. f[p] \in Seq(T)
      BY <1>3, <1>7, <3>1 DEF Flattening
    <3>4. seqs[p + 1] \in Seq(T)
      BY <1>3, <1>2, <3>1
    <3>5. Begins(first, f[p])
      BY <2>4, <3>1
    <3> HIDE DEF p
    <3>6. Begins(first, f[p] \o seqs[p + 1])
      BY <2>2, <3>3, <3>4, <3>5, BeginsStill
    <3> QED
      BY <3>2, <3>6 DEF p
  <2>5. n - 1 \in E
    <3> HIDE DEF E
    <3>1. n - 1 \in Nat
      BY <1>1, <2>1
    <3> QED
      BY <2>3, <2>4, <3>1, NaturalInduction
  <2>6. (n - 1) + 1 = n
    BY <1>1
  <2> QED
    BY <1>7, <2>5, <2>6
<1> QED
  BY <1>5, <1>6, <1>8, ListOfSequence

-----------------------------------------------------------------------------
(* What is known of the devices that have been processed.                  *)
HandledServer(k) == step.loop # "servers" \/ k < step.i
HandledFep(k) == step.loop \in {"clients", "done"} \/ (step.loop = "feps" /\ k < step.i)
HandledClient(k) == step.loop = "done" \/ (step.loop = "clients" /\ k < step.i)

HasConfig(hostname, config) ==
  <<"ot-sim", hostname>> \in DOMAIN files /\ files[<<"ot-sim", hostname>>] = config

ClientConfig(c) == [sections |-> ClientSections(c.upstream), io |-> {}]

ServerIs(s) ==
  /\ s.hostname \in processed /\ registers[s.hostname] = Groups(s)
  /\ HasConfig(s.hostname, ServerConfig(s))

CollectedBy(f) == ToSet(f.upstream) \subseteq processed /\ registers[f.hostname] = UpstreamGroups(f)

FepIs(f) == f.hostname \in processed /\ HasConfig(f.hostname, FepConfig(f))

ClientIs(c) == c.hostname \in processed /\ ToSet(c.upstream) \subseteq processed /\ HasConfig(c.hostname, ClientConfig(c))

LoopInv == step = [loop |-> step.loop, i |-> step.i] /\ step.loop \in {"servers", "feps", "clients", "done"} /\ step.i \in Nat \ {0}

RegistersInv == \A h \in processed : h \in DOMAIN registers /\ IsGroups(registers[h])

ProcessedInv ==
  \A h \in processed :
    \/ \E k \in DOMAIN scenario.servers : HandledServer(k) /\ h = scenario.servers[k].hostname
    \/ step.loop # "servers" /\ h \in Names(scenario.feps)
    \/ \E k \in DOMAIN scenario.clients : HandledClient(k) /\ h = scenario.clients[k].hostname

KnownInv ==
  step.loop \in {"servers", "feps"} => DOMAIN registers \subseteq Names(scenario.servers) \cup Names(scenario.feps)

CallsInv ==
  /\ IsList(calls)
  /\ \A i \in DOMAIN calls : calls[i] \in Names(scenario.feps) \ processed
  /\ \A i, j \in DOMAIN calls : calls[i] = calls[j] => i = j
  /\ calls # << >> => InFeps

ServersInv == \A k \in DOMAIN scenario.servers : \A s \in {scenario.servers[k]} : HandledServer(k) => ServerIs(s)
CollectedInv == \A k \in DOMAIN scenario.feps : \A f \in {scenario.feps[k]} : f.hostname \in processed => CollectedBy(f)
FepsInv == \A k \in DOMAIN scenario.feps : \A f \in {scenario.feps[k]} : HandledFep(k) => FepIs(f)
ClientsInv == \A k \in DOMAIN scenario.clients : \A c \in {scenario.clients[k]} : HandledClient(k) => ClientIs(c)

DevicesInv == ServersInv /\ CollectedInv /\ FepsInv /\ ClientsInv

(* Strings that a prover should not look into.                             *)
IsOtSim == app = "ot-sim"

OtClean == registers = << >> /\ processed = {} /\ calls = << >>

(* The inductive invariant: what a device offers does not change any more  *)
(* when it has been processed, a device is processed at most once, and its *)
(* file was made from what those upstream of it offered then.              *)
OtInv ==
  /\ scenario \in Scenarios
  /\ ~IsOtSim => OtClean
  /\ IsOtSim => LoopInv /\ RegistersInv /\ ProcessedInv /\ KnownInv /\ CallsInv /\ DevicesInv

-----------------------------------------------------------------------------
(* What has been processed stays as it is.                                 *)
Stays ==
  /\ scenario' = scenario
  /\ \A h \in processed : h \in processed' /\ h \in DOMAIN registers' /\ registers'[h] = registers[h]

Keeps(hostname) ==
  \A config : HasConfig(hostname, config) => /\ <<"ot-sim", hostname>> \in DOMAIN files'
                                             /\ files'[<<"ot-sim", hostname>>] = config

(* So what was made from it would be made again.                           *)
LEMMA SectionsStay ==
  ASSUME Stays, NEW upstream, IsList(upstream), ToSet(upstream) \subseteq processed
  PROVE  ClientSections(upstream)' = ClientSections(upstream) /\ ToSet(upstream) \subseteq processed'
<1>1. \A k \in DOMAIN upstream : upstream[k] \in processed
  BY DEF ToSet, IsList
<1>2. \A k \in DOMAIN upstream : registers'[upstream[k]] = registers[upstream[k]]
  BY <1>1 DEF Stays
<1>3. \A k \in DOMAIN upstream : SectionsFor(upstream[k])' = SectionsFor(upstream[k])
  BY <1>2 DEF SectionsFor
<1>4. ClientSections(upstream)' = ClientSections(upstream)
  BY <1>3 DEF ClientSections
<1>5. ToSet(upstream) \subseteq processed'
  BY DEF Stays
<1> QED
  BY <1>4, <1>5

(* What a processed FEP has collected it would collect again.              *)
LEMMA CollectedStays ==
  ASSUME Stays, NEW f, IsList(f.upstream), CollectedBy(f), f.hostname \in processed
  PROVE  CollectedBy(f)'
<1>1. \A k \in DOMAIN f.upstream : f.upstream[k] \in processed
  BY DEF ToSet, IsList, CollectedBy
<1>2. \A k \in DOMAIN f.upstream : registers'[f.upstream[k]] = registers[f.upstream[k]]
  BY <1>1 DEF Stays
<1>3. [k \in DOMAIN f.upstream |-> registers[f.upstream[k]]]' = [k \in DOMAIN f.upstream |-> registers[f.upstream[k]]]
  BY <1>2
<1>4. UpstreamGroups(f)' = UpstreamGroups(f)
  BY <1>3 DEF UpstreamGroups
<1>5. ToSet(f.upstream) \subseteq processed' /\ registers'[f.hostname] = registers[f.hostname]
  BY DEF Stays, CollectedBy
<1> QED
  BY <1>4, <1>5 DEF CollectedBy

(* A server that was handled has what it had.                              *)
LEMMA ServerStays ==
  ASSUME Stays, NEW s, ServerIs(s), Keeps(s.hostname)
  PROVE  ServerIs(s)'
<1>1. ServerConfig(s)' = ServerConfig(s)
  BY DEF Stays, ServerConfig, IoMapping
<1>2. HasConfig(s.hostname, ServerConfig(s))'
  BY <1>1 DEF ServerIs, Keeps, HasConfig
<1> QED
  BY <1>2 DEF Stays, ServerIs

(* The config of a processed FEP would be made again.                      *)
LEMMA FepConfigStays ==
  ASSUME Stays, NEW f, IsList(f.upstream), CollectedBy(f), f.hostname \in processed
  PROVE  FepConfig(f)' = FepConfig(f)
<1>1. ClientSections(f.upstream)' = ClientSections(f.upstream)
  BY SectionsStay DEF CollectedBy
<1>2. registers'[f.hostname] = registers[f.hostname]
  BY DEF Stays
<1>3. ServerSections(f)' = ServerSections(f)
  BY <1>2 DEF ServerSections
<1> QED
  BY <1>1, <1>3 DEF FepConfig

(* A FEP that was handled has what it had.                                 *)
LEMMA FepStays ==
  ASSUME Stays, NEW f, IsList(f.upstream), CollectedBy(f), FepIs(f), Keeps(f.hostname)
  PROVE  FepIs(f)'
<1>1. FepConfig(f)' = FepConfig(f)
  BY FepConfigStays DEF FepIs
<1>2. HasConfig(f.hostname, FepConfig(f))'
  BY <1>1 DEF FepIs, Keeps, HasConfig
<1>3. f.hostname \in processed'
  BY DEF Stays, FepIs
<1> QED
  BY <1>2, <1>3 DEF FepIs

(* A client that was handled has what it had.                              *)
LEMMA ClientStays ==
  ASSUME Stays, NEW c, IsList(c.upstream), ClientIs(c), Keeps(c.hostname)
  PROVE  ClientIs(c)'
<1>1. ClientSections(c.upstream)' = ClientSections(c.upstream) /\ ToSet(c.upstream) \subseteq processed'
  BY SectionsStay DEF ClientIs
<1>2. ClientConfig(c)' = ClientConfig(c)
  BY <1>1 DEF ClientConfig
<1>3. HasConfig(c.hostname, ClientConfig(c))'
  BY <1>2 DEF ClientIs, Keeps, HasConfig
<1>4. c.hostname \in processed'
  BY DEF Stays, ClientIs
<1> QED
  BY <1>1, <1>3, <1>4 DEF ClientIs

-----------------------------------------------------------------------------
(* The metadata of a scenario.                                             *)
LEMMA ScenarioIs ==
  ASSUME scenario \in Scenarios
  PROVE  /\ IsTopology(scenario.topology)
         /\ IsList(scenario.servers) /\ IsList(scenario.feps) /\ IsList(scenario.clients)
         /\ Distinct(scenario.servers) /\ Distinct(scenario.feps) /\ Distinct(scenario.clients)
         /\ Names(scenario.servers) \cap Names(scenario.feps) = {}
         /\ Names(scenario.clients) \cap (Names(scenario.servers) \cup Names(scenario.feps)) = {}
         /\ \A k \in DOMAIN scenario.servers : IsDevice(scenario.servers[k], scenario.topology)
         /\ \A k \in DOMAIN scenario.feps : IsDevice(scenario.feps[k], scenario.topology)
         /\ \A k \in DOMAIN scenario.clients : IsDevice(scenario.clients[k], scenario.topology)
<1>1. IsScenario(scenario)
  BY ScenariosAssumption
<1>2. \A d \in ToSet(scenario.servers) \cup ToSet(scenario.feps) \cup ToSet(scenario.clients) : IsDevice(d, scenario.topology)
  BY <1>1 DEF IsScenario, DevicesOf
<1>3. \A s : \A k \in DOMAIN s : s[k] \in ToSet(s)
  BY DEF ToSet
<1>4. \A k \in DOMAIN scenario.servers : IsDevice(scenario.servers[k], scenario.topology)
  BY <1>2, <1>3
<1>5. \A k \in DOMAIN scenario.feps : IsDevice(scenario.feps[k], scenario.topology)
  BY <1>2, <1>3
<1>6. \A k \in DOMAIN scenario.clients : IsDevice(scenario.clients[k], scenario.topology)
  BY <1>2, <1>3
<1> QED
  BY <1>1, <1>4, <1>5, <1>6 DEF IsScenario, IsList

(* Whom a device connects to is a list.                                    *)
LEMMA DeviceIs ==
  ASSUME NEW d, NEW topology, IsDevice(d, topology)
  PROVE  /\ IsList(d.upstream) /\ IsList(d.injects) /\ InTopology(topology, d.hostname)
         /\ d.dnp3 # None => IsList(d.dnp3)
         /\ d.modbus # None => IsList(d.modbus)
         /\ d.downstream \subseteq Protocols
  BY DEF IsDevice, IsList

(* The registers of field devices whose types the infrastructure has.      *)
LEMMA RegistersAre ==
  ASSUME NEW devices, IsList(devices), NEW infra,
         \A k \in DOMAIN devices : devices[k].type \in DOMAIN Mapping(infra)
  PROVE  IsList(Registers(devices, Mapping(infra)))
<1> DEFINE mapping == Mapping(infra)
           regs(k) == VariablesOf(devices[k], mapping)
           seqs == [k \in DOMAIN devices |-> regs(k)]
           T == UNION {ToSet(regs(k)) : k \in DOMAIN devices}
           n == Len(devices)
<1>1. DOMAIN devices = 1..n /\ n \in Nat
  BY DEF IsList
<1>2. ASSUME NEW k \in DOMAIN devices
      PROVE  regs(k) \in Seq(T)
  <2>1. infra \in DOMAIN Infrastructures
    BY <1>2 DEF Mapping
  <2> DEFINE list == Infrastructures[infra][devices[k].type]
  <2>2. list \in Seq(ToSet(list)) /\ list = mapping[devices[k].type]
    BY <1>2, <2>1, InfrastructuresAssumption DEF Mapping
  <2> HIDE DEF list, mapping
  <2>3. DOMAIN list = 1..Len(list) /\ Len(list) \in Nat
    BY <2>2
  <2>4. regs(k) = [v \in 1..Len(list) |-> regs(k)[v]]
    BY <2>2, <2>3 DEF VariablesOf
  <2>5. regs(k) \in Seq(ToSet(regs(k)))
    <3> HIDE DEF vars
    <3> QED
      BY <2>3, <2>4, FunctionIsSequence
  <2>6. ToSet(regs(k)) \subseteq T
    <3> HIDE DEF vars
    <3> QED
      BY <1>2
  <2> HIDE DEF vars, T
  <2> QED
    BY <2>5, <2>6
<1> HIDE DEF vars, T
<1>3. seqs \in Seq(Seq(T))
  BY <1>1, <1>2
<1>4. Registers(devices, mapping) = FlattenSeq(seqs)
  BY DEF Registers, vars
<1> HIDE DEF seqs, mapping
<1>5. IsList(Registers(devices, mapping))
  BY <1>3, <1>4, FlattenIs, ListOfSequence
<1> QED
  BY <1>5 DEF mapping

(* What a server has registers for, each protocol once.                    *)
OncePerProtocol(groups) == \A j, k \in DOMAIN groups : groups[j].proto = groups[k].proto => j = k

(* The groups of a server, for each choice of what it serves.              *)
LEMMA ProtocolsOfServer ==
  ASSUME NEW s
  PROVE  \E g, h : /\ g = Group("dnp3", Registers(s.dnp3, RegisterMapping(s)))
                   /\ h = Group("modbus", Registers(s.modbus, RegisterMapping(s)))
                   /\ \/ Groups(s) = << >>
                      \/ s.dnp3 # None /\ Groups(s) = <<g>>
                      \/ s.modbus # None /\ Groups(s) = <<h>>
                      \/ s.dnp3 # None /\ s.modbus # None /\ Groups(s) = <<g, h>>
<1>1. PICK g : g = Group("dnp3", Registers(s.dnp3, RegisterMapping(s)))
  OBVIOUS
<1>2. PICK h : h = Group("modbus", Registers(s.modbus, RegisterMapping(s)))
  OBVIOUS
<1>3. Groups(s) = (IF s.dnp3 # None THEN <<g>> ELSE << >>) \o (IF s.modbus # None THEN <<h>> ELSE << >>)
  BY <1>1, <1>2 DEF Groups
<1>4. << >> \o << >> = << >> /\ <<g>> \o << >> = <<g>> /\ << >> \o <<h>> = <<h>>
  <2>1. << >> \o << >> = << >>
    OBVIOUS
  <2>2. <<g>> \o << >> = <<g>>
    OBVIOUS
  <2>3. << >> \o <<h>> = <<h>>
    OBVIOUS
  <2> QED
    BY <2>1, <2>2, <2>3
<1>5. <<g>> \o <<h>> = <<g, h>>
  <2> DEFINE all == <<g>> \o <<h>>
  <2>1. all \in Seq({g, h}) /\ Len(all) = 2 /\ all[1] = g /\ all[2] = h
    OBVIOUS
  <2> HIDE DEF all
  <2>2. all = <<g, h>>
    BY <2>1
  <2> QED
    BY <2>2 DEF all
<1>6. \/ Groups(s) = << >>
      \/ s.dnp3 # None /\ Groups(s) = <<g>>
      \/ s.modbus # None /\ Groups(s) = <<h>>
      \/ s.dnp3 # None /\ s.modbus # None /\ Groups(s) = <<g, h>>
  BY <1>3, <1>4, <1>5, Zenon
<1> QED
  BY <1>1, <1>2, <1>6

(* A server has one group for a protocol.                                  *)
LEMMA ServerProtocolsDiffer ==
  ASSUME NEW s
  PROVE  OncePerProtocol(Groups(s))
<1>1. PICK g, h : /\ g = Group("dnp3", Registers(s.dnp3, RegisterMapping(s)))
                  /\ h = Group("modbus", Registers(s.modbus, RegisterMapping(s)))
                  /\ \/ Groups(s) = << >> \/ Groups(s) = <<g>> \/ Groups(s) = <<h>> \/ Groups(s) = <<g, h>>
  BY ProtocolsOfServer
<1>2. g.proto = "dnp3" /\ h.proto = "modbus"
  BY <1>1 DEF Group
<1> QED
  BY <1>1, <1>2 DEF OncePerProtocol

(* The groups of a server are groups of registers.                         *)
LEMMA GroupsAre ==
  ASSUME NEW s, NEW topology, IsDevice(s, topology), ~ServerRaises(s)
  PROVE  IsGroups(Groups(s))
<1> DEFINE infra == IF s.infra # None THEN s.infra ELSE DefaultInfrastructure
           dnp3 == IF s.dnp3 # None THEN s.dnp3 ELSE << >>
           modbus == IF s.modbus # None THEN s.modbus ELSE << >>
<1>1. IsList(dnp3) /\ IsList(modbus)
  BY DeviceIs, ShortLists
<1>2. Served(s) = dnp3 \o modbus
  BY DEF Served
<1>3. \A k \in DOMAIN Served(s) : Served(s)[k].type \in DOMAIN Mapping(infra)
  BY DEF ServerRaises, RegisterMapping
<1>4. RegisterMapping(s) = Mapping(infra)
  BY DEF RegisterMapping
<1> HIDE DEF infra
<1>5. IsList(Served(s)) /\ ToSet(Served(s)) = ToSet(dnp3) \cup ToSet(modbus)
  <2> HIDE DEF dnp3, modbus
  <2> QED
    BY <1>1, <1>2, ListOfConcat
<1>6. \A d \in ToSet(Served(s)) : d.type \in DOMAIN Mapping(infra)
  BY <1>3 DEF ToSet
<1>7. \A t : \A k \in DOMAIN t : t[k] \in ToSet(t)
  BY DEF ToSet
<1>8. s.dnp3 # None => IsList(Registers(s.dnp3, Mapping(infra)))
  <2> SUFFICES ASSUME s.dnp3 # None PROVE IsList(Registers(s.dnp3, Mapping(infra)))
    OBVIOUS
  <2>1. dnp3 = s.dnp3
    OBVIOUS
  <2>2. \A k \in DOMAIN s.dnp3 : s.dnp3[k].type \in DOMAIN Mapping(infra)
    BY <1>5, <1>6, <1>7, <2>1
  <2> QED
    BY <1>1, <2>1, <2>2, RegistersAre
<1>9. s.modbus # None => IsList(Registers(s.modbus, Mapping(infra)))
  <2> SUFFICES ASSUME s.modbus # None PROVE IsList(Registers(s.modbus, Mapping(infra)))
    OBVIOUS
  <2>1. modbus = s.modbus
    OBVIOUS
  <2>2. \A k \in DOMAIN s.modbus : s.modbus[k].type \in DOMAIN Mapping(infra)
    BY <1>5, <1>6, <1>7, <2>1
  <2> QED
    BY <1>1, <2>1, <2>2, RegistersAre
<1>10. PICK g, h : /\ g = Group("dnp3", Registers(s.dnp3, Mapping(infra)))
                   /\ h = Group("modbus", Registers(s.modbus, Mapping(infra)))
                   /\ \/ Groups(s) = << >>
                      \/ s.dnp3 # None /\ Groups(s) = <<g>>
                      \/ s.modbus # None /\ Groups(s) = <<h>>
                      \/ s.dnp3 # None /\ s.modbus # None /\ Groups(s) = <<g, h>>
  BY <1>4, ProtocolsOfServer
<1>11. (s.dnp3 # None => IsGroup(g)) /\ (s.modbus # None => IsGroup(h))
  BY <1>8, <1>9, <1>10 DEF Group, IsGroup
<1>12. IsList(Groups(s))
  BY <1>10, ShortLists
<1>13. \A k \in DOMAIN Groups(s) : IsGroup(Groups(s)[k])
  BY <1>10, <1>11
<1> QED
  BY <1>12, <1>13 DEF IsGroups

-----------------------------------------------------------------------------
(* A file is written for one device; the others keep theirs.               *)
LEMMA WriteIs ==
  ASSUME NEW hostname, NEW config, Write(<<"ot-sim", hostname>>, config)
  PROVE  HasConfig(hostname, config)' /\ \A g : g \notin {hostname} => Keeps(g)
<1> DEFINE path == <<"ot-sim", hostname>>
<1>1. /\ DOMAIN files' = {path} \cup DOMAIN files
      /\ \A p \in DOMAIN files' : files'[p] = IF p = path THEN config ELSE files[p]
  BY DEF Write, Overlay, File
<1>2. \A g : <<"ot-sim", g>> = path => g = hostname
  OBVIOUS
<1>3. HasConfig(hostname, config)'
  BY <1>1 DEF HasConfig
<1> HIDE DEF path
<1>4. \A g : g # hostname => Keeps(g)
  BY <1>1, <1>2 DEF HasConfig, Keeps
<1> QED
  BY <1>3, <1>4

(* A device that was not processed is now.                                 *)
LEMMA KnownIs ==
  ASSUME NEW hostname, hostname \notin processed, NEW groups, IsGroups(groups), RegistersInv, scenario' = scenario,
         registers' = Known(hostname, groups), processed' = processed \cup {hostname}
  PROVE  /\ Stays /\ RegistersInv' /\ registers'[hostname] = groups
         /\ DOMAIN registers' = DOMAIN registers \cup {hostname}
<1>1. DOMAIN registers' = DOMAIN registers \cup {hostname} /\ registers'[hostname] = groups
  BY DEF Known, Overlay
<1>2. \A h \in DOMAIN registers : h # hostname => registers'[h] = registers[h]
  BY DEF Known, Overlay
<1>3. Stays
  BY <1>1, <1>2 DEF Stays, RegistersInv
<1>4. RegistersInv'
  BY <1>1, <1>2 DEF RegistersInv
<1> QED
  BY <1>1, <1>3, <1>4

(* What holds of the devices handled so far still does.                    *)
LEMMA DevicesStay ==
  ASSUME OtInv, IsOtSim, Stays, NEW fresh, \A g : g \notin fresh => Keeps(g),
         \A k \in DOMAIN scenario.servers : \A s \in {scenario.servers[k]} :
           HandledServer(k)' => (HandledServer(k) /\ s.hostname \notin fresh) \/ ServerIs(s)',
         \A k \in DOMAIN scenario.feps : \A f \in {scenario.feps[k]} :
           f.hostname \in processed' => f.hostname \in processed \/ CollectedBy(f)',
         \A k \in DOMAIN scenario.feps : \A f \in {scenario.feps[k]} :
           HandledFep(k)' => (HandledFep(k) /\ f.hostname \notin fresh) \/ FepIs(f)',
         \A k \in DOMAIN scenario.clients : \A c \in {scenario.clients[k]} :
           HandledClient(k)' => (HandledClient(k) /\ c.hostname \notin fresh) \/ ClientIs(c)'
  PROVE  DevicesInv'
<1>1. scenario \in Scenarios /\ ServersInv /\ CollectedInv /\ FepsInv /\ ClientsInv
  BY DEF OtInv, DevicesInv
<1>2. scenario' = scenario
  BY DEF Stays
<1>3. ASSUME NEW k \in DOMAIN scenario.servers, NEW s \in {scenario.servers[k]}, HandledServer(k)'
      PROVE  ServerIs(s)'
  <2>1. CASE HandledServer(k) /\ s.hostname \notin fresh
    <3>1. ServerIs(s)
      BY <1>1, <2>1 DEF ServersInv
    <3> QED
      BY <2>1, <3>1, ServerStays
  <2> QED
    BY <1>3, <2>1
<1>4. ASSUME NEW k \in DOMAIN scenario.feps, NEW f \in {scenario.feps[k]}
      PROVE  IsList(f.upstream)
  BY <1>1, ScenarioIs, DeviceIs
<1>5. ASSUME NEW k \in DOMAIN scenario.feps, NEW f \in {scenario.feps[k]}, f.hostname \in processed'
      PROVE  CollectedBy(f)'
  <2>1. CASE f.hostname \in processed
    <3>1. CollectedBy(f)
      BY <1>1, <2>1 DEF CollectedInv
    <3> QED
      BY <1>4, <2>1, <3>1, CollectedStays
  <2> QED
    BY <1>5, <2>1
<1>6. ASSUME NEW k \in DOMAIN scenario.feps, NEW f \in {scenario.feps[k]}, HandledFep(k)'
      PROVE  FepIs(f)'
  <2>1. CASE HandledFep(k) /\ f.hostname \notin fresh
    <3>1. FepIs(f)
      BY <1>1, <2>1 DEF FepsInv
    <3>2. CollectedBy(f)
      BY <1>1, <3>1 DEF CollectedInv, FepIs
    <3> QED
      BY <1>4, <2>1, <3>1, <3>2, FepStays
  <2> QED
    BY <1>6, <2>1
<1>7. ASSUME NEW k \in DOMAIN scenario.clients, NEW c \in {scenario.clients[k]}, HandledClient(k)'
      PROVE  ClientIs(c)'
  <2>1. CASE HandledClient(k) /\ c.hostname \notin fresh
    <3>1. ClientIs(c) /\ IsList(c.upstream)
      BY <1>1, <2>1, ScenarioIs, DeviceIs DEF ClientsInv
    <3> QED
      BY <2>1, <3>1, ClientStays
  <2> QED
    BY <1>7, <2>1
<1>8. ServersInv'
  BY <1>2, <1>3 DEF ServersInv
<1>9. CollectedInv'
  BY <1>2, <1>5 DEF CollectedInv
<1>10. FepsInv'
  BY <1>2, <1>6 DEF FepsInv
<1>11. ClientsInv'
  BY <1>2, <1>7 DEF ClientsInv
<1> QED
  BY <1>8, <1>9, <1>10, <1>11 DEF DevicesInv

-----------------------------------------------------------------------------
(* A field device server is handled.                                       *)
LEMMA ServerKeeps ==
  ASSUME OtInv, Server
  PROVE  OtInv'
<1>1. IsOtSim /\ scenario \in Scenarios /\ step.loop = "servers" /\ step.i <= Len(scenario.servers)
  BY DEF OtInv, Server, IsOtSim, At
<1>2. LoopInv /\ RegistersInv /\ ProcessedInv /\ KnownInv /\ CallsInv
  BY <1>1 DEF OtInv
<1>3. step.i \in DOMAIN scenario.servers /\ step.i \in Nat \ {0}
  <2>1. IsList(scenario.servers)
    BY <1>1, ScenarioIs
  <2> QED
    BY <1>1, <1>2, <2>1 DEF LoopInv, IsList
<1>4. PICK s : s = scenario.servers[step.i]
  OBVIOUS
<1>5. PICK config : config = ServerConfig(s)
  OBVIOUS
<1>6. /\ ~ServerRaises(s) /\ registers' = Known(s.hostname, Groups(s)) /\ processed' = processed \cup {s.hostname}
      /\ scenario' = scenario /\ app' = app /\ calls' = calls /\ step' = [step EXCEPT !.i = @ + 1]
  BY <1>4 DEF Server, Again
<1>7. HasConfig(s.hostname, config)' /\ \A g : g \notin {s.hostname} => Keeps(g)
  <2>1. PICK addr, waiting :
          WriteAll(Overlay(File(<<"ot-sim", s.hostname>>, config),
                           IF waiting THEN File(WaitFile(addr), addr.ip) ELSE NoFiles))
    BY <1>4, <1>5 DEF Server
  <2> DEFINE path == <<"ot-sim", s.hostname>>
             more == IF waiting THEN File(WaitFile(addr), addr.ip) ELSE NoFiles
  <2>2. \A g : <<"ot-sim", g>> \notin DOMAIN more
    <3>1. PICK n : WaitFile(addr) = <<"ot-sim-wait", n>>
      BY DEF WaitFile
    <3>2. DOMAIN more \subseteq {<<"ot-sim-wait", n>>}
      BY <3>1 DEF File, NoFiles
    <3> HIDE DEF more
    <3>3. \A g : <<"ot-sim", g>> # <<"ot-sim-wait", n>>
      OBVIOUS
    <3> QED
      BY <3>2, <3>3
  <2>3. \A g : <<"ot-sim", g>> = path => g = s.hostname
    OBVIOUS
  <2>4. files' = Overlay(Overlay(File(path, config), more), files)
    BY <2>1 DEF WriteAll
  <2> HIDE DEF path, more
  <2>5. /\ DOMAIN files' = {path} \cup DOMAIN more \cup DOMAIN files
        /\ files'[path] = config
        /\ \A p \in DOMAIN files : p # path /\ p \notin DOMAIN more => files'[p] = files[p]
    BY <2>4 DEF Overlay, File
  <2>6. HasConfig(s.hostname, config)'
    BY <2>5 DEF HasConfig, path
  <2>7. \A g : g # s.hostname => Keeps(g)
    BY <2>2, <2>3, <2>5 DEF HasConfig, Keeps
  <2> QED
    BY <2>6, <2>7
<1>8. /\ step'.loop = "servers" /\ step'.i = step.i + 1 /\ step' = [loop |-> step'.loop, i |-> step'.i]
  BY <1>1, <1>2, <1>6 DEF LoopInv
<1>9. /\ \A k \in DOMAIN scenario.servers : scenario.servers[k].hostname = s.hostname => k = step.i
      /\ s.hostname \in Names(scenario.servers)
      /\ s.hostname \notin Names(scenario.feps) /\ s.hostname \notin Names(scenario.clients)
  <2>1. s.hostname \in Names(scenario.servers)
    BY <1>3, <1>4 DEF Names
  <2>2. s.hostname \notin Names(scenario.feps) /\ s.hostname \notin Names(scenario.clients)
    BY <1>1, <2>1, ScenarioIs
  <2>3. Distinct(scenario.servers)
    BY <1>1, ScenarioIs
  <2> QED
    BY <1>3, <1>4, <2>1, <2>2, <2>3 DEF Distinct
<1>10. s.hostname \notin processed
  <2> SUFFICES ASSUME s.hostname \in processed PROVE FALSE
    OBVIOUS
  <2>1. PICK k \in DOMAIN scenario.servers : HandledServer(k) /\ s.hostname = scenario.servers[k].hostname
    BY <1>1, <1>2 DEF ProcessedInv, HandledClient
  <2>2. k = step.i
    BY <1>9, <2>1
  <2> QED
    BY <1>1, <1>3, <2>1, <2>2 DEF HandledServer
<1>11. IsGroups(Groups(s))
  BY <1>1, <1>3, <1>4, <1>6, ScenarioIs, GroupsAre
<1>12. Stays /\ RegistersInv' /\ registers'[s.hostname] = Groups(s) /\ DOMAIN registers' = DOMAIN registers \cup {s.hostname}
  BY <1>2, <1>6, <1>10, <1>11, KnownIs
<1>13. ServerIs(s)'
  <2>1. ServerConfig(s)' = config
    BY <1>5, <1>6 DEF ServerConfig, IoMapping
  <2> QED
    BY <1>6, <1>7, <1>12, <2>1 DEF ServerIs
<1>14. DevicesInv'
  <2>1. ASSUME NEW k \in DOMAIN scenario.servers, NEW t \in {scenario.servers[k]}, HandledServer(k)'
        PROVE  (HandledServer(k) /\ t.hostname \notin {s.hostname}) \/ ServerIs(t)'
    <3>1. k \in Nat
      BY <1>1, ScenarioIs DEF IsList
    <3>2. CASE k = step.i
      BY <1>4, <1>13, <3>2
    <3>3. CASE k # step.i
      <4>1. k < step.i
        BY <1>3, <1>8, <2>1, <3>1, <3>3 DEF HandledServer
      <4>2. t.hostname # s.hostname
        BY <1>9, <3>3
      <4> QED
        BY <4>1, <4>2 DEF HandledServer
    <3> QED
      BY <3>2, <3>3
  <2>2. \A k : ~HandledFep(k)' /\ ~HandledClient(k)'
    BY <1>8 DEF HandledFep, HandledClient
  <2>3. \A k \in DOMAIN scenario.feps : scenario.feps[k].hostname \in processed' => scenario.feps[k].hostname \in processed
    BY <1>6, <1>9 DEF Names
  <2> QED
    BY <1>1, <1>7, <1>12, <2>1, <2>2, <2>3, DevicesStay
<1>15. ProcessedInv'
  <2>1. ASSUME NEW h \in processed'
        PROVE  \E k \in DOMAIN scenario.servers : HandledServer(k)' /\ h = scenario.servers[k].hostname
    <3>1. CASE h = s.hostname
      <4>1. PICK k \in DOMAIN scenario.servers : k = step.i
        BY <1>3
      <4>2. HandledServer(k)'
        BY <1>3, <1>8, <4>1 DEF HandledServer
      <4> QED
        BY <1>4, <3>1, <4>1, <4>2
    <3>2. CASE h \in processed
      <4>1. PICK k \in DOMAIN scenario.servers : HandledServer(k) /\ h = scenario.servers[k].hostname
        BY <1>1, <1>2, <3>2 DEF ProcessedInv, HandledClient
      <4>2. k \in Nat
        BY <1>1, ScenarioIs DEF IsList
      <4>3. HandledServer(k)'
        BY <1>1, <1>3, <1>8, <4>1, <4>2 DEF HandledServer
      <4> QED
        BY <4>1, <4>3
    <3> QED
      BY <1>6, <3>1, <3>2
  <2> QED
    BY <1>6, <2>1 DEF ProcessedInv
<1>16. KnownInv'
  BY <1>1, <1>2, <1>6, <1>9, <1>12 DEF KnownInv
<1>17. CallsInv' /\ LoopInv'
  <2>1. calls = << >>
    BY <1>1, <1>2 DEF CallsInv, InFeps, At
  <2>2. CallsInv'
    BY <1>6, <2>1, ShortLists DEF CallsInv
  <2> QED
    BY <1>3, <1>8, <2>2 DEF LoopInv
<1> QED
  BY <1>1, <1>6, <1>12, <1>14, <1>15, <1>16, <1>17 DEF OtInv, IsOtSim

(* The places of the devices in their lists.                               *)
LEMMA PlacesAre ==
  ASSUME scenario \in Scenarios
  PROVE  /\ \A k \in DOMAIN scenario.servers : k \in Nat \ {0} /\ k <= Len(scenario.servers)
         /\ \A k \in DOMAIN scenario.feps : k \in Nat \ {0} /\ k <= Len(scenario.feps)
         /\ \A k \in DOMAIN scenario.clients : k \in Nat \ {0} /\ k <= Len(scenario.clients)
         /\ Len(scenario.servers) \in Nat /\ Len(scenario.feps) \in Nat /\ Len(scenario.clients) \in Nat
<1>1. IsList(scenario.servers) /\ IsList(scenario.feps) /\ IsList(scenario.clients)
  BY ScenarioIs
<1>2. \A s : IsList(s) => Len(s) \in Nat /\ \A k \in DOMAIN s : k \in Nat \ {0} /\ k <= Len(s)
  BY DEF IsList
<1> QED
  BY <1>1, <1>2

(* No file is written.                                                     *)
LEMMA FilesStay ==
  ASSUME files' = files
  PROVE  \A g : Keeps(g)
  BY DEF Keeps, HasConfig

(* No device is handled.                                                   *)
LEMMA SameDevicesStay ==
  ASSUME OtInv, IsOtSim, Stays, \A g : Keeps(g),
         \A k \in DOMAIN scenario.servers : HandledServer(k)' => HandledServer(k),
         \A k \in DOMAIN scenario.feps : HandledFep(k)' => HandledFep(k),
         \A k \in DOMAIN scenario.clients : HandledClient(k)' => HandledClient(k),
         \A k \in DOMAIN scenario.feps : \A f \in {scenario.feps[k]} :
           f.hostname \in processed' => f.hostname \in processed \/ CollectedBy(f)'
  PROVE  DevicesInv'
<1>1. PICK fresh : fresh = {}
  OBVIOUS
<1>2. \A g : g \notin fresh => Keeps(g)
  OBVIOUS
<1>3. \A k \in DOMAIN scenario.servers : \A s \in {scenario.servers[k]} :
        HandledServer(k)' => (HandledServer(k) /\ s.hostname \notin fresh) \/ ServerIs(s)'
  BY <1>1
<1>4. \A k \in DOMAIN scenario.feps : \A f \in {scenario.feps[k]} :
        HandledFep(k)' => (HandledFep(k) /\ f.hostname \notin fresh) \/ FepIs(f)'
  BY <1>1
<1>5. \A k \in DOMAIN scenario.clients : \A c \in {scenario.clients[k]} :
        HandledClient(k)' => (HandledClient(k) /\ c.hostname \notin fresh) \/ ClientIs(c)'
  BY <1>1
<1> QED
  BY <1>2, <1>3, <1>4, <1>5, DevicesStay

(* The loop over the servers ends.                                         *)
LEMMA ServersDoneKeeps ==
  ASSUME OtInv, ServersDone
  PROVE  OtInv'
<1>1. IsOtSim /\ scenario \in Scenarios /\ step.loop = "servers" /\ step.i > Len(scenario.servers)
  BY DEF OtInv, ServersDone, IsOtSim, At
<1>2. LoopInv /\ RegistersInv /\ ProcessedInv /\ KnownInv /\ CallsInv
  BY <1>1 DEF OtInv
<1>3. /\ step' = [loop |-> "feps", i |-> 1] /\ scenario' = scenario /\ app' = app /\ files' = files
      /\ processed' = processed /\ calls' = calls
  BY DEF ServersDone, GoTo
<1>4. step'.loop = "feps" /\ step'.i = 1
  BY <1>3
<1>5. registers' = Overlay([h \in Names(scenario.feps) |-> << >>], registers)
  <2>1. {f.hostname : f \in ToSet(scenario.feps)} = Names(scenario.feps)
    BY DEF Names, ToSet
  <2> QED
    BY <2>1 DEF ServersDone
<1>6. /\ DOMAIN registers' = Names(scenario.feps) \cup DOMAIN registers
      /\ \A h \in DOMAIN registers \ Names(scenario.feps) : registers'[h] = registers[h]
  BY <1>5 DEF Overlay
<1>7. \A h \in processed : h \in Names(scenario.servers) /\ h \notin Names(scenario.feps)
  <2>1. \A h \in processed : h \in Names(scenario.servers)
    BY <1>1, <1>2 DEF ProcessedInv, HandledClient, Names
  <2> QED
    BY <1>1, <2>1, ScenarioIs
<1>8. Stays /\ RegistersInv'
  BY <1>2, <1>3, <1>6, <1>7 DEF Stays, RegistersInv
<1>9. \A k \in DOMAIN scenario.servers : HandledServer(k)
  BY <1>1, <1>2, PlacesAre DEF HandledServer, LoopInv
<1>10. DevicesInv'
  <2>1. \A k \in DOMAIN scenario.feps : ~HandledFep(k)'
    BY <1>1, <1>4, PlacesAre DEF HandledFep
  <2>2. \A k : ~HandledClient(k)'
    BY <1>4 DEF HandledClient
  <2> QED
    BY <1>1, <1>3, <1>8, <1>9, <2>1, <2>2, FilesStay, SameDevicesStay
<1>11. ProcessedInv'
  <2>1. \A k : HandledServer(k)'
    BY <1>4 DEF HandledServer
  <2> QED
    BY <1>3, <1>7, <2>1 DEF ProcessedInv, Names
<1>12. KnownInv'
  BY <1>1, <1>2, <1>3, <1>6 DEF KnownInv
<1>13. CallsInv' /\ LoopInv'
  <2>1. calls = << >>
    BY <1>1, <1>2 DEF CallsInv, InFeps, At
  <2>2. CallsInv'
    BY <1>3, <2>1, ShortLists DEF CallsInv
  <2> QED
    BY <1>3, <2>2 DEF LoopInv
<1> QED
  BY <1>1, <1>3, <1>8, <1>10, <1>11, <1>12, <1>13 DEF OtInv, IsOtSim

(* Only the calls change.                                                  *)
LEMMA CallsKeep ==
  ASSUME OtInv, IsOtSim, UNCHANGED <<processVars, registers, processed>>, CallsInv'
  PROVE  OtInv'
<1>1. /\ scenario' = scenario /\ app' = app /\ step' = step /\ files' = files
      /\ registers' = registers /\ processed' = processed
  BY DEF processVars
<1>2. scenario \in Scenarios /\ LoopInv /\ RegistersInv /\ ProcessedInv /\ KnownInv
  BY DEF OtInv
<1>3. Stays
  BY <1>1, <1>2 DEF Stays, RegistersInv
<1>4. DevicesInv'
  <2>1. \A k : (HandledServer(k)' <=> HandledServer(k)) /\ (HandledFep(k)' <=> HandledFep(k)) /\ (HandledClient(k)' <=> HandledClient(k))
    BY <1>1 DEF HandledServer, HandledFep, HandledClient
  <2> QED
    BY <1>1, <1>3, <2>1, FilesStay, SameDevicesStay
<1>5. LoopInv' /\ RegistersInv' /\ ProcessedInv' /\ KnownInv'
  BY <1>1, <1>2 DEF LoopInv, RegistersInv, ProcessedInv, KnownInv, HandledServer, HandledClient
<1> QED
  BY <1>1, <1>2, <1>4, <1>5 DEF OtInv, IsOtSim

(* A FEP that is not processed is called.                                  *)
LEMMA CallProcessKeeps ==
  ASSUME OtInv, CallProcess
  PROVE  OtInv'
<1>1. IsOtSim /\ scenario \in Scenarios /\ step.i <= Len(scenario.feps) /\ step.loop = "feps"
  BY DEF OtInv, CallProcess, InFeps, IsOtSim, At
<1>2. step.i \in DOMAIN scenario.feps
  <2>1. IsList(scenario.feps) /\ LoopInv
    BY <1>1, ScenarioIs DEF OtInv
  <2> QED
    BY <1>1, <2>1 DEF LoopInv, IsList
<1>3. PICK h : h = ThisFep.hostname
  OBVIOUS
<1>4. h \in Names(scenario.feps) \ processed /\ calls' = <<h>>
  BY <1>2, <1>3 DEF Names, ThisFep, CallProcess
<1>5. InFeps' /\ UNCHANGED <<processVars, registers, processed>>
  BY DEF CallProcess, InFeps, At, processVars
<1>6. scenario' = scenario /\ processed' = processed
  BY DEF CallProcess, processVars
<1>7. CallsInv'
  BY <1>4, <1>5, <1>6, ShortLists DEF CallsInv
<1> QED
  BY <1>1, <1>5, <1>7, CallsKeep

(* Which of those upstream a device waits for.                             *)
LEMMA NextUpstreamIs ==
  ASSUME NEW f, IsList(f.upstream)
  PROVE  \/ NextUpstream(f) = 0 /\ ToSet(f.upstream) \subseteq processed
         \/ NextUpstream(f) \in DOMAIN f.upstream /\ f.upstream[NextUpstream(f)] \notin processed
<1> DEFINE I == {k \in 1..Len(f.upstream) : f.upstream[k] \notin processed}
<1>1. DOMAIN f.upstream = 1..Len(f.upstream) /\ Len(f.upstream) \in Nat
  BY DEF IsList
<1>2. NextUpstream(f) = IF I # {} THEN Min(I) ELSE 0
  BY DEF NextUpstream, SelectInSeq
<1>3. CASE I = {}
  BY <1>1, <1>2, <1>3 DEF ToSet
<1>4. CASE I # {}
  <2>1. I \in SUBSET Nat
    BY <1>1
  <2>2. Min(I) \in I
    <3> HIDE DEF I
    <3> QED
      BY <1>4, <2>1, LeastNumber
  <2> QED
    BY <1>1, <1>2, <1>4, <2>2
<1> QED
  BY <1>3, <1>4

(* The FEP of a name.                                                      *)
LEMMA FepNamedIs ==
  ASSUME scenario \in Scenarios, NEW h \in Names(scenario.feps)
  PROVE  \E k \in DOMAIN scenario.feps : FepNamed(h) = scenario.feps[k] /\ scenario.feps[k].hostname = h
<1>1. PICK k \in DOMAIN scenario.feps : scenario.feps[k].hostname = h
  BY DEF Names
<1>2. \E f \in ToSet(scenario.feps) : f.hostname = h
  BY <1>1 DEF ToSet
<1>3. FepNamed(h) \in ToSet(scenario.feps) /\ FepNamed(h).hostname = h
  BY <1>2 DEF FepNamed
<1> QED
  BY <1>3 DEF ToSet

(* The innermost call is of a FEP that is not processed.                   *)
LEMMA InnermostIs ==
  ASSUME OtInv, IsOtSim, calls # << >>
  PROVE  /\ Len(calls) \in DOMAIN calls /\ Last(calls) = calls[Len(calls)]
         /\ Last(calls) \in Names(scenario.feps) \ processed
<1>1. IsList(calls) /\ CallsInv
  BY DEF OtInv, CallsInv
<1>2. Len(calls) \in DOMAIN calls
  BY <1>1 DEF IsList
<1> QED
  BY <1>1, <1>2 DEF Last, CallsInv

(* One that is upstream of it is called.                                   *)
LEMMA CallUpstreamKeeps ==
  ASSUME OtInv, CallUpstream
  PROVE  OtInv'
<1>1. IsOtSim /\ scenario \in Scenarios /\ step.loop = "feps" /\ calls # << >>
  BY DEF OtInv, CallUpstream, InFeps, IsOtSim, At
<1>2. CallsInv /\ KnownInv /\ ServersInv
  BY <1>1 DEF OtInv, DevicesInv
<1>3. Last(calls) \in Names(scenario.feps)
  BY <1>1, InnermostIs
<1>4. PICK f : f = FepNamed(Last(calls))
  OBVIOUS
<1>5. IsList(f.upstream)
  BY <1>1, <1>3, <1>4, FepNamedIs, ScenarioIs, DeviceIs
<1>6. PICK u : u = f.upstream[NextUpstream(f)]
  OBVIOUS
<1>7. NextUpstream(f) # 0 /\ u \in DOMAIN registers /\ ~Contains(calls, u) /\ calls' = Append(calls, u)
  BY <1>4, <1>6 DEF CallUpstream
<1>8. u \notin processed
  BY <1>5, <1>6, <1>7, NextUpstreamIs
<1>9. u \in Names(scenario.feps)
  <2>1. \A h \in Names(scenario.servers) : h \in processed
    BY <1>1, <1>2 DEF ServersInv, ServerIs, HandledServer, Names
  <2> QED
    BY <1>1, <1>2, <1>7, <1>8, <2>1 DEF KnownInv
<1>10. InFeps' /\ UNCHANGED <<processVars, registers, processed>> /\ scenario' = scenario /\ processed' = processed
  BY DEF CallUpstream, InFeps, At, processVars
<1>11. CallsInv'
  <2>1. IsList(calls) /\ \A i \in DOMAIN calls : calls[i] # u
    BY <1>2, <1>7 DEF CallsInv, IsList, Contains
  <2>2. IsList(calls')
    BY <1>7, <2>1, ListOfAppend
  <2>3. /\ DOMAIN calls = 1..Len(calls) /\ Len(calls) \in Nat /\ DOMAIN calls' = 1..(Len(calls) + 1)
        /\ calls'[Len(calls) + 1] = u /\ \A i \in DOMAIN calls : calls'[i] = calls[i]
    BY <1>7, <2>1 DEF IsList
  <2>4. \A i \in DOMAIN calls' : i \in DOMAIN calls \/ i = Len(calls) + 1
    BY <2>3
  <2>5. \A i \in DOMAIN calls' : calls'[i] \in Names(scenario.feps) \ processed
    BY <1>2, <1>8, <1>9, <2>3, <2>4 DEF CallsInv
  <2>6. \A i, j \in DOMAIN calls' : calls'[i] = calls'[j] => i = j
    BY <1>2, <2>1, <2>3, <2>4 DEF CallsInv
  <2> QED
    BY <1>10, <2>2, <2>5, <2>6 DEF CallsInv
<1> QED
  BY <1>1, <1>10, <1>11, CallsKeep

(* Nothing is written and nothing else becomes known while a device is     *)
(* processed, so the groups upstream of it are those it collects.          *)
LEMMA UpstreamGroupsAre ==
  ASSUME RegistersInv, NEW f, IsList(f.upstream), ToSet(f.upstream) \subseteq processed, NEW all, all = UpstreamGroups(f)
  PROVE  IsGroups(all) /\ RegsIn(all) = UNION {RegsIn(registers[u]) : u \in ToSet(f.upstream)}
<1> DEFINE n == Len(f.upstream)
           given(k) == registers[f.upstream[k]]
           seqs == [k \in DOMAIN f.upstream |-> given(k)]
           T == UNION {ToSet(given(k)) : k \in 1..n}
           gs == FlattenSeq(seqs)
<1>1. DOMAIN f.upstream = 1..n /\ n \in Nat
  BY DEF IsList
<1>2. \A k \in 1..n : IsGroups(given(k))
  BY <1>1 DEF RegistersInv, ToSet
<1> HIDE DEF given
<1>3. \A k \in 1..n : given(k) \in Seq(T)
  <2> TAKE k \in 1..n
  <2>1. given(k) \in Seq(ToSet(given(k)))
    BY <1>2 DEF IsGroups, IsList
  <2>2. ToSet(given(k)) \subseteq T
    OBVIOUS
  <2> HIDE DEF T
  <2> QED
    BY <2>1, <2>2
<1>4. \A g \in T : IsGroup(g)
  <2> TAKE g \in T
  <2>1. PICK k \in 1..n : g \in ToSet(given(k))
    OBVIOUS
  <2>2. IsGroups(given(k))
    BY <1>2
  <2> QED
    BY <2>1, <2>2 DEF IsGroups, ToSet
<1>5. seqs \in Seq(Seq(T))
  <2> HIDE DEF T
  <2> QED
    BY <1>1, <1>3
<1>6. gs \in Seq(T) /\ ToSet(gs) = T
  <2>1. gs \in Seq(T) /\ ToSet(gs) = UNION {ToSet(seqs[k]) : k \in DOMAIN seqs}
    <3> HIDE DEF seqs, T
    <3> QED
      BY <1>5, FlattenIs
  <2>2. UNION {ToSet(seqs[k]) : k \in DOMAIN seqs} = T
    BY <1>1
  <2> QED
    BY <2>1, <2>2
<1>7. IsGroups(gs)
  <2>1. IsList(gs)
    BY <1>6, ListOfSequence
  <2>2. \A k \in DOMAIN gs : gs[k] \in T
    BY <1>6 DEF ToSet
  <2> QED
    BY <1>4, <2>1, <2>2 DEF IsGroups
<1>8. all = FoldLeft(AddGroup, << >>, gs)
  BY DEF UpstreamGroups, given
<1>9. IsGroups(all) /\ RegsIn(all) = RegsIn(gs)
  <2> HIDE DEF gs
  <2> QED
    BY <1>7, <1>8, CollectedIs
<1>10. RegsIn(gs) = UNION {ToSet(g.regs) : g \in T}
  <2>1. RegsIn(gs) = UNION {ToSet(g.regs) : g \in ToSet(gs)}
    <3> HIDE DEF gs
    <3> QED
      BY DEF RegsIn, ToSet
  <2> QED
    BY <1>6, <2>1
<1>11. \A k \in 1..n : RegsIn(given(k)) = UNION {ToSet(g.regs) : g \in ToSet(given(k))}
  BY DEF RegsIn, ToSet
<1>12. UNION {ToSet(g.regs) : g \in T} = UNION {RegsIn(given(k)) : k \in 1..n}
  BY <1>11
<1>13. UNION {RegsIn(given(k)) : k \in 1..n} = UNION {RegsIn(registers[u]) : u \in ToSet(f.upstream)}
  BY <1>1 DEF given, ToSet
<1> QED
  BY <1>9, <1>10, <1>12, <1>13

(* The processing of a FEP ends.                                           *)
LEMMA ReturnProcessKeeps ==
  ASSUME OtInv, ReturnProcess
  PROVE  OtInv'
<1>1. IsOtSim /\ scenario \in Scenarios /\ step.loop = "feps" /\ calls # << >>
  BY DEF OtInv, ReturnProcess, InFeps, IsOtSim, At
<1>2. CallsInv /\ KnownInv /\ RegistersInv /\ ProcessedInv /\ LoopInv
  BY <1>1 DEF OtInv
<1>3. PICK h : h = Last(calls)
  OBVIOUS
<1>4. h \in Names(scenario.feps) \ processed /\ Len(calls) \in DOMAIN calls /\ h = calls[Len(calls)]
  BY <1>1, <1>3, InnermostIs
<1>5. PICK f : f = FepNamed(h)
  OBVIOUS
<1>6. f.hostname = h /\ \E k \in DOMAIN scenario.feps : f = scenario.feps[k]
  BY <1>1, <1>4, <1>5, FepNamedIs
<1>7. IsList(f.upstream)
  BY <1>1, <1>6, ScenarioIs, DeviceIs
<1>8. PICK groups : groups = UpstreamGroups(f)
  OBVIOUS
<1>9. /\ NextUpstream(f) = 0 /\ registers' = Known(h, groups) /\ processed' = processed \cup {h}
      /\ calls' = Front(calls) /\ scenario' = scenario /\ app' = app /\ step' = step /\ files' = files
  BY <1>3, <1>5, <1>6, <1>8 DEF ReturnProcess, processVars
<1>10. ToSet(f.upstream) \subseteq processed
  <2>1. IsList(f.upstream) => \A k \in DOMAIN f.upstream : k # 0
    BY DEF IsList
  <2> QED
    BY <1>7, <1>9, <2>1, NextUpstreamIs
<1>11. IsGroups(groups)
  BY <1>2, <1>7, <1>8, <1>10, UpstreamGroupsAre
<1>12. Stays /\ RegistersInv' /\ registers'[h] = groups /\ DOMAIN registers' = DOMAIN registers \cup {h}
  BY <1>2, <1>4, <1>9, <1>11, KnownIs
<1>13. CollectedBy(f)'
  <2>1. \A k \in DOMAIN f.upstream : f.upstream[k] \in processed
    BY <1>7, <1>10 DEF ToSet, IsList
  <2>2. \A k \in DOMAIN f.upstream : registers'[f.upstream[k]] = registers[f.upstream[k]]
    BY <1>12, <2>1 DEF Stays
  <2>3. [k \in DOMAIN f.upstream |-> registers[f.upstream[k]]]' = [k \in DOMAIN f.upstream |-> registers[f.upstream[k]]]
    BY <2>2
  <2>4. UpstreamGroups(f)' = UpstreamGroups(f)
    BY <2>3 DEF UpstreamGroups
  <2>5. ToSet(f.upstream) \subseteq processed'
    BY <1>9, <1>10
  <2> QED
    BY <1>6, <1>8, <1>12, <2>4, <2>5 DEF CollectedBy
<1>14. DevicesInv'
  <2>1. \A k : (HandledServer(k)' <=> HandledServer(k)) /\ (HandledFep(k)' <=> HandledFep(k)) /\ (HandledClient(k)' <=> HandledClient(k))
    BY <1>9 DEF HandledServer, HandledFep, HandledClient
  <2>2. ASSUME NEW k \in DOMAIN scenario.feps, NEW t \in {scenario.feps[k]}, t.hostname \in processed'
        PROVE  t.hostname \in processed \/ CollectedBy(t)'
    <3>1. CASE t.hostname = h
      <4>1. t = f
        BY <1>1, <1>6, <3>1, ScenarioIs DEF Distinct
      <4> QED
        BY <1>13, <4>1
    <3> QED
      BY <1>9, <2>2, <3>1
  <2> QED
    BY <1>1, <1>9, <1>12, <2>1, <2>2, FilesStay, SameDevicesStay
<1>15. ProcessedInv' /\ KnownInv' /\ LoopInv'
  <2>1. ProcessedInv'
    BY <1>1, <1>2, <1>4, <1>9 DEF ProcessedInv, HandledServer, HandledClient
  <2>2. KnownInv'
    BY <1>1, <1>2, <1>4, <1>9, <1>12 DEF KnownInv
  <2> QED
    BY <1>2, <1>9, <2>1, <2>2 DEF LoopInv
<1>16. CallsInv'
  <2> DEFINE n == Len(calls)
  <2>1. IsList(calls) /\ DOMAIN calls = 1..n /\ n \in Nat \ {0} /\ calls \in Seq(ToSet(calls))
    BY <1>2, <1>4 DEF CallsInv, IsList
  <2>2. calls' = [k \in 1..(n - 1) |-> calls[k]]
    BY <1>9, <2>1 DEF Front
  <2>3. IsList(calls') /\ DOMAIN calls' = 1..(n - 1) /\ \A k \in 1..(n - 1) : calls'[k] = calls[k]
    <3>1. n - 1 \in Nat /\ calls' = [k \in 1..(n - 1) |-> calls'[k]]
      BY <2>1, <2>2
    <3>2. IsList(calls')
      BY <3>1, FunctionIsSequence DEF IsList
    <3> QED
      BY <2>2, <3>2
  <2>4. \A k \in 1..(n - 1) : k \in DOMAIN calls /\ k # n
    <3> HIDE DEF n
    <3> QED
      BY <2>1
  <2>5. \A k \in DOMAIN calls' : calls'[k] \in Names(scenario.feps) \ processed'
    BY <1>2, <1>4, <1>9, <2>3, <2>4 DEF CallsInv
  <2>6. \A j, k \in DOMAIN calls' : calls'[j] = calls'[k] => j = k
    BY <1>2, <2>3, <2>4 DEF CallsInv
  <2>7. InFeps'
    BY <1>9 DEF ReturnProcess, InFeps, At
  <2> QED
    BY <1>9, <2>3, <2>5, <2>6, <2>7 DEF CallsInv
<1> QED
  BY <1>1, <1>9, <1>12, <1>14, <1>15, <1>16 DEF OtInv, IsOtSim

(* The configuration of a processed FEP is written.                        *)
LEMMA ConfigureFepKeeps ==
  ASSUME OtInv, ConfigureFep
  PROVE  OtInv'
<1>1. IsOtSim /\ scenario \in Scenarios /\ step.loop = "feps" /\ step.i <= Len(scenario.feps) /\ calls = << >>
  BY DEF OtInv, ConfigureFep, InFeps, IsOtSim, At
<1>2. LoopInv /\ RegistersInv /\ ProcessedInv /\ KnownInv /\ CollectedInv
  BY <1>1 DEF OtInv, DevicesInv
<1>3. step.i \in DOMAIN scenario.feps /\ step.i \in Nat \ {0}
  <2>1. IsList(scenario.feps)
    BY <1>1, ScenarioIs
  <2> QED
    BY <1>1, <1>2, <2>1 DEF LoopInv, IsList
<1>4. PICK f : f = scenario.feps[step.i]
  OBVIOUS
<1>5. PICK config : config = FepConfig(f)
  OBVIOUS
<1>6. /\ f.hostname \in processed /\ Write(<<"ot-sim", f.hostname>>, config)
      /\ scenario' = scenario /\ app' = app /\ step' = [step EXCEPT !.i = @ + 1]
      /\ registers' = registers /\ processed' = processed /\ calls' = calls
  BY <1>4, <1>5 DEF ConfigureFep, ThisFep, Again, otVars
<1>7. HasConfig(f.hostname, config)' /\ \A g : g \notin {f.hostname} => Keeps(g)
  BY <1>6, WriteIs
<1>8. /\ step'.loop = "feps" /\ step'.i = step.i + 1 /\ step' = [loop |-> step'.loop, i |-> step'.i]
  BY <1>1, <1>2, <1>6 DEF LoopInv
<1>9. Stays /\ IsList(f.upstream) /\ CollectedBy(f)
  <2>1. Stays
    BY <1>2, <1>6 DEF Stays, RegistersInv
  <2>2. IsList(f.upstream)
    BY <1>1, <1>3, <1>4, ScenarioIs, DeviceIs
  <2> QED
    BY <1>2, <1>3, <1>4, <1>6, <2>1, <2>2 DEF CollectedInv
<1>10. FepIs(f)'
  <2>1. FepConfig(f)' = config
    BY <1>5, <1>6, <1>9, FepConfigStays
  <2> QED
    BY <1>6, <1>7, <2>1 DEF FepIs
<1>11. /\ \A k \in DOMAIN scenario.feps : scenario.feps[k].hostname = f.hostname => k = step.i
       /\ \A k \in DOMAIN scenario.servers : scenario.servers[k].hostname # f.hostname
  <2>1. f.hostname \in Names(scenario.feps)
    BY <1>3, <1>4 DEF Names
  <2>2. f.hostname \notin Names(scenario.servers)
    BY <1>1, <2>1, ScenarioIs
  <2>3. Distinct(scenario.feps)
    BY <1>1, ScenarioIs
  <2> QED
    BY <1>3, <1>4, <2>2, <2>3 DEF Distinct, Names
<1>12. DevicesInv'
  <2>1. ASSUME NEW k \in DOMAIN scenario.feps, NEW t \in {scenario.feps[k]}, HandledFep(k)'
        PROVE  (HandledFep(k) /\ t.hostname \notin {f.hostname}) \/ FepIs(t)'
    <3>1. k \in Nat
      BY <1>1, PlacesAre
    <3>2. CASE k = step.i
      BY <1>4, <1>10, <3>2
    <3>3. CASE k # step.i
      <4>1. k < step.i
        BY <1>3, <1>8, <2>1, <3>1, <3>3 DEF HandledFep
      <4>2. t.hostname # f.hostname
        BY <1>11, <3>3
      <4> QED
        BY <1>1, <4>1, <4>2 DEF HandledFep
    <3> QED
      BY <3>2, <3>3
  <2>2. \A k : ~HandledClient(k)' /\ HandledServer(k)
    BY <1>1, <1>8 DEF HandledServer, HandledClient
  <2> QED
    BY <1>1, <1>6, <1>7, <1>9, <1>11, <2>1, <2>2, DevicesStay
<1>13. ProcessedInv' /\ KnownInv' /\ RegistersInv'
  <2>1. \A k : HandledServer(k)' /\ ~HandledClient(k)
    BY <1>1, <1>8 DEF HandledServer, HandledClient
  <2>2. ProcessedInv'
    BY <1>2, <1>6, <1>8, <2>1 DEF ProcessedInv
  <2> QED
    BY <1>1, <1>2, <1>6, <1>8, <2>2 DEF KnownInv, RegistersInv
<1>14. CallsInv' /\ LoopInv'
  <2>1. CallsInv'
    BY <1>1, <1>6, ShortLists DEF CallsInv
  <2> QED
    BY <1>3, <1>8, <2>1 DEF LoopInv
<1> QED
  BY <1>1, <1>6, <1>12, <1>13, <1>14 DEF OtInv, IsOtSim

(* The loop over the FEPs ends.                                            *)
LEMMA FepsDoneKeeps ==
  ASSUME OtInv, FepsDone
  PROVE  OtInv'
<1>1. IsOtSim /\ scenario \in Scenarios /\ step.loop = "feps" /\ step.i > Len(scenario.feps)
  BY DEF OtInv, FepsDone, IsOtSim, At
<1>2. LoopInv /\ RegistersInv /\ ProcessedInv /\ CallsInv
  BY <1>1 DEF OtInv
<1>3. /\ step' = [loop |-> "clients", i |-> 1] /\ scenario' = scenario /\ app' = app /\ files' = files
      /\ registers' = registers /\ processed' = processed /\ calls' = calls
  BY DEF FepsDone, GoTo, otVars
<1>4. step'.loop = "clients" /\ step'.i = 1
  BY <1>3
<1>5. Stays /\ RegistersInv'
  BY <1>2, <1>3 DEF Stays, RegistersInv
<1>6. /\ \A k \in DOMAIN scenario.feps : HandledFep(k)
      /\ \A k \in DOMAIN scenario.clients : ~HandledClient(k)'
      /\ \A k : HandledServer(k) /\ HandledServer(k)'
  BY <1>1, <1>2, <1>4, PlacesAre DEF HandledServer, HandledFep, HandledClient, LoopInv
<1>7. DevicesInv'
  BY <1>1, <1>3, <1>5, <1>6, FilesStay, SameDevicesStay
<1>8. ProcessedInv'
  <2>1. \A k : ~HandledClient(k)
    BY <1>1 DEF HandledClient
  <2> QED
    BY <1>2, <1>3, <1>4, <1>6, <2>1 DEF ProcessedInv
<1>9. KnownInv' /\ LoopInv'
  BY <1>3 DEF KnownInv, LoopInv
<1>10. CallsInv'
  <2>1. calls = << >>
    BY <1>1, <1>2, PlacesAre DEF CallsInv, InFeps, LoopInv
  <2> QED
    BY <1>3, <2>1, ShortLists DEF CallsInv
<1> QED
  BY <1>1, <1>3, <1>5, <1>7, <1>8, <1>9, <1>10 DEF OtInv, IsOtSim

(* A field device client is handled.                                       *)
LEMMA ClientKeeps ==
  ASSUME OtInv, Client
  PROVE  OtInv'
<1>1. IsOtSim /\ scenario \in Scenarios /\ step.loop = "clients" /\ step.i <= Len(scenario.clients)
  BY DEF OtInv, Client, InClients, IsOtSim, At
<1>2. LoopInv /\ RegistersInv /\ ProcessedInv /\ CallsInv
  BY <1>1 DEF OtInv
<1>3. step.i \in DOMAIN scenario.clients /\ step.i \in Nat \ {0}
  <2>1. IsList(scenario.clients)
    BY <1>1, ScenarioIs
  <2> QED
    BY <1>1, <1>2, <2>1 DEF LoopInv, IsList
<1>4. PICK c : c = scenario.clients[step.i]
  OBVIOUS
<1>5. PICK config : config = ClientConfig(c)
  OBVIOUS
<1>6. /\ ~ClientRaises(c) /\ registers' = Known(c.hostname, << >>) /\ processed' = processed \cup {c.hostname}
      /\ Write(<<"ot-sim", c.hostname>>, config)
      /\ scenario' = scenario /\ app' = app /\ calls' = calls /\ step' = [step EXCEPT !.i = @ + 1]
  BY <1>4, <1>5 DEF Client, ThisClient, ClientConfig, Again
<1>7. HasConfig(c.hostname, config)' /\ \A g : g \notin {c.hostname} => Keeps(g)
  BY <1>6, WriteIs
<1>8. /\ step'.loop = "clients" /\ step'.i = step.i + 1 /\ step' = [loop |-> step'.loop, i |-> step'.i]
  BY <1>1, <1>2, <1>6 DEF LoopInv
<1>9. /\ \A k \in DOMAIN scenario.clients : scenario.clients[k].hostname = c.hostname => k = step.i
      /\ c.hostname \notin Names(scenario.servers) /\ c.hostname \notin Names(scenario.feps)
  <2>1. c.hostname \in Names(scenario.clients)
    BY <1>3, <1>4 DEF Names
  <2>2. c.hostname \notin Names(scenario.servers) /\ c.hostname \notin Names(scenario.feps)
    BY <1>1, <2>1, ScenarioIs
  <2>3. Distinct(scenario.clients)
    BY <1>1, ScenarioIs
  <2> QED
    BY <1>3, <1>4, <2>1, <2>2, <2>3 DEF Distinct
<1>10. c.hostname \notin processed
  <2> SUFFICES ASSUME c.hostname \in processed PROVE FALSE
    OBVIOUS
  <2>1. PICK k \in DOMAIN scenario.clients : HandledClient(k) /\ c.hostname = scenario.clients[k].hostname
    BY <1>2, <1>9 DEF ProcessedInv, Names
  <2>2. k = step.i
    BY <1>9, <2>1
  <2> QED
    BY <1>1, <1>3, <2>1, <2>2 DEF HandledClient
<1>11. IsGroups(<< >>)
  BY ShortLists DEF IsGroups
<1>12. Stays /\ RegistersInv'
  BY <1>2, <1>6, <1>10, <1>11, KnownIs
<1>13. ClientIs(c)'
  <2>1. IsList(c.upstream)
    BY <1>1, <1>3, <1>4, ScenarioIs, DeviceIs
  <2>2. \A k \in DOMAIN c.upstream : k # 0
    BY <2>1 DEF IsList
  <2>3. ToSet(c.upstream) \subseteq processed
    BY <1>6, <2>1, <2>2, NextUpstreamIs DEF ClientRaises
  <2>4. ClientSections(c.upstream)' = ClientSections(c.upstream) /\ ToSet(c.upstream) \subseteq processed'
    BY <1>12, <2>1, <2>3, SectionsStay
  <2>5. ClientConfig(c)' = config
    BY <1>5, <2>4 DEF ClientConfig
  <2> QED
    BY <1>6, <1>7, <2>4, <2>5 DEF ClientIs
<1>14. DevicesInv'
  <2>1. ASSUME NEW k \in DOMAIN scenario.clients, NEW t \in {scenario.clients[k]}, HandledClient(k)'
        PROVE  (HandledClient(k) /\ t.hostname \notin {c.hostname}) \/ ClientIs(t)'
    <3>1. k \in Nat
      BY <1>1, PlacesAre
    <3>2. CASE k = step.i
      BY <1>4, <1>13, <3>2
    <3>3. CASE k # step.i
      <4>1. k < step.i
        BY <1>3, <1>8, <2>1, <3>1, <3>3 DEF HandledClient
      <4>2. t.hostname # c.hostname
        BY <1>9, <3>3
      <4> QED
        BY <1>1, <4>1, <4>2 DEF HandledClient
    <3> QED
      BY <3>2, <3>3
  <2>2. \A k : HandledFep(k) /\ HandledServer(k)
    BY <1>1 DEF HandledServer, HandledFep
  <2>3. /\ \A k \in DOMAIN scenario.servers : scenario.servers[k].hostname # c.hostname
        /\ \A k \in DOMAIN scenario.feps : scenario.feps[k].hostname # c.hostname
    BY <1>9 DEF Names
  <2> QED
    BY <1>1, <1>6, <1>7, <1>12, <2>1, <2>2, <2>3, DevicesStay
<1>15. ProcessedInv'
  <2>1. ASSUME NEW h \in processed'
        PROVE  \/ \E k \in DOMAIN scenario.servers : HandledServer(k)' /\ h = scenario.servers[k].hostname
               \/ h \in Names(scenario.feps)
               \/ \E k \in DOMAIN scenario.clients : HandledClient(k)' /\ h = scenario.clients[k].hostname
    <3>1. CASE h = c.hostname
      <4>1. PICK k \in DOMAIN scenario.clients : k = step.i
        BY <1>3
      <4>2. HandledClient(k)'
        BY <1>3, <1>8, <4>1 DEF HandledClient
      <4> QED
        BY <1>4, <3>1, <4>1, <4>2
    <3>2. CASE h \in processed
      <4>1. \A k : HandledServer(k)'
        BY <1>8 DEF HandledServer
      <4>2. \A k \in DOMAIN scenario.clients : HandledClient(k) => HandledClient(k)'
        <5>1. \A k \in DOMAIN scenario.clients : k \in Nat
          BY <1>1, PlacesAre
        <5> QED
          BY <1>1, <1>3, <1>8, <5>1 DEF HandledClient
      <4> QED
        BY <1>2, <3>2, <4>1, <4>2 DEF ProcessedInv
    <3> QED
      BY <1>6, <3>1, <3>2
  <2> QED
    BY <1>6, <1>8, <2>1 DEF ProcessedInv
<1>16. KnownInv'
  BY <1>8 DEF KnownInv
<1>17. CallsInv' /\ LoopInv'
  <2>1. calls = << >>
    BY <1>1, <1>2 DEF CallsInv, InFeps, At
  <2>2. CallsInv'
    BY <1>6, <2>1, ShortLists DEF CallsInv
  <2> QED
    BY <1>3, <1>8, <2>2 DEF LoopInv
<1> QED
  BY <1>1, <1>6, <1>12, <1>14, <1>15, <1>16, <1>17 DEF OtInv, IsOtSim

(* The loop over the clients ends, and the brokers' scripts are written.   *)
LEMMA ClientsDoneKeeps ==
  ASSUME OtInv, ClientsDone
  PROVE  OtInv'
<1>1. IsOtSim /\ scenario \in Scenarios /\ step.loop = "clients" /\ step.i > Len(scenario.clients)
  BY DEF OtInv, ClientsDone, IsOtSim, At
<1>2. LoopInv /\ RegistersInv /\ ProcessedInv /\ CallsInv
  BY <1>1 DEF OtInv
<1>3. /\ step' = [loop |-> "done", i |-> 1] /\ scenario' = scenario /\ app' = app
      /\ files' = Overlay(BrokerScripts, files)
      /\ registers' = registers /\ processed' = processed /\ calls' = calls
  BY DEF ClientsDone, GoTo, WriteAll, otVars
<1>4. step'.loop = "done" /\ step'.i = 1
  BY <1>3
<1>5. Stays /\ RegistersInv'
  BY <1>2, <1>3 DEF Stays, RegistersInv
<1>6. /\ \A k \in DOMAIN scenario.clients : HandledClient(k) /\ HandledClient(k)'
      /\ \A k : HandledServer(k) /\ HandledServer(k)' /\ HandledFep(k)
  BY <1>1, <1>2, <1>4, PlacesAre DEF HandledServer, HandledFep, HandledClient, LoopInv
<1>7. DevicesInv'
  <2>1. \A g : Keeps(g)
    <3>1. \A g, h : <<"ot-sim", g>> # OtBrokerFile(h)
      BY DEF OtBrokerFile
    <3>2. \A g : <<"ot-sim", g>> \notin DOMAIN BrokerScripts
      BY <3>1 DEF BrokerScripts
    <3> QED
      BY <1>3, <3>2 DEF Keeps, HasConfig, Overlay
  <2> QED
    BY <1>1, <1>3, <1>5, <1>6, <2>1, SameDevicesStay
<1>8. ProcessedInv'
  BY <1>2, <1>3, <1>4, <1>6 DEF ProcessedInv
<1>9. KnownInv' /\ LoopInv'
  BY <1>3 DEF KnownInv, LoopInv
<1>10. CallsInv'
  <2>1. calls = << >>
    BY <1>1, <1>2 DEF CallsInv, InFeps, At
  <2> QED
    BY <1>3, <2>1, ShortLists DEF CallsInv
<1> QED
  BY <1>1, <1>3, <1>5, <1>7, <1>8, <1>9, <1>10 DEF OtInv, IsOtSim

-----------------------------------------------------------------------------
(* The process starts with nothing known and leaves nothing behind.        *)
LEMMA CleanIs ==
  ASSUME OtReset
  PROVE  OtClean'
  BY DEF OtReset, OtClean

(* OtInv is an invariant: every step of the experiment keeps it.           *)
LEMMA OtInvHolds == Spec => []OtInv
<1>1. Init => OtInv
  BY DEF Init, ProcessInit, OtInit, OtInv, OtClean, IsOtSim
<1>2. OtInv /\ [Next]_vars => OtInv'
  <2> SUFFICES ASSUME OtInv, [Next]_vars PROVE OtInv'
    OBVIOUS
  <2>1. CASE StartExperiment
    <3>1. ~IsOtSim /\ scenario \in Scenarios /\ OtClean
      BY <2>1 DEF StartExperiment, Idle, OtInv, IsOtSim
    <3>2. /\ app' = "ot-sim" /\ step' = [loop |-> "servers", i |-> 1] /\ scenario' = scenario
          /\ registers' = << >> /\ processed' = {} /\ calls' = << >>
      BY <2>1, <3>1 DEF StartExperiment, StartOtSim, Launch, GoTo, OtClean, otVars
    <3>3. LoopInv' /\ RegistersInv' /\ ProcessedInv' /\ KnownInv' /\ CallsInv'
      <4>1. LoopInv' /\ RegistersInv' /\ ProcessedInv'
        BY <3>2 DEF LoopInv, RegistersInv, ProcessedInv
      <4>2. KnownInv'
        BY <3>2 DEF KnownInv
      <4>3. CallsInv'
        BY <3>2, ShortLists DEF CallsInv
      <4> QED
        BY <4>1, <4>2, <4>3
    <3>4. DevicesInv'
      <4>1. \A k \in DOMAIN scenario.servers : ~HandledServer(k)'
        BY <3>1, <3>2, PlacesAre DEF HandledServer
      <4>2. \A k : ~HandledFep(k)' /\ ~HandledClient(k)'
        BY <3>2 DEF HandledFep, HandledClient
      <4> QED
        BY <3>2, <4>1, <4>2 DEF DevicesInv, ServersInv, CollectedInv, FepsInv, ClientsInv
    <3> QED
      BY <3>1, <3>2, <3>3, <3>4 DEF OtInv, IsOtSim
  <2>2. CASE Apps
    <3>1. CASE OtSimNext
      <4>1. CASE ServerFails \/ CallFails \/ FepFails \/ ClientFails
        <5>1. scenario' = scenario /\ app' = "failed" /\ OtReset
          BY <4>1 DEF ServerFails, CallFails, FepFails, ClientFails, Raise
        <5> QED
          BY <5>1, CleanIs DEF OtInv, IsOtSim
      <4> QED
        BY <3>1, <4>1, ServerKeeps, ServersDoneKeeps, CallProcessKeeps, CallUpstreamKeeps, ReturnProcessKeeps,
           ConfigureFepKeeps, FepsDoneKeeps, ClientKeeps, ClientsDoneKeeps DEF OtSimNext
    <3>2. CASE HelicsNext
      <4>1. ~IsOtSim
        BY <3>2 DEF HelicsNext, ResolveRoot, RootFails, SkipFederate, Federate, FederateFails, WriteBrokers, InFederates, IsOtSim
      <4>2. scenario' = scenario /\ (app' = app \/ app' = "failed") /\ UNCHANGED otVars
        BY <3>2 DEF HelicsNext, ResolveRoot, RootFails, SkipFederate, Federate, FederateFails, WriteBrokers, Raise
      <4> QED
        BY <4>1, <4>2 DEF OtInv, OtClean, IsOtSim, otVars
    <3> QED
      BY <2>2, <3>1, <3>2 DEF Apps
  <2>3. CASE HandOver
    <3>1. scenario' = scenario /\ app' = "helics" /\ OtReset
      BY <2>3 DEF HandOver, Launch
    <3> QED
      BY <3>1, CleanIs DEF OtInv, IsOtSim
  <2>4. CASE Started
    <3>1. scenario' = scenario /\ app' = "started" /\ OtReset
      BY <2>4 DEF Started, Finish
    <3> QED
      BY <3>1, CleanIs DEF OtInv, IsOtSim
  <2>5. CASE Toggle
    <3>1. ~IsOtSim /\ scenario' = scenario /\ app' = app /\ UNCHANGED otVars
      BY <2>5 DEF Toggle, Idle, IsOtSim
    <3> QED
      BY <3>1 DEF OtInv, OtClean, IsOtSim, otVars
  <2>6. CASE UNCHANGED vars
    <3>1. IsOtSim => CallsInv'
      BY <2>6 DEF vars, otVars, processVars, OtInv, CallsInv, InFeps, At
    <3>2. CASE IsOtSim
      BY <2>6, <3>1, <3>2, CallsKeep DEF vars, otVars
    <3>3. CASE ~IsOtSim
      BY <2>6, <3>3 DEF vars, otVars, processVars, OtInv, OtClean, IsOtSim
    <3> QED
      BY <3>2, <3>3
  <2> QED
    BY <2>1, <2>2, <2>3, <2>4, <2>5, <2>6 DEF Next
<1> QED
  BY <1>1, <1>2, PTL DEF Spec

-----------------------------------------------------------------------------
(* Sections and their points.                                              *)
LEMMA PointsOfBeginning ==
  ASSUME NEW a, NEW b, IsList(a), IsList(b), Begins(a, b)
  PROVE  ToSet(Points(a)) \subseteq ToSet(Points(b))
<1>1. /\ DOMAIN a = 1..Len(a) /\ DOMAIN b = 1..Len(b) /\ Len(a) \in Nat /\ Len(b) \in Nat
      /\ Len(a) <= Len(b) /\ \A j \in 1..Len(a) : b[j] = a[j]
  BY DEF IsList, Begins
<1>2. ASSUME NEW k \in DOMAIN a
      PROVE  k \in DOMAIN b /\ Points(a)[k] = Points(b)[k]
  <2>1. k \in DOMAIN b /\ b[k] = a[k] /\ \A j \in 1..(k - 1) : b[j] = a[j]
    BY <1>1
  <2>2. {j \in 1..(k - 1) : a[j].type = a[k].type} = {j \in 1..(k - 1) : b[j].type = b[k].type}
    BY <2>1
  <2> QED
    BY <2>1, <2>2 DEF Points
<1>3. DOMAIN Points(a) = DOMAIN a /\ DOMAIN Points(b) = DOMAIN b
  BY DEF Points
<1> QED
  BY <1>2, <1>3 DEF ToSet

(* Points keep the tags of the registers they number.                      *)
LEMMA TagsOfPoints ==
  ASSUME NEW regs
  PROVE  {p.tag : p \in ToSet(Points(regs))} = {r.tag : r \in ToSet(regs)}
<1>1. DOMAIN Points(regs) = DOMAIN regs /\ \A k \in DOMAIN regs : Points(regs)[k].tag = regs[k].tag
  BY DEF Points
<1> QED
  BY <1>1 DEF ToSet

(* The registers of a protocol are those of its first group.               *)
LEMMA RegsOfIs ==
  ASSUME NEW groups, IsGroups(groups), NEW proto, HasProto(groups, proto)
  PROVE  \E k \in DOMAIN groups :
           /\ groups[k].proto = proto /\ RegsOf(groups, proto) = groups[k].regs
           /\ \A j \in DOMAIN groups : groups[j].proto = proto => k <= j
<1> DEFINE k == SelectInSeq(groups, LAMBDA g : g.proto = proto)
<1>1. k = GroupPlace(groups, proto)
  BY DEF SelectInSeq, GroupPlace
<1>2. RegsOf(groups, proto) = groups[k].regs
  BY DEF RegsOf
<1> HIDE DEF k
<1>3. IsList(groups)
  BY DEF IsGroups
<1>4. /\ k \in DOMAIN groups /\ groups[k].proto = proto
      /\ \A j \in DOMAIN groups : groups[j].proto = proto => k <= j
  BY <1>1, <1>3, GroupIsFound
<1> QED
  BY <1>2, <1>4

(* A client section asks a device for what it has for a protocol.          *)
LEMMA ClientSectionsAre ==
  ASSUME NEW upstream, IsList(upstream)
  PROVE  /\ IsList(ClientSections(upstream))
         /\ \A c \in ToSet(ClientSections(upstream)) :
              \E u \in ToSet(upstream), p \in Protocols :
                HasProto(registers[u], p) /\ c = Section("client", p, u, RegsOf(registers[u], p))
<1> DEFINE n == Len(upstream)
           seqs == [k \in DOMAIN upstream |-> SectionsFor(upstream[k])]
           T == UNION {ToSet(SectionsFor(upstream[k])) : k \in 1..n}
<1>1. DOMAIN upstream = 1..n /\ n \in Nat
  BY DEF IsList
<1>2. ASSUME NEW u
      PROVE  /\ IsList(SectionsFor(u))
             /\ \A c \in ToSet(SectionsFor(u)) :
                  \E p \in Protocols : HasProto(registers[u], p) /\ c = Section("client", p, u, RegsOf(registers[u], p))
  <2> DEFINE S == {p \in Protocols : HasProto(registers[u], p)}
             protos == Select(<<"modbus", "dnp3">>, S)
  <2>1. <<"modbus", "dnp3">> \in Seq(Protocols)
    BY DEF Protocols
  <2>2. protos \in Seq(Protocols) /\ ToSet(protos) \subseteq S
    <3> HIDE DEF S
    <3>1. protos \in Seq(Protocols) /\ ToSet(protos) = ToSet(<<"modbus", "dnp3">>) \cap S
      BY <2>1, SelectIs
    <3> HIDE DEF protos
    <3> QED
      BY <3>1
  <2> HIDE DEF protos
  <2>3. DOMAIN protos = 1..Len(protos) /\ Len(protos) \in Nat /\ \A k \in DOMAIN protos : protos[k] \in S
    BY <2>2 DEF ToSet
  <2>4. SectionsFor(u) = [k \in DOMAIN protos |-> Section("client", protos[k], u, RegsOf(registers[u], protos[k]))]
    BY DEF SectionsFor, protos
  <2>5. SectionsFor(u) = [k \in 1..Len(protos) |-> SectionsFor(u)[k]]
    BY <2>3, <2>4
  <2>6. IsList(SectionsFor(u))
    BY <2>3, <2>5, FunctionIsSequence DEF IsList
  <2>7. \A c \in ToSet(SectionsFor(u)) : \E p \in S : c = Section("client", p, u, RegsOf(registers[u], p))
    BY <2>3, <2>4 DEF ToSet
  <2> QED
    BY <2>6, <2>7
<1>3. \A k \in 1..n : SectionsFor(upstream[k]) \in Seq(T)
  <2> TAKE k \in 1..n
  <2>1. SectionsFor(upstream[k]) \in Seq(ToSet(SectionsFor(upstream[k])))
    BY <1>2 DEF IsList
  <2>2. ToSet(SectionsFor(upstream[k])) \subseteq T
    OBVIOUS
  <2> HIDE DEF T
  <2> QED
    BY <2>1, <2>2
<1>4. seqs \in Seq(Seq(T))
  <2> HIDE DEF T
  <2> QED
    BY <1>1, <1>3
<1>5. ClientSections(upstream) \in Seq(T)
  <2>1. ClientSections(upstream) = FlattenSeq(seqs)
    BY DEF ClientSections
  <2> HIDE DEF T, seqs
  <2> QED
    BY <1>4, <2>1, FlattenIs
<1>6. IsList(ClientSections(upstream)) /\ ToSet(ClientSections(upstream)) \subseteq T
  <2> HIDE DEF T
  <2> QED
    BY <1>5, ListOfSequence
<1>7. \A c \in T : \E u \in ToSet(upstream) : c \in ToSet(SectionsFor(u))
  BY <1>1 DEF ToSet
<1> HIDE DEF T
<1> QED
  BY <1>2, <1>6, <1>7

(* The server sections of a FEP have all it has collected.                 *)
LEMMA ServerSectionsAre ==
  ASSUME NEW f, f.downstream \subseteq Protocols
  PROVE  /\ IsList(ServerSections(f)) /\ ServerSections(f) # << >>
         /\ \A s \in ToSet(ServerSections(f)) :
              \E p \in Protocols : s = Section("server", p, f.hostname, AllRegs(registers[f.hostname]))
<1> DEFINE S == {p \in Protocols : Serves(f, p)}
           protos == Select(<<"dnp3", "modbus">>, S)
           all == AllRegs(registers[f.hostname])
<1>1. <<"dnp3", "modbus">> \in Seq(Protocols) /\ ToSet(<<"dnp3", "modbus">>) = Protocols
  <2>1. <<"dnp3", "modbus">> \in Seq(Protocols)
    BY DEF Protocols
  <2>2. ToSet(<<"dnp3", "modbus">>) = Protocols
    BY ShortLists DEF Protocols
  <2> QED
    BY <2>1, <2>2
<1>2. S # {} /\ S \subseteq Protocols
  BY DEF Serves, Protocols
<1>3. protos \in Seq(Protocols) /\ ToSet(protos) = S
  <2>1. protos \in Seq(Protocols) /\ ToSet(protos) = ToSet(<<"dnp3", "modbus">>) \cap S
    <3> HIDE DEF S
    <3> QED
      BY <1>1, SelectIs
  <2> HIDE DEF protos, S
  <2> QED
    BY <1>1, <1>2, <2>1
<1>4. ServerSections(f) = [k \in DOMAIN protos |-> Section("server", protos[k], f.hostname, all)]
  BY DEF ServerSections
<1> HIDE DEF protos, S, all
<1>5. DOMAIN protos = 1..Len(protos) /\ Len(protos) \in Nat /\ DOMAIN protos # {} /\ \A k \in DOMAIN protos : protos[k] \in Protocols
  BY <1>2, <1>3 DEF ToSet
<1>6. ServerSections(f) = [k \in 1..Len(protos) |-> ServerSections(f)[k]]
  BY <1>4, <1>5
<1>7. IsList(ServerSections(f)) /\ DOMAIN ServerSections(f) = DOMAIN protos
  BY <1>4, <1>5, <1>6, FunctionIsSequence DEF IsList
<1>8. \A s \in ToSet(ServerSections(f)) : \E p \in Protocols : s = Section("server", p, f.hostname, all)
  BY <1>4, <1>5 DEF ToSet
<1>9. ServerSections(f) # << >>
  BY <1>5, <1>7
<1> QED
  BY <1>7, <1>8, <1>9 DEF all

-----------------------------------------------------------------------------
(* When the app is done, every device has been handled.                    *)
LEMMA AllHandled ==
  ASSUME OtInv, OtSimDone
  PROVE  /\ scenario \in Scenarios /\ RegistersInv
         /\ \A u \in processed :
              \/ \E k \in DOMAIN scenario.servers : \E s \in {scenario.servers[k]} : u = s.hostname /\ ServerIs(s)
              \/ \E k \in DOMAIN scenario.feps : \E f \in {scenario.feps[k]} : u = f.hostname /\ FepIs(f) /\ CollectedBy(f)
              \/ \E k \in DOMAIN scenario.clients : \E c \in {scenario.clients[k]} : u = c.hostname /\ ClientIs(c)
         /\ DeviceNames \subseteq processed
<1>1. IsOtSim /\ scenario \in Scenarios /\ step.loop = "done"
  BY DEF OtInv, OtSimDone, IsOtSim, At
<1>2. RegistersInv /\ ProcessedInv /\ ServersInv /\ CollectedInv /\ FepsInv /\ ClientsInv
  BY <1>1 DEF OtInv, DevicesInv
<1>3. \A k : HandledServer(k) /\ HandledFep(k) /\ HandledClient(k)
  BY <1>1 DEF HandledServer, HandledFep, HandledClient
<1>4. /\ \A k \in DOMAIN scenario.servers : \A s \in {scenario.servers[k]} : ServerIs(s)
      /\ \A k \in DOMAIN scenario.feps : \A f \in {scenario.feps[k]} : FepIs(f) /\ CollectedBy(f)
      /\ \A k \in DOMAIN scenario.clients : \A c \in {scenario.clients[k]} : ClientIs(c)
  <2>1. \A k \in DOMAIN scenario.feps : \A f \in {scenario.feps[k]} : FepIs(f)
    BY <1>2, <1>3 DEF FepsInv
  <2>2. \A k \in DOMAIN scenario.feps : \A f \in {scenario.feps[k]} : CollectedBy(f)
    BY <1>2, <2>1 DEF CollectedInv, FepIs
  <2> QED
    BY <1>2, <1>3, <2>1, <2>2 DEF ServersInv, ClientsInv
<1>5. ASSUME NEW u \in processed
      PROVE  \/ \E k \in DOMAIN scenario.servers : \E s \in {scenario.servers[k]} : u = s.hostname /\ ServerIs(s)
             \/ \E k \in DOMAIN scenario.feps : \E f \in {scenario.feps[k]} : u = f.hostname /\ FepIs(f) /\ CollectedBy(f)
             \/ \E k \in DOMAIN scenario.clients : \E c \in {scenario.clients[k]} : u = c.hostname /\ ClientIs(c)
  BY <1>2, <1>4 DEF ProcessedInv, Names
<1>6. DeviceNames \subseteq processed
  BY <1>4 DEF DeviceNames, DevicesOf, ToSet, ServerIs, FepIs, ClientIs
<1> QED
  BY <1>1, <1>2, <1>5, <1>6

(* The sections of a FEP.                                                  *)
LEMMA FepSectionsAre ==
  ASSUME scenario \in Scenarios, NEW k \in DOMAIN scenario.feps, NEW f \in {scenario.feps[k]}, FepIs(f)
  PROVE  /\ ToSet(files[<<"ot-sim", f.hostname>>].sections) = ToSet(ClientSections(f.upstream)) \cup ToSet(ServerSections(f))
         /\ IsList(f.upstream) /\ f.downstream \subseteq Protocols
<1>1. IsList(f.upstream) /\ f.downstream \subseteq Protocols
  BY ScenarioIs, DeviceIs
<1>2. files[<<"ot-sim", f.hostname>>].sections = ClientSections(f.upstream) \o ServerSections(f)
  BY DEF FepIs, HasConfig, FepConfig
<1> QED
  BY <1>1, <1>2, ClientSectionsAre, ServerSectionsAre, ListOfConcat

(* What a device serves is among what is known of it, and what it lists    *)
(* first comes first.                                                      *)
LEMMA Offered ==
  ASSUME OtInv, OtSimDone, NEW u \in processed, NEW s \in Sections(u, "server")
  PROVE  \E regs : /\ IsList(regs) /\ s.points = Points(regs) /\ ToSet(regs) \subseteq RegsIn(registers[u])
                   /\ HasProto(registers[u], s.proto) /\ ServedFirst(u, s.proto) => Begins(RegsOf(registers[u], s.proto), regs)
<1>1. /\ s \in ToSet(files[<<"ot-sim", u>>].sections) /\ s.mode = "server"
      /\ scenario \in Scenarios /\ IsGroups(registers[u])
  BY AllHandled DEF Sections, RegistersInv
<1>2. \A r : IsList(r) => Begins(r, r)
  BY DEF Begins, IsList
<1>3. ASSUME NEW k \in DOMAIN scenario.servers, NEW d \in {scenario.servers[k]}, u = d.hostname, ServerIs(d)
      PROVE  \E regs : /\ IsList(regs) /\ s.points = Points(regs) /\ ToSet(regs) \subseteq RegsIn(registers[u])
                       /\ HasProto(registers[u], s.proto) /\ ServedFirst(u, s.proto) => Begins(RegsOf(registers[u], s.proto), regs)
  <2> DEFINE groups == registers[u]
  <2>1. groups = Groups(d) /\ files[<<"ot-sim", u>>] = ServerConfig(d)
    BY <1>3 DEF ServerIs, HasConfig
  <2>2. OncePerProtocol(groups)
    BY <2>1, ServerProtocolsDiffer
  <2>3. PICK j \in DOMAIN groups : s = Section("server", groups[j].proto, d.hostname, groups[j].regs)
    BY <1>1, <2>1 DEF ServerConfig, ToSet
  <2>4. s.points = Points(groups[j].regs) /\ s.proto = groups[j].proto
    BY <2>3 DEF Section
  <2>5. IsList(groups[j].regs) /\ ToSet(groups[j].regs) \subseteq RegsIn(groups)
    BY <1>1, <2>3 DEF IsGroups, IsGroup, RegsIn
  <2> HIDE DEF groups
  <2>6. HasProto(groups, s.proto) => RegsOf(groups, s.proto) = groups[j].regs
    <3> SUFFICES ASSUME HasProto(groups, s.proto) PROVE RegsOf(groups, s.proto) = groups[j].regs
      OBVIOUS
    <3>1. IsGroups(groups)
      BY <1>1 DEF groups
    <3>2. PICK i \in DOMAIN groups : groups[i].proto = s.proto /\ RegsOf(groups, s.proto) = groups[i].regs
      BY <3>1, RegsOfIs
    <3>3. i = j
      BY <2>2, <2>3, <2>4, <3>2 DEF OncePerProtocol
    <3> QED
      BY <3>2, <3>3
  <2>7. Begins(groups[j].regs, groups[j].regs)
    BY <1>2, <2>5
  <2>8. HasProto(groups, s.proto) => Begins(RegsOf(groups, s.proto), groups[j].regs)
    BY <2>6, <2>7
  <2> QED
    BY <2>4, <2>5, <2>8 DEF groups
<1>4. ASSUME NEW k \in DOMAIN scenario.feps, NEW f \in {scenario.feps[k]}, u = f.hostname, FepIs(f)
      PROVE  \E regs : /\ IsList(regs) /\ s.points = Points(regs) /\ ToSet(regs) \subseteq RegsIn(registers[u])
                       /\ HasProto(registers[u], s.proto) /\ ServedFirst(u, s.proto) => Begins(RegsOf(registers[u], s.proto), regs)
  <2>1. /\ ToSet(files[<<"ot-sim", u>>].sections) = ToSet(ClientSections(f.upstream)) \cup ToSet(ServerSections(f))
        /\ IsList(f.upstream) /\ f.downstream \subseteq Protocols
    BY <1>1, <1>4, FepSectionsAre
  <2>2. s \notin ToSet(ClientSections(f.upstream))
    <3> SUFFICES ASSUME s \in ToSet(ClientSections(f.upstream)) PROVE FALSE
      OBVIOUS
    <3>1. PICK v \in ToSet(f.upstream), p \in Protocols :
            HasProto(registers[v], p) /\ s = Section("client", p, v, RegsOf(registers[v], p))
      BY <2>1, ClientSectionsAre
    <3> QED
      BY <1>1, <3>1 DEF Section
  <2>3. PICK p : s = Section("server", p, f.hostname, AllRegs(registers[f.hostname]))
    BY <1>1, <2>1, <2>2, ServerSectionsAre
  <2> DEFINE groups == registers[u]
  <2>4. PICK all : all = AllRegs(groups)
    OBVIOUS
  <2>5. s.points = Points(all)
    BY <1>4, <2>3, <2>4 DEF Section
  <2>6. IsList(all) /\ ToSet(all) = RegsIn(groups) /\ (groups # << >> => Begins(groups[1].regs, all))
    BY <1>1, <2>4, AllRegsAre
  <2>7. ASSUME HasProto(groups, s.proto), ServedFirst(u, s.proto)
        PROVE  Begins(RegsOf(groups, s.proto), all)
    <3>1. PICK i \in DOMAIN groups : /\ groups[i].proto = s.proto /\ RegsOf(groups, s.proto) = groups[i].regs
                                     /\ \A j \in DOMAIN groups : groups[j].proto = s.proto => i <= j
      BY <1>1, <2>7, RegsOfIs
    <3>2. groups # << >> /\ groups[1].proto = s.proto
      BY <2>7 DEF ServedFirst
    <3>3. DOMAIN groups = 1..Len(groups) /\ Len(groups) \in Nat
      BY <1>1 DEF IsGroups, IsList
    <3>4. 1 \in DOMAIN groups
      BY <3>1, <3>3
    <3>5. i = 1
      BY <3>1, <3>2, <3>3, <3>4
    <3> QED
      BY <2>6, <3>1, <3>2, <3>5
  <2> QED
    BY <2>5, <2>6, <2>7
<1>5. ASSUME NEW k \in DOMAIN scenario.clients, NEW c \in {scenario.clients[k]}, u = c.hostname, ClientIs(c)
      PROVE  FALSE
  <2>1. files[<<"ot-sim", u>>].sections = ClientSections(c.upstream)
    BY <1>5 DEF ClientIs, HasConfig, ClientConfig
  <2>2. IsList(c.upstream)
    BY <1>1, <1>5, ScenarioIs, DeviceIs
  <2>3. PICK v \in ToSet(c.upstream), p \in Protocols :
          HasProto(registers[v], p) /\ s = Section("client", p, v, RegsOf(registers[v], p))
    BY <1>1, <2>1, <2>2, ClientSectionsAre
  <2> QED
    BY <1>1, <2>3 DEF Section
<1> QED
  BY <1>3, <1>4, <1>5, AllHandled

(* What a device asks for is what the device it asks has.                  *)
LEMMA Asked ==
  ASSUME OtInv, OtSimDone, NEW h \in processed, NEW c \in Sections(h, "client")
  PROVE  c.at \in processed /\ HasProto(registers[c.at], c.proto) /\ c.points = Points(RegsOf(registers[c.at], c.proto))
<1>1. /\ c \in ToSet(files[<<"ot-sim", h>>].sections) /\ c.mode = "client"
      /\ scenario \in Scenarios
  BY AllHandled DEF Sections
<1>2. ASSUME NEW upstream, IsList(upstream), ToSet(upstream) \subseteq processed, c \in ToSet(ClientSections(upstream))
      PROVE  c.at \in processed /\ HasProto(registers[c.at], c.proto) /\ c.points = Points(RegsOf(registers[c.at], c.proto))
  <2>1. PICK u \in ToSet(upstream), p \in Protocols : HasProto(registers[u], p) /\ c = Section("client", p, u, RegsOf(registers[u], p))
    BY <1>2, ClientSectionsAre
  <2>2. c.at = u /\ c.proto = p /\ c.points = Points(RegsOf(registers[u], p))
    BY <2>1 DEF Section
  <2> QED
    BY <1>2, <2>1, <2>2
<1>3. ASSUME NEW k \in DOMAIN scenario.servers, NEW d \in {scenario.servers[k]}, h = d.hostname, ServerIs(d)
      PROVE  FALSE
  <2>1. files[<<"ot-sim", h>>] = ServerConfig(d)
    BY <1>3 DEF ServerIs, HasConfig
  <2>2. \E p, regs : c = Section("server", p, d.hostname, regs)
    BY <1>1, <2>1 DEF ServerConfig, ToSet
  <2> QED
    BY <1>1, <2>2 DEF Section
<1>4. ASSUME NEW k \in DOMAIN scenario.feps, NEW f \in {scenario.feps[k]}, h = f.hostname, FepIs(f), CollectedBy(f)
      PROVE  c.at \in processed /\ HasProto(registers[c.at], c.proto) /\ c.points = Points(RegsOf(registers[c.at], c.proto))
  <2>1. /\ ToSet(files[<<"ot-sim", h>>].sections) = ToSet(ClientSections(f.upstream)) \cup ToSet(ServerSections(f))
        /\ IsList(f.upstream) /\ f.downstream \subseteq Protocols
    BY <1>1, <1>4, FepSectionsAre
  <2>2. c \notin ToSet(ServerSections(f))
    <3> SUFFICES ASSUME c \in ToSet(ServerSections(f)) PROVE FALSE
      OBVIOUS
    <3>1. PICK p : c = Section("server", p, f.hostname, AllRegs(registers[f.hostname]))
      BY <2>1, ServerSectionsAre
    <3> QED
      BY <1>1, <3>1 DEF Section
  <2> QED
    BY <1>1, <1>2, <1>4, <2>1, <2>2 DEF CollectedBy
<1>5. ASSUME NEW k \in DOMAIN scenario.clients, NEW d \in {scenario.clients[k]}, h = d.hostname, ClientIs(d)
      PROVE  c.at \in processed /\ HasProto(registers[c.at], c.proto) /\ c.points = Points(RegsOf(registers[c.at], c.proto))
  <2>1. files[<<"ot-sim", h>>].sections = ClientSections(d.upstream) /\ ToSet(d.upstream) \subseteq processed
    BY <1>5 DEF ClientIs, HasConfig, ClientConfig
  <2>2. IsList(d.upstream)
    BY <1>1, <1>5, ScenarioIs, DeviceIs
  <2> QED
    BY <1>1, <1>2, <2>1, <2>2
<1> QED
  BY <1>3, <1>4, <1>5, AllHandled

(* Both ends of a connection count out the same addresses.                 *)
LEMMA AgreeWhenDone ==
  ASSUME OtInv
  PROVE  AddressesAgree
<1> SUFFICES ASSUME OtSimDone, NEW h \in DeviceNames, NEW c \in Sections(h, "client"), NEW s \in Sections(c.at, "server"),
                    s.proto = c.proto, ServedFirst(c.at, c.proto)
             PROVE  ToSet(c.points) \subseteq ToSet(s.points)
  BY DEF AddressesAgree
<1>1. h \in processed
  BY AllHandled
<1>2. c.at \in processed /\ HasProto(registers[c.at], c.proto) /\ c.points = Points(RegsOf(registers[c.at], c.proto))
  BY <1>1, Asked
<1>3. PICK u, p : u = c.at /\ p = c.proto
  OBVIOUS
<1>4. PICK regs : IsList(regs) /\ s.points = Points(regs) /\ Begins(RegsOf(registers[u], p), regs)
  <2>1. u \in processed /\ s \in Sections(u, "server") /\ s.proto = p /\ HasProto(registers[u], p) /\ ServedFirst(u, p)
    BY <1>2, <1>3
  <2> QED
    BY <2>1, Offered
<1>5. IsList(RegsOf(registers[u], p))
  <2>1. IsGroups(registers[u])
    BY <1>2, <1>3, AllHandled DEF RegistersInv
  <2>2. \E k \in DOMAIN registers[u] : RegsOf(registers[u], p) = registers[u][k].regs
    BY <1>2, <1>3, <2>1, RegsOfIs
  <2> QED
    BY <2>1, <2>2 DEF IsGroups, IsGroup
<1> QED
  BY <1>2, <1>3, <1>4, <1>5, PointsOfBeginning

(* What a FEP serves includes what those upstream of it serve.             *)
LEMMA ShownWhenDone ==
  ASSUME OtInv
  PROVE  NothingUpstreamIsHidden
<1> SUFFICES ASSUME OtSimDone, NEW f \in ToSet(scenario.feps), NEW u \in ToSet(f.upstream), NEW tag \in Tags(Sections(u, "server"))
             PROVE  tag \in Tags(Sections(f.hostname, "server"))
  BY DEF NothingUpstreamIsHidden
<1>1. PICK k \in DOMAIN scenario.feps : f = scenario.feps[k]
  BY DEF ToSet
<1>2. scenario \in Scenarios /\ RegistersInv /\ FepIs(f) /\ CollectedBy(f)
  <2>1. IsOtSim /\ scenario \in Scenarios /\ step.loop = "done"
    BY DEF OtInv, OtSimDone, IsOtSim, At
  <2>2. RegistersInv /\ FepsInv /\ CollectedInv /\ HandledFep(k)
    BY <2>1 DEF OtInv, DevicesInv, HandledFep
  <2>3. FepIs(f)
    BY <1>1, <2>2 DEF FepsInv
  <2> QED
    BY <1>1, <2>1, <2>2, <2>3 DEF CollectedInv, FepIs
<1>3. PICK s \in Sections(u, "server") : \E p \in ToSet(s.points) : tag = p.tag
  BY DEF Tags
<1>4. u \in processed
  BY <1>2 DEF CollectedBy
<1>5. PICK regs : s.points = Points(regs) /\ ToSet(regs) \subseteq RegsIn(registers[u])
  BY <1>3, <1>4, Offered
<1>6. PICK r \in RegsIn(registers[u]) : tag = r.tag
  <2>1. tag \in {p.tag : p \in ToSet(Points(regs))}
    BY <1>3, <1>5
  <2>2. tag \in {r.tag : r \in ToSet(regs)}
    BY <2>1, TagsOfPoints
  <2> QED
    BY <1>5, <2>2
<1>7. /\ ToSet(files[<<"ot-sim", f.hostname>>].sections) = ToSet(ClientSections(f.upstream)) \cup ToSet(ServerSections(f))
      /\ IsList(f.upstream) /\ f.downstream \subseteq Protocols
  BY <1>1, <1>2, FepSectionsAre
<1>8. PICK groups : groups = registers[f.hostname]
  OBVIOUS
<1>9. IsGroups(groups) /\ r \in RegsIn(groups)
  <2>1. groups = UpstreamGroups(f) /\ ToSet(f.upstream) \subseteq processed
    BY <1>2, <1>8 DEF CollectedBy
  <2>2. IsGroups(groups) /\ RegsIn(groups) = UNION {RegsIn(registers[v]) : v \in ToSet(f.upstream)}
    BY <1>2, <1>7, <2>1, UpstreamGroupsAre
  <2> QED
    BY <1>6, <2>2
<1>10. PICK all : all = AllRegs(groups)
  OBVIOUS
<1>11. r \in ToSet(all)
  BY <1>9, <1>10, AllRegsAre
<1>12. PICK t \in ToSet(ServerSections(f)) : t.mode = "server" /\ t.points = Points(all)
  <2>1. IsList(ServerSections(f)) /\ ServerSections(f) # << >>
    BY <1>7, ServerSectionsAre
  <2>2. ServerSections(f)[1] \in ToSet(ServerSections(f))
    BY <2>1 DEF IsList, ToSet
  <2>3. PICK t \in ToSet(ServerSections(f)) : \E p \in Protocols : t = Section("server", p, f.hostname, AllRegs(registers[f.hostname]))
    BY <1>7, <2>2, ServerSectionsAre
  <2>4. t.mode = "server" /\ t.points = Points(all)
    BY <1>8, <1>10, <2>3 DEF Section
  <2> QED
    BY <2>4
<1>13. t \in Sections(f.hostname, "server")
  BY <1>7, <1>12 DEF Sections
<1>14. \E p \in ToSet(t.points) : tag = p.tag
  BY <1>6, <1>11, <1>12, TagsOfPoints
<1> QED
  BY <1>13, <1>14 DEF Tags

-----------------------------------------------------------------------------
(* A device asks another for a register under the address the other has it *)
(* under, over the protocol the other lists first.                         *)
THEOREM AddressesMeet == Spec => []AddressesAgree
<1>1. OtInv => AddressesAgree
  BY AgreeWhenDone
<1> QED
  BY <1>1, OtInvHolds, PTL

(* However deep FEPs are nested and in whatever order they are listed, each *)
(* serves every tag that is served upstream of it.                         *)
THEOREM NothingIsHidden == Spec => []NothingUpstreamIsHidden
<1>1. OtInv => NothingUpstreamIsHidden
  BY ShownWhenDone
<1> QED
  BY <1>1, OtInvHolds, PTL

-----------------------------------------------------------------------------
(* What may be put into the nodes of a scenario.                           *)
HasBase(sc) ==
  \E b \in {sc.broker} \cup {s.broker : s \in ToSet(sc.servers)} : b # None /\ b.base # None

(* Addresses as the scenario's topology has them; no app changes them.     *)
HomeIp(sc, ref) == IF ref.host # None THEN ExtractNodeInterfaceIp(sc.topology, ref.host, ref.iface) ELSE ref.ip

BrokerFor(sc, s) == IF s.broker # None THEN s.broker ELSE sc.broker

HomeAddress(sc, broker) ==
  LET ip == HomeIp(sc, broker.at)
  IN  IF broker.at.host = None THEN broker.at
      ELSE IpRef(ip, IF sc.root # None /\ ip # HomeIp(sc, sc.root) THEN SubBrokerPort ELSE None)

Awaits(sc, s) == HasIo(s) /\ sc.root = None /\ HomeAddress(sc, BrokerFor(sc, s)).port # SubBrokerPort

(* The wait scripts after one server more.                                 *)
WaitsWith(sc, waiting, s) ==
  LET addr == HomeAddress(sc, BrokerFor(sc, s))
  IN  IF Awaits(sc, s) /\ ~Contains(waiting, addr) THEN Append(waiting, addr) ELSE waiting

HomeAddresses(sc) == {HomeAddress(sc, BrokerFor(sc, s)) : s \in ToSet(sc.servers)}

WaitsStep(sc) ==
  [x \in Seq(HomeAddresses(sc)) \X (1..Len(sc.servers)) |-> WaitsWith(sc, x[1], sc.servers[x[2]])]

(* The wait scripts after each of the servers: the same at every start.    *)
WaitsAfter(sc) == CHOOSE f : Chain(f, Seq(HomeAddresses(sc)), << >>, Len(sc.servers), WaitsStep(sc))

WaitFileFor(waiting, addr) ==
  LET k == SelectInSeq(waiting, LAMBDA a : a = addr)
  IN  <<"ot-sim-wait", IF k = 0 THEN Len(waiting) + 1 ELSE k>>

WaitFileOf(sc, k) == WaitFileFor(WaitsAfter(sc)[k - 1], HomeAddress(sc, BrokerFor(sc, sc.servers[k])))

(* What the apps themselves put into a host: one file for each place,      *)
(* unless both start a broker there.                                       *)
OwnAdded(sc, hostname) ==
  {ConfigInject(hostname)}
  \cup (IF sc.root # None THEN {WaitInject(WaitFileOfHelics)}
        ELSE {WaitInject(WaitFileOf(sc, k)) : k \in {j \in DOMAIN sc.servers : sc.servers[j].hostname = hostname}})
  \cup (IF HasBase(sc) THEN {BrokerInject(OtBrokerFile(hostname))} ELSE {})
  \cup (IF sc.root # None THEN {BrokerInject(BrokerFile(hostname))} ELSE {})

Added(sc, hostname) ==
  (UNION {ToSet(d.injects) : d \in {x1 \in DevicesOf(sc) : x1.hostname = hostname}}) \cup OwnAdded(sc, hostname)

Possible(sc, j) ==
  ToSet(sc.topology[j].injects)
  \cup (IF j = NodeIndex(sc.topology, sc.topology[j].hostname) THEN Added(sc, sc.topology[j].hostname) ELSE {})

NoTwice(list) == \A i, j \in DOMAIN list : list[i] = list[j] => i = j

NodePlaced(sc, j, n) ==
  /\ {"boots", "ifaces", "labels"} \subseteq DOMAIN n
  /\ n.hostname = sc.topology[j].hostname /\ n.ifaces = sc.topology[j].ifaces
  /\ n.federate # None => IsList(n.federate)
  /\ IsList(n.injects) /\ NoTwice(n.injects) /\ ToSet(n.injects) \subseteq Possible(sc, j)

(* A topology an app may have made of the scenario's.                      *)
Placed(sc, ns) ==
  /\ IsTopology(ns) /\ DOMAIN ns = DOMAIN sc.topology
  /\ \A j \in DOMAIN ns : NodePlaced(sc, j, ns[j])

(* One field of a node is changed.                                         *)
LEMMA ChangePlaced ==
  ASSUME NEW sc, NEW ns, Placed(sc, ns), NEW k, NEW field \in {"federate", "injects", "labels", "boots"}, NEW value,
         NEW ms, ms = [ns EXCEPT ![k][field] = value],
         field = "federate" => value = None \/ IsList(value),
         field = "injects" /\ k \in DOMAIN ns => IsList(value) /\ NoTwice(value) /\ ToSet(value) \subseteq Possible(sc, k)
  PROVE  Placed(sc, ms)
<1>1. /\ ns = [j \in DOMAIN ns |-> ns[j]] /\ DOMAIN ns = 1..Len(ns) /\ Len(ns) \in Nat
      /\ \A j \in DOMAIN ns : ns[j] = [f \in DOMAIN ns[j] |-> ns[j][f]] /\ {"hostname", "federate", "injects"} \subseteq DOMAIN ns[j]
  BY DEF Placed, IsTopology, IsNode
<1>2. DOMAIN ms = DOMAIN ns /\ ms = [j \in DOMAIN ns |-> ms[j]] /\ \A j \in DOMAIN ns : ms[j] = IF j = k THEN [ns[j] EXCEPT ![field] = value] ELSE ns[j]
  BY <1>1
<1>3. ASSUME NEW j \in DOMAIN ns
      PROVE  IsNode(ms[j]) /\ NodePlaced(sc, j, ms[j])
  <2>1. IsNode(ns[j]) /\ NodePlaced(sc, j, ns[j])
    BY DEF Placed, IsTopology
  <2>2. CASE j # k
    BY <1>2, <2>1, <2>2
  <2>3. CASE j = k
    <3>1. ms[j] = [ns[j] EXCEPT ![field] = value]
      BY <1>2, <2>3
    <3>2. DOMAIN ms[j] = DOMAIN ns[j] /\ ms[j] = [f \in DOMAIN ns[j] |-> IF f = field THEN value ELSE ns[j][f]]
      BY <1>1, <3>1
    <3>3. IsNode(ms[j])
      BY <2>1, <3>2 DEF IsNode
    <3>4. /\ {"boots", "ifaces", "labels", "hostname", "federate", "injects"} \subseteq DOMAIN ns[j]
      BY <2>1 DEF IsNode, NodePlaced
    <3>5. ms[j].hostname = ns[j].hostname /\ ms[j].ifaces = ns[j].ifaces
      BY <3>2, <3>4
    <3>6. ms[j].federate = IF field = "federate" THEN value ELSE ns[j].federate
      BY <3>2, <3>4
    <3>7. ms[j].injects = IF field = "injects" THEN value ELSE ns[j].injects
      BY <3>2, <3>4
    <3>8. ms[j].federate # None => IsList(ms[j].federate)
      BY <2>1, <3>6 DEF NodePlaced
    <3>9. IsList(ms[j].injects) /\ NoTwice(ms[j].injects) /\ ToSet(ms[j].injects) \subseteq Possible(sc, j)
      BY <2>1, <2>3, <3>7 DEF NodePlaced
    <3>10. NodePlaced(sc, j, ms[j])
      BY <2>1, <3>2, <3>4, <3>5, <3>8, <3>9 DEF NodePlaced
    <3> QED
      BY <3>3, <3>10
  <2> QED
    BY <2>2, <2>3
<1>4. ms \in Seq(ToSet(ms))
  <2>1. PICK n \in Nat : n = Len(ns)
    BY <1>1
  <2>2. ms = [j \in 1..n |-> ms[j]]
    BY <1>1, <1>2, <2>1
  <2>3. \A f : f = [j \in 1..n |-> f[j]] => f \in Seq(ToSet(f))
    BY FunctionIsSequence
  <2> QED
    BY <2>2, <2>3
<1> QED
  BY <1>2, <1>3, <1>4 DEF Placed, IsTopology

(* Hosts are where they are in the scenario.                               *)
LEMMA SameHosts ==
  ASSUME NEW sc, IsTopology(sc.topology), NEW ns, Placed(sc, ns)
  PROVE  \A hostname : /\ NodeIndex(ns, hostname) = NodeIndex(sc.topology, hostname)
                       /\ \A iface : ExtractNodeInterfaceIp(ns, hostname, iface) = ExtractNodeInterfaceIp(sc.topology, hostname, iface)
<1>1. SameMachines(sc.topology, ns)
  BY DEF SameMachines, Placed, NodePlaced
<1> QED
  BY <1>1, SameAddresses

(* An inject that may be there is put into a node.                         *)
LEMMA AddInjectPlaced ==
  ASSUME NEW sc, IsTopology(sc.topology), NEW ns, Placed(sc, ns), NEW hostname, NEW inject \in Added(sc, hostname)
  PROVE  Placed(sc, AddInject(ns, hostname, inject))
<1> DEFINE k == NodeIndex(ns, hostname)
           old == ns[k].injects
           new == IF Contains(old, inject) THEN old ELSE Append(old, inject)
<1>1. AddInject(ns, hostname, inject) = [ns EXCEPT ![k]["injects"] = new]
  BY DEF AddInject
<1>2. ASSUME k \in DOMAIN ns
      PROVE  IsList(new) /\ NoTwice(new) /\ ToSet(new) \subseteq Possible(sc, k)
  <2>1. IsList(old) /\ NoTwice(old) /\ ToSet(old) \subseteq Possible(sc, k) /\ sc.topology[k].hostname = ns[k].hostname
    BY <1>2 DEF Placed, NodePlaced
  <2>2. k = NodeIndex(sc.topology, hostname)
    BY SameHosts
  <2>3. ns[k].hostname = hostname
    <3>1. k # 0
      BY <1>2 DEF Placed, IsTopology
    <3> QED
      BY <3>1, NodeIsFound DEF Placed
  <2>4. inject \in Possible(sc, k)
    BY <2>1, <2>2, <2>3 DEF Possible
  <2> HIDE DEF old, k
  <2>5. CASE Contains(old, inject)
    BY <2>1, <2>5
  <2>6. CASE ~Contains(old, inject)
    <3>1. new = Append(old, inject)
      BY <2>6
    <3>2. \A i \in DOMAIN old : old[i] # inject
      BY <2>1, <2>6 DEF Contains, IsList
    <3>3. IsList(new) /\ ToSet(new) = ToSet(old) \cup {inject}
      BY <2>1, <3>1, ListOfAppend
    <3>4. /\ DOMAIN old = 1..Len(old) /\ Len(old) \in Nat /\ DOMAIN new = 1..(Len(old) + 1)
          /\ new[Len(old) + 1] = inject /\ \A i \in DOMAIN old : new[i] = old[i]
      BY <2>1, <3>1 DEF IsList
    <3> HIDE DEF new
    <3>5. \A i \in DOMAIN new : i \in DOMAIN old \/ i = Len(old) + 1
      BY <3>4
    <3>6. NoTwice(new)
      BY <2>1, <3>2, <3>4, <3>5 DEF NoTwice
    <3> QED
      BY <2>1, <2>4, <3>3, <3>6
  <2> QED
    BY <2>5, <2>6
<1> HIDE DEF k, new
<1> QED
  BY <1>1, <1>2, ChangePlaced

(* So are several.                                                         *)
LEMMA AddInjectsPlaced ==
  ASSUME NEW sc, IsTopology(sc.topology), NEW ns, Placed(sc, ns), NEW hostname,
         NEW injects, IsList(injects), ToSet(injects) \subseteq Added(sc, hostname)
  PROVE  Placed(sc, AddInjects(ns, hostname, injects))
<1> DEFINE n == Len(injects)
<1>1. n \in Nat /\ DOMAIN injects = 1..n /\ injects \in Seq(ToSet(injects)) /\ \A k \in 1..n : injects[k] \in Added(sc, hostname)
  BY DEF IsList, ToSet
<1>2. PICK f : /\ f[0] = ns
               /\ \A k \in 1..n : f[k] = AddInject(f[k - 1], hostname, injects[k])
               /\ AddInjects(ns, hostname, injects) = f[n]
  BY <1>1, AddingSteps
<1> DEFINE S == {k \in Nat : k <= n => Placed(sc, f[k])}
<1>3. 0 \in S
  BY <1>2
<1>4. ASSUME NEW k \in Nat, k \in S
      PROVE  k + 1 \in S
  <2> SUFFICES ASSUME k + 1 <= n
               PROVE  Placed(sc, f[k + 1])
    OBVIOUS
  <2>1. f[k + 1] = AddInject(f[k], hostname, injects[k + 1]) /\ injects[k + 1] \in Added(sc, hostname)
    BY <1>1, <1>2
  <2>2. Placed(sc, f[k])
    BY <1>1, <1>4
  <2> QED
    BY <2>1, <2>2, AddInjectPlaced
<1>5. n \in S
  <2> HIDE DEF S
  <2> QED
    BY <1>1, <1>3, <1>4, NaturalInduction
<1> QED
  BY <1>1, <1>2, <1>5

(* One turn of the loop over all nodes.                                    *)
Given(ms, n, injects) ==
  IF n.hostname \in DOMAIN injects THEN AddInject(ms, n.hostname, injects[n.hostname]) ELSE ms

(* The loop over all nodes.                                                *)
Giving(g, injects, ns, n) ==
  g = [s \in SUBSET (1..n) |-> IF s = {} THEN ns ELSE Given(g[s \ {Max(s)}], ns[Max(s)], injects)]

(* There is one for every length.                                          *)
LEMMA GivingExists ==
  ASSUME NEW injects, NEW ns
  PROVE  \A n \in Nat : \E g : Giving(g, injects, ns, n)
<1> DEFINE S == {n \in Nat : \E g : Giving(g, injects, ns, n)}
<1>1. 0 \in S
  <2> DEFINE g == [s \in SUBSET (1..0) |-> ns]
  <2>1. \A s \in SUBSET (1..0) : s = {}
    OBVIOUS
  <2>2. Giving(g, injects, ns, 0)
    BY <2>1 DEF Giving
  <2> QED
    BY <2>2
<1>2. \A n \in Nat : n \in S => n + 1 \in S
  <2> SUFFICES ASSUME NEW n \in Nat, NEW f, Giving(f, injects, ns, n)
               PROVE  \E g : Giving(g, injects, ns, n + 1)
    OBVIOUS
  <2> DEFINE g == [s \in SUBSET (1..(n + 1)) |->
                    IF n + 1 \in s THEN Given(f[s \ {n + 1}], ns[n + 1], injects) ELSE f[s]]
  <2>1. \A s \in SUBSET (1..(n + 1)) : s \ {n + 1} \in SUBSET (1..n) /\ (n + 1 \notin s => s \in SUBSET (1..n))
    OBVIOUS
  <2>2. ASSUME NEW s \in SUBSET (1..(n + 1))
        PROVE  g[s] = IF s = {} THEN ns ELSE Given(g[s \ {Max(s)}], ns[Max(s)], injects)
    <3>1. CASE n + 1 \in s
      <4>1. Max(s) = n + 1 /\ s # {}
        BY <3>1, MaxIsLast
      <4>2. g[s \ {n + 1}] = f[s \ {n + 1}]
        OBVIOUS
      <4> QED
        BY <3>1, <4>1, <4>2
    <3>2. CASE n + 1 \notin s
      <4>1. s \in SUBSET (1..n) /\ g[s] = f[s]
        BY <2>1, <3>2
      <4>2. g[s \ {Max(s)}] = f[s \ {Max(s)}]
        BY <3>2
      <4> HIDE DEF g
      <4> QED
        BY <4>1, <4>2 DEF Giving
    <3> QED
      BY <3>1, <3>2
  <2>3. g = [s \in SUBSET (1..(n + 1)) |-> g[s]]
    OBVIOUS
  <2>4. Giving(g, injects, ns, n + 1)
    <3> HIDE DEF g
    <3> QED
      BY <2>2, <2>3 DEF Giving
  <2> QED
    BY <2>4
<1>3. Nat \subseteq S
  <2> HIDE DEF S
  <2> QED
    BY <1>1, <1>2, NaturalInduction
<1> QED
  BY <1>3

(* It goes through one node after the other.                               *)
LEMMA GivingSteps ==
  ASSUME NEW injects, NEW T, NEW ns \in Seq(T)
  PROVE  \E f : /\ f[0] = ns
                /\ \A k \in 1..Len(ns) : f[k] = Given(f[k - 1], ns[k], injects)
                /\ InjectInto(ns, injects) = f[Len(ns)]
<1> DEFINE n == Len(ns)
           g == CHOOSE g : Giving(g, injects, ns, n)
           f == [k \in 0..n |-> g[1..k]]
<1>1. DOMAIN ns = 1..n /\ n \in Nat
  OBVIOUS
<1>2. Giving(g, injects, ns, n)
  BY <1>1, GivingExists, Zenon
<1>3. InjectInto(ns, injects) = g[1..n]
  BY <1>1 DEF InjectInto, Given, FoldLeft, MapThenFoldSet, Giving
<1> HIDE DEF g
<1>4. f[0] = ns
  BY <1>1, <1>2 DEF Giving
<1>5. ASSUME NEW k \in 1..n
      PROVE  f[k] = Given(f[k - 1], ns[k], injects)
  <2>1. k - 1 \in Nat /\ (k - 1) + 1 = k /\ k \in 1..k /\ 1..k \in SUBSET (1..n)
    BY <1>1
  <2>2. Max(1..k) = k
    BY <2>1, MaxIsLast
  <2>3. (1..k) \ {k} = 1..(k - 1)
    BY <2>1
  <2>4. g[1..k] = Given(g[1..(k - 1)], ns[k], injects)
    BY <1>2, <2>1, <2>2, <2>3 DEF Giving
  <2> QED
    BY <1>1, <2>1, <2>4
<1>6. InjectInto(ns, injects) = f[n]
  BY <1>1, <1>3
<1> QED
  <2> HIDE DEF f
  <2> QED
    BY <1>4, <1>5, <1>6

(* The loop puts into each node what there is for it.                      *)
LEMMA InjectIntoPlaced ==
  ASSUME NEW sc, IsTopology(sc.topology), NEW ns, Placed(sc, ns),
         NEW injects, \A h \in DOMAIN injects : injects[h] \in Added(sc, h)
  PROVE  Placed(sc, InjectInto(ns, injects))
<1> DEFINE n == Len(ns)
<1>1. n \in Nat /\ ns \in Seq(ToSet(ns))
  BY DEF Placed, IsTopology
<1>2. PICK f : /\ f[0] = ns
               /\ \A k \in 1..n : f[k] = Given(f[k - 1], ns[k], injects)
               /\ InjectInto(ns, injects) = f[n]
  BY <1>1, GivingSteps
<1> DEFINE S == {k \in Nat : k <= n => Placed(sc, f[k])}
<1>3. 0 \in S
  BY <1>2
<1>4. ASSUME NEW k \in Nat, k \in S
      PROVE  k + 1 \in S
  <2> SUFFICES ASSUME k + 1 <= n
               PROVE  Placed(sc, f[k + 1])
    OBVIOUS
  <2>1. f[k + 1] = Given(f[k], ns[k + 1], injects)
    BY <1>1, <1>2
  <2>2. Placed(sc, f[k])
    BY <1>1, <1>4
  <2>3. CASE ns[k + 1].hostname \in DOMAIN injects
    BY <2>1, <2>2, <2>3, AddInjectPlaced DEF Given
  <2>4. CASE ns[k + 1].hostname \notin DOMAIN injects
    BY <2>1, <2>2, <2>4 DEF Given
  <2> QED
    BY <2>3, <2>4
<1>5. n \in S
  <2> HIDE DEF S
  <2> QED
    BY <1>1, <1>3, <1>4, NaturalInduction
<1> QED
  BY <1>1, <1>2, <1>5

(* Annotations and labels leave the injects as they are.                   *)
LEMMA AddAnnotationPlaced ==
  ASSUME NEW sc, NEW ns, Placed(sc, ns), NEW hostname, NEW value, IsList(value)
  PROVE  Placed(sc, AddAnnotation(ns, hostname, value))
<1>1. AddAnnotation(ns, hostname, value) = [ns EXCEPT ![NodeIndex(ns, hostname)]["federate"] = value]
  BY DEF AddAnnotation
<1> QED
  BY <1>1, ChangePlaced

(* So does a label.                                                        *)
LEMMA AddLabelPlaced ==
  ASSUME NEW sc, NEW ns, Placed(sc, ns), NEW hostname, NEW key, NEW value
  PROVE  Placed(sc, AddLabel(ns, hostname, key, value))
<1> DEFINE k == NodeIndex(ns, hostname)
           new == (key :> value) @@ ns[k].labels
<1>1. AddLabel(ns, hostname, key, value) = [ns EXCEPT ![k]["labels"] = new]
  BY DEF AddLabel
<1> HIDE DEF new, k
<1> QED
  BY <1>1, ChangePlaced

(* So do the labels of a federate or broker.                               *)
LEMMA LabelAsPlaced ==
  ASSUME NEW sc, NEW ns, Placed(sc, ns), NEW hostname, NEW role
  PROVE  Placed(sc, LabelAs(ns, hostname, role))
  BY AddLabelPlaced DEF LabelAs

-----------------------------------------------------------------------------
(* The scenario's own topology.                                            *)
LEMMA ScenarioTopologyIs ==
  ASSUME NEW sc \in Scenarios
  PROVE  IsTopology(sc.topology) /\ Placed(sc, sc.topology)
<1>1. IsScenario(sc) /\ KeepsPlaces(sc)
  BY ScenariosAssumption, PlacesAssumption
<1>2. IsTopology(sc.topology)
  BY <1>1 DEF IsScenario
<1>3. ASSUME NEW j \in DOMAIN sc.topology
      PROVE  NodePlaced(sc, j, sc.topology[j])
  <2> DEFINE n == sc.topology[j]
  <2>1. n \in ToSet(sc.topology)
    BY DEF ToSet
  <2>2. /\ {"boots", "ifaces", "labels"} \subseteq DOMAIN n
        /\ n.injects \in Seq(ToSet(n.injects))
        /\ n.federate # None => n.federate \in Seq(ToSet(n.federate))
    BY <1>1, <2>1 DEF IsScenario
  <2>3. \A i, k \in DOMAIN n.injects : n.injects[i].dst = n.injects[k].dst => i = k
    BY <1>1, <2>1 DEF KeepsPlaces
  <2>4. ToSet(n.injects) \subseteq Possible(sc, j)
    BY DEF Possible
  <2> QED
    BY <2>2, <2>3, <2>4 DEF NodePlaced, IsList, NoTwice
<1> QED
  BY <1>2, <1>3 DEF Placed

(* A host is one device.                                                   *)
LEMMA OneDevicePerHost ==
  ASSUME NEW sc \in Scenarios
  PROVE  /\ \A d, e \in DevicesOf(sc) : d.hostname = e.hostname => d = e
         /\ \A d \in DevicesOf(sc) : IsDevice(d, sc.topology)
         /\ \A j, k \in DOMAIN sc.servers : sc.servers[j].hostname = sc.servers[k].hostname => j = k
<1>1. IsScenario(sc)
  BY ScenariosAssumption
<1>2. /\ Distinct(sc.servers) /\ Distinct(sc.feps) /\ Distinct(sc.clients)
      /\ Names(sc.servers) \cap Names(sc.feps) = {} /\ Names(sc.clients) \cap (Names(sc.servers) \cup Names(sc.feps)) = {}
  BY <1>1 DEF IsScenario
<1>3. ASSUME NEW list, Distinct(list), NEW d \in ToSet(list), NEW e \in ToSet(list), d.hostname = e.hostname
      PROVE  d = e
  BY <1>3 DEF Distinct, ToSet
<1>4. \A list : \A d \in ToSet(list) : d.hostname \in Names(list)
  BY DEF Names, ToSet
<1>5. ASSUME NEW d \in DevicesOf(sc), NEW e \in DevicesOf(sc), d.hostname = e.hostname
      PROVE  d = e
  <2>1. \/ d \in ToSet(sc.servers) /\ e \in ToSet(sc.servers)
        \/ d \in ToSet(sc.feps) /\ e \in ToSet(sc.feps)
        \/ d \in ToSet(sc.clients) /\ e \in ToSet(sc.clients)
    BY <1>2, <1>4, <1>5 DEF DevicesOf
  <2> QED
    BY <1>2, <1>3, <1>5, <2>1
<1>6. \A d \in DevicesOf(sc) : IsDevice(d, sc.topology)
  BY <1>1 DEF IsScenario, DevicesOf
<1>7. \A j, k \in DOMAIN sc.servers : sc.servers[j].hostname = sc.servers[k].hostname => j = k
  BY <1>2 DEF Distinct
<1> QED
  BY <1>5, <1>6, <1>7

(* A place of the apps' own is taken by one file.                          *)
LEMMA OwnPlacesDiffer ==
  ASSUME NEW sc \in Scenarios, NEW h, NEW x \in OwnAdded(sc, h), NEW y \in OwnAdded(sc, h), x.dst = y.dst
  PROVE  x.dst \in OwnPlaces /\ (x = y \/ (sc.root # None /\ HasBase(sc) /\ x.dst = "helics-broker"))
<1> DEFINE C == {ConfigInject(h)}
           W == IF sc.root # None THEN {WaitInject(WaitFileOfHelics)}
                ELSE {WaitInject(WaitFileOf(sc, k)) : k \in {j \in DOMAIN sc.servers : sc.servers[j].hostname = h}}
           O == IF HasBase(sc) THEN {BrokerInject(OtBrokerFile(h))} ELSE {}
           H == IF sc.root # None THEN {BrokerInject(BrokerFile(h))} ELSE {}
<1>1. x \in C \cup W \cup O \cup H /\ y \in C \cup W \cup O \cup H
  BY DEF OwnAdded
<1>2. \A z \in C : z.dst = "ot-sim-config"
  BY DEF ConfigInject
<1>3. \A z \in W : z.dst = "wait-broker"
  BY DEF WaitInject
<1>4. \A z \in O \cup H : z.dst = "helics-broker"
  BY DEF BrokerInject
<1>5. \A z, w \in W : z = w
  BY OneDevicePerHost
<1>6. \A z, w \in C : z = w
  OBVIOUS
<1>7. \A z, w \in O \cup H : z = w \/ (sc.root # None /\ HasBase(sc))
  OBVIOUS
<1> HIDE DEF C, W, O, H
<1>8. x.dst \in OwnPlaces
  BY <1>1, <1>2, <1>3, <1>4 DEF OwnPlaces
<1>9. /\ x \in C \/ x \in W \/ x \in O \cup H
      /\ y \in C \/ y \in W \/ y \in O \cup H
  BY <1>1
<1>10. CASE x \in C
  BY <1>2, <1>3, <1>4, <1>6, <1>8, <1>9, <1>10
<1>11. CASE x \in W
  BY <1>2, <1>3, <1>4, <1>5, <1>8, <1>9, <1>11
<1>12. CASE x \in O \cup H
  BY <1>2, <1>3, <1>4, <1>7, <1>8, <1>9, <1>12
<1> QED
  BY <1>9, <1>10, <1>11, <1>12

(* What may be put into a node has a place of its own.                     *)
LEMMA PlacesDiffer ==
  ASSUME NEW sc \in Scenarios, NEW j \in DOMAIN sc.topology,
         NEW x \in Possible(sc, j), NEW y \in Possible(sc, j), x.dst = y.dst
  PROVE  x = y \/ (sc.root # None /\ HasBase(sc) /\ x.dst = "helics-broker")
<1> DEFINE h == sc.topology[j].hostname
           injects == sc.topology[j].injects
           D == UNION {ToSet(d.injects) : d \in {x1 \in DevicesOf(sc) : x1.hostname = h}}
<1>1. KeepsPlaces(sc) /\ sc.topology[j] \in ToSet(sc.topology)
  BY PlacesAssumption DEF ToSet
<1>2. /\ \A i, k \in DOMAIN injects : injects[i].dst = injects[k].dst => i = k
      /\ \A i \in ToSet(injects) : i.dst \notin OwnPlaces
  BY <1>1 DEF KeepsPlaces
<1>3. \A v, w \in ToSet(injects) : v.dst = w.dst => v = w
  BY <1>2 DEF ToSet
<1>4. \A z \in Possible(sc, j) : z \in ToSet(injects) \/ (j = NodeIndex(sc.topology, h) /\ z \in D \cup OwnAdded(sc, h))
  <2>1. Added(sc, h) = D \cup OwnAdded(sc, h)
    BY DEF Added
  <2> HIDE DEF D
  <2> QED
    BY <2>1 DEF Possible
<1>5. ASSUME NEW d \in DevicesOf(sc), d.hostname = h, j = NodeIndex(sc.topology, h)
      PROVE  /\ \A v, w \in ToSet(d.injects) \cup ToSet(injects) : v.dst = w.dst => v = w
             /\ \A v \in ToSet(d.injects) : v.dst \notin OwnPlaces
  <2>2. ExtractNode(sc.topology, d.hostname).injects = injects
    BY <1>5 DEF ExtractNode
  <2> HIDE DEF h, injects
  <2>3. \A v, w \in ToSet(d.injects) \cup ToSet(injects) : v.dst = w.dst => v = w
    BY <1>1, <2>2 DEF KeepsPlaces
  <2>4. \A v \in ToSet(d.injects) : v.dst \notin OwnPlaces
    BY <1>1 DEF KeepsPlaces
  <2> QED
    BY <2>3, <2>4
<1>6. ASSUME j = NodeIndex(sc.topology, h), NEW v \in D \cup ToSet(injects), NEW w \in D \cup ToSet(injects), v.dst = w.dst
      PROVE  v = w
  <2>1. \A d, e \in DevicesOf(sc) : d.hostname = h /\ e.hostname = h => d = e
    BY OneDevicePerHost
  <2>2. \A z \in D : \E d \in DevicesOf(sc) : d.hostname = h /\ z \in ToSet(d.injects)
    OBVIOUS
  <2> HIDE DEF D
  <2>3. CASE v \in ToSet(injects) /\ w \in ToSet(injects)
    BY <1>3, <1>6, <2>3
  <2>4. CASE v \in D \/ w \in D
    <3>1. PICK d \in DevicesOf(sc) : d.hostname = h /\ (v \in ToSet(d.injects) \/ w \in ToSet(d.injects))
      BY <2>2, <2>4
    <3>2. v \in ToSet(d.injects) \cup ToSet(injects) /\ w \in ToSet(d.injects) \cup ToSet(injects)
      BY <1>6, <2>1, <2>2, <3>1
    <3> QED
      BY <1>5, <1>6, <3>1, <3>2
  <2> QED
    BY <1>6, <2>3, <2>4
<1>7. j = NodeIndex(sc.topology, h) => \A z \in D \cup ToSet(injects) : z.dst \notin OwnPlaces
  BY <1>2, <1>5
<1> HIDE DEF D, h, injects
<1>8. CASE x \in ToSet(injects) /\ y \in ToSet(injects)
  BY <1>3, <1>8
<1>9. CASE j = NodeIndex(sc.topology, h)
  <2>1. CASE x \in D \cup ToSet(injects) /\ y \in D \cup ToSet(injects)
    BY <1>6, <1>9, <2>1
  <2>2. CASE x \in OwnAdded(sc, h) /\ y \in OwnAdded(sc, h)
    BY <2>2, OwnPlacesDiffer
  <2>3. \A z \in OwnAdded(sc, h) : z.dst \in OwnPlaces
    BY OwnPlacesDiffer
  <2> QED
    BY <1>4, <1>7, <1>9, <2>1, <2>2, <2>3
<1> QED
  BY <1>4, <1>8, <1>9

-----------------------------------------------------------------------------
(* The wait scripts are there in the order of the servers that ask first.  *)
LEMMA WaitsAreChain ==
  ASSUME NEW sc \in Scenarios
  PROVE  /\ WaitsAfter(sc)[0] = << >>
         /\ \A k \in 1..Len(sc.servers) : WaitsAfter(sc)[k] = WaitsWith(sc, WaitsAfter(sc)[k - 1], sc.servers[k])
<1> DEFINE D == Seq(HomeAddresses(sc))
           n == Len(sc.servers)
           F == WaitsStep(sc)
<1>1. n \in Nat /\ DOMAIN sc.servers = 1..n
  <2>1. sc.servers \in Seq(ToSet(sc.servers))
    BY ScenariosAssumption DEF IsScenario
  <2> QED
    BY <2>1
<1>2. << >> \in D
  OBVIOUS
<1>3. ASSUME NEW w \in D, NEW k \in 1..n
      PROVE  WaitsWith(sc, w, sc.servers[k]) \in D
  <2>1. HomeAddress(sc, BrokerFor(sc, sc.servers[k])) \in HomeAddresses(sc)
    BY <1>1 DEF HomeAddresses, ToSet
  <2> DEFINE addr == HomeAddress(sc, BrokerFor(sc, sc.servers[k]))
  <2>2. Append(w, addr) \in D
    BY <2>1
  <2>3. WaitsWith(sc, w, sc.servers[k]) = w \/ WaitsWith(sc, w, sc.servers[k]) = Append(w, addr)
    BY DEF WaitsWith
  <2> QED
    BY <2>2, <2>3
<1> HIDE DEF D, n
<1>4. F = [x \in D \X (1..n) |-> WaitsWith(sc, x[1], sc.servers[x[2]])]
  BY DEF WaitsStep, D, n
<1> HIDE DEF F
<1>5. \A w \in D : \A k \in 1..n : F[<<w, k>>] = WaitsWith(sc, w, sc.servers[k])
  BY <1>4
<1>6. F \in [D \X (1..n) -> D]
  <2>1. \A x \in D \X (1..n) : x[1] \in D /\ x[2] \in 1..n
    OBVIOUS
  <2>2. \A x \in D \X (1..n) : WaitsWith(sc, x[1], sc.servers[x[2]]) \in D
    BY <1>3, <2>1
  <2> QED
    BY <1>4, <2>2
<1>7. \E f : Chain(f, D, << >>, n, F)
  BY <1>1, <1>2, <1>6, ChainExists
<1>8. WaitsAfter(sc) = CHOOSE f : Chain(f, D, << >>, n, F)
  BY DEF WaitsAfter, D, n, F
<1>9. Chain(WaitsAfter(sc), D, << >>, n, F)
  BY <1>7, <1>8, Zenon
<1>10. /\ WaitsAfter(sc)[0] = << >>
       /\ \A k \in 0..n : WaitsAfter(sc)[k] \in D
       /\ \A k \in 1..n : WaitsAfter(sc)[k] = F[<<WaitsAfter(sc)[k - 1], k>>]
  BY <1>9 DEF Chain
<1>11. ASSUME NEW k \in 1..n
       PROVE  WaitsAfter(sc)[k] = WaitsWith(sc, WaitsAfter(sc)[k - 1], sc.servers[k])
  <2>1. k - 1 \in 0..n
    BY <1>1
  <2> QED
    BY <1>5, <1>10, <2>1
<1> QED
  BY <1>10, <1>11 DEF n

-----------------------------------------------------------------------------
(* The inductive invariant of what is put into the nodes: what phenix has  *)
(* and what a process has is the scenario's topology with injects of the   *)
(* devices and apps, each once, and the wait scripts of a start are those  *)
(* of every other start.                                                   *)
IsHelics == app = "helics"

RunningInv == IsOtSim \/ IsHelics => Placed(scenario, nodes)

HelicsStepInv ==
  IsHelics => UsesHelics /\ step = [loop |-> step.loop, i |-> step.i] /\ step.i \in Nat \ {0}

BetweenInv == ~IsOtSim /\ ~IsHelics => step.loop = "none"

WaitsInv ==
  /\ ~IsOtSim => brokers = << >> /\ waits = << >>
  /\ DOMAIN brokers # {} => HasBase(scenario)
  /\ IsOtSim /\ step.loop = "servers" => waits = WaitsAfter(scenario)[step.i - 1]

PlaceInv == Placed(scenario, doc) /\ RunningInv /\ HelicsStepInv /\ BetweenInv /\ WaitsInv

(* Addresses are those of the scenario.                                    *)
LEMMA AddressesAreHome ==
  ASSUME scenario \in Scenarios, Placed(scenario, nodes)
  PROVE  /\ \A ref : IpOf(ref) = HomeIp(scenario, ref)
         /\ \A broker : BrokerAddress(broker) = HomeAddress(scenario, broker)
<1>1. IsTopology(scenario.topology)
  BY ScenarioTopologyIs
<1>2. ASSUME NEW ref
      PROVE  IpOf(ref) = HomeIp(scenario, ref)
  BY <1>1, SameHosts DEF IpOf, HomeIp
<1>3. ASSUME NEW broker
      PROVE  BrokerAddress(broker) = HomeAddress(scenario, broker)
  <2>1. IpOf(broker.at) = HomeIp(scenario, broker.at) /\ IpOf(scenario.root) = HomeIp(scenario, scenario.root)
    BY <1>2
  <2> QED
    BY <2>1 DEF BrokerAddress, HomeAddress, UsesHelics
<1> QED
  BY <1>2, <1>3

(* What a device's own config and metadata put into its node.              *)
LEMMA OwnInjectsAdded ==
  ASSUME NEW sc \in Scenarios, NEW d \in DevicesOf(sc)
  PROVE  IsList(d.injects) /\ ToSet(d.injects) \subseteq Added(sc, d.hostname) /\ ConfigInject(d.hostname) \in Added(sc, d.hostname)
<1>1. IsList(d.injects)
  BY OneDevicePerHost DEF IsDevice, IsList
<1>2. ToSet(d.injects) \subseteq Added(sc, d.hostname)
  BY DEF Added
<1>3. ConfigInject(d.hostname) \in Added(sc, d.hostname)
  BY DEF Added, OwnAdded
<1> QED
  BY <1>1, <1>2, <1>3

(* A field device server is handled.                                       *)
LEMMA ServerPlaces ==
  ASSUME OtInv, PlaceInv, Server
  PROVE  PlaceInv'
<1>1. IsOtSim /\ scenario \in Scenarios /\ step.loop = "servers" /\ step.i <= Len(scenario.servers) /\ LoopInv
  BY DEF OtInv, Server, IsOtSim, At
<1>2. step.i \in 1..Len(scenario.servers) /\ step.i \in DOMAIN scenario.servers
  <2>1. IsList(scenario.servers)
    BY <1>1, ScenarioIs
  <2> QED
    BY <1>1, <2>1 DEF LoopInv, IsList
<1>3. PICK s : s = scenario.servers[step.i]
  OBVIOUS
<1>4. s \in DevicesOf(scenario)
  BY <1>2, <1>3 DEF DevicesOf, ToSet
<1>5. PICK addr, waiting :
        /\ addr = (IF HasIo(s) THEN BrokerAddress(BrokerOf(s)) ELSE None)
        /\ waiting = (HasIo(s) /\ NeedsWait(addr) /\ ~Contains(waits, addr))
        /\ ~ServerRaises(s)
        /\ brokers' = IF HasIo(s) THEN CountBroker(BrokerOf(s)) ELSE brokers
        /\ waits' = IF waiting THEN Append(waits, addr) ELSE waits
        /\ nodes' = AddInjects(AnnotateServer(s, addr), s.hostname, ServerInjects(s, addr))
  BY <1>3 DEF Server
<1>6. /\ scenario' = scenario /\ doc' = doc /\ app' = app /\ step' = [step EXCEPT !.i = @ + 1]
  BY DEF Server, Again
<1>7. Placed(scenario, nodes) /\ Placed(scenario, doc) /\ IsTopology(scenario.topology)
  BY <1>1, ScenarioTopologyIs DEF PlaceInv, RunningInv
<1>8. HasIo(s) => addr = HomeAddress(scenario, BrokerFor(scenario, s))
  <2>1. BrokerOf(s) = BrokerFor(scenario, s)
    BY DEF BrokerOf, BrokerFor
  <2> QED
    BY <1>1, <1>5, <1>7, <2>1, AddressesAreHome
<1>9. HasIo(s) /\ NeedsWait(addr) <=> Awaits(scenario, s)
  BY <1>8 DEF NeedsWait, Awaits, UsesHelics
<1>10. waits = WaitsAfter(scenario)[step.i - 1]
  BY <1>1 DEF PlaceInv, WaitsInv
<1>11. waits' = WaitsAfter(scenario)[step.i]
  <2>1. WaitsAfter(scenario)[step.i] = WaitsWith(scenario, waits, s)
    BY <1>1, <1>2, <1>3, <1>10, WaitsAreChain
  <2>2. CASE Awaits(scenario, s) /\ ~Contains(waits, addr)
    <3>1. waits' = Append(waits, addr)
      BY <1>5, <1>9, <2>2
    <3>2. WaitsWith(scenario, waits, s) = Append(waits, addr)
      BY <1>8, <1>9, <2>2 DEF WaitsWith
    <3> QED
      BY <2>1, <3>1, <3>2
  <2>3. CASE ~(Awaits(scenario, s) /\ ~Contains(waits, addr))
    <3>1. waits' = waits
      BY <1>5, <1>9, <2>3
    <3>2. WaitsWith(scenario, waits, s) = waits
      BY <1>8, <1>9, <2>3 DEF WaitsWith
    <3> QED
      BY <2>1, <3>1, <3>2
  <2> QED
    BY <2>2, <2>3
<1>12. HasIo(s) /\ NeedsWait(addr) => WaitInject(WaitFile(addr)) \in Added(scenario, s.hostname)
  <2> SUFFICES ASSUME HasIo(s), NeedsWait(addr)
               PROVE  WaitInject(WaitFile(addr)) \in Added(scenario, s.hostname)
    OBVIOUS
  <2>1. WaitFile(addr) = WaitFileFor(waits, addr)
    BY DEF WaitFile, WaitFileFor
  <2>2. WaitFileOf(scenario, step.i) = WaitFileFor(waits, addr)
    BY <1>3, <1>8, <1>10 DEF WaitFileOf
  <2>3. scenario.root = None
    BY DEF NeedsWait, UsesHelics
  <2> DEFINE K == {j \in DOMAIN scenario.servers : scenario.servers[j].hostname = s.hostname}
  <2>4. step.i \in K
    BY <1>2, <1>3
  <2>5. WaitInject(WaitFileOf(scenario, step.i)) \in {WaitInject(WaitFileOf(scenario, k)) : k \in K}
    BY <2>4
  <2> QED
    BY <2>1, <2>2, <2>3, <2>5 DEF Added, OwnAdded
<1>13. IsList(ServerInjects(s, addr)) /\ ToSet(ServerInjects(s, addr)) \subseteq Added(scenario, s.hostname)
  <2> DEFINE mine == s.injects
             wait == IF HasIo(s) /\ NeedsWait(addr) THEN <<WaitInject(WaitFile(addr))>> ELSE << >>
             config == <<ConfigInject(s.hostname)>>
             added == Added(scenario, s.hostname)
  <2>1. IsList(mine) /\ ToSet(mine) \subseteq added /\ ConfigInject(s.hostname) \in added
    BY <1>1, <1>4, OwnInjectsAdded
  <2>2. IsList(config) /\ ToSet(config) \subseteq added
    BY <2>1, ShortLists
  <2>3. IsList(wait) /\ ToSet(wait) \subseteq added
    BY <1>12, ShortLists
  <2>4. ServerInjects(s, addr) = (mine \o wait) \o config
    BY DEF ServerInjects
  <2> HIDE DEF mine, wait, config, added
  <2>5. IsList(mine \o wait) /\ ToSet(mine \o wait) \subseteq added
    BY <2>1, <2>3, ListOfConcat
  <2>6. IsList((mine \o wait) \o config) /\ ToSet((mine \o wait) \o config) \subseteq added
    BY <2>2, <2>5, ListOfConcat
  <2> QED
    BY <2>4, <2>6 DEF added
<1>14. Placed(scenario, AnnotateServer(s, addr))
  <2>1. IsList(<<[broker |-> addr, count |-> 1, wait |-> TRUE]>>)
    BY ShortLists
  <2> QED
    BY <1>7, <2>1, AddAnnotationPlaced DEF AnnotateServer
<1>15. Placed(scenario, nodes')
  BY <1>5, <1>7, <1>13, <1>14, AddInjectsPlaced
<1>16. DOMAIN brokers' # {} => HasBase(scenario)
  <2>1. CASE brokers' = brokers
    BY <2>1 DEF PlaceInv, WaitsInv
  <2>2. CASE brokers' # brokers
    <3>1. HasIo(s) /\ BrokerOf(s).base # None /\ BrokerOf(s) # None
      BY <1>5, <2>2 DEF CountBroker, ServerRaises
    <3>2. BrokerOf(s) \in {scenario.broker} \cup {t.broker : t \in ToSet(scenario.servers)}
      BY <1>2, <1>3 DEF BrokerOf, ToSet
    <3> QED
      BY <3>1, <3>2 DEF HasBase
  <2> QED
    BY <2>1, <2>2
<1>17. step'.loop = "servers" /\ step'.i - 1 = step.i
  BY <1>1, <1>2, <1>6 DEF LoopInv
<1>18. IsOtSim' /\ ~IsHelics'
  BY <1>1, <1>6 DEF IsOtSim, IsHelics
<1>19. WaitsInv'
  BY <1>6, <1>11, <1>16, <1>17, <1>18 DEF WaitsInv
<1> QED
  BY <1>6, <1>7, <1>15, <1>18, <1>19 DEF PlaceInv, RunningInv, HelicsStepInv, BetweenInv

(* An app's step that changes the topology only.                           *)
LEMMA OtherPlaces ==
  ASSUME PlaceInv, IsOtSim, scenario' = scenario, doc' = doc, app' = app, brokers' = brokers,
         step'.loop # "servers", Placed(scenario, nodes')
  PROVE  PlaceInv'
<1>1. IsOtSim' /\ ~IsHelics'
  BY DEF IsOtSim, IsHelics
<1> QED
  BY <1>1 DEF PlaceInv, RunningInv, HelicsStepInv, BetweenInv, WaitsInv

(* A device's injects and its config.                                      *)
LEMMA DevicePlaces ==
  ASSUME NEW sc \in Scenarios, NEW ns, Placed(sc, ns), NEW d \in DevicesOf(sc)
  PROVE  Placed(sc, AddInjects(ns, d.hostname, Append(d.injects, ConfigInject(d.hostname))))
<1>1. IsList(d.injects) /\ ToSet(d.injects) \subseteq Added(sc, d.hostname) /\ ConfigInject(d.hostname) \in Added(sc, d.hostname)
  BY OwnInjectsAdded
<1> DEFINE injects == Append(d.injects, ConfigInject(d.hostname))
<1>2. IsList(injects) /\ ToSet(injects) \subseteq Added(sc, d.hostname)
  BY <1>1, ListOfAppend
<1> HIDE DEF injects
<1>3. Placed(sc, AddInjects(ns, d.hostname, injects))
  BY <1>2, ScenarioTopologyIs, AddInjectsPlaced
<1> QED
  BY <1>3 DEF injects

(* A front-end processor or a client is handled.                           *)
LEMMA ConfigureFepPlaces ==
  ASSUME OtInv, PlaceInv, ConfigureFep
  PROVE  PlaceInv'
<1>1. IsOtSim /\ scenario \in Scenarios /\ step.loop = "feps" /\ step.i <= Len(scenario.feps) /\ LoopInv
  BY DEF OtInv, ConfigureFep, InFeps, IsOtSim, At
<1>2. ThisFep \in DevicesOf(scenario)
  <2>1. IsList(scenario.feps)
    BY <1>1, ScenarioIs
  <2>2. step.i \in DOMAIN scenario.feps
    BY <1>1, <2>1 DEF LoopInv, IsList
  <2> QED
    BY <2>2 DEF ThisFep, DevicesOf, ToSet
<1>3. Placed(scenario, nodes)
  BY <1>1 DEF PlaceInv, RunningInv
<1>4. Placed(scenario, nodes')
  BY <1>1, <1>2, <1>3, DevicePlaces DEF ConfigureFep
<1>5. /\ scenario' = scenario /\ doc' = doc /\ app' = app /\ brokers' = brokers /\ step' = [step EXCEPT !.i = @ + 1]
  BY DEF ConfigureFep, Again, otVars
<1>6. step'.loop # "servers"
  BY <1>1, <1>5 DEF LoopInv
<1> QED
  BY <1>1, <1>4, <1>5, <1>6, OtherPlaces

(* A client, in the same way.                                              *)
LEMMA ClientPlaces ==
  ASSUME OtInv, PlaceInv, Client
  PROVE  PlaceInv'
<1>1. IsOtSim /\ scenario \in Scenarios /\ step.loop = "clients" /\ step.i <= Len(scenario.clients) /\ LoopInv
  BY DEF OtInv, Client, InClients, IsOtSim, At
<1>2. ThisClient \in DevicesOf(scenario)
  <2>1. IsList(scenario.clients)
    BY <1>1, ScenarioIs
  <2>2. step.i \in DOMAIN scenario.clients
    BY <1>1, <2>1 DEF LoopInv, IsList
  <2> QED
    BY <2>2 DEF ThisClient, DevicesOf, ToSet
<1>3. Placed(scenario, nodes)
  BY <1>1 DEF PlaceInv, RunningInv
<1>4. Placed(scenario, nodes')
  BY <1>1, <1>2, <1>3, DevicePlaces DEF Client
<1>5. /\ scenario' = scenario /\ doc' = doc /\ app' = app /\ brokers' = brokers /\ step' = [step EXCEPT !.i = @ + 1]
  BY DEF Client, Again
<1>6. step'.loop # "servers"
  BY <1>1, <1>5 DEF LoopInv
<1> QED
  BY <1>1, <1>4, <1>5, <1>6, OtherPlaces

(* The start scripts of the app's brokers are put into their nodes.        *)
LEMMA ClientsDonePlaces ==
  ASSUME OtInv, PlaceInv, ClientsDone
  PROVE  PlaceInv'
<1>1. IsOtSim /\ scenario \in Scenarios
  BY DEF OtInv, ClientsDone, IsOtSim
<1>2. Placed(scenario, nodes) /\ IsTopology(scenario.topology)
  BY <1>1, ScenarioTopologyIs DEF PlaceInv, RunningInv
<1> DEFINE injects == [h \in DOMAIN brokers |-> BrokerInject(OtBrokerFile(h))]
<1>3. \A h \in DOMAIN injects : injects[h] \in Added(scenario, h)
  <2> SUFFICES ASSUME NEW h \in DOMAIN brokers
               PROVE  BrokerInject(OtBrokerFile(h)) \in Added(scenario, h)
    OBVIOUS
  <2>1. HasBase(scenario)
    BY DEF PlaceInv, WaitsInv
  <2> QED
    BY <2>1 DEF Added, OwnAdded
<1>4. nodes' = InjectInto(nodes, injects)
  BY DEF ClientsDone, BrokerNodes
<1> HIDE DEF injects
<1>5. Placed(scenario, nodes')
  BY <1>2, <1>3, <1>4, InjectIntoPlaced
<1>6. /\ scenario' = scenario /\ doc' = doc /\ app' = app /\ brokers' = brokers /\ step'.loop = "done"
  BY DEF ClientsDone, GoTo, otVars
<1> QED
  BY <1>1, <1>5, <1>6, OtherPlaces

-----------------------------------------------------------------------------
(* What the turn of a federate is counted in.                              *)
IsAcc(sc, acc) ==
  acc = [field \in DOMAIN acc |-> acc[field]] /\ "nodes" \in DOMAIN acc /\ Placed(sc, acc.nodes)

(* The counts and the exception do not touch the topology in it.           *)
LEMMA AccStays ==
  ASSUME NEW sc, NEW acc, IsAcc(sc, acc), NEW field \in {"total", "subs", "raised"}, NEW value
  PROVE  IsAcc(sc, [acc EXCEPT ![field] = value])
<1> DEFINE new == [acc EXCEPT ![field] = value]
<1>1. field # "nodes"
  OBVIOUS
<1>2. acc = [f \in DOMAIN acc |-> acc[f]] /\ "nodes" \in DOMAIN acc /\ Placed(sc, acc.nodes)
  BY DEF IsAcc
<1>3. new = [f \in DOMAIN acc |-> new[f]] /\ new.nodes = acc.nodes /\ DOMAIN new = DOMAIN acc
  BY <1>1, <1>2
<1> HIDE DEF new
<1> QED
  BY <1>2, <1>3 DEF IsAcc, new

(* Nor does anything that leaves the topology as it may be.                *)
LEMMA AccChanges ==
  ASSUME NEW sc, NEW acc, IsAcc(sc, acc), NEW ns, Placed(sc, ns), NEW new
  PROVE  IsAcc(sc, [acc EXCEPT !.nodes = ns, !.subs = new])
<1> DEFINE a == [acc EXCEPT !.nodes = ns, !.subs = new]
<1>1. acc = [f \in DOMAIN acc |-> acc[f]] /\ "nodes" \in DOMAIN acc
  BY DEF IsAcc
<1>2. a = [f \in DOMAIN a |-> a[f]] /\ a.nodes = ns /\ "nodes" \in DOMAIN a
  BY <1>1
<1> HIDE DEF a
<1>3. IsAcc(sc, a)
  BY <1>2 DEF IsAcc
<1> QED
  BY <1>3 DEF a

(* One entry of an annotation leaves nothing in a node.                    *)
LEMMA ConfiguredPlaced ==
  ASSUME NEW sc, NEW acc, IsAcc(sc, acc), NEW config
  PROVE  IsAcc(sc, Configured(acc, config))
<1> DEFINE counted == [acc EXCEPT !.total = @ + config.count]
           failed == [acc EXCEPT !.raised = TRUE]
<1>1. IsAcc(sc, failed)
  BY AccStays
<1>2. IsAcc(sc, counted)
  <2> DEFINE t == acc.total + config.count
  <2>1. counted = [acc EXCEPT !["total"] = t]
    BY DEF IsAcc
  <2> HIDE DEF t, counted
  <2>2. IsAcc(sc, [acc EXCEPT !["total"] = t])
    BY AccStays
  <2> QED
    BY <2>1, <2>2
<1>3. ASSUME NEW a, IsAcc(sc, a)
      PROVE  IsAcc(sc, SubBroker(a, config))
  <2> DEFINE over == [a EXCEPT !.raised = TRUE]
  <2>1. IsAcc(sc, over)
    BY <1>3, AccStays
  <2> DEFINE endpoint == Endpoint(config.broker)
             hostname == ExtractNodeHostnameForIp(a.nodes, endpoint.ip)
             entry == IF hostname \in DOMAIN a.subs THEN a.subs[hostname] ELSE NoneOf(endpoint)
             ns == LabelAs(a.nodes, hostname, "broker")
             new == Overlay([h \in {hostname} |-> [entry EXCEPT ![endpoint] = @ + config.count]], a.subs)
             more == [a EXCEPT !.nodes = ns, !.subs = new]
  <2>2. Placed(sc, ns)
    BY <1>3, LabelAsPlaced DEF IsAcc
  <2>3. SubBroker(a, config) = over \/ SubBroker(a, config) = more
    <3>1. [a EXCEPT !.nodes = LabelAs(@, hostname, "broker"),
                    !.subs = Overlay([h \in {hostname} |-> [entry EXCEPT ![endpoint] = @ + config.count]], @)]
            = more
      <4> HIDE DEF hostname, entry, endpoint
      <4> QED
        BY <1>3 DEF IsAcc
    <3> QED
      BY <3>1 DEF SubBroker
  <2>4. IsAcc(sc, more)
    <3> HIDE DEF ns, new
    <3> QED
      BY <1>3, <2>2, AccChanges
  <2> HIDE DEF over, more
  <2> QED
    BY <2>1, <2>3, <2>4
<1>4. \/ Configured(acc, config) = acc
      \/ Configured(acc, config) = failed
      \/ Configured(acc, config) = counted
      \/ Configured(acc, config) = SubBroker(counted, config)
  BY DEF Configured
<1> HIDE DEF counted, failed
<1> QED
  BY <1>1, <1>2, <1>3, <1>4

(* The loop over the entries.                                              *)
ConfiguredBy(base, configs) == FoldLeft(Configured, base, configs)

(* The loop over the entries of an annotation.                             *)
Configuring(g, base, configs, n) ==
  g = [s \in SUBSET (1..n) |-> IF s = {} THEN base ELSE Configured(g[s \ {Max(s)}], configs[Max(s)])]

(* There is one for every length.                                          *)
LEMMA ConfiguringExists ==
  ASSUME NEW base, NEW configs
  PROVE  \A n \in Nat : \E g : Configuring(g, base, configs, n)
<1> DEFINE S == {n \in Nat : \E g : Configuring(g, base, configs, n)}
<1>1. 0 \in S
  <2> DEFINE g == [s \in SUBSET (1..0) |-> base]
  <2>1. \A s \in SUBSET (1..0) : s = {}
    OBVIOUS
  <2>2. Configuring(g, base, configs, 0)
    BY <2>1 DEF Configuring
  <2> QED
    BY <2>2
<1>2. \A n \in Nat : n \in S => n + 1 \in S
  <2> SUFFICES ASSUME NEW n \in Nat, NEW f, Configuring(f, base, configs, n)
               PROVE  \E g : Configuring(g, base, configs, n + 1)
    OBVIOUS
  <2> DEFINE g == [s \in SUBSET (1..(n + 1)) |->
                    IF n + 1 \in s THEN Configured(f[s \ {n + 1}], configs[n + 1]) ELSE f[s]]
  <2>1. \A s \in SUBSET (1..(n + 1)) : s \ {n + 1} \in SUBSET (1..n) /\ (n + 1 \notin s => s \in SUBSET (1..n))
    OBVIOUS
  <2>2. ASSUME NEW s \in SUBSET (1..(n + 1))
        PROVE  g[s] = IF s = {} THEN base ELSE Configured(g[s \ {Max(s)}], configs[Max(s)])
    <3>1. CASE n + 1 \in s
      <4>1. Max(s) = n + 1 /\ s # {}
        BY <3>1, MaxIsLast
      <4>2. g[s \ {n + 1}] = f[s \ {n + 1}]
        OBVIOUS
      <4> QED
        BY <3>1, <4>1, <4>2
    <3>2. CASE n + 1 \notin s
      <4>1. s \in SUBSET (1..n) /\ g[s] = f[s]
        BY <2>1, <3>2
      <4>2. g[s \ {Max(s)}] = f[s \ {Max(s)}]
        BY <3>2
      <4> HIDE DEF g
      <4> QED
        BY <4>1, <4>2 DEF Configuring
    <3> QED
      BY <3>1, <3>2
  <2>3. g = [s \in SUBSET (1..(n + 1)) |-> g[s]]
    OBVIOUS
  <2>4. Configuring(g, base, configs, n + 1)
    <3> HIDE DEF g
    <3> QED
      BY <2>2, <2>3 DEF Configuring
  <2> QED
    BY <2>4
<1>3. Nat \subseteq S
  <2> HIDE DEF S
  <2> QED
    BY <1>1, <1>2, NaturalInduction
<1> QED
  BY <1>3

(* It goes through one entry after the other.                              *)
LEMMA ConfiguringSteps ==
  ASSUME NEW base, NEW T, NEW configs \in Seq(T)
  PROVE  \E f : /\ f[0] = base
                /\ \A k \in 1..Len(configs) : f[k] = Configured(f[k - 1], configs[k])
                /\ ConfiguredBy(base, configs) = f[Len(configs)]
<1> DEFINE n == Len(configs)
           g == CHOOSE g : Configuring(g, base, configs, n)
           f == [k \in 0..n |-> g[1..k]]
<1>1. DOMAIN configs = 1..n /\ n \in Nat
  OBVIOUS
<1>2. Configuring(g, base, configs, n)
  BY <1>1, ConfiguringExists, Zenon
<1>3. ConfiguredBy(base, configs) = g[1..n]
  BY <1>1 DEF ConfiguredBy, FoldLeft, MapThenFoldSet, Configuring
<1> HIDE DEF g
<1>4. f[0] = base
  BY <1>1, <1>2 DEF Configuring
<1>5. ASSUME NEW k \in 1..n
      PROVE  f[k] = Configured(f[k - 1], configs[k])
  <2>1. k - 1 \in Nat /\ (k - 1) + 1 = k /\ k \in 1..k /\ 1..k \in SUBSET (1..n)
    BY <1>1
  <2>2. Max(1..k) = k
    BY <2>1, MaxIsLast
  <2>3. (1..k) \ {k} = 1..(k - 1)
    BY <2>1
  <2>4. g[1..k] = Configured(g[1..(k - 1)], configs[k])
    BY <1>2, <2>1, <2>2, <2>3 DEF Configuring
  <2> QED
    BY <1>1, <2>1, <2>4
<1>6. ConfiguredBy(base, configs) = f[n]
  BY <1>1, <1>3
<1> QED
  <2> HIDE DEF f
  <2> QED
    BY <1>4, <1>5, <1>6

(* The turn of a federate: labels, and the one wait script there is.       *)
LEMMA FederateTurnPlaced ==
  ASSUME scenario \in Scenarios, UsesHelics, Placed(scenario, nodes), NEW fed, IsList(fed.federate)
  PROVE  Placed(scenario, FederateTurn(fed).nodes)
<1> DEFINE labelled == LabelAs(nodes, fed.hostname, "federate")
           waiting == IF Waits(fed.federate)
                      THEN AddInject(labelled, fed.hostname, WaitInject(WaitFileOfHelics))
                      ELSE labelled
           base == [nodes |-> waiting, total |-> total, subs |-> subs, raised |-> FALSE]
           configs == fed.federate
           n == Len(configs)
<1>1. n \in Nat /\ configs \in Seq(ToSet(configs))
  BY DEF IsList
<1>2. Placed(scenario, labelled)
  BY LabelAsPlaced
<1>3. WaitInject(WaitFileOfHelics) \in Added(scenario, fed.hostname)
  BY DEF Added, OwnAdded, UsesHelics
<1>4. Placed(scenario, waiting)
  <2> HIDE DEF labelled
  <2>1. IsTopology(scenario.topology)
    BY ScenarioTopologyIs
  <2> QED
    BY <1>2, <1>3, <2>1, AddInjectPlaced
<1>5. IsAcc(scenario, base)
  <2> HIDE DEF waiting
  <2> QED
    BY <1>4 DEF IsAcc
<1>6. FederateTurn(fed) = ConfiguredBy(base, configs)
  BY DEF FederateTurn, ConfiguredBy
<1> HIDE DEF base, configs
<1>7. PICK f : /\ f[0] = base
               /\ \A k \in 1..n : f[k] = Configured(f[k - 1], configs[k])
               /\ ConfiguredBy(base, configs) = f[n]
  <2>1. PICK b : b = base
    OBVIOUS
  <2>2. PICK c : c = configs
    OBVIOUS
  <2>3. PICK T : c \in Seq(T)
    BY <1>1, <2>2
  <2>4. \E f : /\ f[0] = b
               /\ \A k \in 1..Len(c) : f[k] = Configured(f[k - 1], c[k])
               /\ ConfiguredBy(b, c) = f[Len(c)]
    BY <2>3, ConfiguringSteps
  <2> QED
    BY <2>1, <2>2, <2>4
<1> DEFINE S == {k \in Nat : k <= n => IsAcc(scenario, f[k])}
<1>8. 0 \in S
  BY <1>5, <1>7
<1>9. ASSUME NEW k \in Nat, k \in S
      PROVE  k + 1 \in S
  <2> SUFFICES ASSUME k + 1 <= n
               PROVE  IsAcc(scenario, f[k + 1])
    OBVIOUS
  <2>1. f[k + 1] = Configured(f[k], configs[k + 1])
    BY <1>1, <1>7
  <2>2. IsAcc(scenario, f[k])
    BY <1>1, <1>9
  <2> QED
    BY <2>1, <2>2, ConfiguredPlaced
<1>10. n \in S
  <2> HIDE DEF S
  <2> QED
    BY <1>1, <1>8, <1>9, NaturalInduction
<1>11. IsAcc(scenario, f[n])
  BY <1>1, <1>10
<1> QED
  BY <1>6, <1>7, <1>11 DEF IsAcc

(* A step of the helics app.                                               *)
LEMMA HelicsPlaces ==
  ASSUME OtInv, PlaceInv, HelicsNext
  PROVE  PlaceInv'
<1>1. scenario \in Scenarios /\ IsHelics /\ ~IsOtSim
  BY DEF OtInv, HelicsNext, ResolveRoot, RootFails, SkipFederate, Federate, FederateFails, WriteBrokers, InFederates, IsOtSim, IsHelics
<1>2. /\ Placed(scenario, nodes) /\ Placed(scenario, doc) /\ IsTopology(scenario.topology) /\ UsesHelics
      /\ step = [loop |-> step.loop, i |-> step.i] /\ step.i \in Nat \ {0} /\ brokers = << >> /\ waits = << >>
  BY <1>1, ScenarioTopologyIs DEF PlaceInv, RunningInv, HelicsStepInv, WaitsInv
<1>3. ASSUME scenario' = scenario, doc' = doc, app' = app, UNCHANGED otVars, Placed(scenario, nodes'),
             step' = [loop |-> step'.loop, i |-> step'.i], step'.i \in Nat \ {0}
      PROVE  PlaceInv'
  <2>1. IsHelics' /\ ~IsOtSim'
    BY <1>1, <1>3 DEF IsHelics, IsOtSim
  <2>2. UsesHelics'
    BY <1>2, <1>3 DEF UsesHelics
  <2>3. brokers' = << >> /\ waits' = << >>
    BY <1>2, <1>3 DEF otVars
  <2>4. WaitsInv'
    BY <2>1, <2>3 DEF WaitsInv
  <2> QED
    BY <1>2, <1>3, <2>1, <2>2, <2>4 DEF PlaceInv, RunningInv, HelicsStepInv, BetweenInv
<1>4. ASSUME scenario' = scenario, Raise, UNCHANGED otVars
      PROVE  PlaceInv'
  <2>1. ~IsHelics' /\ ~IsOtSim' /\ step'.loop = "none" /\ doc' = doc
    BY <1>4 DEF Raise, IsHelics, IsOtSim
  <2>2. brokers' = << >> /\ waits' = << >>
    BY <1>2, <1>4 DEF otVars
  <2>3. WaitsInv'
    BY <2>1, <2>2 DEF WaitsInv
  <2> QED
    BY <1>2, <1>4, <2>1, <2>3 DEF PlaceInv, RunningInv, HelicsStepInv, BetweenInv
<1>5. step' = [step EXCEPT !.i = @ + 1] => step' = [loop |-> step'.loop, i |-> step'.i] /\ step'.i \in Nat \ {0}
  BY <1>2
<1>6. CASE ResolveRoot
  <2>1. Placed(scenario, nodes')
    BY <1>2, <1>6, LabelAsPlaced DEF ResolveRoot
  <2>2. step' = [loop |-> "federates", i |-> 1]
    BY <1>6 DEF ResolveRoot, GoTo
  <2> QED
    BY <1>3, <1>6, <2>1, <2>2 DEF ResolveRoot
<1>7. CASE RootFails \/ FederateFails
  BY <1>4, <1>7 DEF RootFails, FederateFails
<1>8. CASE SkipFederate
  BY <1>2, <1>3, <1>5, <1>8 DEF SkipFederate, Again
<1>9. CASE Federate
  <2>1. step.i \in 1..Len(Federates)
    BY <1>2, <1>9 DEF Federate, InFederates
  <2>2. nodes \in Seq(ToSet(nodes))
    BY <1>2 DEF Placed, IsTopology
  <2> DEFINE S == {m \in ToSet(nodes) : m.federate # None}
  <2>3. Federates = Select(nodes, S)
    BY DEF Federates, AnnotatedNodes
  <2>4. ThisFederate \in ToSet(nodes) /\ ThisFederate.federate # None
    <3>1. Federates \in Seq(S)
      <4> HIDE DEF S
      <4>1. ToSet(Federates) \subseteq S /\ Federates \in Seq(ToSet(nodes))
        BY <2>2, <2>3, SelectIs
      <4> QED
        BY <4>1, ListOfSequence, SeqMonotonic DEF IsList
    <3> HIDE DEF S
    <3>2. Federates[step.i] \in S
      BY <2>1, <3>1
    <3> QED
      BY <3>2 DEF ThisFederate, S
  <2>5. IsList(ThisFederate.federate)
    BY <1>2, <2>4 DEF Placed, NodePlaced, ToSet
  <2>6. Placed(scenario, FederateTurn(ThisFederate).nodes)
    BY <1>1, <1>2, <2>5, FederateTurnPlaced
  <2>7. nodes' = FederateTurn(ThisFederate).nodes
    BY <1>9 DEF Federate
  <2> QED
    BY <1>3, <1>5, <1>9, <2>6, <2>7 DEF Federate, Again
<1>10. CASE WriteBrokers
  <2> DEFINE injects == [h \in BrokerHosts |-> BrokerInject(BrokerFile(h))]
  <2>1. \A h \in DOMAIN injects : injects[h] \in Added(scenario, h)
    <3> SUFFICES ASSUME NEW h
                 PROVE  BrokerInject(BrokerFile(h)) \in Added(scenario, h)
      OBVIOUS
    <3> QED
      BY <1>2 DEF Added, OwnAdded, UsesHelics
  <2>2. nodes' = InjectInto(nodes, injects)
    BY <1>10 DEF WriteBrokers
  <2> HIDE DEF injects
  <2>3. Placed(scenario, nodes')
    BY <1>2, <2>1, <2>2, InjectIntoPlaced
  <2>4. step' = [loop |-> "done", i |-> 1]
    BY <1>10 DEF WriteBrokers, GoTo
  <2> QED
    BY <1>3, <1>10, <2>3, <2>4 DEF WriteBrokers
<1> QED
  BY <1>6, <1>7, <1>8, <1>9, <1>10 DEF HelicsNext

-----------------------------------------------------------------------------
(* A process that is over leaves nothing behind.                           *)
LEMMA OverPlaces ==
  ASSUME scenario' = scenario, Placed(scenario, doc'), OtReset,
         ~IsOtSim', IsHelics' => Placed(scenario, nodes') /\ HelicsStepInv', ~IsHelics' => step'.loop = "none"
  PROVE  PlaceInv'
<1>1. brokers' = << >> /\ waits' = << >> /\ DOMAIN << >> = {}
  BY DEF OtReset
<1>2. WaitsInv'
  BY <1>1 DEF WaitsInv
<1> QED
  BY <1>2 DEF PlaceInv, RunningInv, HelicsStepInv, BetweenInv

(* PlaceInv is an invariant: every step of the experiment keeps it.        *)
LEMMA PlaceInvHolds == Spec => []PlaceInv
<1>1. Init => PlaceInv
  <2> SUFFICES ASSUME Init PROVE PlaceInv
    OBVIOUS
  <2>1. /\ scenario \in Scenarios /\ doc = scenario.topology /\ ~IsOtSim /\ ~IsHelics /\ step.loop = "none"
        /\ brokers = << >> /\ waits = << >> /\ DOMAIN << >> = {}
    BY DEF Init, ProcessInit, OtInit, IsOtSim, IsHelics
  <2>2. Placed(scenario, doc)
    BY <2>1, ScenarioTopologyIs
  <2> QED
    BY <2>1, <2>2 DEF PlaceInv, RunningInv, HelicsStepInv, BetweenInv, WaitsInv
<1>2. OtInv /\ PlaceInv /\ [Next]_vars => PlaceInv'
  <2> SUFFICES ASSUME OtInv, PlaceInv, [Next]_vars PROVE PlaceInv'
    OBVIOUS
  <2>1. scenario \in Scenarios /\ Placed(scenario, doc)
    BY DEF OtInv, PlaceInv
  <2>2. CASE StartExperiment
    <3>1. ~IsOtSim /\ ~IsHelics
      BY <2>2 DEF StartExperiment, Idle, IsOtSim, IsHelics
    <3>2. /\ app' = "ot-sim" /\ step' = [loop |-> "servers", i |-> 1] /\ scenario' = scenario /\ doc' = doc /\ nodes' = doc
          /\ brokers' = brokers /\ waits' = waits
      BY <2>2 DEF StartExperiment, StartOtSim, Launch, GoTo, otVars
    <3>3. brokers' = << >> /\ waits' = << >> /\ DOMAIN << >> = {}
      BY <3>1, <3>2 DEF PlaceInv, WaitsInv
    <3>4. IsOtSim' /\ ~IsHelics'
      BY <3>2 DEF IsOtSim, IsHelics
    <3>5. WaitsInv'
      <4>1. WaitsAfter(scenario)[0] = << >>
        BY <2>1, WaitsAreChain
      <4>2. step'.i - 1 = 0
        BY <3>2
      <4> QED
        BY <3>2, <3>3, <3>4, <4>1, <4>2 DEF WaitsInv
    <3> QED
      BY <2>1, <3>2, <3>4, <3>5 DEF PlaceInv, RunningInv, HelicsStepInv, BetweenInv
  <2>3. CASE OtSimNext
    <3>1. CASE ServerFails \/ CallFails \/ FepFails \/ ClientFails
      <4>1. scenario' = scenario /\ Raise /\ OtReset
        BY <3>1 DEF ServerFails, CallFails, FepFails, ClientFails
      <4>2. ~IsOtSim' /\ ~IsHelics' /\ step'.loop = "none" /\ doc' = doc
        BY <4>1 DEF Raise, IsHelics, IsOtSim
      <4> QED
        BY <2>1, <4>1, <4>2, OverPlaces
    <3>2. CASE ServersDone \/ FepsDone
      <4>1. IsOtSim /\ scenario' = scenario /\ doc' = doc /\ app' = app /\ brokers' = brokers /\ nodes' = nodes /\ step'.loop # "servers"
        BY <3>2 DEF ServersDone, FepsDone, IsOtSim, GoTo, otVars
      <4> QED
        BY <2>1, <4>1, OtherPlaces DEF PlaceInv, RunningInv
    <3>3. CASE CallProcess \/ CallUpstream \/ ReturnProcess
      <4>1. IsOtSim /\ step.loop = "feps" /\ brokers' = brokers /\ UNCHANGED processVars
        BY <3>3 DEF CallProcess, CallUpstream, ReturnProcess, InFeps, At, IsOtSim
      <4>2. scenario' = scenario /\ doc' = doc /\ app' = app /\ nodes' = nodes /\ step'.loop # "servers"
        BY <4>1 DEF processVars
      <4> QED
        BY <2>1, <4>1, <4>2, OtherPlaces DEF PlaceInv, RunningInv
    <3> QED
      BY <2>3, <3>1, <3>2, <3>3, ServerPlaces, ConfigureFepPlaces, ClientPlaces, ClientsDonePlaces DEF OtSimNext
  <2>4. CASE HelicsNext
    BY <2>4, HelicsPlaces
  <2>5. CASE HandOver
    <3>1. /\ scenario' = scenario /\ doc' = nodes /\ nodes' = nodes /\ app' = "helics" /\ OtReset
          /\ step' = [loop |-> "root", i |-> 1] /\ IsOtSim /\ UsesHelics
      BY <2>5 DEF HandOver, Launch, GoTo, IsOtSim
    <3>2. Placed(scenario, nodes)
      BY <3>1 DEF PlaceInv, RunningInv
    <3>3. ~IsOtSim' /\ IsHelics'
      BY <3>1 DEF IsOtSim, IsHelics
    <3>4. HelicsStepInv'
      BY <3>1 DEF HelicsStepInv, UsesHelics
    <3> QED
      BY <3>1, <3>2, <3>3, <3>4, OverPlaces
  <2>6. CASE Started
    <3>1. /\ scenario' = scenario /\ doc' = nodes /\ app' = "started" /\ OtReset
          /\ step'.loop = "none" /\ step.loop = "done"
      BY <2>6 DEF Started, Finish, At
    <3>2. IsOtSim \/ IsHelics
      BY <3>1 DEF PlaceInv, BetweenInv
    <3>3. ~IsOtSim' /\ ~IsHelics'
      BY <3>1 DEF IsOtSim, IsHelics
    <3> QED
      BY <3>1, <3>2, <3>3, OverPlaces DEF PlaceInv, RunningInv
  <2>7. CASE Toggle
    <3>1. /\ ~IsOtSim /\ ~IsHelics /\ scenario' = scenario /\ app' = app /\ step' = step /\ UNCHANGED otVars
      BY <2>7 DEF Toggle, Idle, IsOtSim, IsHelics
    <3>2. PICK k \in DOMAIN doc : doc' = [doc EXCEPT ![k].boots = ~@]
      BY <2>7 DEF Toggle
    <3>3. Placed(scenario, doc')
      <4> DEFINE value == ~doc[k].boots
      <4>1. doc' = [doc EXCEPT ![k]["boots"] = value]
        BY <3>2
      <4> HIDE DEF value
      <4> QED
        BY <2>1, <4>1, ChangePlaced
    <3>4. ~IsOtSim' /\ ~IsHelics'
      BY <3>1 DEF IsOtSim, IsHelics
    <3> QED
      BY <3>1, <3>3, <3>4 DEF PlaceInv, RunningInv, HelicsStepInv, BetweenInv, WaitsInv, otVars
  <2>8. CASE UNCHANGED vars
    <3>1. UNCHANGED <<scenario, doc, app, nodes, step, brokers, waits>>
      BY <2>8 DEF vars, processVars, otVars
    <3> QED
      BY <3>1 DEF PlaceInv, RunningInv, HelicsStepInv, BetweenInv, WaitsInv, IsOtSim, IsHelics, UsesHelics
  <2> QED
    BY <2>2, <2>3, <2>4, <2>5, <2>6, <2>7, <2>8 DEF Next, Apps
<1> QED
  BY <1>1, <1>2, OtInvHolds, PTL DEF Spec

(* What a node of phenix's topology is given has a place of its own,       *)
(* however often the experiment was started and wherever a start failed:   *)
(* add_inject compares whole injects, so a wait script under another name  *)
(* would be added beside the first.                                        *)
THEOREM InjectsDoNotCollide == Spec => []OneInjectPerPlace
<1>1. OtInv /\ PlaceInv => OneInjectPerPlace
  <2> SUFFICES ASSUME OtInv, PlaceInv,
                      NEW k \in DOMAIN doc, NEW i \in DOMAIN doc[k].injects, NEW j \in DOMAIN doc[k].injects,
                      doc[k].injects[i].dst = doc[k].injects[j].dst
               PROVE  i = j \/ (AsksTwice /\ doc[k].injects[i].dst = "helics-broker")
    BY DEF OneInjectPerPlace
  <2> DEFINE injects == doc[k].injects
  <2>1. scenario \in Scenarios /\ k \in DOMAIN scenario.topology /\ NodePlaced(scenario, k, doc[k])
    BY DEF OtInv, PlaceInv, Placed
  <2>2. NoTwice(injects) /\ ToSet(injects) \subseteq Possible(scenario, k)
    BY <2>1 DEF NodePlaced
  <2>3. injects[i] \in Possible(scenario, k) /\ injects[j] \in Possible(scenario, k)
    BY <2>2 DEF ToSet
  <2>4. injects[i] = injects[j] \/ (scenario.root # None /\ HasBase(scenario) /\ injects[i].dst = "helics-broker")
    <3> HIDE DEF injects
    <3>1. injects[i].dst = injects[j].dst
      BY DEF injects
    <3> QED
      BY <2>1, <2>3, <3>1, PlacesDiffer
  <2>5. CASE injects[i] = injects[j]
    BY <2>2, <2>5 DEF NoTwice
  <2>6. CASE scenario.root # None /\ HasBase(scenario) /\ injects[i].dst = "helics-broker"
    BY <2>6 DEF AsksTwice, UsesHelics, HasBase
  <2> QED
    BY <2>4, <2>5, <2>6
<1> QED
  BY <1>1, OtInvHolds, PlaceInvHolds, PTL
-----------------------------------------------------------------------------
(* One entry more.                                                         *)
Plus(n, e, S) == IF e \in S THEN n + e.count ELSE n

(* The federates that the entries in S stand for, summed up.               *)
Counting(g, entries, S, n) ==
  g = [s \in SUBSET (1..n) |-> IF s = {} THEN 0 ELSE Plus(g[s \ {Max(s)}], entries[Max(s)], S)]

(* There is one for every length.                                          *)
LEMMA CountingExists ==
  ASSUME NEW entries, NEW S
  PROVE  \A n \in Nat : \E g : Counting(g, entries, S, n)
<1> DEFINE E == {n \in Nat : \E g : Counting(g, entries, S, n)}
<1>1. 0 \in E
  <2> DEFINE g == [s \in SUBSET (1..0) |-> 0]
  <2>1. \A s \in SUBSET (1..0) : s = {}
    OBVIOUS
  <2>2. Counting(g, entries, S, 0)
    BY <2>1 DEF Counting
  <2> QED
    BY <2>2
<1>2. \A n \in Nat : n \in E => n + 1 \in E
  <2> SUFFICES ASSUME NEW n \in Nat, NEW f, Counting(f, entries, S, n)
               PROVE  \E g : Counting(g, entries, S, n + 1)
    OBVIOUS
  <2> DEFINE g == [s \in SUBSET (1..(n + 1)) |->
                    IF n + 1 \in s THEN Plus(f[s \ {n + 1}], entries[n + 1], S) ELSE f[s]]
  <2>1. \A s \in SUBSET (1..(n + 1)) : s \ {n + 1} \in SUBSET (1..n) /\ (n + 1 \notin s => s \in SUBSET (1..n))
    OBVIOUS
  <2>2. ASSUME NEW s \in SUBSET (1..(n + 1))
        PROVE  g[s] = IF s = {} THEN 0 ELSE Plus(g[s \ {Max(s)}], entries[Max(s)], S)
    <3>1. CASE n + 1 \in s
      <4>1. Max(s) = n + 1 /\ s # {}
        BY <3>1, MaxIsLast
      <4>2. g[s \ {n + 1}] = f[s \ {n + 1}]
        OBVIOUS
      <4> QED
        BY <3>1, <4>1, <4>2
    <3>2. CASE n + 1 \notin s
      <4>1. s \in SUBSET (1..n) /\ g[s] = f[s]
        BY <2>1, <3>2
      <4>2. g[s \ {Max(s)}] = f[s \ {Max(s)}]
        BY <3>2
      <4> HIDE DEF g
      <4> QED
        BY <4>1, <4>2 DEF Counting
    <3> QED
      BY <3>1, <3>2
  <2>3. g = [s \in SUBSET (1..(n + 1)) |-> g[s]]
    OBVIOUS
  <2>4. Counting(g, entries, S, n + 1)
    <3> HIDE DEF g
    <3> QED
      BY <2>2, <2>3 DEF Counting
  <2> QED
    BY <2>4
<1>3. Nat \subseteq E
  <2> HIDE DEF E
  <2> QED
    BY <1>1, <1>2, NaturalInduction
<1> QED
  BY <1>3

(* It goes through one entry after the other.                              *)
LEMMA CountingSteps ==
  ASSUME NEW T, NEW entries \in Seq(T), NEW S
  PROVE  \E f : /\ f[0] = 0
                /\ \A k \in 1..Len(entries) : f[k] = Plus(f[k - 1], entries[k], S)
                /\ CountOf(entries, S) = f[Len(entries)]
<1> DEFINE n == Len(entries)
           g == CHOOSE g : Counting(g, entries, S, n)
           f == [k \in 0..n |-> g[1..k]]
<1>1. DOMAIN entries = 1..n /\ n \in Nat
  OBVIOUS
<1>2. Counting(g, entries, S, n)
  BY <1>1, CountingExists, Zenon
<1>3. CountOf(entries, S) = g[1..n]
  BY <1>1 DEF CountOf, Plus, FoldLeft, MapThenFoldSet, Counting
<1> HIDE DEF g
<1>4. f[0] = 0
  BY <1>1, <1>2 DEF Counting
<1>5. ASSUME NEW k \in 1..n
      PROVE  f[k] = Plus(f[k - 1], entries[k], S)
  <2>1. k - 1 \in Nat /\ (k - 1) + 1 = k /\ k \in 1..k /\ 1..k \in SUBSET (1..n)
    BY <1>1
  <2>2. Max(1..k) = k
    BY <2>1, MaxIsLast
  <2>3. (1..k) \ {k} = 1..(k - 1)
    BY <2>1
  <2>4. g[1..k] = Plus(g[1..(k - 1)], entries[k], S)
    BY <1>2, <2>1, <2>2, <2>3 DEF Counting
  <2> QED
    BY <1>1, <2>1, <2>4
<1>6. CountOf(entries, S) = f[n]
  BY <1>1, <1>3
<1> QED
  <2> HIDE DEF f
  <2> QED
    BY <1>4, <1>5, <1>6

(* To count one entry more, whatever else the set has to say of others.    *)
LEMMA CountMore ==
  ASSUME NEW entries, IsList(entries), NEW e, NEW S, NEW R, \A d \in ToSet(entries) : d \in S <=> d \in R
  PROVE  CountOf(Append(entries, e), R) = Plus(CountOf(entries, S), e, R)
<1> DEFINE n == Len(entries)
           more == Append(entries, e)
<1>1. /\ entries \in Seq(ToSet(entries)) /\ n \in Nat /\ more \in Seq(ToSet(entries) \cup {e}) /\ Len(more) = n + 1
      /\ more[n + 1] = e /\ \A k \in 1..n : more[k] = entries[k] /\ entries[k] \in ToSet(entries)
  BY DEF IsList, ToSet
<1>2. PICK f : f[0] = 0 /\ (\A k \in 1..n : f[k] = Plus(f[k - 1], entries[k], S)) /\ CountOf(entries, S) = f[n]
  BY <1>1, CountingSteps
<1>3. PICK g : g[0] = 0 /\ (\A k \in 1..(n + 1) : g[k] = Plus(g[k - 1], more[k], R)) /\ CountOf(more, R) = g[n + 1]
  <2> HIDE DEF more
  <2>1. PICK T : more \in Seq(T)
    BY <1>1
  <2>2. PICK g : g[0] = 0 /\ (\A k \in 1..Len(more) : g[k] = Plus(g[k - 1], more[k], R)) /\ CountOf(more, R) = g[Len(more)]
    BY <2>1, CountingSteps
  <2> QED
    BY <1>1, <2>2
<1> DEFINE E == {k \in Nat : k <= n => g[k] = f[k]}
<1> HIDE DEF more
<1>4. 0 \in E
  BY <1>2, <1>3
<1>5. ASSUME NEW k \in Nat, k \in E
      PROVE  k + 1 \in E
  <2> SUFFICES ASSUME k + 1 <= n
               PROVE  g[k + 1] = f[k + 1]
    OBVIOUS
  <2>1. k + 1 \in 1..n /\ k + 1 \in 1..(n + 1) /\ (k + 1) - 1 = k /\ g[k] = f[k]
    BY <1>1, <1>5
  <2>2. f[k + 1] = Plus(f[k], entries[k + 1], S) /\ g[k + 1] = Plus(f[k], entries[k + 1], R)
    BY <1>1, <1>2, <1>3, <2>1
  <2> QED
    BY <1>1, <2>1, <2>2 DEF Plus
<1>6. n \in E
  <2> HIDE DEF E
  <2> QED
    BY <1>1, <1>4, <1>5, NaturalInduction
<1>7. g[n + 1] = Plus(g[n], e, R) /\ g[n] = f[n]
  BY <1>1, <1>3, <1>6
<1> QED
  BY <1>2, <1>3, <1>7 DEF more

(* Nothing is counted of a set that no entry is in.                        *)
LEMMA CountNone ==
  ASSUME NEW entries, IsList(entries), NEW S, \A d \in ToSet(entries) : d \notin S
  PROVE  CountOf(entries, S) = 0
<1> DEFINE n == Len(entries)
<1>1. n \in Nat /\ entries \in Seq(ToSet(entries)) /\ \A k \in 1..n : entries[k] \notin S
  BY DEF IsList, ToSet
<1>2. PICK f : f[0] = 0 /\ (\A k \in 1..n : f[k] = Plus(f[k - 1], entries[k], S)) /\ CountOf(entries, S) = f[n]
  BY <1>1, CountingSteps
<1> DEFINE E == {k \in Nat : k <= n => f[k] = 0}
<1>3. 0 \in E
  BY <1>2
<1>4. ASSUME NEW k \in Nat, k \in E
      PROVE  k + 1 \in E
  <2> SUFFICES ASSUME k + 1 <= n
               PROVE  f[k + 1] = 0
    OBVIOUS
  <2>1. k + 1 \in 1..n /\ (k + 1) - 1 = k /\ f[k] = 0
    BY <1>1, <1>4
  <2> QED
    BY <1>1, <1>2, <2>1 DEF Plus
<1>5. n \in E
  <2> HIDE DEF E
  <2> QED
    BY <1>1, <1>3, <1>4, NaturalInduction
<1> QED
  BY <1>1, <1>2, <1>5

(* A list of lists, in one set of elements.                                *)
LEMMA ListsAre ==
  ASSUME NEW n \in Nat, NEW seqs, seqs = [k \in 1..n |-> seqs[k]], \A k \in 1..n : IsList(seqs[k])
  PROVE  \E T : seqs \in Seq(Seq(T)) /\ Len(seqs) = n /\ \A k \in 1..n : seqs[k] \in Seq(T)
<1> DEFINE T == UNION {ToSet(seqs[k]) : k \in 1..n}
<1>1. ASSUME NEW k \in 1..n
      PROVE  seqs[k] \in Seq(T)
  <2>1. seqs[k] \in Seq(ToSet(seqs[k])) /\ ToSet(seqs[k]) \subseteq T
    BY DEF IsList
  <2> HIDE DEF T
  <2> QED
    BY <2>1, SeqMonotonic
<1> HIDE DEF T
<1>2. seqs \in Seq(Seq(T)) /\ Len(seqs) = n
  BY <1>1
<1> QED
  BY <1>1, <1>2

(* One list more is appended to what the others make.                      *)
LEMMA FlattenMore ==
  ASSUME NEW n \in Nat, NEW seqs, seqs = [k \in 1..(n + 1) |-> seqs[k]], \A k \in 1..(n + 1) : IsList(seqs[k]),
         NEW less, less = [k \in 1..n |-> seqs[k]]
  PROVE  FlattenSeq(seqs) = FlattenSeq(less) \o seqs[n + 1] /\ IsList(FlattenSeq(less))
<1>1. PICK T : seqs \in Seq(Seq(T)) /\ Len(seqs) = n + 1 /\ \A k \in 1..(n + 1) : seqs[k] \in Seq(T)
  <2>1. n + 1 \in Nat
    OBVIOUS
  <2> QED
    BY <2>1, ListsAre
<1>2. less \in Seq(Seq(T)) /\ Len(less) = n /\ \A k \in 1..n : less[k] = seqs[k]
  <2>1. \A k \in 1..n : seqs[k] \in Seq(T)
    BY <1>1
  <2>2. PICK U : U = Seq(T)
    OBVIOUS
  <2>3. \A k \in 1..n : less[k] \in U
    BY <2>1, <2>2
  <2>4. less \in [1..n -> U]
    BY <2>3
  <2>5. less \in Seq(U)
    <3>1. [1..n -> U] \in {[1..m -> U] : m \in Nat}
      OBVIOUS
    <3> QED
      BY <2>4, <3>1, SeqDef
  <2>6. Len(less) = n
    <3>1. DOMAIN less = 1..n /\ DOMAIN less = 1..Len(less) /\ Len(less) \in Nat
      BY <2>4, <2>5
    <3> QED
      BY <3>1
  <2> QED
    BY <2>2, <2>5, <2>6
<1>3. PICK f : Flattening(f, T, seqs) /\ FlattenSeq(seqs) = f[n + 1]
  BY <1>1, FlatteningSteps
<1>4. PICK g : Flattening(g, T, less) /\ FlattenSeq(less) = g[n]
  BY <1>2, FlatteningSteps, ZenonT(30)
<1> DEFINE E == {k \in Nat : k <= n => g[k] = f[k]}
<1>5. 0 \in E
  BY <1>3, <1>4 DEF Flattening
<1>6. ASSUME NEW k \in Nat, k \in E
      PROVE  k + 1 \in E
  <2> SUFFICES ASSUME k + 1 <= n
               PROVE  g[k + 1] = f[k + 1]
    OBVIOUS
  <2>1. k + 1 \in 1..n /\ k + 1 \in 1..(n + 1) /\ (k + 1) - 1 = k /\ g[k] = f[k]
    BY <1>6
  <2>2. f[k + 1] = f[k] \o seqs[k + 1] /\ g[k + 1] = g[k] \o less[k + 1]
    BY <1>1, <1>2, <1>3, <1>4, <2>1 DEF Flattening
  <2> QED
    BY <1>2, <2>1, <2>2
<1>7. n \in E
  <2> HIDE DEF E
  <2> QED
    BY <1>5, <1>6, NaturalInduction
<1>8. f[n + 1] = f[n] \o seqs[n + 1] /\ g[n] = f[n]
  <2>1. n + 1 \in 1..(n + 1) /\ (n + 1) - 1 = n /\ n <= n
    OBVIOUS
  <2> QED
    BY <1>1, <1>3, <1>7, <2>1 DEF Flattening
<1>9. FlattenSeq(less) \in Seq(T)
  BY <1>2, FlattenIs
<1> QED
  BY <1>3, <1>4, <1>8, <1>9, ListOfSequence

(* No list makes an empty one.                                             *)
LEMMA FlattenNone ==
  ASSUME NEW seqs, seqs = [k \in 1..0 |-> seqs[k]]
  PROVE  FlattenSeq(seqs) = << >>
<1>1. seqs = << >>
  OBVIOUS
<1> QED
  BY <1>1 DEF FlattenSeq

(* Members of two sequences are selected alike: at the same places.        *)
LEMMA SelectAlike ==
  ASSUME NEW a, IsList(a), NEW b, IsList(b), NEW S, NEW R, Len(a) = Len(b),
         \A j \in 1..Len(a) : a[j] \in S <=> b[j] \in R
  PROVE  /\ IsList(Select(a, S)) /\ IsList(Select(b, R)) /\ Len(Select(a, S)) = Len(Select(b, R))
         /\ \A k \in 1..Len(Select(a, S)) : \E j \in 1..Len(a) : Select(a, S)[k] = a[j] /\ Select(b, R)[k] = b[j]
<1> DEFINE n == Len(a)
           A == ToSet(a)
           B == ToSet(b)
<1>1. n \in Nat /\ a \in Seq(A) /\ b \in Seq(B) /\ \A j \in 1..n : a[j] \in A /\ b[j] \in B
  BY DEF IsList, ToSet
<1> HIDE DEF A, B
<1>2. PICK f : Selecting(f, A, a, S) /\ Select(a, S) = f[n]
  BY <1>1, SelectingSteps
<1>3. PICK g : Selecting(g, B, b, R) /\ Select(b, R) = g[n]
  BY <1>1, SelectingSteps
<1>0. /\ f \in [0..n -> Seq(A)] /\ g \in [0..n -> Seq(B)] /\ f[0] = << >> /\ g[0] = << >>
      /\ \A k \in 1..n : /\ f[k] = IF a[k] \in S THEN Append(f[k - 1], a[k]) ELSE f[k - 1]
                         /\ g[k] = IF b[k] \in R THEN Append(g[k - 1], b[k]) ELSE g[k - 1]
  BY <1>1, <1>2, <1>3 DEF Selecting
<1> DEFINE Alike(s, t) == Len(s) = Len(t) /\ \A k \in 1..Len(s) : \E j \in 1..n : s[k] = a[j] /\ t[k] = b[j]
<1>4. ASSUME NEW s \in Seq(A), NEW t \in Seq(B), Alike(s, t), NEW j \in 1..n
      PROVE  Alike(Append(s, a[j]), Append(t, b[j]))
  <2> DEFINE u == Append(s, a[j])
             v == Append(t, b[j])
  <2>1. Len(s) \in Nat /\ Len(t) = Len(s)
    BY <1>4
  <2>2. Len(u) = Len(s) + 1 /\ Len(v) = Len(s) + 1 /\ u[Len(s) + 1] = a[j] /\ v[Len(s) + 1] = b[j]
    BY <1>1, <2>1
  <2>3. \A k \in 1..Len(s) : u[k] = s[k] /\ v[k] = t[k]
    BY <1>1, <2>1
  <2> HIDE DEF u, v
  <2>4. ASSUME NEW k \in 1..Len(u)
        PROVE  \E i \in 1..n : u[k] = a[i] /\ v[k] = b[i]
    <3>1. k \in 1..Len(s) \/ k = Len(s) + 1
      BY <2>1, <2>2
    <3> QED
      BY <1>4, <2>2, <2>3, <3>1
  <2> QED
    BY <2>2, <2>4 DEF u, v
<1> DEFINE E == {k \in Nat : k <= n => Alike(f[k], g[k])}
<1>5. 0 \in E
  <2>1. \A k \in 1..0 : FALSE
    OBVIOUS
  <2> QED
    BY <1>0, <2>1
<1>6. ASSUME NEW k \in Nat, k \in E
      PROVE  k + 1 \in E
  <2> SUFFICES ASSUME k + 1 <= n
               PROVE  Alike(f[k + 1], g[k + 1])
    <3> HIDE DEF n, Alike
    <3>1. k + 1 \in Nat
      OBVIOUS
    <3> QED
      BY <3>1
  <2>1. k \in 0..n /\ k + 1 \in 1..n /\ (k + 1) - 1 = k /\ Alike(f[k], g[k])
    BY <1>1, <1>6
  <2>2. f[k] \in Seq(A) /\ g[k] \in Seq(B)
    BY <1>0, <2>1
  <2>3. Alike(Append(f[k], a[k + 1]), Append(g[k], b[k + 1]))
    <3> HIDE DEF Alike
    <3> QED
      BY <1>4, <2>1, <2>2
  <2>4. /\ f[k + 1] = IF a[k + 1] \in S THEN Append(f[k], a[k + 1]) ELSE f[k]
        /\ g[k + 1] = IF b[k + 1] \in R THEN Append(g[k], b[k + 1]) ELSE g[k]
    BY <1>0, <2>1
  <2>5. a[k + 1] \in S <=> b[k + 1] \in R
    BY <2>1
  <2> HIDE DEF Alike
  <2> QED
    BY <2>1, <2>3, <2>4, <2>5
<1>7. n \in E
  <2> HIDE DEF E
  <2> QED
    BY <1>1, <1>5, <1>6, NaturalInduction
<1>8. f[n] \in Seq(A) /\ g[n] \in Seq(B)
  BY <1>0, <1>1
<1> QED
  BY <1>1, <1>2, <1>3, <1>7, <1>8, ListOfSequence

-----------------------------------------------------------------------------
(* The nodes of ms announce what those of ns do.                           *)
SameFeds(ns, ms) ==
  /\ DOMAIN ms = DOMAIN ns
  /\ \A j \in DOMAIN ns : ms[j].hostname = ns[j].hostname /\ ms[j].boots = ns[j].boots /\ ms[j].federate = ns[j].federate

(* Labels and injects announce nothing.                                    *)
LEMMA ChangeFeds ==
  ASSUME NEW sc, NEW ns, Placed(sc, ns), NEW k, NEW field \in {"injects", "labels"}, NEW value,
         NEW ms, ms = [ns EXCEPT ![k][field] = value]
  PROVE  SameFeds(ns, ms)
<1>1. /\ ns = [j \in DOMAIN ns |-> ns[j]]
      /\ \A j \in DOMAIN ns : ns[j] = [f \in DOMAIN ns[j] |-> ns[j][f]] /\ {"hostname", "federate", "boots"} \subseteq DOMAIN ns[j]
  BY DEF Placed, NodePlaced, IsTopology, IsNode
<1>2. DOMAIN ms = DOMAIN ns /\ \A j \in DOMAIN ns : ms[j] = IF j = k THEN [ns[j] EXCEPT ![field] = value] ELSE ns[j]
  BY <1>1
<1>3. ASSUME NEW j \in DOMAIN ns
      PROVE  ms[j].hostname = ns[j].hostname /\ ms[j].boots = ns[j].boots /\ ms[j].federate = ns[j].federate
  BY <1>1, <1>2
<1> QED
  BY <1>2, <1>3 DEF SameFeds

(* The label of a federate or broker.                                      *)
LEMMA LabelAsFeds ==
  ASSUME NEW sc, NEW ns, Placed(sc, ns), NEW hostname, NEW role
  PROVE  SameFeds(ns, LabelAs(ns, hostname, role))
<1>1. ASSUME NEW ms, Placed(sc, ms), NEW key, NEW value
      PROVE  SameFeds(ms, AddLabel(ms, hostname, key, value))
  <2> DEFINE k == NodeIndex(ms, hostname)
             new == (key :> value) @@ ms[k].labels
  <2>1. AddLabel(ms, hostname, key, value) = [ms EXCEPT ![k]["labels"] = new]
    BY DEF AddLabel
  <2> HIDE DEF new, k
  <2> QED
    BY <1>1, <2>1, ChangeFeds
<1> DEFINE ms == AddLabel(ns, hostname, "group", "helics")
<1>2. Placed(sc, ms) /\ SameFeds(ns, ms)
  BY <1>1, AddLabelPlaced
<1>3. SameFeds(ms, LabelAs(ns, hostname, role))
  <2> HIDE DEF ms
  <2>1. LabelAs(ns, hostname, role) = AddLabel(ms, hostname, "helics", role)
    BY DEF LabelAs, ms
  <2> QED
    BY <1>1, <1>2, <2>1
<1> HIDE DEF ms
<1> QED
  BY <1>2, <1>3 DEF SameFeds

(* An inject.                                                              *)
LEMMA AddInjectFeds ==
  ASSUME NEW sc, NEW ns, Placed(sc, ns), NEW hostname, NEW inject
  PROVE  SameFeds(ns, AddInject(ns, hostname, inject))
<1> DEFINE k == NodeIndex(ns, hostname)
           new == IF Contains(ns[k].injects, inject) THEN ns[k].injects ELSE Append(ns[k].injects, inject)
<1>1. AddInject(ns, hostname, inject) = [ns EXCEPT ![k]["injects"] = new]
  BY DEF AddInject
<1> HIDE DEF new, k
<1> QED
  BY <1>1, ChangeFeds

(* The loop over all nodes gives each node the inject there is for it.     *)
LEMMA InjectIntoGives ==
  ASSUME NEW sc, IsTopology(sc.topology), NEW ns, Placed(sc, ns),
         NEW injects, \A h \in DOMAIN injects : injects[h] \in Added(sc, h)
  PROVE  /\ SameFeds(ns, InjectInto(ns, injects))
         /\ \A h \in DOMAIN injects : InTopology(ns, h) => injects[h] \in ToSet(ExtractNode(InjectInto(ns, injects), h).injects)
<1> DEFINE n == Len(ns)
           Has(ms, h) == h \in DOMAIN injects => injects[h] \in ToSet(ExtractNode(ms, h).injects)
<1>1. n \in Nat /\ DOMAIN ns = 1..n /\ ns \in Seq(ToSet(ns))
  BY DEF Placed, IsTopology
<1>2. PICK f : /\ f[0] = ns
               /\ \A k \in 1..n : f[k] = Given(f[k - 1], ns[k], injects)
               /\ InjectInto(ns, injects) = f[n]
  BY <1>1, GivingSteps
<1> DEFINE E == {k \in Nat : k <= n => Placed(sc, f[k]) /\ SameFeds(ns, f[k]) /\ \A j \in 1..k : Has(f[k], ns[j].hostname)}
<1>3. 0 \in E
  <2>1. SameFeds(ns, ns) /\ \A j \in 1..0 : FALSE
    BY DEF SameFeds
  <2> QED
    BY <1>2, <2>1
<1>4. ASSUME NEW k \in Nat, k \in E
      PROVE  k + 1 \in E
  <2> SUFFICES ASSUME k + 1 <= n
               PROVE  Placed(sc, f[k + 1]) /\ SameFeds(ns, f[k + 1]) /\ \A j \in 1..(k + 1) : Has(f[k + 1], ns[j].hostname)
    OBVIOUS
  <2> DEFINE h == ns[k + 1].hostname
  <2>1. f[k + 1] = Given(f[k], ns[k + 1], injects) /\ k + 1 \in DOMAIN ns
    BY <1>1, <1>2
  <2>2. Placed(sc, f[k]) /\ SameFeds(ns, f[k]) /\ \A j \in 1..k : Has(f[k], ns[j].hostname)
    BY <1>1, <1>4
  <2>3. \A j \in 1..(k + 1) : j \in 1..k \/ j = k + 1
    OBVIOUS
  <2>4. CASE h \in DOMAIN injects
    <3> DEFINE inject == injects[h]
               i == NodeIndex(f[k], h)
    <3>1. f[k + 1] = AddInject(f[k], h, inject) /\ inject \in Added(sc, h)
      BY <2>1, <2>4 DEF Given
    <3> HIDE DEF inject, h
    <3>2. Placed(sc, f[k + 1]) /\ SameFeds(f[k], f[k + 1])
      BY <2>2, <3>1, AddInjectPlaced, AddInjectFeds
    <3>3. Tidy(f[k])
      BY <2>2 DEF Placed, NodePlaced, Tidy
    <3>4. InTopology(f[k], h) /\ i \in DOMAIN f[k]
      <4>1. f[k][k + 1].hostname = h /\ k + 1 \in DOMAIN f[k]
        BY <2>1, <2>2 DEF SameFeds, h
      <4> QED
        BY <2>2, <4>1, NodeIsFound DEF InTopology, Placed, IsTopology
    <3>5. Adds(f[k], f[k + 1], i, {inject})
      BY <3>1, <3>3, <3>4, AddInjectIs
    <3>6. \A g : NodeIndex(f[k + 1], g) = NodeIndex(f[k], g)
      BY <2>2, <3>2, SameHosts
    <3>7. inject \in ToSet(ExtractNode(f[k + 1], h).injects)
      BY <3>4, <3>5, <3>6 DEF Adds, SameBut, ExtractNode
    <3>8. ASSUME NEW j \in 1..k
          PROVE  Has(f[k + 1], ns[j].hostname)
      <4> DEFINE g == ns[j].hostname
      <4>1. j \in DOMAIN ns /\ Has(f[k], g)
        BY <1>1, <2>2
      <4>2. NodeIndex(f[k], g) \in DOMAIN f[k]
        <5>1. f[k][j].hostname = g /\ j \in DOMAIN f[k]
          BY <2>2, <4>1 DEF SameFeds
        <5> QED
          BY <2>2, <5>1, NodeIsFound DEF Placed
      <4> HIDE DEF g
      <4>3. ToSet(ExtractNode(f[k], g).injects) \subseteq ToSet(ExtractNode(f[k + 1], g).injects)
        BY <3>5, <3>6, <4>2 DEF Adds, SameBut, ExtractNode
      <4>4. Has(f[k + 1], g)
        BY <4>1, <4>3
      <4> QED
        BY <4>4 DEF g
    <3>9. \A j \in 1..(k + 1) : Has(f[k + 1], ns[j].hostname)
      BY <2>3, <3>7, <3>8 DEF inject, h
    <3> QED
      BY <2>2, <3>2, <3>9 DEF SameFeds
  <2>5. CASE h \notin DOMAIN injects
    <3>1. f[k + 1] = f[k]
      BY <2>1, <2>5 DEF Given
    <3> QED
      BY <2>2, <2>3, <2>5, <3>1
  <2> QED
    BY <2>4, <2>5
<1>5. n \in E
  <2> HIDE DEF E
  <2> QED
    BY <1>1, <1>3, <1>4, NaturalInduction
<1>6. SameFeds(ns, f[n]) /\ \A j \in 1..n : Has(f[n], ns[j].hostname)
  BY <1>1, <1>5
<1>7. ASSUME NEW h \in DOMAIN injects, InTopology(ns, h)
      PROVE  injects[h] \in ToSet(ExtractNode(f[n], h).injects)
  <2>1. NodeIndex(ns, h) \in 1..n /\ ns[NodeIndex(ns, h)].hostname = h
    BY <1>1, <1>7, NodeIsFound DEF InTopology, Placed
  <2>2. Has(f[n], h)
    <3> HIDE DEF Has
    <3> QED
      BY <1>6, <2>1
  <2> QED
    BY <1>7, <2>2
<1> QED
  BY <1>2, <1>6, <1>7

(* The host that has an address, in the scenario's topology.               *)
HostAt(sc, ip) == ExtractNodeHostnameForIp(sc.topology, ip)

(* No app changes who has which address, and who has one is a node.        *)
LEMMA HostsAreHome ==
  ASSUME NEW sc, IsTopology(sc.topology), NEW ns, Placed(sc, ns), NEW ip
  PROVE  /\ ExtractNodeHostnameForIp(ns, ip) = HostAt(sc, ip)
         /\ HostAt(sc, ip) # None => InTopology(ns, HostAt(sc, ip))
<1> DEFINE I(xs) == {j \in 1..Len(xs) : \E k \in DOMAIN xs[j].ifaces : xs[j].ifaces[k].address \in {ip} \ {None}}
           at(xs) == IF I(xs) # {} THEN Min(I(xs)) ELSE 0
<1>1. /\ DOMAIN ns = 1..Len(ns) /\ DOMAIN sc.topology = 1..Len(sc.topology) /\ Len(ns) \in Nat /\ Len(sc.topology) \in Nat
      /\ Len(sc.topology) = Len(ns)
  BY DEF IsTopology, Placed
<1>2. \A j \in DOMAIN ns : ns[j].hostname = sc.topology[j].hostname /\ ns[j].ifaces = sc.topology[j].ifaces
  BY DEF Placed, NodePlaced
<1>3. I(ns) = I(sc.topology) /\ I(ns) \in SUBSET Nat /\ I(ns) \subseteq DOMAIN ns
  BY <1>1, <1>2
<1>4. \A xs : ExtractNodeHostnameForIp(xs, ip) = IF at(xs) = 0 THEN None ELSE xs[at(xs)].hostname
  BY DEF ExtractNodeHostnameForIp, SelectInSeq
<1> HIDE DEF I
<1>5. at(ns) = at(sc.topology)
  BY <1>3
<1>6. at(ns) = 0 \/ at(ns) \in DOMAIN ns
  <2>1. I(ns) # {} => Min(I(ns)) \in I(ns)
    BY <1>3, LeastNumber
  <2> QED
    BY <1>3, <2>1
<1> HIDE DEF at
<1>7. ExtractNodeHostnameForIp(ns, ip) = HostAt(sc, ip)
  BY <1>2, <1>4, <1>5, <1>6 DEF HostAt
<1>8. ASSUME HostAt(sc, ip) # None
      PROVE  InTopology(ns, HostAt(sc, ip))
  <2>1. at(ns) \in DOMAIN ns /\ ns[at(ns)].hostname = HostAt(sc, ip)
    BY <1>4, <1>6, <1>7, <1>8
  <2>2. NodeIndex(ns, HostAt(sc, ip)) \in DOMAIN ns
    BY <2>1, NodeIsFound DEF Placed
  <2> QED
    BY <1>1, <2>2 DEF InTopology
<1> QED
  BY <1>7, <1>8

-----------------------------------------------------------------------------
(* The entries of the first m of some nodes.                               *)
Entries(s, m) == FlattenSeq([k \in 1..m |-> EntriesOf(s[k])])

(* The entries of one node more.                                           *)
LEMMA EntriesMore ==
  ASSUME NEW s, NEW m \in Nat, \A k \in 1..(m + 1) : IsList(EntriesOf(s[k]))
  PROVE  Entries(s, m + 1) = Entries(s, m) \o EntriesOf(s[m + 1]) /\ IsList(Entries(s, m))
<1> DEFINE seqs == [k \in 1..(m + 1) |-> EntriesOf(s[k])]
           less == [k \in 1..m |-> seqs[k]]
<1>1. seqs = [k \in 1..(m + 1) |-> seqs[k]] /\ \A k \in 1..(m + 1) : seqs[k] = EntriesOf(s[k])
  OBVIOUS
<1>2. less = [k \in 1..m |-> EntriesOf(s[k])]
  OBVIOUS
<1>3. Entries(s, m + 1) = FlattenSeq(seqs) /\ Entries(s, m) = FlattenSeq(less)
  BY <1>2 DEF Entries
<1> HIDE DEF seqs
<1>4. FlattenSeq(seqs) = FlattenSeq(less) \o seqs[m + 1] /\ IsList(FlattenSeq(less))
  <2> DEFINE l == less
  <2>1. l = [k \in 1..m |-> seqs[k]]
    OBVIOUS
  <2> HIDE DEF l
  <2>2. FlattenSeq(seqs) = FlattenSeq(l) \o seqs[m + 1] /\ IsList(FlattenSeq(l))
    BY <1>1, <2>1, FlattenMore, ZenonT(30)
  <2> QED
    BY <2>1, <2>2
<1>5. seqs[m + 1] = EntriesOf(s[m + 1])
  BY <1>1
<1> QED
  BY <1>3, <1>4, <1>5

(* No nodes have no entries.                                               *)
LEMMA EntriesNone ==
  ASSUME NEW s
  PROVE  Entries(s, 0) = << >>
<1> DEFINE seqs == [k \in 1..0 |-> EntriesOf(s[k])]
<1>1. seqs = [k \in 1..0 |-> seqs[k]]
  OBVIOUS
<1>2. FlattenSeq(seqs) = << >>
  <2> HIDE DEF seqs
  <2> QED
    BY <1>1, FlattenNone
<1> QED
  BY <1>2 DEF Entries

(* Nodes with the same entries.                                            *)
LEMMA EntriesSame ==
  ASSUME NEW s, NEW t, NEW m, \A k \in 1..m : EntriesOf(s[k]) = EntriesOf(t[k])
  PROVE  Entries(s, m) = Entries(t, m)
<1>1. [k \in 1..m |-> EntriesOf(s[k])] = [k \in 1..m |-> EntriesOf(t[k])]
  OBVIOUS
<1> QED
  BY <1>1 DEF Entries

(* The entries of all nodes, those with an annotation or those of any.     *)
AllEntries(ns) == Entries(ns, Len(ns))

(* What an app may have made of a topology has lists of entries.           *)
LEMMA EntriesAreLists ==
  ASSUME NEW sc, NEW ns, Placed(sc, ns)
  PROVE  /\ DOMAIN ns = 1..Len(ns) /\ Len(ns) \in Nat /\ IsList(ns)
         /\ \A j \in DOMAIN ns : IsList(EntriesOf(ns[j]))
<1>1. IsList(<< >>)
  BY ShortLists
<1>2. IsList(ns)
  BY DEF Placed, IsTopology, IsList
<1>3. ASSUME NEW j \in DOMAIN ns
      PROVE  IsList(EntriesOf(ns[j]))
  <2>1. ns[j].federate # None => IsList(ns[j].federate)
    BY DEF Placed, NodePlaced
  <2>2. EntriesOf(ns[j]) = << >> \/ (ns[j].federate # None /\ EntriesOf(ns[j]) = ns[j].federate)
    BY DEF EntriesOf
  <2> QED
    BY <1>1, <2>1, <2>2
<1> QED
  BY <1>2, <1>3 DEF IsList

(* The nodes with an annotation have all entries.                          *)
LEMMA AnnotatedHaveAll ==
  ASSUME NEW sc, NEW ns, Placed(sc, ns), NEW feds, feds = AnnotatedNodes(ns)
  PROVE  /\ IsList(feds) /\ ToSet(feds) \subseteq ToSet(ns)
         /\ Entries(feds, Len(feds)) = AllEntries(ns) /\ IsList(AllEntries(ns))
<1> DEFINE n == Len(ns)
           A == ToSet(ns)
           S == {m \in A : m.federate # None}
<1>1. n \in Nat /\ ns \in Seq(A) /\ (\A j \in 1..n : ns[j] \in A /\ IsList(EntriesOf(ns[j]))) /\ \A m \in A : IsList(EntriesOf(m))
  <2>1. DOMAIN ns = 1..Len(ns) /\ Len(ns) \in Nat /\ IsList(ns) /\ \A j \in DOMAIN ns : IsList(EntriesOf(ns[j]))
    BY EntriesAreLists
  <2>2. ns \in Seq(A)
    BY <2>1 DEF IsList
  <2>3. A = {ns[j] : j \in DOMAIN ns}
    BY DEF ToSet
  <2> HIDE DEF A
  <2> QED
    BY <2>1, <2>2, <2>3
<1>2. feds = Select(ns, S)
  BY DEF AnnotatedNodes
<1>3. \A j \in 1..n : ns[j] \notin S => EntriesOf(ns[j]) = << >>
  BY <1>1 DEF EntriesOf
<1> HIDE DEF A, S
<1>4. PICK f : Selecting(f, A, ns, S) /\ feds = f[n]
  BY <1>1, <1>2, SelectingSteps
<1>5. /\ f \in [0..n -> Seq(A)] /\ f[0] = << >>
      /\ \A k \in 1..n : f[k] = IF ns[k] \in S THEN Append(f[k - 1], ns[k]) ELSE f[k - 1]
  BY <1>1, <1>4 DEF Selecting
<1>6. ASSUME NEW s \in Seq(A)
      PROVE  Len(s) \in Nat /\ \A k \in 1..Len(s) : s[k] \in A /\ IsList(EntriesOf(s[k]))
  BY <1>1
<1> DEFINE E == {k \in Nat : k <= n => Entries(f[k], Len(f[k])) = Entries(ns, k)}
<1>7. 0 \in E
  <2>1. Len(f[0]) = 0
    BY <1>5
  <2> QED
    BY <2>1, EntriesNone
<1>8. ASSUME NEW k \in Nat, k \in E
      PROVE  k + 1 \in E
  <2> SUFFICES ASSUME k + 1 <= n
               PROVE  Entries(f[k + 1], Len(f[k + 1])) = Entries(ns, k + 1)
    <3> HIDE DEF n
    <3>1. k + 1 \in Nat
      OBVIOUS
    <3> QED
      BY <3>1
  <2>1. k \in 0..n /\ k + 1 \in 1..n /\ (k + 1) - 1 = k /\ Entries(f[k], Len(f[k])) = Entries(ns, k)
    BY <1>1, <1>8
  <2>2. Entries(ns, k + 1) = Entries(ns, k) \o EntriesOf(ns[k + 1]) /\ IsList(Entries(ns, k))
    <3>1. \A j \in 1..(k + 1) : IsList(EntriesOf(ns[j]))
      BY <1>1, <2>1
    <3> QED
      BY <3>1, EntriesMore
  <2> DEFINE s == f[k]
             t == f[k + 1]
  <2>3. s \in Seq(A) /\ Len(s) \in Nat /\ ns[k + 1] \in A
    BY <1>1, <1>5, <2>1, SMTT(20)
  <2>4. CASE ns[k + 1] \in S
    <3>1. t = Append(s, ns[k + 1])
      BY <1>5, <2>1, <2>4
    <3> HIDE DEF s, t
    <3>2. t \in Seq(A) /\ Len(t) = Len(s) + 1 /\ t[Len(s) + 1] = ns[k + 1] /\ \A j \in 1..Len(s) : t[j] = s[j]
      BY <2>3, <3>1
    <3>3. Entries(t, Len(s) + 1) = Entries(t, Len(s)) \o EntriesOf(t[Len(s) + 1])
      <4>1. \A j \in 1..(Len(s) + 1) : IsList(EntriesOf(t[j]))
        BY <1>6, <3>2
      <4> QED
        BY <2>3, <4>1, EntriesMore
    <3>4. Entries(t, Len(s)) = Entries(s, Len(s))
      BY <3>2, EntriesSame
    <3>5. Entries(s, Len(s)) = Entries(ns, k)
      BY <2>1 DEF s
    <3>6. Entries(t, Len(t)) = Entries(ns, k + 1)
      BY <2>2, <3>2, <3>3, <3>4, <3>5
    <3> QED
      BY <3>6 DEF t
  <2>5. CASE ns[k + 1] \notin S
    <3>1. t = s
      BY <1>5, <2>1, <2>5
    <3>2. EntriesOf(ns[k + 1]) = << >>
      BY <1>3, <2>1, <2>5
    <3>3. Entries(ns, k) \o << >> = Entries(ns, k)
      BY <2>2 DEF IsList
    <3> QED
      BY <2>1, <2>2, <3>1, <3>2, <3>3
  <2> QED
    BY <2>4, <2>5
<1>9. n \in E
  <2> HIDE DEF E
  <2> QED
    BY <1>1, <1>7, <1>8, NaturalInduction
<1>10. Entries(feds, Len(feds)) = AllEntries(ns)
  BY <1>1, <1>4, <1>9 DEF AllEntries
<1>11. feds \in Seq(A)
  BY <1>1, <1>4, <1>5
<1>12. IsList(AllEntries(ns))
  <2> DEFINE seqs == [k \in 1..n |-> EntriesOf(ns[k])]
  <2>1. seqs = [k \in 1..n |-> seqs[k]] /\ \A k \in 1..n : IsList(seqs[k])
    BY <1>1
  <2>2. AllEntries(ns) = FlattenSeq(seqs)
    BY DEF AllEntries, Entries
  <2> HIDE DEF seqs
  <2>3. PICK T : seqs \in Seq(Seq(T))
    BY <1>1, <2>1, ListsAre
  <2> QED
    BY <2>2, <2>3, FlattenIs, ListOfSequence
<1> QED
  BY <1>10, <1>11, <1>12, ListOfSequence DEF A

(* What the nodes announce does not change with labels and injects.        *)
LEMMA AnnouncedStay ==
  ASSUME NEW sc, NEW ns, Placed(sc, ns), NEW ms, Placed(sc, ms), SameFeds(ns, ms)
  PROVE  /\ AllEntries(ms) = AllEntries(ns)
         /\ Len(AnnotatedNodes(ms)) = Len(AnnotatedNodes(ns))
         /\ \A m \in Nat : m <= Len(AnnotatedNodes(ns)) => Entries(AnnotatedNodes(ms), m) = Entries(AnnotatedNodes(ns), m)
<1> DEFINE A == {m \in ToSet(ns) : m.federate # None}
           B == {m \in ToSet(ms) : m.federate # None}
           feds == AnnotatedNodes(ns)
           others == AnnotatedNodes(ms)
<1>1. feds = Select(ns, A) /\ others = Select(ms, B)
  BY DEF AnnotatedNodes
<1>2. /\ IsList(ns) /\ IsList(ms) /\ DOMAIN ns = 1..Len(ns) /\ DOMAIN ms = 1..Len(ms) /\ Len(ns) \in Nat /\ Len(ms) \in Nat
  BY EntriesAreLists
<1>3. Len(ms) = Len(ns)
  BY <1>2 DEF SameFeds
<1>4. \A j \in 1..Len(ns) : EntriesOf(ns[j]) = EntriesOf(ms[j]) /\ (ns[j] \in A <=> ms[j] \in B)
  BY <1>2, <1>3 DEF SameFeds, EntriesOf, ToSet
<1>5. AllEntries(ms) = AllEntries(ns)
  BY <1>3, <1>4, EntriesSame DEF AllEntries
<1> HIDE DEF A, B
<1>6. /\ Len(feds) = Len(others) /\ IsList(feds)
      /\ \A k \in 1..Len(feds) : \E j \in 1..Len(ns) : feds[k] = ns[j] /\ others[k] = ms[j]
  <2>1. PICK a : a = ns
    OBVIOUS
  <2>2. PICK b : b = ms
    OBVIOUS
  <2>3. PICK S : S = A
    OBVIOUS
  <2>4. PICK R : R = B
    OBVIOUS
  <2>5. IsList(a) /\ IsList(b) /\ Len(a) = Len(b) /\ \A j \in 1..Len(a) : a[j] \in S <=> b[j] \in R
    BY <1>2, <1>3, <1>4, <2>1, <2>2, <2>3, <2>4
  <2>6. feds = Select(a, S) /\ others = Select(b, R)
    BY <1>1, <2>1, <2>2, <2>3, <2>4
  <2>7. /\ IsList(Select(a, S)) /\ Len(Select(a, S)) = Len(Select(b, R))
        /\ \A k \in 1..Len(Select(a, S)) : \E j \in 1..Len(a) : Select(a, S)[k] = a[j] /\ Select(b, R)[k] = b[j]
    <3> HIDE DEF feds, others
    <3> QED
      BY <2>5, SelectAlike
  <2> HIDE DEF feds, others
  <2>8. /\ Len(feds) = Len(others) /\ IsList(feds)
        /\ \A k \in 1..Len(feds) : \E j \in 1..Len(a) : feds[k] = a[j] /\ others[k] = b[j]
    BY <2>6, <2>7, Zenon
  <2> QED
    BY <2>1, <2>2, <2>8
<1> HIDE DEF feds, others
<1>7. \A k \in 1..Len(feds) : EntriesOf(others[k]) = EntriesOf(feds[k])
  BY <1>4, <1>6
<1>8. ASSUME NEW m \in Nat, m <= Len(feds)
      PROVE  Entries(others, m) = Entries(feds, m)
  <2>0. Len(feds) \in Nat
    BY <1>6 DEF IsList
  <2>1. ASSUME NEW k \in 1..m
        PROVE  EntriesOf(others[k]) = EntriesOf(feds[k])
    <3>1. k \in 1..Len(feds)
      BY <1>8, <2>0
    <3> QED
      BY <1>7, <3>1
  <2> QED
    BY <2>1, EntriesSame
<1> QED
  BY <1>5, <1>6, <1>8 DEF feds, others

-----------------------------------------------------------------------------
(* The entry names the root broker, in the topology of the scenario.       *)
IsDirect(sc, e) == HomeIp(sc, e.broker) = HomeIp(sc, sc.root) /\ e.broker.port = None

HomeEndpoint(sc, ref) == [ip |-> HomeIp(sc, ref), port |-> IF ref.port = None THEN SubBrokerPort ELSE ref.port]

NamingAt(sc, entries, endpoint) == {e \in ToSet(entries) : ~IsDirect(sc, e) /\ HomeEndpoint(sc, e.broker) = endpoint}

(* n federates in all, and for each endpoint of new those that name it,    *)
(* are what the entries stand for.                                         *)
Counts(sc, n, new, entries) ==
  /\ n = CountOf(entries, ToSet(entries))
  /\ \A e \in ToSet(entries) : IsDirect(sc, e) \/
       /\ HostAt(sc, HomeIp(sc, e.broker)) \in DOMAIN new
       /\ HomeEndpoint(sc, e.broker) \in DOMAIN new[HostAt(sc, HomeIp(sc, e.broker))]
  /\ \A h \in DOMAIN new :
       /\ h # None
       /\ \A ep \in DOMAIN new[h] :
            HostAt(sc, ep.ip) = h /\ new[h][ep] = CountOf(entries, NamingAt(sc, entries, ep))

(* The record of a turn, and what the code changes of it.                  *)
Turn(ns, n, new, raised) == [nodes |-> ns, total |-> n, subs |-> new, raised |-> raised]

(* What the loop over the entries has made of ns, unless it has raised.    *)
Reached(sc, acc, ns, entries) ==
  \/ acc.raised = TRUE
  \/ /\ acc = Turn(acc.nodes, acc.total, acc.subs, FALSE)
     /\ Placed(sc, acc.nodes) /\ SameFeds(ns, acc.nodes)
     /\ Counts(sc, acc.total, acc.subs, entries)

(* What is counted for an endpoint, with one entry more.                   *)
Counted(sc, entries, e, ep) ==
  IF ~IsDirect(sc, e) /\ HomeEndpoint(sc, e.broker) = ep
  THEN CountOf(entries, NamingAt(sc, entries, ep)) + e.count
  ELSE CountOf(entries, NamingAt(sc, entries, ep))

(* The count of all changes with every entry, that of an endpoint with     *)
(* those that name it.                                                     *)
LEMMA CountedInAll ==
  ASSUME NEW entries, IsList(entries), NEW e, NEW more, more = Append(entries, e)
  PROVE  /\ ToSet(more) = ToSet(entries) \cup {e}
         /\ CountOf(more, ToSet(more)) = CountOf(entries, ToSet(entries)) + e.count
<1>1. ToSet(more) = ToSet(entries) \cup {e}
  BY ListOfAppend
<1>2. \A d \in ToSet(entries) : d \in ToSet(entries) <=> d \in ToSet(more)
  BY <1>1
<1>3. CountOf(more, ToSet(more)) = Plus(CountOf(entries, ToSet(entries)), e, ToSet(more))
  BY <1>2, CountMore
<1> QED
  BY <1>1, <1>3 DEF Plus

(* The count of an endpoint changes with the entries that name it.         *)
LEMMA NamingMore ==
  ASSUME NEW sc, NEW entries, IsList(entries), NEW e, NEW more, more = Append(entries, e), NEW ep
  PROVE  CountOf(more, NamingAt(sc, more, ep)) = Counted(sc, entries, e, ep)
<1> DEFINE S == NamingAt(sc, entries, ep)
           R == NamingAt(sc, more, ep)
<1>1. ToSet(more) = ToSet(entries) \cup {e}
  BY ListOfAppend
<1>2. \A d \in ToSet(entries) : d \in S <=> d \in R
  BY <1>1 DEF NamingAt
<1>3. e \in R <=> ~IsDirect(sc, e) /\ HomeEndpoint(sc, e.broker) = ep
  BY <1>1 DEF NamingAt
<1> HIDE DEF S, R
<1>4. CountOf(more, R) = Plus(CountOf(entries, S), e, R)
  BY <1>2, CountMore
<1> QED
  BY <1>3, <1>4 DEF Plus, S, R, Counted

(* An entry that names the root broker is counted only in all.             *)
LEMMA DirectCounts ==
  ASSUME NEW sc, NEW n, NEW new, NEW entries, IsList(entries), Counts(sc, n, new, entries), NEW e, IsDirect(sc, e)
  PROVE  Counts(sc, n + e.count, new, Append(entries, e))
<1>1. PICK more : more = Append(entries, e)
  OBVIOUS
<1>2. /\ ToSet(more) = ToSet(entries) \cup {e} /\ CountOf(more, ToSet(more)) = CountOf(entries, ToSet(entries)) + e.count
      /\ \A ep : CountOf(more, NamingAt(sc, more, ep)) = CountOf(entries, NamingAt(sc, entries, ep))
  <2>1. ToSet(more) = ToSet(entries) \cup {e} /\ CountOf(more, ToSet(more)) = CountOf(entries, ToSet(entries)) + e.count
    BY <1>1, CountedInAll
  <2>2. \A ep : CountOf(more, NamingAt(sc, more, ep)) = Counted(sc, entries, e, ep)
    BY <1>1, NamingMore
  <2> QED
    BY <2>1, <2>2 DEF Counted
<1>3. Counts(sc, n + e.count, new, more)
  BY <1>2 DEF Counts
<1> QED
  BY <1>1, <1>3

(* The counts of a host with those of one endpoint changed.                *)
WithCount(new, host, entry, endpoint, count) ==
  Overlay([h \in {host} |-> [entry EXCEPT ![endpoint] = @ + count]], new)

(* An entry that names another one is counted with those that name it too. *)
LEMMA NamedCounts ==
  ASSUME NEW sc, NEW n, NEW new, NEW entries, IsList(entries), Counts(sc, n, new, entries), NEW e, ~IsDirect(sc, e),
         NEW endpoint, endpoint = HomeEndpoint(sc, e.broker), NEW host, host = HostAt(sc, endpoint.ip), host # None,
         NEW entry, entry = (IF host \in DOMAIN new THEN new[host] ELSE NoneOf(endpoint)), endpoint \in DOMAIN entry,
         NEW newer, newer = WithCount(new, host, entry, endpoint, e.count)
  PROVE  Counts(sc, n + e.count, newer, Append(entries, e))
<1>1. PICK more : more = Append(entries, e)
  OBVIOUS
<1> DEFINE Old(ep) == CountOf(entries, NamingAt(sc, entries, ep))
           New(ep) == CountOf(more, NamingAt(sc, more, ep))
<1>2. /\ ToSet(more) = ToSet(entries) \cup {e} /\ CountOf(more, ToSet(more)) = CountOf(entries, ToSet(entries)) + e.count
      /\ \A ep : New(ep) = IF endpoint = ep THEN Old(ep) + e.count ELSE Old(ep)
  <2>1. ToSet(more) = ToSet(entries) \cup {e} /\ CountOf(more, ToSet(more)) = CountOf(entries, ToSet(entries)) + e.count
    BY <1>1, CountedInAll
  <2>2. \A ep : CountOf(more, NamingAt(sc, more, ep)) = Counted(sc, entries, e, ep)
    BY <1>1, NamingMore
  <2> QED
    BY <2>1, <2>2 DEF Counted
<1>3. /\ n = CountOf(entries, ToSet(entries))
      /\ \A d \in ToSet(entries) : IsDirect(sc, d) \/
           /\ HostAt(sc, HomeIp(sc, d.broker)) \in DOMAIN new
           /\ HomeEndpoint(sc, d.broker) \in DOMAIN new[HostAt(sc, HomeIp(sc, d.broker))]
      /\ \A h \in DOMAIN new : h # None /\ \A ep \in DOMAIN new[h] : HostAt(sc, ep.ip) = h /\ new[h][ep] = Old(ep)
  BY DEF Counts
<1>4. endpoint.ip = HomeIp(sc, e.broker)
  BY DEF HomeEndpoint
<1>5. Old(endpoint) = entry[endpoint] /\ \A ep \in DOMAIN entry : HostAt(sc, ep.ip) = host /\ entry[ep] = Old(ep)
  <2>1. CASE host \in DOMAIN new
    <3> HIDE DEF Old
    <3> QED
      BY <1>3, <2>1
  <2>2. CASE host \notin DOMAIN new
    <3>1. \A d \in ToSet(entries) : d \notin NamingAt(sc, entries, endpoint)
      <4> SUFFICES ASSUME NEW d \in NamingAt(sc, entries, endpoint)
                   PROVE  FALSE
        BY DEF NamingAt
      <4>1. d \in ToSet(entries) /\ ~IsDirect(sc, d) /\ HomeEndpoint(sc, d.broker) = endpoint
        BY DEF NamingAt
      <4>2. HomeIp(sc, d.broker) = endpoint.ip
        BY <4>1 DEF HomeEndpoint
      <4> QED
        BY <1>3, <2>2, <4>1, <4>2
    <3>2. Old(endpoint) = 0
      BY <3>1, CountNone
    <3>3. entry = NoneOf(endpoint)
      BY <2>2
    <3>4. DOMAIN entry = {endpoint} /\ entry[endpoint] = 0
      BY <3>3 DEF NoneOf
    <3> HIDE DEF Old
    <3> QED
      BY <3>2, <3>4
  <2> QED
    BY <2>1, <2>2
<1> HIDE DEF Old
<1>6. DOMAIN newer = DOMAIN new \cup {host} /\ \A h \in DOMAIN newer : newer[h] = IF h = host THEN [entry EXCEPT ![endpoint] = @ + e.count] ELSE new[h]
  BY DEF Overlay, WithCount
<1>7. DOMAIN newer[host] = DOMAIN entry /\ \A ep \in DOMAIN entry : newer[host][ep] = IF ep = endpoint THEN entry[ep] + e.count ELSE entry[ep]
  BY <1>6
<1>8. ASSUME NEW h \in DOMAIN newer
      PROVE  h # None /\ \A ep \in DOMAIN newer[h] : HostAt(sc, ep.ip) = h /\ newer[h][ep] = New(ep)
  <2> HIDE DEF New
  <2>1. CASE h = host
    BY <1>2, <1>5, <1>7, <2>1
  <2>2. CASE h # host
    <3>1. h \in DOMAIN new /\ newer[h] = new[h]
      BY <1>6, <2>2
    <3>2. \A ep \in DOMAIN new[h] : HostAt(sc, ep.ip) = h /\ ep # endpoint /\ new[h][ep] = Old(ep)
      BY <1>3, <2>2, <3>1
    <3> QED
      BY <1>2, <1>3, <3>1, <3>2
  <2> QED
    BY <2>1, <2>2
<1>9. ASSUME NEW d \in ToSet(more), ~IsDirect(sc, d)
      PROVE  /\ HostAt(sc, HomeIp(sc, d.broker)) \in DOMAIN newer
             /\ HomeEndpoint(sc, d.broker) \in DOMAIN newer[HostAt(sc, HomeIp(sc, d.broker))]
  <2>1. CASE d = e
    BY <1>4, <1>6, <1>7, <2>1
  <2>2. CASE d \in ToSet(entries)
    <3> DEFINE g == HostAt(sc, HomeIp(sc, d.broker))
    <3>1. g \in DOMAIN new /\ HomeEndpoint(sc, d.broker) \in DOMAIN new[g]
      BY <1>3, <1>9, <2>2
    <3> HIDE DEF g
    <3>2. g \in DOMAIN newer /\ HomeEndpoint(sc, d.broker) \in DOMAIN newer[g]
      BY <1>6, <1>7, <3>1
    <3> QED
      BY <3>2 DEF g
  <2> QED
    BY <1>2, <1>9, <2>1, <2>2
<1>10. n + e.count = CountOf(more, ToSet(more))
  BY <1>2, <1>3
<1>11. Counts(sc, n + e.count, newer, more)
  BY <1>8, <1>9, <1>10 DEF Counts
<1> QED
  BY <1>1, <1>11

(* Its parts.                                                              *)
LEMMA TurnIs ==
  ASSUME NEW ns, NEW n, NEW new, NEW raised, NEW acc, acc = Turn(ns, n, new, raised)
  PROVE  acc.nodes = ns /\ acc.total = n /\ acc.subs = new /\ acc.raised = raised
  BY DEF Turn

(* Another count of all.                                                   *)
LEMMA TurnTotal ==
  ASSUME NEW ns, NEW n, NEW new, NEW raised, NEW acc, acc = Turn(ns, n, new, raised), NEW x
  PROVE  [acc EXCEPT !.total = x] = Turn(ns, x, new, raised)
  BY DEF Turn

(* An exception.                                                           *)
LEMMA TurnRaised ==
  ASSUME NEW ns, NEW n, NEW new, NEW raised, NEW acc, acc = Turn(ns, n, new, raised), NEW x
  PROVE  [acc EXCEPT !.raised = x] = Turn(ns, n, new, x)
  BY DEF Turn

(* Another topology.                                                       *)
LEMMA TurnNodes ==
  ASSUME NEW ns, NEW n, NEW new, NEW raised, NEW acc, acc = Turn(ns, n, new, raised), NEW x
  PROVE  [acc EXCEPT !.nodes = x] = Turn(x, n, new, raised)
  BY DEF Turn

(* Other counts by endpoint.                                               *)
LEMMA TurnSubs ==
  ASSUME NEW ns, NEW n, NEW new, NEW raised, NEW acc, acc = Turn(ns, n, new, raised), NEW x
  PROVE  [acc EXCEPT !.subs = x] = Turn(ns, n, x, raised)
  BY DEF Turn

(* A turn that has not raised has got there.                               *)
LEMMA TurnReached ==
  ASSUME NEW sc, NEW ns, NEW entries, NEW x, NEW n, NEW new, NEW raised, raised = FALSE,
         NEW acc, acc = Turn(x, n, new, raised), Placed(sc, x), SameFeds(ns, x), Counts(sc, n, new, entries)
  PROVE  Reached(sc, acc, ns, entries)
<1>1. acc.nodes = x /\ acc.total = n /\ acc.subs = new
  BY TurnIs
<1> QED
  BY <1>1 DEF Reached

(* One entry more, of the topology as the loop has it.                     *)
LEMMA ConfiguredCounts ==
  ASSUME scenario \in Scenarios, Placed(scenario, nodes), rootIp = HomeIp(scenario, scenario.root),
         NEW ns, NEW acc, NEW entries, IsList(entries), Reached(scenario, acc, ns, entries), NEW e
  PROVE  Reached(scenario, Configured(acc, e), ns, Append(entries, e))
<1>1. CASE acc.raised = TRUE
  BY <1>1 DEF Reached, Configured
<1>2. CASE acc.raised # TRUE
  <2>1. PICK next, more, sc, no, yes :
          next = Configured(acc, e) /\ more = Append(entries, e) /\ sc = scenario /\ no = FALSE /\ yes = TRUE
    OBVIOUS
  <2>2. PICK nn, tt, ss : acc = Turn(nn, tt, ss, no) /\ Placed(sc, nn) /\ SameFeds(ns, nn) /\ Counts(sc, tt, ss, entries)
    BY <1>2, <2>1 DEF Reached
  <2>3. PICK x, counted : x = tt + e.count /\ counted = Turn(nn, x, ss, no)
    OBVIOUS
  <2>4. acc.nodes = nn /\ acc.total = tt /\ acc.subs = ss /\ acc.raised = no
    BY <2>2, TurnIs
  <2>5. counted.nodes = nn /\ counted.total = x /\ counted.subs = ss /\ counted.raised = no
    BY <2>3, TurnIs
  <2>6. [acc EXCEPT !.total = @ + e.count] = counted
    <3>1. [acc EXCEPT !.total = x] = Turn(nn, x, ss, no)
      BY <2>2, TurnTotal
    <3> QED
      BY <2>3, <2>4, <3>1
  <2>7. next = IF IpOf(e.broker) = None THEN [acc EXCEPT !.raised = TRUE]
               ELSE IF NamesRoot(e.broker) THEN counted ELSE SubBroker(counted, e)
    BY <1>2, <2>1, <2>4, <2>6 DEF Configured
  <2>8. IpOf(e.broker) = HomeIp(sc, e.broker) /\ Endpoint(e.broker) = HomeEndpoint(sc, e.broker)
        /\ (NamesRoot(e.broker) <=> IsDirect(sc, e))
    <3>1. \A ref : IpOf(ref) = HomeIp(scenario, ref)
      BY AddressesAreHome
    <3> QED
      BY <2>1, <3>1 DEF Endpoint, HomeEndpoint, NamesRoot, IsDirect
  <2>9. IsTopology(sc.topology)
    BY <2>1, ScenarioTopologyIs
  <2>10. CASE IpOf(e.broker) = None
    <3>1. next = [acc EXCEPT !.raised = yes]
      BY <2>1, <2>7, <2>10
    <3>2. [acc EXCEPT !.raised = yes] = Turn(nn, tt, ss, yes)
      BY <2>2, TurnRaised
    <3>3. next.raised = yes
      BY <3>1, <3>2, TurnIs
    <3> QED
      BY <2>1, <3>3 DEF Reached
  <2>11. CASE IpOf(e.broker) # None /\ NamesRoot(e.broker)
    <3>1. next = Turn(nn, x, ss, no)
      BY <2>3, <2>7, <2>11
    <3>2. Counts(sc, tt + e.count, ss, Append(entries, e))
      BY <2>2, <2>8, <2>11, DirectCounts
    <3>3. Counts(sc, x, ss, more)
      BY <2>1, <2>3, <3>2
    <3>4. Reached(sc, next, ns, more)
      BY <2>1, <2>2, <3>1, <3>3, TurnReached
    <3> QED
      BY <2>1, <3>4
  <2>12. CASE IpOf(e.broker) # None /\ ~NamesRoot(e.broker)
    <3>1. PICK endpoint, host : endpoint = Endpoint(e.broker) /\ host = ExtractNodeHostnameForIp(nn, endpoint.ip)
      OBVIOUS
    <3>2. PICK entry : entry = IF host \in DOMAIN ss THEN ss[host] ELSE NoneOf(endpoint)
      OBVIOUS
    <3>3. PICK labelled, newer : labelled = LabelAs(nn, host, "broker") /\ newer = WithCount(ss, host, entry, endpoint, e.count)
      OBVIOUS
    <3>4. next = IF host = None \/ ~Found(e.broker, entry) THEN [counted EXCEPT !.raised = yes]
                 ELSE [counted EXCEPT !.nodes = labelled, !.subs = newer]
      <4>1. next = SubBroker(counted, e)
        BY <2>7, <2>12
      <4>2. newer = Overlay([h \in {host} |-> [entry EXCEPT ![endpoint] = @ + e.count]], counted.subs)
        BY <2>5, <3>3 DEF WithCount
      <4>3. /\ labelled = LabelAs(counted.nodes, host, "broker") /\ host = ExtractNodeHostnameForIp(counted.nodes, endpoint.ip)
            /\ entry = IF host \in DOMAIN counted.subs THEN counted.subs[host] ELSE NoneOf(endpoint)
        BY <2>5, <3>1, <3>2, <3>3
      <4>4. SubBroker(counted, e) =
              IF host = None \/ ~Found(e.broker, entry) THEN [counted EXCEPT !.raised = TRUE]
              ELSE [counted EXCEPT !.nodes = labelled, !.subs = newer]
        BY <3>1, <4>2, <4>3 DEF SubBroker
      <4> QED
        BY <2>1, <4>1, <4>4
    <3>5. CASE host = None \/ ~Found(e.broker, entry)
      <4>1. next = [counted EXCEPT !.raised = yes]
        BY <3>4, <3>5
      <4>2. [counted EXCEPT !.raised = yes] = Turn(nn, x, ss, yes)
        BY <2>3, TurnRaised
      <4>3. next.raised = yes
        BY <4>1, <4>2, TurnIs
      <4> QED
        BY <2>1, <4>3 DEF Reached
    <3>6. CASE host # None /\ Found(e.broker, entry)
      <4>1. next = [counted EXCEPT !.nodes = labelled, !.subs = newer]
        BY <3>4, <3>6
      <4>2. next = Turn(labelled, x, newer, no)
        <5>1. PICK between : between = [counted EXCEPT !.nodes = labelled]
          OBVIOUS
        <5>2. between = Turn(labelled, x, ss, no)
          BY <2>3, <5>1, TurnNodes
        <5>3. [between EXCEPT !.subs = newer] = Turn(labelled, x, newer, no)
          BY <5>2, TurnSubs
        <5> QED
          BY <4>1, <5>1, <5>3
      <4>3. host = HostAt(sc, endpoint.ip) /\ endpoint = HomeEndpoint(sc, e.broker) /\ endpoint \in DOMAIN entry /\ ~IsDirect(sc, e)
        <5>1. host = HostAt(sc, endpoint.ip)
          BY <2>2, <2>9, <3>1, HostsAreHome
        <5> QED
          BY <2>8, <2>12, <3>1, <3>6, <5>1 DEF Found
      <4>4. Placed(sc, labelled) /\ SameFeds(nn, labelled)
        BY <2>2, <3>3, LabelAsPlaced, LabelAsFeds
      <4>5. Counts(sc, tt + e.count, newer, Append(entries, e))
        BY <2>2, <3>2, <3>3, <3>6, <4>3, NamedCounts
      <4>6. Counts(sc, x, newer, more)
        BY <2>1, <2>3, <4>5
      <4>7. SameFeds(ns, labelled)
        BY <2>2, <4>4 DEF SameFeds
      <4>8. Reached(sc, next, ns, more)
        BY <2>1, <4>2, <4>4, <4>6, <4>7, TurnReached
      <4> QED
        BY <2>1, <4>8
    <3> QED
      BY <3>5, <3>6
  <2> QED
    BY <2>10, <2>11, <2>12
<1> QED
  BY <1>1, <1>2

(* The turn of a federate counts the entries of its annotation.            *)
LEMMA FederateTurnCounts ==
  ASSUME scenario \in Scenarios, UsesHelics, Placed(scenario, nodes), rootIp = HomeIp(scenario, scenario.root),
         NEW entries, IsList(entries), Counts(scenario, total, subs, entries),
         NEW fed, IsList(fed.federate), FederateTurn(fed).raised # TRUE
  PROVE  /\ SameFeds(nodes, FederateTurn(fed).nodes)
         /\ Counts(scenario, FederateTurn(fed).total, FederateTurn(fed).subs, entries \o fed.federate)
<1> DEFINE labelled == LabelAs(nodes, fed.hostname, "federate")
           waiting == IF Waits(fed.federate)
                      THEN AddInject(labelled, fed.hostname, WaitInject(WaitFileOfHelics))
                      ELSE labelled
           base == [nodes |-> waiting, total |-> total, subs |-> subs, raised |-> FALSE]
           configs == fed.federate
           n == Len(configs)
           Upto(k) == entries \o SubSeq(configs, 1, k)
<1>1. n \in Nat /\ configs \in Seq(ToSet(configs))
  BY DEF IsList
<1>2. Placed(scenario, labelled) /\ SameFeds(nodes, labelled)
  BY LabelAsPlaced, LabelAsFeds
<1>3. WaitInject(WaitFileOfHelics) \in Added(scenario, fed.hostname)
  BY DEF Added, OwnAdded, UsesHelics
<1>4. Placed(scenario, waiting) /\ SameFeds(nodes, waiting)
  <2> HIDE DEF labelled
  <2>1. IsTopology(scenario.topology)
    BY ScenarioTopologyIs
  <2>2. \A inject \in Added(scenario, fed.hostname) :
          LET ms == AddInject(labelled, fed.hostname, inject)
          IN  Placed(scenario, ms) /\ SameFeds(labelled, ms)
    BY <1>2, <2>1, AddInjectPlaced, AddInjectFeds
  <2> QED
    BY <1>2, <1>3, <2>2 DEF SameFeds
<1>5. PICK b : b = base
  OBVIOUS
<1>6. PICK c : c = configs
  OBVIOUS
<1>7. PICK f : /\ f[0] = b
               /\ \A k \in 1..n : f[k] = Configured(f[k - 1], c[k])
               /\ ConfiguredBy(b, c) = f[n]
  <2>1. PICK T : c \in Seq(T)
    BY <1>1, <1>6
  <2>2. \E f : /\ f[0] = b
               /\ \A k \in 1..Len(c) : f[k] = Configured(f[k - 1], c[k])
               /\ ConfiguredBy(b, c) = f[Len(c)]
    BY <2>1, ConfiguringSteps
  <2> QED
    BY <1>6, <2>2
<1>8. FederateTurn(fed) = f[n]
  <2>1. FederateTurn(fed) = ConfiguredBy(base, configs)
    BY DEF FederateTurn, ConfiguredBy
  <2> HIDE DEF base, configs
  <2> QED
    BY <1>5, <1>6, <1>7, <2>1
<1>9. PICK sc : sc = scenario
  OBVIOUS
<1>10. PICK ns : ns = nodes
  OBVIOUS
<1>11. /\ Upto(0) = entries /\ Upto(n) = entries \o configs
       /\ \A k \in 0..n : IsList(Upto(k)) /\ (k < n => Upto(k + 1) = Append(Upto(k), c[k + 1]))
  <2>1. PICK s : s = configs
    OBVIOUS
  <2>2. PICK T : s \in Seq(T) /\ entries \in Seq(T)
    <3>1. s \in Seq(ToSet(s)) /\ entries \in Seq(ToSet(entries))
      BY <1>1, <2>1 DEF IsList
    <3> DEFINE T == ToSet(s) \cup ToSet(entries)
    <3>2. ToSet(s) \subseteq T /\ ToSet(entries) \subseteq T
      OBVIOUS
    <3> HIDE DEF T
    <3>3. s \in Seq(T) /\ entries \in Seq(T)
      BY <3>1, <3>2, SeqMonotonic
    <3> QED
      BY <3>3
  <2>3. n = Len(s) /\ \A k : Upto(k) = entries \o SubSeq(s, 1, k)
    BY <2>1
  <2> HIDE DEF Upto
  <2>4. entries \o SubSeq(s, 1, 0) = entries /\ SubSeq(s, 1, Len(s)) = s
    BY <2>2
  <2>5. ASSUME NEW k \in 0..Len(s)
        PROVE  entries \o SubSeq(s, 1, k) \in Seq(T)
    BY <2>2
  <2>6. ASSUME NEW k \in 0..Len(s), k < Len(s)
        PROVE  entries \o SubSeq(s, 1, k + 1) = Append(entries \o SubSeq(s, 1, k), s[k + 1])
    BY <2>2, <2>6
  <2>7. \A k \in 0..n : IsList(Upto(k))
    BY <2>3, <2>5, ListOfSequence
  <2> QED
    BY <1>6, <2>1, <2>3, <2>4, <2>6, <2>7
<1> DEFINE S == {k \in Nat : k <= n => Reached(sc, f[k], ns, Upto(k))}
<1>12. 0 \in S
  <2>1. Reached(sc, b, ns, entries)
    <3> HIDE DEF waiting
    <3>1. PICK no : no = FALSE
      OBVIOUS
    <3>2. b = Turn(waiting, total, subs, no)
      BY <1>5, <3>1 DEF Turn
    <3> HIDE DEF base
    <3>3. PICK n0, s0 : n0 = total /\ s0 = subs
      OBVIOUS
    <3>4. PICK w : w = waiting
      OBVIOUS
    <3>5. Placed(sc, w) /\ SameFeds(ns, w) /\ Counts(sc, n0, s0, entries) /\ b = Turn(w, n0, s0, no)
      BY <1>4, <1>9, <1>10, <3>2, <3>3, <3>4
    <3> QED
      BY <3>1, <3>5, TurnReached
  <2> QED
    BY <1>7, <1>11, <2>1
<1>13. ASSUME NEW k \in Nat, k \in S
       PROVE  k + 1 \in S
  <2> SUFFICES ASSUME k + 1 <= n
               PROVE  Reached(sc, f[k + 1], ns, Upto(k + 1))
    OBVIOUS
  <2>0. k \in 0..n /\ k < n /\ k + 1 \in 1..n /\ (k + 1) - 1 = k
    BY <1>1
  <2>1. f[k + 1] = Configured(f[k], c[k + 1])
    BY <1>7, <2>0
  <2>2. Reached(sc, f[k], ns, Upto(k))
    BY <1>13, <2>0
  <2>3. PICK upto : upto = Upto(k)
    OBVIOUS
  <2>4. IsList(upto) /\ Upto(k + 1) = Append(upto, c[k + 1])
    BY <1>11, <2>0, <2>3
  <2> HIDE DEF Upto
  <2>5. Reached(scenario, Configured(f[k], c[k + 1]), ns, Append(upto, c[k + 1]))
    BY <1>9, <2>2, <2>3, <2>4, ConfiguredCounts
  <2> QED
    BY <1>9, <2>1, <2>4, <2>5
<1>14. n \in S
  <2> HIDE DEF S
  <2> QED
    BY <1>1, <1>12, <1>13, NaturalInduction
<1>15. Reached(scenario, FederateTurn(fed), nodes, entries \o configs)
  <2>1. Reached(sc, f[n], ns, Upto(n))
    <3> HIDE DEF Upto
    <3> QED
      BY <1>1, <1>14
  <2> QED
    BY <1>8, <1>9, <1>10, <2>1, <1>11
<1> QED
  BY <1>15 DEF Reached

-----------------------------------------------------------------------------
(* The inductive invariant of the counts: between the loops nothing is     *)
(* counted, and in the loop over the annotated nodes what has been counted *)
(* is what the annotations gone through say.                               *)
InLoop == IsHelics /\ step.loop = "federates"

CleanCounts == ~InLoop => total = 0 /\ subs = << >>

LoopCounts ==
  InLoop =>
    /\ rootIp = HomeIp(scenario, scenario.root) /\ HostAt(scenario, rootIp) # None
    /\ step.i <= Len(Federates) + 1
    /\ Counts(scenario, total, subs, Entries(Federates, step.i - 1))

CountInv == CleanCounts /\ LoopCounts /\ FederatesAreCounted

(* The annotated nodes and their entries.                                  *)
LEMMA FederatesAre ==
  ASSUME NEW sc, NEW ns, Placed(sc, ns), NEW feds, feds = AnnotatedNodes(ns)
  PROVE  /\ Len(feds) \in Nat
         /\ \A k \in 1..Len(feds) : feds[k].federate # None /\ IsList(feds[k].federate) /\ IsList(EntriesOf(feds[k]))
<1> DEFINE S == {m \in ToSet(ns) : m.federate # None}
<1>1. feds = Select(ns, S) /\ ns \in Seq(ToSet(ns))
  BY DEF AnnotatedNodes, Placed, IsTopology
<1>2. feds \in Seq(S)
  <2> HIDE DEF S
  <2>1. ToSet(feds) \subseteq S /\ feds \in Seq(ToSet(ns))
    BY <1>1, SelectIs
  <2> QED
    BY <2>1, ListOfSequence, SeqMonotonic DEF IsList
<1>3. ASSUME NEW m \in S
      PROVE  m.federate # None /\ IsList(m.federate) /\ IsList(EntriesOf(m))
  <2>1. m.federate # None /\ IsList(m.federate)
    BY DEF Placed, NodePlaced, ToSet
  <2>2. EntriesOf(m) = << >> \/ EntriesOf(m) = m.federate
    BY DEF EntriesOf
  <2> QED
    BY <2>1, <2>2, ShortLists
<1> HIDE DEF S
<1>4. Len(feds) \in Nat /\ \A k \in 1..Len(feds) : feds[k] \in S
  BY <1>2
<1> QED
  BY <1>3, <1>4

(* A turn of the loop brings the entries of its node.                      *)
LEMMA EntriesOfTurn ==
  ASSUME NEW sc, NEW ns, Placed(sc, ns), NEW feds, feds = AnnotatedNodes(ns), NEW i \in Nat \ {0}, i <= Len(feds)
  PROVE  Entries(feds, i) = Entries(feds, i - 1) \o EntriesOf(feds[i]) /\ IsList(Entries(feds, i - 1))
<1>1. Len(feds) \in Nat /\ \A k \in 1..Len(feds) : IsList(EntriesOf(feds[k]))
  BY FederatesAre
<1>2. i - 1 \in Nat /\ (i - 1) + 1 = i /\ \A k \in 1..i : IsList(EntriesOf(feds[k]))
  BY <1>1
<1>3. PICK m \in Nat : m = i - 1
  BY <1>2
<1>4. Entries(feds, m + 1) = Entries(feds, m) \o EntriesOf(feds[m + 1]) /\ IsList(Entries(feds, m))
  BY <1>2, <1>3, EntriesMore
<1> QED
  BY <1>2, <1>3, <1>4

(* Nothing is counted before the loop.                                     *)
LEMMA RootCounts ==
  ASSUME OtInv, PlaceInv, CountInv, ResolveRoot
  PROVE  CountInv'
<1>1. /\ scenario \in Scenarios /\ IsHelics /\ step.loop = "root" /\ Placed(scenario, nodes) /\ IsTopology(scenario.topology)
      /\ ~RootRaises
  BY ScenarioTopologyIs DEF OtInv, PlaceInv, RunningInv, ResolveRoot, IsHelics, At
<1>2. /\ scenario' = scenario /\ app' = app /\ total' = total /\ subs' = subs /\ step' = [loop |-> "federates", i |-> 1]
      /\ rootIp' = IpOf(scenario.root) /\ nodes' = LabelAs(nodes, RootHost, "broker")
  BY DEF ResolveRoot, GoTo
<1>3. total = 0 /\ subs = << >>
  BY <1>1 DEF CountInv, CleanCounts, InLoop
<1>4. InLoop' /\ ~HelicsDone'
  BY <1>1, <1>2 DEF InLoop, IsHelics, HelicsDone, At
<1>5. Placed(scenario, nodes')
  BY <1>1, <1>2, LabelAsPlaced
<1>6. IpOf(scenario.root) = HomeIp(scenario, scenario.root)
  BY <1>1, AddressesAreHome
<1>7. HostAt(scenario, rootIp') # None
  <2>1. RootHost # None /\ RootHost = ExtractNodeHostnameForIp(nodes, IpOf(scenario.root))
    BY <1>1 DEF RootRaises, RootHost
  <2>2. ExtractNodeHostnameForIp(nodes, IpOf(scenario.root)) = HostAt(scenario, IpOf(scenario.root))
    BY <1>1, HostsAreHome
  <2> QED
    BY <1>2, <2>1, <2>2
<1>8. Len(Federates') \in Nat
  BY <1>5, FederatesAre DEF Federates
<1>9. Counts(scenario, 0, << >>, << >>)
  <2>1. IsList(<< >>) /\ ToSet(<< >>) = {} /\ DOMAIN << >> = {}
    BY ShortLists
  <2>2. PICK none : none = << >>
    OBVIOUS
  <2>3. CountOf(none, ToSet(none)) = 0
    BY <2>1, <2>2, CountNone
  <2> QED
    BY <2>1, <2>2, <2>3 DEF Counts
<1>10. Entries(Federates', step'.i - 1) = << >>
  BY <1>2, EntriesNone
<1>11. LoopCounts'
  BY <1>2, <1>3, <1>6, <1>7, <1>8, <1>9, <1>10 DEF LoopCounts
<1> QED
  BY <1>4, <1>11 DEF CountInv, CleanCounts, FederatesAreCounted

(* A node that does not boot announces nothing.                            *)
LEMMA SkipCounts ==
  ASSUME OtInv, PlaceInv, CountInv, SkipFederate
  PROVE  CountInv'
<1>1. /\ IsHelics /\ step.loop = "federates" /\ Placed(scenario, nodes) /\ step.i \in Nat \ {0} /\ step.i <= Len(Federates)
      /\ step = [loop |-> step.loop, i |-> step.i]
  BY DEF PlaceInv, RunningInv, HelicsStepInv, SkipFederate, InFederates, IsHelics, At
<1>2. scenario' = scenario /\ app' = app /\ nodes' = nodes /\ rootIp' = rootIp /\ total' = total /\ subs' = subs
  BY DEF SkipFederate, helicsVars
<1>3. step'.loop = "federates" /\ step'.i = step.i + 1
  BY <1>1 DEF SkipFederate, Again
<1>4. EntriesOf(Federates[step.i]) = << >>
  BY DEF SkipFederate, ThisFederate, EntriesOf
<1>5. Entries(Federates, step.i) = Entries(Federates, step.i - 1) \o << >> /\ IsList(Entries(Federates, step.i - 1))
  BY <1>1, <1>4, EntriesOfTurn DEF Federates
<1>6. Entries(Federates, step.i) = Entries(Federates, step.i - 1)
  BY <1>5 DEF IsList
<1>7. InLoop /\ InLoop' /\ ~HelicsDone'
  BY <1>1, <1>2, <1>3 DEF InLoop, IsHelics, HelicsDone, At
<1>8. Federates' = Federates /\ Len(Federates) \in Nat
  BY <1>1, <1>2, FederatesAre DEF Federates
<1>9. step'.i - 1 = step.i /\ step'.i <= Len(Federates) + 1
  BY <1>1, <1>3, <1>8
<1>10. LoopCounts'
  BY <1>2, <1>6, <1>7, <1>8, <1>9 DEF LoopCounts, CountInv
<1> QED
  BY <1>7, <1>10 DEF CountInv, CleanCounts, FederatesAreCounted

(* The entries of one that boots are counted.                              *)
LEMMA FederateCounts ==
  ASSUME OtInv, PlaceInv, CountInv, Federate
  PROVE  CountInv'
<1>1. /\ IsHelics /\ step.loop = "federates" /\ Placed(scenario, nodes) /\ step.i \in Nat \ {0} /\ step.i <= Len(Federates)
      /\ step = [loop |-> step.loop, i |-> step.i] /\ scenario \in Scenarios /\ UsesHelics
  BY DEF OtInv, PlaceInv, RunningInv, HelicsStepInv, Federate, InFederates, IsHelics, At
<1> DEFINE fed == Federates[step.i]
           turn == FederateTurn(fed)
           before == Entries(Federates, step.i - 1)
<1>2. /\ scenario' = scenario /\ app' = app /\ rootIp' = rootIp /\ turn.raised # TRUE
      /\ nodes' = turn.nodes /\ total' = turn.total /\ subs' = turn.subs
  BY DEF Federate, ThisFederate
<1>3. step'.loop = "federates" /\ step'.i = step.i + 1
  BY <1>1 DEF Federate, Again
<1>4. Len(Federates) \in Nat /\ fed.federate # None /\ IsList(fed.federate)
  BY <1>1, FederatesAre DEF Federates
<1>5. EntriesOf(fed) = fed.federate
  BY <1>4 DEF EntriesOf, Federate, ThisFederate
<1>6. Entries(Federates, step.i) = before \o fed.federate /\ IsList(before)
  BY <1>1, <1>5, EntriesOfTurn DEF Federates
<1>7. InLoop /\ InLoop' /\ ~HelicsDone'
  BY <1>1, <1>2, <1>3 DEF InLoop, IsHelics, HelicsDone, At
<1>8. rootIp = HomeIp(scenario, scenario.root) /\ HostAt(scenario, rootIp) # None /\ Counts(scenario, total, subs, before)
  BY <1>7 DEF CountInv, LoopCounts
<1>9. Placed(scenario, nodes') /\ SameFeds(nodes, nodes') /\ Counts(scenario, total', subs', before \o fed.federate)
  <2>1. PICK entries : entries = before
    OBVIOUS
  <2> HIDE DEF fed, before
  <2>2. Placed(scenario, turn.nodes)
    BY <1>1, <1>4, FederateTurnPlaced
  <2>3. SameFeds(nodes, turn.nodes) /\ Counts(scenario, turn.total, turn.subs, entries \o fed.federate)
    BY <1>1, <1>2, <1>4, <1>6, <1>8, <2>1, FederateTurnCounts
  <2> QED
    BY <1>2, <2>1, <2>2, <2>3
<1>10. Len(Federates') = Len(Federates) /\ Entries(Federates', step.i) = Entries(Federates, step.i)
  BY <1>1, <1>9, AnnouncedStay DEF Federates
<1>11. step'.i - 1 = step.i /\ step'.i <= Len(Federates) + 1
  BY <1>1, <1>3, <1>4
<1>12. LoopCounts'
  <2> HIDE DEF fed, turn, before
  <2> QED
    BY <1>2, <1>6, <1>7, <1>8, <1>9, <1>10, <1>11 DEF LoopCounts
<1> QED
  BY <1>7, <1>12 DEF CountInv, CleanCounts, FederatesAreCounted

(* The start scripts have the counts.                                      *)
LEMMA BrokersAreWritten ==
  ASSUME OtInv, PlaceInv, CountInv, WriteBrokers
  PROVE  /\ Placed(scenario, nodes') /\ AllEntries(nodes') = AllEntries(nodes)
         /\ \A ip, h : h = HostAt(scenario, ip) /\ h # None /\ h \in BrokerHosts => BrokersAt(h)' = BrokerConfigs(h)
<1>1. /\ scenario \in Scenarios /\ IsHelics /\ Placed(scenario, nodes) /\ IsTopology(scenario.topology) /\ UsesHelics
  BY ScenarioTopologyIs DEF OtInv, PlaceInv, RunningInv, HelicsStepInv, WriteBrokers, IsHelics
<1> DEFINE injects == [h \in BrokerHosts |-> BrokerInject(BrokerFile(h))]
           scripts == [p \in {BrokerFile(h) : h \in BrokerHosts} |-> BrokerConfigs(p[2])]
<1>2. nodes' = InjectInto(nodes, injects) /\ files' = Overlay(scripts, files)
  BY DEF WriteBrokers, WriteAll
<1>3. DOMAIN injects = BrokerHosts /\ \A h \in BrokerHosts : injects[h] = BrokerInject(BrokerFile(h))
  OBVIOUS
<1>4. \A h \in DOMAIN injects : injects[h] \in Added(scenario, h)
  <2> SUFFICES ASSUME NEW h
               PROVE  BrokerInject(BrokerFile(h)) \in Added(scenario, h)
    OBVIOUS
  <2> QED
    BY <1>1 DEF Added, OwnAdded, UsesHelics
<1>5. \A h \in BrokerHosts : files'[BrokerFile(h)] = BrokerConfigs(h)
  <2> SUFFICES ASSUME NEW h \in BrokerHosts
               PROVE  files'[BrokerFile(h)] = BrokerConfigs(h)
    OBVIOUS
  <2>1. BrokerFile(h) \in DOMAIN scripts /\ BrokerFile(h)[2] = h
    BY DEF BrokerFile
  <2>2. scripts[BrokerFile(h)] = BrokerConfigs(h)
    BY <2>1
  <2> HIDE DEF scripts
  <2> QED
    BY <1>2, <2>1, <2>2 DEF Overlay
<1> HIDE DEF injects, scripts
<1>6. Placed(scenario, nodes') /\ SameFeds(nodes, nodes')
  BY <1>1, <1>2, <1>4, InjectIntoPlaced, InjectIntoGives
<1>7. \A h \in DOMAIN injects : InTopology(nodes, h) => injects[h] \in ToSet(ExtractNode(nodes', h).injects)
  BY <1>1, <1>2, <1>4, InjectIntoGives
<1>8. AllEntries(nodes') = AllEntries(nodes)
  BY <1>1, <1>6, AnnouncedStay
<1>9. ASSUME NEW ip, NEW h, h = HostAt(scenario, ip), h # None, h \in BrokerHosts
      PROVE  BrokersAt(h)' = BrokerConfigs(h)
  <2>2. InTopology(nodes, h) /\ InTopology(nodes', h)
    BY <1>1, <1>6, <1>9, HostsAreHome
  <2>3. IsList(ExtractNode(nodes', h).injects)
    <3>1. IsTopology(nodes')
      BY <1>6 DEF Placed
    <3>2. NodeIndex(nodes', h) \in DOMAIN nodes'
      BY <2>2, <3>1, NodeIsFound DEF InTopology
    <3> QED
      BY <1>6, <3>2 DEF ExtractNode, Placed, NodePlaced
  <2>4. BrokerInject(BrokerFile(h)) \in ToSet(ExtractNode(nodes', h).injects)
    BY <1>3, <1>7, <1>9, <2>2
  <2>5. Contains(ExtractNode(nodes', h).injects, BrokerInject(BrokerFile(h)))
    <3>1. PICK list, inject : list = ExtractNode(nodes', h).injects /\ inject = BrokerInject(BrokerFile(h))
      OBVIOUS
    <3>2. IsList(list) /\ inject \in ToSet(list)
      BY <2>3, <2>4, <3>1
    <3>3. Contains(list, inject)
      BY <3>2 DEF Contains, IsList, ToSet
    <3> QED
      BY <3>1, <3>3
  <2>6. BrokersAt(h)' = files'[BrokerFile(h)]
    BY <2>5 DEF BrokersAt
  <2> QED
    BY <1>5, <1>9, <2>6
<1> QED
  BY <1>6, <1>8, <1>9

(* They are what FederatesAreCounted asks of them.                         *)
LEMMA WriteCounts ==
  ASSUME OtInv, PlaceInv, CountInv, WriteBrokers
  PROVE  CountInv'
<1>1. /\ scenario \in Scenarios /\ InLoop /\ Placed(scenario, nodes) /\ IsTopology(scenario.topology) /\ UsesHelics
      /\ step.i \in Nat \ {0} /\ step.i > Len(Federates)
  BY ScenarioTopologyIs DEF OtInv, PlaceInv, RunningInv, HelicsStepInv, WriteBrokers, InLoop, IsHelics, At
<1>2. /\ scenario' = scenario /\ app' = app /\ total' = 0 /\ subs' = << >> /\ step' = [loop |-> "done", i |-> 1]
  BY DEF WriteBrokers, GoTo, HelicsReset
<1>3. CleanCounts' /\ LoopCounts'
  BY <1>2 DEF CleanCounts, LoopCounts, InLoop
<1>4. PICK sc, all : sc = scenario /\ all = AllEntries(nodes)
  OBVIOUS
<1>5. rootIp = HomeIp(sc, sc.root) /\ HostAt(sc, rootIp) # None /\ Counts(sc, total, subs, all)
  <2>1. Len(Federates) \in Nat /\ Entries(Federates, Len(Federates)) = AllEntries(nodes)
    BY <1>1, FederatesAre, AnnotatedHaveAll DEF Federates
  <2>2. step.i <= Len(Federates) + 1
    BY <1>1 DEF CountInv, LoopCounts
  <2>3. step.i - 1 = Len(Federates)
    BY <1>1, <2>1, <2>2
  <2> QED
    BY <1>1, <1>4, <2>1, <2>3 DEF CountInv, LoopCounts
<1>6. /\ Placed(sc, nodes') /\ AllEntries(nodes') = all
      /\ \A ip, h : h = HostAt(sc, ip) /\ h # None /\ h \in BrokerHosts => BrokersAt(h)' = BrokerConfigs(h)
  BY <1>4, BrokersAreWritten
<1>7. /\ \A ref : IpOf(ref)' = HomeIp(sc, ref)
      /\ \A ip : ExtractNodeHostnameForIp(nodes', ip) = HostAt(sc, ip) /\ ExtractNodeHostnameForIp(nodes, ip) = HostAt(sc, ip)
  BY <1>1, <1>4, <1>6, SameHosts, HostsAreHome DEF IpOf, HomeIp
<1>8. Announced' = all
  <2>1. DOMAIN nodes' = 1..Len(nodes')
    BY <1>6, EntriesAreLists
  <2>2. [k \in DOMAIN nodes' |-> EntriesOf(nodes'[k])] = [k \in 1..Len(nodes') |-> EntriesOf(nodes'[k])]
    BY <2>1
  <2>3. Announced' = FlattenSeq([k \in DOMAIN nodes' |-> EntriesOf(nodes'[k])])
    BY DEF Announced
  <2> QED
    BY <1>6, <2>2, <2>3 DEF AllEntries, Entries
<1>9. /\ RootAddress' = HomeIp(sc, sc.root) /\ \A ref : Endpoint(ref)' = HomeEndpoint(sc, ref)
  BY <1>2, <1>4, <1>7 DEF RootAddress, Endpoint, HomeEndpoint
<1>10. \A e : Direct(e)' <=> IsDirect(sc, e)
  BY <1>7, <1>9 DEF Direct, IsDirect
<1>11. \A ep : Naming(ep)' = NamingAt(sc, all, ep)
  BY <1>8, <1>9, <1>10 DEF Naming, NamingAt
<1>12. \E b \in BrokersAt(ExtractNodeHostnameForIp(nodes, RootAddress))' :
         b.parent = None /\ b.feds = CountOf(Announced', ToSet(Announced'))
  <2>1. PICK h : h = HostAt(sc, rootIp)
    OBVIOUS
  <2>2. h \in BrokerHosts /\ BrokersAt(h)' = BrokerConfigs(h)
    BY <1>5, <1>6, <1>7, <2>1 DEF BrokerHosts
  <2>3. RootConfig \in BrokerConfigs(h)
    BY <1>7, <2>1 DEF BrokerConfigs
  <2>4. RootConfig.parent = None /\ RootConfig.feds = total
    BY DEF RootConfig
  <2>5. total = CountOf(all, ToSet(all))
    BY <1>5 DEF Counts
  <2>6. ExtractNodeHostnameForIp(nodes, RootAddress)' = h
    BY <1>5, <1>7, <1>9, <2>1
  <2> QED
    BY <1>8, <2>2, <2>3, <2>4, <2>5, <2>6
<1>13. ASSUME NEW e \in ToSet(all), ~IsDirect(sc, e)
       PROVE  \E b \in BrokersAt(ExtractNodeHostnameForIp(nodes, IpOf(e.broker)))' :
                b.parent = RootAddress' /\ b.endpoint = Endpoint(e.broker)' /\ b.feds = CountOf(all, NamingAt(sc, all, b.endpoint))
  <2>1. PICK h, ep : h = HostAt(sc, HomeIp(sc, e.broker)) /\ ep = HomeEndpoint(sc, e.broker)
    OBVIOUS
  <2>2. h \in DOMAIN subs /\ ep \in DOMAIN subs[h] /\ h # None /\ subs[h][ep] = CountOf(all, NamingAt(sc, all, ep))
    BY <1>5, <1>13, <2>1 DEF Counts
  <2>3. BrokersAt(h)' = BrokerConfigs(h)
    BY <1>6, <2>1, <2>2 DEF BrokerHosts
  <2> DEFINE b == [endpoint |-> ep, parent |-> rootIp, feds |-> subs[h][ep], subs |-> 0]
  <2>4. b \in BrokerConfigs(h)
    BY <2>2 DEF BrokerConfigs, SubConfigs
  <2>5. b.parent = rootIp /\ b.endpoint = ep /\ b.feds = subs[h][ep]
    OBVIOUS
  <2> HIDE DEF b
  <2>6. ExtractNodeHostnameForIp(nodes, IpOf(e.broker))' = h
    BY <1>7, <2>1
  <2> QED
    BY <1>5, <1>9, <2>1, <2>2, <2>3, <2>4, <2>5, <2>6
<1>14. FederatesAreCounted'
  BY <1>8, <1>9, <1>10, <1>11, <1>12, <1>13 DEF FederatesAreCounted
<1> QED
  BY <1>3, <1>14 DEF CountInv

(* The step of an app that does not count.                                 *)
LEMMA OthersCountNothing ==
  ASSUME CountInv, ~InLoop, total' = total, subs' = subs, ~IsHelics' \/ step'.loop = "root"
  PROVE  CountInv'
<1>1. total' = 0 /\ subs' = << >>
  BY DEF CountInv, CleanCounts
<1>2. ~InLoop' /\ ~HelicsDone'
  BY DEF InLoop, HelicsDone, IsHelics, At
<1> QED
  BY <1>1, <1>2 DEF CountInv, CleanCounts, LoopCounts, FederatesAreCounted

(* The ot-sim app keeps to itself.                                         *)
LEMMA OtSimCounts ==
  ASSUME OtSimNext
  PROVE  app = "ot-sim" /\ app' \in {"ot-sim", "failed"}
<1>1. CASE Server \/ ServerFails \/ ServersDone
  BY <1>1 DEF Server, ServerFails, ServersDone, At, Raise
<1>2. CASE CallProcess \/ CallUpstream \/ CallFails \/ ReturnProcess
  BY <1>2 DEF CallProcess, CallUpstream, CallFails, ReturnProcess, InFeps, At, Raise, processVars
<1>3. CASE ConfigureFep \/ FepFails \/ FepsDone
  BY <1>3 DEF ConfigureFep, FepFails, FepsDone, InFeps, At, Raise
<1>4. CASE Client \/ ClientFails \/ ClientsDone
  BY <1>4 DEF Client, ClientFails, ClientsDone, InClients, At, Raise
<1> QED
  BY <1>1, <1>2, <1>3, <1>4 DEF OtSimNext

(* CountInv is an invariant.                                               *)
LEMMA CountInvHolds == Spec => []CountInv
<1>1. Init => CountInv
  <2> SUFFICES ASSUME Init PROVE CountInv
    OBVIOUS
  <2>1. app = "none" /\ total = 0 /\ subs = << >>
    BY DEF Init, ProcessInit, HelicsInit
  <2> QED
    BY <2>1 DEF CountInv, CleanCounts, LoopCounts, FederatesAreCounted, InLoop, IsHelics, HelicsDone
<1>2. OtInv /\ PlaceInv /\ CountInv /\ [Next]_vars => CountInv'
  <2> SUFFICES ASSUME OtInv, PlaceInv, CountInv, [Next]_vars PROVE CountInv'
    OBVIOUS
  <2>1. CASE StartExperiment
    <3>1. ~IsHelics /\ ~IsHelics' /\ total' = total /\ subs' = subs
      BY <2>1 DEF StartExperiment, Idle, StartOtSim, Launch, helicsVars, IsHelics
    <3> QED
      BY <3>1, OthersCountNothing DEF InLoop
  <2>2. CASE OtSimNext /\ UNCHANGED helicsVars
    <3>1. ~IsHelics /\ ~IsHelics' /\ total' = total /\ subs' = subs
      BY <2>2, OtSimCounts DEF helicsVars, IsHelics
    <3> QED
      BY <3>1, OthersCountNothing DEF InLoop
  <2>3. CASE HelicsNext
    <3>1. CASE RootFails
      <4>1. ~InLoop /\ ~IsHelics' /\ total' = total /\ subs' = subs
        BY <3>1 DEF RootFails, Raise, helicsVars, IsHelics, InLoop, At
      <4> QED
        BY <4>1, OthersCountNothing
    <3>2. CASE FederateFails
      <4>1. ~IsHelics' /\ total' = 0 /\ subs' = << >>
        BY <3>2 DEF FederateFails, Raise, HelicsReset, IsHelics
      <4> QED
        BY <4>1 DEF CountInv, CleanCounts, LoopCounts, FederatesAreCounted, InLoop, IsHelics, HelicsDone
    <3> QED
      BY <2>3, <3>1, <3>2, RootCounts, SkipCounts, FederateCounts, WriteCounts DEF HelicsNext
  <2>4. CASE HandOver
    <3>1. ~IsHelics /\ step'.loop = "root" /\ total' = total /\ subs' = subs
      BY <2>4 DEF HandOver, Launch, GoTo, helicsVars, IsHelics
    <3> QED
      BY <3>1, OthersCountNothing DEF InLoop
  <2>5. CASE Started
    <3>1. step.loop = "done" /\ ~IsHelics' /\ total' = total /\ subs' = subs
      BY <2>5 DEF Started, Finish, At, helicsVars, IsHelics
    <3> QED
      BY <3>1, OthersCountNothing DEF InLoop
  <2>6. CASE Toggle
    <3>1. ~IsHelics /\ ~IsHelics' /\ total' = total /\ subs' = subs
      BY <2>6 DEF Toggle, Idle, helicsVars, IsHelics
    <3> QED
      BY <3>1, OthersCountNothing DEF InLoop
  <2>7. CASE UNCHANGED vars
    <3>1. UNCHANGED <<scenario, files, app, nodes, step, rootIp, total, subs>>
      BY <2>7 DEF vars, processVars, helicsVars
    <3>2. CleanCounts' /\ LoopCounts'
      BY <3>1 DEF CountInv, CleanCounts, LoopCounts, InLoop, IsHelics, Federates
    <3>3. FederatesAreCounted'
      <4>1. (HelicsDone' <=> HelicsDone) /\ Announced' = Announced /\ RootAddress' = RootAddress
        BY <3>1 DEF HelicsDone, At, Announced, RootAddress, IpOf
      <4>2. \A ref : IpOf(ref)' = IpOf(ref) /\ Endpoint(ref)' = Endpoint(ref)
        BY <3>1 DEF IpOf, Endpoint
      <4>3. \A e : Direct(e)' <=> Direct(e)
        BY <4>1, <4>2 DEF Direct
      <4>4. \A ep : Naming(ep)' = Naming(ep)
        BY <4>1, <4>2, <4>3 DEF Naming
      <4>5. \A h : BrokersAt(h)' = BrokersAt(h)
        BY <3>1 DEF BrokersAt
      <4>6. ASSUME HelicsDone
            PROVE  FederatesAreCounted'
        <5>1. \E b \in BrokersAt(ExtractNodeHostnameForIp(nodes, RootAddress)) :
                b.parent = None /\ b.feds = CountOf(Announced, ToSet(Announced))
          BY <4>6 DEF CountInv, FederatesAreCounted
        <5>2. ASSUME NEW e \in ToSet(Announced), ~Direct(e)
              PROVE  \E b \in BrokersAt(ExtractNodeHostnameForIp(nodes, IpOf(e.broker))) :
                       b.parent = RootAddress /\ b.endpoint = Endpoint(e.broker) /\ b.feds = CountOf(Announced, Naming(b.endpoint))
          BY <4>6, <5>2 DEF CountInv, FederatesAreCounted
        <5> QED
          BY <3>1, <4>1, <4>2, <4>3, <4>4, <4>5, <5>1, <5>2 DEF FederatesAreCounted
      <4> QED
        BY <4>1, <4>6 DEF FederatesAreCounted
    <3> QED
      BY <3>2, <3>3 DEF CountInv
  <2> QED
    BY <2>1, <2>2, <2>3, <2>4, <2>5, <2>6, <2>7 DEF Next, Apps
<1> QED
  BY <1>1, <1>2, OtInvHolds, PlaceInvHolds, PTL DEF Spec

(* The start scripts tell the brokers how many federates to wait for, and  *)
(* that is how many the annotations of the nodes that boot announce, those *)
(* the ot-sim app has just added included: the loop over the nodes counts  *)
(* each entry once, with the endpoint that its broker will have.           *)
THEOREM BrokersWaitForAll == Spec => []FederatesAreCounted
<1>1. CountInv => FederatesAreCounted
  BY DEF CountInv
<1> QED
  BY <1>1, CountInvHolds, PTL
=============================================================================
