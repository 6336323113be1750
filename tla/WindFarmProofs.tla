------------------------- MODULE WindFarmProofs -------------------------
(***************************************************************************)
(* Proofs about WindFarm, for any scenarios of the types that              *)
(* ScenarioAssumption names, any number of profiles, VMs, containers,      *)
(* networks and turbines, and any number of stages that fail; that         *)
(* addresses differ, for profiles whose networks are apart (see            *)
(* ScenariosKeepNetworksApart), and that clients find their servers, for   *)
(* scenarios that keep devices apart (see ScenariosKeepDevicesApart).      *)
(***************************************************************************)
EXTENDS WindFarm, TopologyProofs, FiniteSetTheorems

-----------------------------------------------------------------------------
(* Where the processes of the app are.                                     *)
Stage == {"configure", "post-start"}

(* Where a process of the app can be; between the stages no VM is next.    *)
ScalePlaces ==
  /\ scenario \in Scenarios
  /\ app \in {"none", "configured", "started", "failed"} \cup Stage
  /\ step \in [loop : {"none", "profiles"}, i : Nat \ {0}]
  /\ vm \in Nat
  /\ app \in Stage => step.loop = "profiles" /\ step.i <= Len(Profiles) + 1
  /\ vm # 0 => app \in Stage /\ step.i <= Len(Profiles)

(* A VM waits at boot only when the configure stage gave it the script.    *)
HostsOfProfiles == {Host(v) : v \in ProfileVms}

OnlyProfilesWait(ns) == \A j \in DOMAIN ns : Waits(ns[j]) => ns[j].hostname \in HostsOfProfiles

(* The post-start stage has read what phenix has and changes none of it.   *)
ScaleNodes ==
  /\ IsTopology(doc) /\ OnlyProfilesWait(doc)
  /\ app \in Stage => IsTopology(nodes) /\ OnlyProfilesWait(nodes)
  /\ app = "post-start" => nodes = doc

(* The VMs a stage has had its turn with.                                  *)
Passed(v) == v[1] < step.i \/ (v[1] = step.i /\ v[2] < vm)

InDoc(hostname) == hostname \in {doc[k].hostname : k \in DOMAIN doc}

(* Only its own file is sent to a host, and every VM of the topology that  *)
(* post-start has had its turn with was sent it.                           *)
ScaleSent ==
  /\ \A h \in DOMAIN sent : sent[h] \subseteq {MinimegaFile(h)}
  /\ app \in {"post-start", "started"} =>
       \A v \in ProfileVms : (app = "started" \/ Passed(v)) /\ InDoc(Host(v)) => MinimegaFile(Host(v)) \in Received(Host(v))

(* The inductive invariant under which every VM gets its file.             *)
SentInv == IsScale => ScalePlaces /\ ScaleNodes /\ ScaleSent

-----------------------------------------------------------------------------
(* Filling in a name leaves a profile a profile.                           *)
LEMMA NamedIsProfile ==
  ASSUME NEW p, IsProfile(p), NEW name, NEW q, q = [p EXCEPT !.name = name]
  PROVE  IsProfile(q) /\ q.name = name /\ q.plugin = p.plugin
<1>1. q = [f \in DOMAIN p |-> IF f = "name" THEN name ELSE p[f]]
  BY DEF IsProfile
<1>2. \A f \in {"name", "plugin", "count", "containers", "perNode", "scripts"} : f \in DOMAIN q /\ (f # "name" => q[f] = p[f])
  BY <1>1 DEF IsProfile
<1>3. q = [f \in DOMAIN q |-> q[f]]
  BY <1>1
<1>4. q.count = p.count /\ q.containers = p.containers /\ q.perNode = p.perNode /\ q.scripts = p.scripts /\ q.plugin = p.plugin
  BY <1>2
<1>5. q.name = name
  BY <1>1 DEF IsProfile
<1> QED
  BY <1>2, <1>3, <1>4, <1>5 DEF IsProfile

(* What the app makes of the metadata are profiles again.                  *)
LEMMA ProfilesAreProfiles ==
  ASSUME scenario \in Scenarios, IsScale
  PROVE  /\ Len(Profiles) \in Nat /\ DOMAIN Profiles = 1..Len(Profiles)
         /\ \A k \in DOMAIN Profiles : IsProfile(Profiles[k])
<1>1. /\ scenario.profiles \in Seq(ToSet(scenario.profiles))
      /\ \A k \in DOMAIN scenario.profiles : IsProfile(scenario.profiles[k])
  BY ScenarioAssumption DEF IsScale
<1> DEFINE n == Len(scenario.profiles)
<1>2. n \in Nat /\ DOMAIN scenario.profiles = 1..n
  BY <1>1
<1>3. Profiles = [k \in 1..n |-> Profiles[k]]
  BY <1>2 DEF Profiles
<1>4. Len(Profiles) = n /\ DOMAIN Profiles = 1..n
  BY <1>2, <1>3, FunctionIsSequence
<1>5. ASSUME NEW k \in 1..n
      PROVE  IsProfile(Profiles[k])
  <2> DEFINE p == scenario.profiles[k]
             name == NameOf(scenario, p)
  <2>1. Profiles[k] = [p EXCEPT !.name = name]
    BY <1>2 DEF Profiles
  <2> HIDE DEF name
  <2>2. PICK q : q = Profiles[k]
    OBVIOUS
  <2>3. IsProfile(p) /\ q = [p EXCEPT !.name = name]
    BY <1>1, <1>2, <2>1, <2>2
  <2> HIDE DEF p
  <2>4. IsProfile(q)
    BY <2>3, NamedIsProfile
  <2> QED
    BY <2>2, <2>4
<1> QED
  BY <1>2, <1>4, <1>5

(* A profile asks for some number of VMs.                                  *)
LEMMA CountIsNatural ==
  ASSUME NEW p, IsProfile(p)
  PROVE  NodeCount(p) \in Nat
<1>1. Containers(p) \in Nat /\ p.perNode \in Nat /\ p.count \in Nat
  BY DEF IsProfile, Containers
<1>2. ASSUME Nests(p)
      PROVE  CeilDiv(Containers(p), p.perNode) \in Nat
  BY <1>1, <1>2 DEF CeilDiv, Nests
<1> QED
  BY <1>1, <1>2 DEF NodeCount

(* All that is worked out from the scenario stays when the scenario does.  *)
LEMMA ScenarioStays ==
  ASSUME scenario' = scenario
  PROVE  /\ IsScale' = IsScale /\ Profiles' = Profiles /\ ProfileVms' = ProfileVms
         /\ HostsOfProfiles' = HostsOfProfiles
         /\ \A v : Host(v)' = Host(v)
<1>1. IsScale' = IsScale /\ Profiles' = Profiles
  BY DEF IsScale, Profiles
<1>2. ProfileVms' = ProfileVms /\ \A v : Host(v)' = Host(v)
  BY <1>1 DEF ProfileVms, Host
<1> QED
  BY <1>1, <1>2 DEF HostsOfProfiles

(* The standalone app does not run in an experiment with the scale app.    *)
LEMMA TurbinesAreOfTheOtherApp ==
  ASSUME IsScale, ScalePlaces, TurbineNext
  PROVE  FALSE
<1>1. app # "wind-turbine"
  BY DEF ScalePlaces, Stage
<1> QED
  BY <1>1 DEF TurbineNext, MainControllerConfigured, AnemometerConfigured, YawConfigured, BladeConfigured,
              NextTurbine, TurbineFails, TurbinesDone, InTurbine

(* A turn of a stage is the turn of one of the VMs of the profiles.        *)
LEMMA ThisVm ==
  ASSUME IsScale, ScalePlaces, NEW stage, InVms(stage)
  PROVE  /\ <<step.i, vm>> \in ProfileVms /\ Host(<<step.i, vm>>) = ThisHost
         /\ ThisHost \in HostsOfProfiles /\ IsProfile(ThisProfile)
         /\ NodeCount(ThisProfile) \in Nat /\ vm \in Nat /\ step.i \in DOMAIN Profiles
<1>1. step.i \in DOMAIN Profiles /\ vm \in 1..NodeCount(ThisProfile)
  BY ProfilesAreProfiles DEF ScalePlaces, InVms, InProfiles
<1>2. <<step.i, vm>> \in ProfileVms
  BY <1>1 DEF ProfileVms, ThisProfile
<1>3. Host(<<step.i, vm>>) = ThisHost
  BY DEF Host, ThisHost, ThisProfile
<1>4. IsProfile(ThisProfile)
  BY <1>1, ProfilesAreProfiles DEF ThisProfile, ScalePlaces
<1> QED
  BY <1>1, <1>2, <1>3, <1>4, CountIsNatural DEF HostsOfProfiles, ScalePlaces

(* The injects of a VM are lists.                                          *)
LEMMA VmInjectsAreLists ==
  ASSUME NEW p, IsProfile(p), NEW hostname
  PROVE  IsList(CommonInjects(p, hostname)) /\ IsList(FarmInjects(p))
<1>1. IsList(CommonInjects(p, hostname))
  <2> DEFINE s == [k \in DOMAIN p.scripts |-> [src |-> p.scripts[k], dst |-> <<"startup", 500 + k>>]]
             i == StartInject(hostname)
  <2>1. DOMAIN p.scripts = 1..Len(p.scripts) /\ Len(p.scripts) \in Nat
    BY DEF IsProfile
  <2>2. IsList(s)
    <3>1. PICK t, n : t = s /\ n = Len(p.scripts)
      OBVIOUS
    <3>2. t = [k \in 1..n |-> t[k]] /\ n \in Nat
      BY <2>1, <3>1
    <3> HIDE DEF s
    <3> QED
      BY <3>1, <3>2, FunctionIsSequence DEF IsList
  <2> HIDE DEF s, i
  <2>3. PICK l, r : l = <<i>> /\ r = s
    OBVIOUS
  <2>4. IsList(l) /\ IsList(r)
    BY <2>2, <2>3, ShortLists
  <2>5. IsList(l \o r)
    BY <2>4, ListOfConcat
  <2> QED
    BY <2>3, <2>5 DEF CommonInjects, s, i
<1>2. IsList(FarmInjects(p))
  <2> DEFINE replay == [src |-> <<"replay-data">>, dst |-> <<"weather">>]
             configs == [src |-> Tarball, dst |-> <<"wind-configs">>]
  <2>1. FarmInjects(p) = (IF p.replay THEN <<replay>> ELSE << >>) \o <<configs>>
    BY DEF FarmInjects
  <2> HIDE DEF replay, configs
  <2>2. PICK l, r : l = (IF p.replay THEN <<replay>> ELSE << >>) /\ r = <<configs>>
    OBVIOUS
  <2>3. IsList(l) /\ IsList(r)
    BY <2>2, ShortLists
  <2>4. IsList(l \o r)
    BY <2>3, ListOfConcat
  <2> QED
    BY <2>1, <2>2, <2>4
<1> QED
  BY <1>1, <1>2

(* Configuring a VM lets none wait that is not a VM of the profiles: of    *)
(* the nodes that were there it changes only its own, as ConfigureVm gives *)
(* the script to the VM it adds.                                           *)
LEMMA ConfiguredVm ==
  ASSUME IsScale, ScalePlaces, ConfigureVm, IsTopology(nodes), OnlyProfilesWait(nodes)
  PROVE  IsTopology(nodes)' /\ OnlyProfilesWait(nodes)'
<1> DEFINE p == ThisProfile
           added == AddNode(nodes, NodeSpec(p, vm))
           common == AddInjects(added, ThisHost, CommonInjects(p, ThisHost))
           farm == AddInjects(common, ThisHost, FarmInjects(p))
<1>1. /\ scenario' = scenario
      /\ nodes' \in {common, Annotated(farm, p, vm)}
      /\ InVms("configure")
  BY DEF ConfigureVm
<1>2. IsProfile(p) /\ ThisHost \in HostsOfProfiles
  BY <1>1, ThisVm
<1>3. IsNode(NodeSpec(p, vm)) /\ NodeSpec(p, vm).hostname = ThisHost
  BY DEF IsNode, NodeSpec, ThisHost
<1> DEFINE Kept(ns, j) ==
             j \in DOMAIN nodes /\ ns[j].hostname = nodes[j].hostname /\ ns[j].injects = nodes[j].injects
           Good(ns) ==
             /\ IsTopology(ns)
             /\ \A j \in DOMAIN ns : ns[j].hostname = ThisHost \/ Kept(ns, j)
<1>4. Good(added)
  <2>1. CASE added = nodes
    BY <2>1 DEF OnlyChanged
  <2>2. CASE added = Append(nodes, NodeSpec(p, vm))
    <3>1. IsTopology(added)
      BY <1>3, <2>2, AppendKeeps
    <3>2. \A j \in DOMAIN added : added[j] = NodeSpec(p, vm) \/ (j \in DOMAIN nodes /\ added[j] = nodes[j])
      <4> HIDE DEF p
      <4> QED
        BY <2>2 DEF IsTopology
    <3> QED
      BY <1>3, <3>1, <3>2
  <2> QED
    BY <2>1, <2>2 DEF AddNode
<1>5. ASSUME NEW ns, Good(ns), NEW ms, IsTopology(ms), OnlyChanged(ns, ms, ThisHost)
      PROVE  Good(ms)
  BY <1>5 DEF OnlyChanged
<1>6. \E T : CommonInjects(p, ThisHost) \in Seq(T)
  BY <1>2, VmInjectsAreLists DEF IsList
<1>7. \E T : FarmInjects(p) \in Seq(T)
  BY <1>2, VmInjectsAreLists DEF IsList
<1> HIDE DEF Good
<1>8. Good(common)
  BY <1>4, <1>5, <1>6, AddInjectsKeep DEF Good
<1>9. Good(farm)
  BY <1>5, <1>7, <1>8, AddInjectsKeep DEF Good
<1>10. Good(Annotated(farm, p, vm))
  <2> HIDE DEF farm
  <2>1. CASE Annotated(farm, p, vm) = farm
    BY <1>9, <2>1
  <2>2. CASE \E h, value : Annotated(farm, p, vm) = AddAnnotation(farm, h, value)
    BY <1>9, <2>2, AddAnnotationKeeps DEF Good
  <2> QED
    BY <2>1, <2>2 DEF Annotated
<1>11. Good(nodes')
  BY <1>1, <1>8, <1>10
<1>12. HostsOfProfiles' = HostsOfProfiles
  BY <1>1, ScenarioStays
<1> QED
  BY <1>2, <1>11, <1>12 DEF Good, OnlyProfilesWait, Waits

(* No step changes the scenario.                                           *)
LEMMA ScenarioIsKept ==
  ASSUME [Next]_vars
  PROVE  scenario' = scenario
<1>1. ASSUME ScaleNext
      PROVE  scenario' = scenario
  BY <1>1 DEF ScaleNext, BeginProfile, ProfileFails, ConfigureVm, ConfigureVmFails, EndProfile, ConfigureDone, BeginNetworks,
              NetworksFail, StartVm, StartVmFails, ConnectFails, SendFails, PostStartDone, processVars
<1>2. ASSUME TurbineNext
      PROVE  scenario' = scenario
  BY <1>2 DEF TurbineNext, MainControllerConfigured, AnemometerConfigured, YawConfigured, BladeConfigured,
              NextTurbine, TurbineFails, TurbinesDone, WithConfig
<1> QED
  BY <1>1, <1>2 DEF Next, Configure, Start, Stages, vars, processVars

(* ScalePlaces is inductive.                                               *)
LEMMA PlacesStep ==
  ASSUME IsScale, ScalePlaces, [Next]_vars
  PROVE  ScalePlaces'
<1>1. scenario' = scenario /\ Profiles' = Profiles /\ IsScale'
  BY ScenarioIsKept, ScenarioStays
<1>2. Len(Profiles) \in Nat
  BY ProfilesAreProfiles DEF ScalePlaces
<1> USE <1>1, <1>2 DEF ScalePlaces, Stage
<1>3. CASE Configure
  BY <1>3 DEF Configure, Launch, GoTo, scaleVars, Idle
<1>4. CASE Start
  BY <1>4 DEF Start, Launch, GoTo, Idle
<1>5. CASE BeginProfile
  BY <1>5 DEF BeginProfile, Outside, InProfiles, processVars
<1>6. CASE ProfileFails \/ ConfigureVmFails \/ NetworksFail \/ StartVmFails \/ ConnectFails \/ SendFails
  BY <1>6 DEF ProfileFails, ConfigureVmFails, NetworksFail, StartVmFails, ConnectFails, SendFails, FailStage
<1>7. CASE ConfigureVm
  BY <1>7 DEF ConfigureVm, InVms, InProfiles, NextVm
<1>8. CASE EndProfile("configure") \/ EndProfile("post-start")
  BY <1>8 DEF EndProfile, VmsDone, InProfiles, Again
<1>9. CASE ConfigureDone
  BY <1>9 DEF ConfigureDone, Finish, scaleVars
<1>10. CASE BeginNetworks
  BY <1>10 DEF BeginNetworks, Outside, InProfiles, processVars
<1>11. CASE StartVm
  BY <1>11 DEF StartVm, InVms, InProfiles, NextVm
<1>12. CASE PostStartDone
  BY <1>12 DEF PostStartDone, Finish
<1>13. CASE UNCHANGED vars
  BY <1>13 DEF vars, processVars, scaleVars
<1> QED
  BY <1>3, <1>4, <1>5, <1>6, <1>7, <1>8, <1>9, <1>10, <1>11, <1>12, <1>13, TurbinesAreOfTheOtherApp DEF Next, Stages, ScaleNext

(* ScaleNodes holds after a step.                                          *)
LEMMA NodesStep ==
  ASSUME IsScale, ScalePlaces, ScaleNodes, [Next]_vars
  PROVE  ScaleNodes'
<1>1. scenario' = scenario /\ HostsOfProfiles' = HostsOfProfiles
  BY ScenarioIsKept, ScenarioStays
<1>2. (doc' = doc => OnlyProfilesWait(doc)') /\ (doc' = nodes /\ OnlyProfilesWait(nodes) => OnlyProfilesWait(doc)')
  BY <1>1 DEF ScaleNodes, OnlyProfilesWait
<1>3. (nodes' = nodes /\ OnlyProfilesWait(nodes) => OnlyProfilesWait(nodes)') /\ (nodes' = doc => OnlyProfilesWait(nodes)')
  BY <1>1 DEF ScaleNodes, OnlyProfilesWait
<1> USE <1>2, <1>3 DEF ScaleNodes, Stage
<1>4. CASE Configure \/ Start
  BY <1>4 DEF Configure, Start, Launch
<1>5. CASE BeginProfile \/ BeginNetworks
  BY <1>5 DEF BeginProfile, BeginNetworks, processVars
<1>6. CASE ProfileFails \/ ConfigureVmFails \/ NetworksFail \/ StartVmFails \/ ConnectFails \/ SendFails
  BY <1>6 DEF ProfileFails, ConfigureVmFails, NetworksFail, StartVmFails, ConnectFails, SendFails, FailStage
<1>7. CASE ConfigureVm
  <2>1. app = "configure" /\ app' = app /\ doc' = doc
    BY <1>7 DEF ConfigureVm, InVms, InProfiles
  <2> QED
    BY <1>7, <2>1, ConfiguredVm
<1>8. CASE EndProfile("configure") \/ EndProfile("post-start")
  BY <1>8 DEF EndProfile
<1>9. CASE ConfigureDone \/ PostStartDone
  BY <1>9 DEF ConfigureDone, PostStartDone, Finish
<1>10. CASE StartVm
  BY <1>10 DEF StartVm
<1>11. CASE UNCHANGED vars
  BY <1>11 DEF vars, processVars
<1> QED
  BY <1>4, <1>5, <1>6, <1>7, <1>8, <1>9, <1>10, <1>11, TurbinesAreOfTheOtherApp DEF Next, Stages, ScaleNext

(* ScaleSent holds after a step.                                           *)
LEMMA SentStep ==
  ASSUME IsScale, ScalePlaces, ScaleNodes, ScaleSent, [Next]_vars
  PROVE  ScaleSent'
<1>1. /\ scenario' = scenario /\ ProfileVms' = ProfileVms
      /\ \A v : Host(v)' = Host(v)
  BY ScenarioIsKept, ScenarioStays
<1>2. \A v \in ProfileVms : v[1] \in DOMAIN Profiles /\ v[2] \in 1..NodeCount(Profiles[v[1]]) /\ v = <<v[1], v[2]>>
  BY DEF ProfileVms
<1>3. DOMAIN Profiles = 1..Len(Profiles) /\ Len(Profiles) \in Nat /\ \A k \in DOMAIN Profiles : NodeCount(Profiles[k]) \in Nat
  BY ProfilesAreProfiles, CountIsNatural DEF ScalePlaces
<1> USE DEF ScaleSent, Stage
<1>4. CASE Configure
  BY <1>4 DEF Configure, Launch, scaleVars
<1>5. CASE Start
  <2>1. app' = "post-start" /\ sent' = << >> /\ step'.i = 1 /\ vm' = 0
    BY <1>5 DEF Start, Launch, GoTo, ScalePlaces, Idle
  <2>2. \A v \in ProfileVms : ~Passed(v)'
    BY <1>2, <1>3, <2>1 DEF Passed
  <2> QED
    BY <1>1, <2>1, <2>2
<1>6. CASE BeginProfile \/ ConfigureVm \/ EndProfile("configure")
  BY <1>6 DEF BeginProfile, ConfigureVm, EndProfile, Outside, InVms, VmsDone, InProfiles, processVars
<1>7. CASE ProfileFails \/ ConfigureVmFails \/ NetworksFail \/ StartVmFails \/ ConnectFails \/ SendFails
  BY <1>7 DEF ProfileFails, ConfigureVmFails, NetworksFail, StartVmFails, ConnectFails, SendFails, FailStage
<1>8. CASE ConfigureDone
  BY <1>8 DEF ConfigureDone, Finish, scaleVars
<1>9. CASE BeginNetworks
  <2>1. app' = app /\ sent' = sent /\ step' = step /\ vm' = 1 /\ doc' = doc /\ vm = 0 /\ app = "post-start"
    BY <1>9 DEF BeginNetworks, Outside, InProfiles, processVars
  <2>2. \A v \in ProfileVms : Passed(v)' => Passed(v)
    BY <1>2, <1>3, <2>1 DEF Passed
  <2> QED
    BY <1>1, <2>1, <2>2 DEF InDoc, Received
<1>10. CASE EndProfile("post-start")
  <2>1. /\ app' = app /\ sent' = sent /\ step' = [step EXCEPT !.i = @ + 1] /\ vm' = 0 /\ doc' = doc
        /\ app = "post-start" /\ vm > NodeCount(Profiles[step.i]) /\ step.i \in DOMAIN Profiles
    BY <1>3, <1>10 DEF EndProfile, VmsDone, InProfiles, Again, ThisProfile, ScalePlaces
  <2>2. step'.i = step.i + 1 /\ step.i \in Nat /\ vm \in Nat
    BY <2>1 DEF ScalePlaces
  <2>3. \A v \in ProfileVms : Passed(v)' => Passed(v)
    BY <1>2, <1>3, <2>1, <2>2 DEF Passed
  <2> QED
    BY <1>1, <2>1, <2>3 DEF InDoc, Received
<1>11. CASE StartVm
  <2> DEFINE file == MinimegaFile(ThisHost)
  <2>1. /\ app = "post-start" /\ app' = app /\ doc' = doc /\ step' = step /\ vm' = vm + 1
        /\ sent' = Overlay([h \in Recipients(ThisHost) |-> Received(h) \cup {file}], sent)
        /\ InVms("post-start")
    BY <1>11 DEF StartVm, InVms, InProfiles, NextVm
  <2>2. Host(<<step.i, vm>>) = ThisHost /\ step.i \in Nat /\ vm \in Nat
    BY <2>1, ThisVm DEF ScalePlaces
  <2>3. Recipients(ThisHost) = IF InDoc(ThisHost) THEN {ThisHost} ELSE {}
    BY DEF Recipients, InDoc
  <2>4. /\ DOMAIN sent' = DOMAIN sent \cup Recipients(ThisHost)
        /\ \A h \in DOMAIN sent' : sent'[h] = IF h \in Recipients(ThisHost) THEN Received(h) \cup {file} ELSE sent[h]
    BY <2>1 DEF Overlay
  <2>5. \A h \in DOMAIN sent' : sent'[h] \subseteq {MinimegaFile(h)}
    BY <2>3, <2>4 DEF Received
  <2>6. \A h : Received(h) \subseteq Received(h)'
    BY <2>3, <2>4 DEF Received
  <2>7. \A h : h = ThisHost /\ InDoc(h) => MinimegaFile(h) \in Received(h)'
    BY <2>3, <2>4 DEF Received
  <2>8. \A v \in ProfileVms : Passed(v)' => Passed(v) \/ v = <<step.i, vm>>
    BY <1>2, <1>3, <2>1, <2>2 DEF Passed
  <2>9. \A h : InDoc(h)' = InDoc(h)
    BY <2>1 DEF InDoc
  <2>10. ASSUME NEW v \in ProfileVms, Passed(v)', InDoc(Host(v))
         PROVE  MinimegaFile(Host(v)) \in Received(Host(v))'
    <3> DEFINE h == Host(v)
    <3>1. Host(v)' = h
      BY <1>1
    <3> HIDE DEF h
    <3>2. CASE Passed(v)
      <4>1. MinimegaFile(h) \in Received(h)
        BY <2>1, <2>10, <3>2 DEF h
      <4> QED
        BY <2>6, <3>1, <4>1 DEF h
    <3>3. CASE v = <<step.i, vm>>
      BY <2>2, <2>7, <2>10, <3>1, <3>3 DEF h
    <3> QED
      BY <2>8, <2>10, <3>2, <3>3
  <2> QED
    BY <1>1, <2>1, <2>5, <2>9, <2>10
<1>12. CASE PostStartDone
  <2>1. /\ app = "post-start" /\ app' = "started" /\ doc' = nodes /\ nodes = doc /\ sent' = sent /\ step.i > Len(Profiles)
    BY <1>12 DEF PostStartDone, Finish, ScaleNodes
  <2>2. \A v \in ProfileVms : Passed(v)
    BY <1>2, <1>3, <2>1 DEF Passed, ScalePlaces
  <2> QED
    BY <1>1, <2>1, <2>2 DEF InDoc, Received
<1>13. CASE UNCHANGED vars
  BY <1>1, <1>13 DEF vars, processVars, scaleVars, Passed, InDoc, Received
<1> QED
  BY <1>4, <1>5, <1>6, <1>7, <1>8, <1>9, <1>10, <1>11, <1>12, <1>13, TurbinesAreOfTheOtherApp DEF Next, Stages, ScaleNext

(* SentInv is an invariant.                                                *)
LEMMA SentInvAlways == Spec => []SentInv
<1>1. Init => SentInv
  <2> SUFFICES ASSUME Init, IsScale
               PROVE  ScalePlaces /\ ScaleNodes /\ ScaleSent
    BY DEF SentInv
  <2>1. IsTopology(scenario.topology) /\ \A j \in DOMAIN scenario.topology : ~Waits(scenario.topology[j])
    BY ScenarioAssumption DEF Init, ProcessInit, IsScale
  <2>2. ScalePlaces
    BY DEF Init, ProcessInit, ScaleInit, ScalePlaces, Stage
  <2>3. ScaleNodes
    BY <2>1 DEF Init, ProcessInit, ScaleNodes, OnlyProfilesWait, Stage
  <2>4. ScaleSent
    BY DEF Init, ProcessInit, ScaleInit, ScaleSent
  <2> QED
    BY <2>2, <2>3, <2>4
<1>2. SentInv /\ [Next]_vars => SentInv'
  <2> SUFFICES ASSUME SentInv, [Next]_vars, IsScale'
               PROVE  ScalePlaces' /\ ScaleNodes' /\ ScaleSent'
    BY DEF SentInv
  <2>1. IsScale
    BY ScenarioIsKept, ScenarioStays
  <2> QED
    BY <2>1, PlacesStep, NodesStep, SentStep DEF SentInv
<1> QED
  BY <1>1, <1>2, PTL DEF Spec

(* Every VM that waits at boot for its minimega file was sent that file,   *)
(* and no other, when post-start has succeeded: whatever the profiles,     *)
(* however often the stages ran and failed before.                         *)
THEOREM EveryFileIsSent == Spec => []EveryVmGetsItsFile
<1>1. SentInv => EveryVmGetsItsFile
  <2> SUFFICES ASSUME SentInv, Started, NEW j \in DOMAIN doc, Waits(doc[j])
               PROVE  Received(doc[j].hostname) = {MinimegaFile(doc[j].hostname)}
    BY DEF EveryVmGetsItsFile
  <2>1. IsScale /\ app = "started" /\ ScaleNodes /\ ScaleSent
    BY DEF SentInv, Started
  <2>2. PICK v \in ProfileVms : doc[j].hostname = Host(v)
    BY <2>1 DEF ScaleNodes, OnlyProfilesWait, HostsOfProfiles
  <2>3. MinimegaFile(Host(v)) \in Received(Host(v))
    BY <2>1, <2>2 DEF ScaleSent, InDoc
  <2>4. Received(Host(v)) \subseteq {MinimegaFile(Host(v))}
    BY <2>1 DEF ScaleSent, Received
  <2> QED
    BY <2>2, <2>3, <2>4
<1> QED
  BY <1>1, SentInvAlways, PTL

-----------------------------------------------------------------------------
(* The files.  A container with an address on each of its interfaces.      *)
MeetsInterfaces(c) == DOMAIN c.ips = DOMAIN c.nets /\ \A j \in DOMAIN c.ips : c.ips[j].net = c.nets[j]

(* Post-start counts addresses in the networks the interfaces are made of. *)
AddressesOfProfile ==
  app = "post-start" /\ vm # 0 =>
    LET nets == WithAddresses(ThisProfile.networks)
    IN  DOMAIN addrs = DOMAIN nets /\ \A j \in DOMAIN addrs : addrs[j] = [net |-> nets[j].name, n |-> addrs[j].n]

(* What a VM's minimega file says.                                         *)
IsLaunchOf(runs, v) ==
  /\ runs = [n \in 1..ContainerCount(Profiles[v[1]], v[2]) |-> runs[n]]
  /\ IF IsFarm(Profiles[v[1]]) THEN runs = FarmLaunch(Profiles[v[1]], v[2])
     ELSE \A n \in DOMAIN runs : MeetsInterfaces(runs[n])

Launching(v) == app = "started" \/ (app = "post-start" /\ Passed(v))

(* A file is there once the VM had its turn, and right whenever it is      *)
(* there: a stage that failed, or an earlier start, leaves no other.       *)
VmFiles ==
  \A v \in ProfileVms :
    LET path == MinimegaFile(Host(v))
    IN  /\ Launching(v) => path \in DOMAIN files
        /\ IsOwn(v[1]) /\ path \in DOMAIN files => IsLaunchOf(files[path], v)

(* What the container n of a VM is to be configured as.                    *)
Configuration(v, n) == ContainerConfig(Profiles[v[1]], FarmContainers(Profiles[v[1]], v[2])[n])

InTar(fs, path) == Tarball \in DOMAIN fs /\ path \in DOMAIN fs[Tarball]

Configured(v) == clean \/ (app = "configure" /\ Passed(v))

(* The same of the configurations, both in the directory of the app and in *)
(* the tarball; these need not be of the stage that runs, as a stage that  *)
(* fails half-way leaves the tarball of an earlier one.                    *)
ConfigFiles ==
  \A v \in ProfileVms : \A n \in 1..ContainerCount(Profiles[v[1]], v[2]) :
    IsFarm(Profiles[v[1]]) =>
      LET path == ConfigFile(Host(v), n)
      IN  /\ Configured(v) => path \in DOMAIN files /\ InTar(files, path)
          /\ IsOwn(v[1]) /\ path \in DOMAIN files => files[path] = Configuration(v, n)
          /\ IsOwn(v[1]) /\ InTar(files, path) => files[Tarball][path] = Configuration(v, n)

(* Only an experiment that was configured is started.                      *)
StartedClean == app \in {"post-start", "started"} => clean

(* The inductive invariant under which farms are whole and addresses meet  *)
(* interfaces.                                                             *)
FilesInv == IsScale => StartedClean /\ AddressesOfProfile /\ VmFiles /\ ConfigFiles

-----------------------------------------------------------------------------
(* Overlay by its values.                                                  *)
LEMMA OverlayValues ==
  ASSUME NEW f, NEW g, NEW x
  PROVE  /\ x \in DOMAIN Overlay(f, g) <=> x \in DOMAIN f \/ x \in DOMAIN g
         /\ x \in DOMAIN f => Overlay(f, g)[x] = f[x]
         /\ x \in DOMAIN g /\ x \notin DOMAIN f => Overlay(f, g)[x] = g[x]
  BY DEF Overlay

(* The paths of the app are distinct.                                      *)
LEMMA PathsDiffer ==
  ASSUME NEW g, NEW h, NEW n
  PROVE  /\ MinimegaFile(h) # StartupFile(g) /\ MinimegaFile(h) # ConfigFile(g, n) /\ MinimegaFile(h) # Tarball
         /\ StartupFile(g) # ConfigFile(h, n) /\ StartupFile(g) # Tarball /\ ConfigFile(h, n) # Tarball
         /\ MinimegaFile(g) = MinimegaFile(h) => g = h
  BY DEF MinimegaFile, StartupFile, ConfigFile, Tarball

(* FarmConfigs by its values.                                              *)
LEMMA FarmConfigsAre ==
  ASSUME NEW p, NEW i, NEW m, NEW fs, fs = FarmConfigs(p, i, m)
  PROVE  /\ \A x \in DOMAIN fs : \E n \in 1..m : x = ConfigFile(Hostname(p, i), n)
         /\ \A n \in 1..m : ConfigFile(Hostname(p, i), n) \in DOMAIN fs
         /\ \A h, n : ConfigFile(h, n) \in DOMAIN fs =>
              h = Hostname(p, i) /\ fs[ConfigFile(h, n)] = ContainerConfig(p, FarmContainers(p, i)[n])
<1>1. DOMAIN fs = {ConfigFile(Hostname(p, i), n) : n \in 1..m}
  BY DEF FarmConfigs
<1>2. \A h, n : ConfigFile(h, n) \in DOMAIN fs => h = Hostname(p, i)
  BY <1>1 DEF ConfigFile
<1>3. \A h, n : ConfigFile(h, n)[3] = n
  BY DEF ConfigFile
<1>4. \A x \in DOMAIN fs : fs[x] = ContainerConfig(p, FarmContainers(p, i)[x[3]])
  BY DEF FarmConfigs
<1> QED
  BY <1>1, <1>2, <1>3, <1>4

(* What a turn of the configure stage writes: fs are the files after it.   *)
VmFilesStay(fs) ==
  \A h : /\ MinimegaFile(h) \in DOMAIN fs <=> MinimegaFile(h) \in DOMAIN files
         /\ MinimegaFile(h) \in DOMAIN files => fs[MinimegaFile(h)] = files[MinimegaFile(h)]

ConfigsOfThisVm(fs) ==
  \A h, n :
    LET path == ConfigFile(h, n)
    IN  /\ path \in DOMAIN files => path \in DOMAIN fs
        /\ path \in DOMAIN fs =>
             \/ path \in DOMAIN files /\ fs[path] = files[path]
             \/ /\ IsFarm(ThisProfile) /\ h = ThisHost
                /\ fs[path] = ContainerConfig(ThisProfile, FarmContainers(ThisProfile, vm)[n])

SameTarball(fs) ==
  /\ Tarball \in DOMAIN fs <=> Tarball \in DOMAIN files
  /\ Tarball \in DOMAIN files => fs[Tarball] = files[Tarball]

FullTarball(fs) ==
  /\ Tarball \in DOMAIN fs
  /\ \A h, n : LET path == ConfigFile(h, n)
               IN  /\ path \in DOMAIN fs[Tarball] <=> path \in DOMAIN fs
                   /\ path \in DOMAIN fs => fs[Tarball][path] = fs[path]

AllConfigs(fs) ==
  \A n \in 1..ContainerCount(ThisProfile, vm) : ConfigFile(ThisHost, n) \in DOMAIN fs

(* What configuring a VM does to the files, whether it succeeds or fails.  *)
LEMMA ConfigureWritesFiles ==
  ASSUME ConfigureVm \/ ConfigureVmFails
  PROVE  \E fs : /\ files' = fs /\ VmFilesStay(fs) /\ ConfigsOfThisVm(fs)
                 /\ SameTarball(fs) \/ FullTarball(fs)
                 /\ ConfigureVm /\ IsFarm(ThisProfile) => FullTarball(fs) /\ AllConfigs(fs)
<1> DEFINE start == WithStartup
           mid(m) == Overlay(FarmConfigs(ThisProfile, vm, m), start)
<1>1. /\ \A x : x \in DOMAIN start <=> x \in DOMAIN files \/ x = StartupFile(ThisHost)
      /\ \A x \in DOMAIN files : x # StartupFile(ThisHost) => start[x] = files[x]
  BY OverlayValues DEF WithStartup, File
<1> HIDE DEF start
<1>2. VmFilesStay(start) /\ ConfigsOfThisVm(start) /\ SameTarball(start)
  BY <1>1, PathsDiffer DEF VmFilesStay, ConfigsOfThisVm, SameTarball
<1>3. ASSUME NEW m, IsFarm(ThisProfile)
      PROVE  VmFilesStay(mid(m)) /\ ConfigsOfThisVm(mid(m)) /\ SameTarball(mid(m))
  <2> DEFINE configs == FarmConfigs(ThisProfile, vm, m)
  <2>1. /\ \A x \in DOMAIN configs : \E n \in 1..m : x = ConfigFile(ThisHost, n)
        /\ \A h, n : ConfigFile(h, n) \in DOMAIN configs =>
             h = ThisHost /\ configs[ConfigFile(h, n)] = ContainerConfig(ThisProfile, FarmContainers(ThisProfile, vm)[n])
    BY FarmConfigsAre DEF ThisHost
  <2> HIDE DEF configs
  <2>2. \A x : /\ x \in DOMAIN mid(m) <=> x \in DOMAIN configs \/ x \in DOMAIN start
               /\ x \in DOMAIN configs => mid(m)[x] = configs[x]
               /\ x \in DOMAIN start /\ x \notin DOMAIN configs => mid(m)[x] = start[x]
    BY OverlayValues DEF configs
  <2> HIDE DEF mid
  <2>3. VmFilesStay(mid(m))
    <3>1. \A h : MinimegaFile(h) \notin DOMAIN configs
      BY <2>1, PathsDiffer
    <3> QED
      BY <1>2, <2>2, <3>1 DEF VmFilesStay
  <2>4. ConfigsOfThisVm(mid(m))
    BY <1>2, <1>3, <2>1, <2>2 DEF ConfigsOfThisVm
  <2>5. SameTarball(mid(m))
    BY <1>2, <2>1, <2>2, PathsDiffer DEF SameTarball
  <2> QED
    BY <2>3, <2>4, <2>5
<1>4. ASSUME NEW fs
      PROVE  LET new == WithTarball(fs, ThisHost)
             IN  /\ VmFilesStay(fs) => VmFilesStay(new)
                 /\ ConfigsOfThisVm(fs) => ConfigsOfThisVm(new)
                 /\ AllConfigs(fs) => AllConfigs(new)
                 /\ FullTarball(new)
  <2> DEFINE new == WithTarball(fs, ThisHost)
             tar == [path \in InTarball(fs, ThisHost) |-> fs[path]]
  <2>1. \A h, n : LET path == ConfigFile(h, n)
                  IN  /\ path \in DOMAIN tar <=> path \in DOMAIN fs
                      /\ path \in DOMAIN fs => tar[path] = fs[path]
    BY DEF InTarball, ConfigFile
  <2> HIDE DEF tar
  <2>2. /\ \A x : x \in DOMAIN new <=> x = Tarball \/ x \in DOMAIN fs
        /\ new[Tarball] = tar
        /\ \A x \in DOMAIN fs : x # Tarball => new[x] = fs[x]
    BY OverlayValues DEF WithTarball, File, tar
  <2> HIDE DEF new
  <2>3. VmFilesStay(fs) => VmFilesStay(new)
    BY <2>2, PathsDiffer DEF VmFilesStay
  <2>4. ConfigsOfThisVm(fs) => ConfigsOfThisVm(new)
    BY <2>2, PathsDiffer DEF ConfigsOfThisVm
  <2>5. AllConfigs(fs) => AllConfigs(new)
    BY <2>2 DEF AllConfigs
  <2>6. FullTarball(new)
    BY <2>1, <2>2, PathsDiffer DEF FullTarball
  <2> QED
    BY <2>3, <2>4, <2>5, <2>6 DEF new
<1> HIDE DEF mid
<1>5. CASE ConfigureVm /\ ~IsFarm(ThisProfile)
  BY <1>2, <1>5 DEF ConfigureVm, start
<1>6. CASE ConfigureVm /\ IsFarm(ThisProfile)
  <2> DEFINE m == ContainerCount(ThisProfile, vm)
  <2>1. files' = WithTarball(mid(m), ThisHost)
    BY <1>6 DEF ConfigureVm, mid, start
  <2>2. AllConfigs(mid(m))
    BY FarmConfigsAre, OverlayValues DEF AllConfigs, mid, ThisHost
  <2> QED
    BY <1>3, <1>4, <1>6, <2>1, <2>2
<1>7. CASE ConfigureVmFails
  <2>1. PICK m : files' = mid(m)
    BY <1>7 DEF ConfigureVmFails, mid, start
  <2>2. IsFarm(ThisProfile) /\ ~ConfigureVm
    BY <1>7 DEF ConfigureVmFails, ConfigureVm
  <2> QED
    BY <1>3, <2>1, <2>2
<1> QED
  BY <1>5, <1>6, <1>7

(* What a farm launches, given what the scenario says of its networks.     *)
LaunchWith(p, i, nets, gateway) ==
  [k \in 1..ContainerCount(p, i) |->
    LET c == FarmContainers(p, i)[k]
        main == c.type = "main-controller"
    IN  [name |-> ContainerName(c),
         nets |-> (IF main THEN nets ELSE << >>) \o <<TurbineNet(c.turbine)>>,
         ips  |-> (IF main THEN <<ExtIp(p, c.turbine)>> ELSE << >>) \o <<PrivateIp(c.turbine, c.type)>>,
         gateway |-> IF main THEN gateway ELSE PrivateIp(c.turbine, "main-controller"),
         volume |-> ConfigFile(Hostname(p, i), k)]]

(* What the files are to be stays when the scenario does.                  *)
LEMMA ScenarioStaysForFiles ==
  ASSUME scenario' = scenario
  PROVE  /\ Profiles' = Profiles /\ ProfileVms' = ProfileVms
         /\ \A v : Host(v)' = Host(v)
         /\ \A k : IsOwn(k)' = IsOwn(k)
         /\ \A runs, v : IsLaunchOf(runs, v)' = IsLaunchOf(runs, v)
<1>1. Profiles' = Profiles /\ ProfileVms' = ProfileVms /\ \A v : Host(v)' = Host(v)
  BY ScenarioStays
<1>2. \A k : Vms(k)' = Vms(k)
  BY <1>1 DEF Vms
<1>3. \A k : IsOwn(k)' = IsOwn(k)
  BY <1>1, <1>2 DEF IsOwn
<1>4. \A g : Gateway(g)' = Gateway(g)
  BY DEF Gateway
<1>5. \A p : ExtNets(p)' = ExtNets(p)
  BY DEF ExtNets
<1>6. \A p, i : FarmLaunch(p, i)' = FarmLaunch(p, i)
  <2> TAKE p, i
  <2>1. FarmLaunch(p, i) = LaunchWith(p, i, ExtNets(p), Gateway(p.extNet.gateway))
    BY DEF FarmLaunch, LaunchWith
  <2>2. FarmLaunch(p, i)' = LaunchWith(p, i, ExtNets(p)', Gateway(p.extNet.gateway)')
    BY DEF FarmLaunch, LaunchWith
  <2> QED
    BY <1>4, <1>5, <2>1, <2>2
<1>7. \A runs, v : IsLaunchOf(runs, v)' = IsLaunchOf(runs, v)
  BY <1>1, <1>6 DEF IsLaunchOf
<1> QED
  BY <1>1, <1>3, <1>7

(* VmFiles holds after a step that leaves the minimega files alone.        *)
LEMMA VmFilesKept ==
  ASSUME VmFiles, scenario' = scenario, NEW fs, files' = fs, VmFilesStay(fs),
         \A v \in ProfileVms : Launching(v)' => Launching(v)
  PROVE  VmFiles'
<1>1. SUFFICES ASSUME NEW v \in ProfileVms
      PROVE  LET path == MinimegaFile(Host(v))
             IN  /\ Launching(v)' => path \in DOMAIN fs
                 /\ IsOwn(v[1]) /\ path \in DOMAIN fs => IsLaunchOf(fs[path], v)
  BY ScenarioStaysForFiles DEF VmFiles
<1> QED
  BY DEF VmFiles, VmFilesStay

(* ConfigFiles holds after a step that leaves the configurations alone.    *)
LEMMA ConfigFilesKept ==
  ASSUME ConfigFiles, scenario' = scenario, NEW fs, files' = fs, SameTarball(fs),
         \A h, n : LET path == ConfigFile(h, n)
                   IN  /\ path \in DOMAIN fs <=> path \in DOMAIN files
                       /\ path \in DOMAIN files => fs[path] = files[path],
         \A v \in ProfileVms : Configured(v)' => Configured(v)
  PROVE  ConfigFiles'
<1>1. SUFFICES ASSUME NEW v \in ProfileVms, NEW n \in 1..ContainerCount(Profiles[v[1]], v[2]), IsFarm(Profiles[v[1]])
      PROVE  LET path == ConfigFile(Host(v), n)
             IN  /\ Configured(v)' => path \in DOMAIN fs /\ InTar(fs, path)
                 /\ IsOwn(v[1]) /\ path \in DOMAIN fs => fs[path] = Configuration(v, n)
                 /\ IsOwn(v[1]) /\ InTar(fs, path) => fs[Tarball][path] = Configuration(v, n)
  BY ScenarioStaysForFiles DEF ConfigFiles, InTar, Configuration
<1> DEFINE path == ConfigFile(Host(v), n)
<1>2. /\ Configured(v) => path \in DOMAIN files /\ InTar(files, path)
      /\ IsOwn(v[1]) /\ path \in DOMAIN files => files[path] = Configuration(v, n)
      /\ IsOwn(v[1]) /\ InTar(files, path) => files[Tarball][path] = Configuration(v, n)
  BY <1>1 DEF ConfigFiles
<1>3. /\ path \in DOMAIN fs <=> path \in DOMAIN files
      /\ path \in DOMAIN files => fs[path] = files[path]
  OBVIOUS
<1>4. /\ InTar(fs, path) <=> InTar(files, path)
      /\ InTar(files, path) => fs[Tarball] = files[Tarball]
  BY DEF SameTarball, InTar
<1> HIDE DEF path
<1>5. Configured(v)' => Configured(v)
  OBVIOUS
<1> QED
  BY <1>2, <1>3, <1>4, <1>5 DEF path

(* VMs are pairs of numbers in the profiles.                               *)
LEMMA VmsHavePlaces ==
  ASSUME IsScale, ScalePlaces
  PROVE  /\ \A v \in ProfileVms : /\ v[1] \in DOMAIN Profiles /\ v[2] \in 1..NodeCount(Profiles[v[1]])
                                  /\ v = <<v[1], v[2]>>
         /\ DOMAIN Profiles = 1..Len(Profiles) /\ Len(Profiles) \in Nat
         /\ \A k \in DOMAIN Profiles : NodeCount(Profiles[k]) \in Nat
  BY ProfilesAreProfiles, CountIsNatural DEF ProfileVms, ScalePlaces

(* Configuring a VM keeps the files right.                                 *)
LEMMA ConfigureStep ==
  ASSUME IsScale, ScalePlaces, StartedClean, VmFiles, ConfigFiles, ConfigureVm \/ ConfigureVmFails,
         clean' = (clean \/ Succeeded)
  PROVE  VmFiles' /\ ConfigFiles'
<1>1. /\ scenario' = scenario /\ InVms("configure") /\ app = "configure"
      /\ ConfigureVm => step' = step /\ vm' = vm + 1 /\ app' = app
      /\ ConfigureVmFails => app' = "failed"
  BY DEF ConfigureVm, ConfigureVmFails, InVms, InProfiles, NextVm, FailStage
<1>2. clean' => clean
  <2>1. ~Succeeded
    BY <1>1 DEF Succeeded
  <2> QED
    BY <2>1, Zenon
<1>3. Host(<<step.i, vm>>) = ThisHost /\ step.i \in Nat /\ vm \in Nat /\ <<step.i, vm>> \in ProfileVms
  BY <1>1, ThisVm DEF ScalePlaces
<1>4. PICK fs : /\ files' = fs /\ VmFilesStay(fs) /\ ConfigsOfThisVm(fs)
                /\ SameTarball(fs) \/ FullTarball(fs)
                /\ ConfigureVm /\ IsFarm(ThisProfile) => FullTarball(fs) /\ AllConfigs(fs)
  BY ConfigureWritesFiles
<1>5. VmFiles'
  <2>1. \A v \in ProfileVms : Launching(v)' => Launching(v)
    BY <1>1 DEF Launching
  <2> QED
    BY <1>1, <1>4, <2>1, VmFilesKept
<1>6. SUFFICES ASSUME NEW v \in ProfileVms, NEW n \in 1..ContainerCount(Profiles[v[1]], v[2]), IsFarm(Profiles[v[1]])
      PROVE  LET path == ConfigFile(Host(v), n)
             IN  /\ Configured(v)' => path \in DOMAIN fs /\ InTar(fs, path)
                 /\ IsOwn(v[1]) /\ path \in DOMAIN fs => fs[path] = Configuration(v, n)
                 /\ IsOwn(v[1]) /\ InTar(fs, path) => fs[Tarball][path] = Configuration(v, n)
  BY <1>1, <1>4, <1>5, ScenarioStaysForFiles DEF ConfigFiles, InTar, Configuration
<1> DEFINE path == ConfigFile(Host(v), n)
<1>7. /\ Configured(v) => path \in DOMAIN files /\ InTar(files, path)
      /\ IsOwn(v[1]) /\ path \in DOMAIN files => files[path] = Configuration(v, n)
      /\ IsOwn(v[1]) /\ InTar(files, path) => files[Tarball][path] = Configuration(v, n)
  BY <1>6 DEF ConfigFiles
<1>8. IsOwn(v[1]) /\ path \in DOMAIN fs => fs[path] = Configuration(v, n)
  <2> SUFFICES ASSUME IsOwn(v[1]), path \in DOMAIN fs
               PROVE  fs[path] = Configuration(v, n)
    OBVIOUS
  <2>1. CASE path \in DOMAIN files /\ fs[path] = files[path]
    BY <1>7, <2>1
  <2>2. CASE /\ Host(v) = ThisHost
             /\ fs[path] = ContainerConfig(ThisProfile, FarmContainers(ThisProfile, vm)[n])
    <3>1. v = <<step.i, vm>>
      BY <1>3, <2>2 DEF IsOwn, Vms
    <3> QED
      BY <2>2, <3>1 DEF Configuration, ThisProfile
  <2> QED
    BY <1>4, <2>1, <2>2 DEF ConfigsOfThisVm
<1>9. InTar(fs, path) =>
        \/ InTar(files, path) /\ fs[Tarball] = files[Tarball]
        \/ path \in DOMAIN fs /\ fs[Tarball][path] = fs[path]
  BY <1>4 DEF SameTarball, FullTarball, InTar
<1>10. Configured(v)' => path \in DOMAIN fs /\ InTar(fs, path)
  <2>1. CASE Configured(v)
    <3>1. path \in DOMAIN files /\ InTar(files, path)
      BY <1>7, <2>1
    <3>2. path \in DOMAIN fs
      BY <1>4, <3>1 DEF ConfigsOfThisVm
    <3> QED
      BY <1>4, <3>1, <3>2 DEF SameTarball, FullTarball, InTar
  <2>2. CASE ConfigureVm /\ v = <<step.i, vm>>
    <3>1. path \in DOMAIN fs
      BY <1>3, <1>4, <1>6, <2>2 DEF AllConfigs, ThisProfile
    <3> QED
      BY <1>4, <1>6, <2>2, <3>1 DEF FullTarball, InTar, ThisProfile
  <2>3. Configured(v)' => Configured(v) \/ (ConfigureVm /\ v = <<step.i, vm>>)
    BY <1>1, <1>2, <1>3, VmsHavePlaces DEF Configured, Passed
  <2> QED
    BY <2>1, <2>2, <2>3
<1> QED
  BY <1>7, <1>8, <1>9, <1>10

(* Starting a VM keeps them right; so does a send that fails.              *)
LEMMA LaunchStep ==
  ASSUME IsScale, ScalePlaces, AddressesOfProfile, VmFiles, ConfigFiles, StartVm \/ SendFails,
         clean' = (clean \/ Succeeded)
  PROVE  AddressesOfProfile' /\ VmFiles' /\ ConfigFiles'
<1> DEFINE path == MinimegaFile(ThisHost)
           fs == Overlay(File(path, Launched(ThisProfile, vm)), files)
<1>1. /\ scenario' = scenario /\ InVms("post-start") /\ app = "post-start" /\ files' = fs
      /\ StartVm => step' = step /\ vm' = vm + 1 /\ app' = app /\ addrs' = Advance(addrs, ContainerCount(ThisProfile, vm))
      /\ SendFails => app' = "failed"
  BY DEF StartVm, SendFails, InVms, InProfiles, NextVm, FailStage, Write
<1>2. clean' => clean
  <2>1. ~Succeeded
    BY <1>1 DEF Succeeded
  <2> QED
    BY <2>1, Zenon
<1>3. Host(<<step.i, vm>>) = ThisHost /\ step.i \in Nat /\ vm \in Nat \ {0} /\ <<step.i, vm>> \in ProfileVms
  BY <1>1, ThisVm DEF ScalePlaces, InVms
<1>4. /\ \A x : x \in DOMAIN fs <=> x = path \/ x \in DOMAIN files
      /\ fs[path] = Launched(ThisProfile, vm)
      /\ \A x \in DOMAIN files : x # path => fs[x] = files[x]
  BY OverlayValues DEF File
<1> DEFINE nets == WithAddresses(ThisProfile.networks)
<1>5. DOMAIN addrs = DOMAIN nets /\ \A j \in DOMAIN addrs : addrs[j] = [net |-> nets[j].name, n |-> addrs[j].n]
  BY <1>1, <1>3 DEF AddressesOfProfile
<1> HIDE DEF fs, path
<1>6. IsLaunchOf(Launched(ThisProfile, vm), <<step.i, vm>>)
  <2>0. Launched(ThisProfile, vm) = [n \in 1..ContainerCount(ThisProfile, vm) |-> Launched(ThisProfile, vm)[n]]
    BY DEF Launched, FarmLaunch, BuiltinContainers
  <2>1. CASE IsFarm(ThisProfile)
    BY <2>0, <2>1 DEF IsLaunchOf, Launched, ThisProfile
  <2>2. CASE ~IsFarm(ThisProfile)
    <3>1. Launched(ThisProfile, vm) = BuiltinContainers(ThisProfile, vm)
      BY <2>2 DEF Launched
    <3>2. \A n \in DOMAIN BuiltinContainers(ThisProfile, vm) : MeetsInterfaces(BuiltinContainers(ThisProfile, vm)[n])
      <4> HIDE DEF nets
      <4> QED
        BY <1>5, SMTT(20) DEF BuiltinContainers, MeetsInterfaces, NetNames, nets
    <3> QED
      BY <2>0, <2>2, <3>1, <3>2 DEF IsLaunchOf, ThisProfile
  <2> QED
    BY <2>1, <2>2
<1>7. VmFiles'
  <2>1. SUFFICES ASSUME NEW v \in ProfileVms
        PROVE  LET own == MinimegaFile(Host(v))
               IN  /\ Launching(v)' => own \in DOMAIN fs
                   /\ IsOwn(v[1]) /\ own \in DOMAIN fs => IsLaunchOf(fs[own], v)
    BY <1>1, ScenarioStaysForFiles DEF VmFiles
  <2>2. CASE Host(v) = ThisHost
    <3>1. IsOwn(v[1]) => v = <<step.i, vm>>
      BY <1>3, <2>2 DEF IsOwn, Vms
    <3> QED
      BY <1>4, <1>6, <2>2, <3>1 DEF path
  <2>3. CASE Host(v) # ThisHost
    <3>1. MinimegaFile(Host(v)) # path
      BY <2>3, PathsDiffer DEF path
    <3>2. Launching(v)' => Launching(v)
      BY <1>1, <1>3, <2>3, VmsHavePlaces DEF Launching, Passed
    <3> QED
      BY <1>4, <3>1, <3>2 DEF VmFiles
  <2> QED
    BY <2>2, <2>3
<1>8. ConfigFiles'
  <2>1. SameTarball(fs)
    BY <1>4, PathsDiffer DEF SameTarball, path
  <2>2. \A h, n : ConfigFile(h, n) # path
    BY PathsDiffer DEF path
  <2>3. \A v \in ProfileVms : Configured(v)' => Configured(v)
    BY <1>1, <1>2 DEF Configured
  <2> QED
    BY <1>1, <1>4, <2>1, <2>2, <2>3, ConfigFilesKept
<1>9. AddressesOfProfile'
  <2>1. CASE SendFails
    BY <1>1, <2>1 DEF AddressesOfProfile
  <2>2. CASE StartVm
    <3>1. WithAddresses(ThisProfile.networks)' = nets
      <4>1. ThisProfile' = ThisProfile /\ scenario'.vlans = scenario.vlans
        BY <1>1, <2>2, ScenarioStays DEF ThisProfile
      <4> QED
        BY <4>1 DEF WithAddresses
    <3>2. /\ DOMAIN addrs' = DOMAIN nets
          /\ \A j \in DOMAIN addrs' : addrs'[j] = [net |-> nets[j].name, n |-> addrs'[j].n]
      <4> HIDE DEF nets
      <4> QED
        BY <1>1, <1>5, <2>2 DEF Advance
    <3> QED
      BY <3>1, <3>2 DEF AddressesOfProfile
  <2> QED
    BY <2>1, <2>2
<1> QED
  BY <1>7, <1>8, <1>9

(* So does a step that writes none and after which no more VMs had their   *)
(* turn.                                                                   *)
LEMMA FilesUntouched ==
  ASSUME VmFiles, ConfigFiles, scenario' = scenario, files' = files,
         \A v \in ProfileVms : (Launching(v)' => Launching(v)) /\ (Configured(v)' => Configured(v))
  PROVE  VmFiles' /\ ConfigFiles'
<1>1. PICK fs : fs = files
  OBVIOUS
<1>2. VmFilesStay(fs) /\ SameTarball(fs)
  BY <1>1 DEF VmFilesStay, SameTarball
<1>3. VmFiles'
  BY <1>1, <1>2, VmFilesKept
<1>4. ConfigFiles'
  BY <1>1, <1>2, ConfigFilesKept
<1> QED
  BY <1>3, <1>4

(* A step of a stage keeps all of FilesInv.                                *)
LEMMA StageStep ==
  ASSUME IsScale, ScalePlaces, StartedClean, AddressesOfProfile, VmFiles, ConfigFiles, ScaleNext,
         clean' = (clean \/ Succeeded)
  PROVE  StartedClean' /\ AddressesOfProfile' /\ VmFiles' /\ ConfigFiles'
<1>1. scenario' = scenario
  BY ScenarioIsKept DEF ScaleNext, BeginProfile, ProfileFails, ConfigureVm, ConfigureVmFails, EndProfile, ConfigureDone, BeginNetworks,
     NetworksFail, StartVm, StartVmFails, ConnectFails, SendFails, PostStartDone, processVars
<1>2. (clean => clean') /\ (~Succeeded => (clean' => clean)) /\ (Succeeded => clean')
  BY Zenon
<1>3. app' \in {"configure", "failed"} => StartedClean' /\ AddressesOfProfile'
  BY DEF StartedClean, AddressesOfProfile
<1>4. CASE ConfigureVm \/ ConfigureVmFails
  <2>1. app' \in {"configure", "failed"}
    BY <1>4 DEF ConfigureVm, ConfigureVmFails, InVms, InProfiles, FailStage
  <2> QED
    BY <1>3, <1>4, <2>1, ConfigureStep
<1>5. CASE StartVm \/ SendFails
  <2>1. StartedClean'
    BY <1>2, <1>5 DEF StartVm, SendFails, FailStage, StartedClean
  <2> QED
    BY <1>5, <2>1, LaunchStep
<1>6. CASE BeginProfile
  <2>1. app = "configure" /\ app' = app /\ files' = files /\ step' = step /\ vm = 0 /\ vm' = 1 /\ ~Succeeded
    BY <1>6 DEF BeginProfile, Outside, InProfiles, processVars, Succeeded
  <2>2. \A v \in ProfileVms : (Launching(v)' => Launching(v)) /\ (Configured(v)' => Configured(v))
    BY <1>2, <2>1, VmsHavePlaces DEF Launching, Configured, Passed
  <2> QED
    BY <1>1, <1>3, <2>1, <2>2, FilesUntouched
<1>7. CASE BeginNetworks
  <2>1. app = "post-start" /\ app' = app /\ files' = files /\ step' = step /\ vm = 0 /\ vm' = 1 /\ ~Succeeded
    BY <1>7 DEF BeginNetworks, Outside, InProfiles, processVars, Succeeded
  <2>2. \A v \in ProfileVms : (Launching(v)' => Launching(v)) /\ (Configured(v)' => Configured(v))
    BY <1>2, <2>1, VmsHavePlaces DEF Launching, Configured, Passed
  <2>3. AddressesOfProfile'
    <3> DEFINE nets == WithAddresses(ThisProfile.networks)
    <3>1. WithAddresses(ThisProfile.networks)' = nets
      BY <1>1, <2>1, ScenarioStays DEF WithAddresses, ThisProfile
    <3>2. addrs' = [k \in DOMAIN nets |-> [net |-> nets[k].name, n |-> nets[k].network]]
      BY <1>7 DEF BeginNetworks
    <3> HIDE DEF nets
    <3>3. DOMAIN addrs' = DOMAIN nets /\ \A j \in DOMAIN addrs' : addrs'[j] = [net |-> nets[j].name, n |-> addrs'[j].n]
      BY <3>2
    <3> QED
      BY <3>1, <3>3 DEF AddressesOfProfile
  <2>4. StartedClean'
    BY <1>2, <2>1 DEF StartedClean
  <2> QED
    BY <1>1, <2>1, <2>2, <2>3, <2>4, FilesUntouched
<1>8. CASE EndProfile("configure") \/ EndProfile("post-start")
  <2>1. /\ app \in Stage /\ app' = app /\ files' = files /\ step' = [step EXCEPT !.i = @ + 1] /\ vm' = 0
        /\ vm > NodeCount(Profiles[step.i]) /\ step.i \in DOMAIN Profiles /\ ~Succeeded
    BY <1>8, VmsHavePlaces DEF EndProfile, VmsDone, InProfiles, Again, ThisProfile, ScalePlaces, Succeeded, Stage
  <2>2. step'.i = step.i + 1 /\ step.i \in Nat /\ vm \in Nat
    BY <2>1 DEF ScalePlaces
  <2>3. \A v \in ProfileVms : Passed(v)' => Passed(v)
    BY <2>1, <2>2, VmsHavePlaces DEF Passed
  <2>4. \A v \in ProfileVms : (Launching(v)' => Launching(v)) /\ (Configured(v)' => Configured(v))
    BY <1>2, <2>1, <2>3 DEF Launching, Configured, Stage
  <2>5. StartedClean'
    BY <1>2, <2>1 DEF StartedClean
  <2>6. AddressesOfProfile'
    BY <2>1 DEF AddressesOfProfile
  <2> QED
    BY <1>1, <2>1, <2>4, <2>5, <2>6, FilesUntouched
<1>9. CASE ProfileFails \/ NetworksFail \/ StartVmFails \/ ConnectFails
  <2>1. app' = "failed" /\ files' = files /\ ~Succeeded
    BY <1>9 DEF ProfileFails, NetworksFail, StartVmFails, ConnectFails, FailStage, Succeeded
  <2>2. \A v \in ProfileVms : (Launching(v)' => Launching(v)) /\ (Configured(v)' => Configured(v))
    BY <1>2, <2>1 DEF Launching, Configured
  <2> QED
    BY <1>1, <1>3, <2>1, <2>2, FilesUntouched
<1>10. CASE ConfigureDone \/ PostStartDone
  <2>1. /\ files' = files /\ app \in Stage /\ step.i > Len(Profiles) /\ Succeeded /\ app' \in {"configured", "started"}
        /\ app' = "configured" => app = "configure"
        /\ app' = "started" => app = "post-start"
    BY <1>10 DEF ConfigureDone, PostStartDone, Finish, Succeeded, Stage
  <2>2. \A v \in ProfileVms : Passed(v)
    BY <2>1, VmsHavePlaces DEF Passed, ScalePlaces
  <2>3. \A v \in ProfileVms : (Launching(v)' => Launching(v)) /\ (Configured(v)' => Configured(v))
    BY <2>1, <2>2 DEF Launching, Configured, StartedClean
  <2>4. StartedClean' /\ AddressesOfProfile'
    BY <1>2, <2>1 DEF StartedClean, AddressesOfProfile
  <2> QED
    BY <1>1, <2>1, <2>3, <2>4, FilesUntouched
<1> QED
  BY <1>4, <1>5, <1>6, <1>7, <1>8, <1>9, <1>10 DEF ScaleNext

(* FilesInv is an invariant.                                               *)
LEMMA FilesInvAlways == Spec => []FilesInv
<1>1. Init => FilesInv
  BY DEF Init, ProcessInit, ScaleInit, FilesInv, StartedClean, AddressesOfProfile, VmFiles, ConfigFiles,
         Launching, Configured, InTar
<1>2. SentInv /\ FilesInv /\ [Next]_vars => FilesInv'
  <2> SUFFICES ASSUME SentInv, FilesInv, [Next]_vars, IsScale'
               PROVE  StartedClean' /\ AddressesOfProfile' /\ VmFiles' /\ ConfigFiles'
    BY DEF FilesInv
  <2>1. scenario' = scenario /\ IsScale
    BY ScenarioIsKept, ScenarioStays
  <2>2. ScalePlaces /\ StartedClean /\ AddressesOfProfile /\ VmFiles /\ ConfigFiles
    BY <2>1 DEF SentInv, FilesInv
  <2>3. CASE Configure
    <3>1. files' = files /\ app' = "configure" /\ step'.i = 1 /\ vm' = 0 /\ clean' = clean
      BY <2>2, <2>3 DEF Configure, Launch, GoTo, scaleVars, ScalePlaces, Idle, Stage
    <3>2. \A v \in ProfileVms : (Launching(v)' => Launching(v)) /\ (Configured(v)' => Configured(v))
      BY <2>1, <2>2, <3>1, VmsHavePlaces DEF Launching, Configured, Passed
    <3> QED
      BY <2>1, <2>2, <3>1, <3>2, FilesUntouched DEF StartedClean, AddressesOfProfile
  <2>4. CASE Start
    <3>1. files' = files /\ app' = "post-start" /\ step'.i = 1 /\ vm' = 0 /\ clean /\ clean' = clean
      BY <2>1, <2>2, <2>4 DEF Start, Launch, GoTo, scaleVars, ScalePlaces, Idle, Stage
    <3>2. \A v \in ProfileVms : (Launching(v)' => Launching(v)) /\ (Configured(v)' => Configured(v))
      BY <2>1, <2>2, <3>1, VmsHavePlaces DEF Launching, Configured, Passed
    <3> QED
      BY <2>1, <2>2, <3>1, <3>2, FilesUntouched DEF StartedClean, AddressesOfProfile
  <2>5. CASE ScaleNext /\ clean' = (clean \/ Succeeded)
    BY <2>1, <2>2, <2>5, StageStep
  <2>6. CASE UNCHANGED vars
    <3>1. files' = files /\ app' = app /\ step' = step /\ vm' = vm /\ clean' = clean /\ addrs' = addrs
      BY <2>6 DEF vars, processVars, scaleVars
    <3>2. \A v \in ProfileVms : (Launching(v)' => Launching(v)) /\ (Configured(v)' => Configured(v))
      BY <3>1 DEF Launching, Configured, Passed
    <3>3. StartedClean' /\ AddressesOfProfile'
      BY <2>1, <2>2, <3>1, ScenarioStays DEF StartedClean, AddressesOfProfile, WithAddresses, ThisProfile
    <3> QED
      BY <2>1, <2>2, <3>1, <3>2, <3>3, FilesUntouched
  <2> QED
    BY <2>1, <2>2, <2>3, <2>4, <2>5, <2>6, TurbinesAreOfTheOtherApp DEF Next, Stages
<1> QED
  BY <1>1, <1>2, SentInvAlways, PTL DEF Spec

(* After post-start the files of VMs with hostnames of their own are what  *)
(* they should be.                                                         *)
LEMMA RunsOfOwnVm ==
  ASSUME FilesInv, Started, NEW k \in OwnProfiles, NEW v \in Vms(k)
  PROVE  /\ v \in ProfileVms /\ v[1] = k /\ k \in DOMAIN Profiles
         /\ IsLaunchOf(Runs(v), v)
  BY DEF FilesInv, Started, VmFiles, Launching, OwnProfiles, Vms, Runs

(* Interfaces and addresses of the containers of a farm.                   *)
IsMain(c) == c.type = "main-controller"

NetsOf(p, c) == (IF IsMain(c) THEN ExtNets(p) ELSE << >>) \o <<TurbineNet(c.turbine)>>

IpsOf(p, c) == (IF IsMain(c) THEN <<ExtIp(p, c.turbine)>> ELSE << >>) \o <<PrivateIp(c.turbine, c.type)>>

(* FarmLaunch by its values.                                               *)
LEMMA FarmLaunchAt ==
  ASSUME NEW p, NEW i, NEW n \in 1..ContainerCount(p, i), NEW c, c = FarmContainers(p, i)[n]
  PROVE  /\ FarmLaunch(p, i)[n].name = ContainerName(c)
         /\ FarmLaunch(p, i)[n].volume = ConfigFile(Hostname(p, i), n)
         /\ FarmLaunch(p, i)[n].nets = NetsOf(p, c)
         /\ FarmLaunch(p, i)[n].ips = IpsOf(p, c)
<1> DEFINE gateway == IF IsMain(c) THEN Gateway(p.extNet.gateway) ELSE PrivateIp(c.turbine, "main-controller")
<1>1. FarmLaunch(p, i)[n] =
        [name |-> ContainerName(c), nets |-> NetsOf(p, c), ips |-> IpsOf(p, c), gateway |-> gateway,
         volume |-> ConfigFile(Hostname(p, i), n)]
  BY DEF FarmLaunch, NetsOf, IpsOf, IsMain
<1> HIDE DEF gateway
<1> QED
  BY <1>1

(* A farm whose external network the experiment knows has an address for   *)
(* each interface.                                                         *)
LEMMA FarmMeetsInterfaces ==
  ASSUME NEW p, NEW c, ExtNets(p) = <<p.extNet.name>>
  PROVE  /\ DOMAIN IpsOf(p, c) = DOMAIN NetsOf(p, c)
         /\ \A j \in DOMAIN IpsOf(p, c) : IpsOf(p, c)[j].net = NetsOf(p, c)[j]
<1>1. CASE IsMain(c)
  BY <1>1 DEF IpsOf, NetsOf, ExtIp, PrivateIp
<1>2. CASE ~IsMain(c)
  BY <1>2 DEF IpsOf, NetsOf, PrivateIp
<1> QED
  BY <1>1, <1>2

(* The addresses of every container are those of its interfaces, by        *)
(* position, when post-start has succeeded: for every list of networks and *)
(* every set of VLANs.                                                     *)
THEOREM InterfacesGetTheirAddresses == Spec => []AddressesMeetInterfaces
<1>1. FilesInv => AddressesMeetInterfaces
  <2> SUFFICES ASSUME FilesInv, Started, NEW k \in OwnProfiles,
                      IsFarm(Profiles[k]) => Profiles[k].extNet.name \in scenario.vlans,
                      NEW v \in Vms(k), NEW n \in DOMAIN Runs(v)
               PROVE  MeetsInterfaces(Runs(v)[n])
    BY DEF AddressesMeetInterfaces, MeetsInterfaces
  <2>1. v[1] = k /\ IsLaunchOf(Runs(v), v)
    BY RunsOfOwnVm
  <2>2. CASE ~IsFarm(Profiles[k])
    BY <2>1, <2>2 DEF IsLaunchOf
  <2>3. CASE IsFarm(Profiles[k])
    <3> DEFINE p == Profiles[k]
               i == v[2]
    <3>1. Runs(v) = FarmLaunch(p, i) /\ n \in 1..ContainerCount(p, i)
      BY <2>1, <2>3 DEF IsLaunchOf, FarmLaunch
    <3>2. ExtNets(p) = <<p.extNet.name>>
      BY <2>3 DEF ExtNets
    <3> HIDE DEF p, i
    <3> QED
      BY <3>1, <3>2, FarmLaunchAt, FarmMeetsInterfaces DEF MeetsInterfaces
  <2> QED
    BY <2>2, <2>3
<1> QED
  BY <1>1, FilesInvAlways, PTL

-----------------------------------------------------------------------------
(* Numbers of containers.  Multiplication is monotonic.                    *)
LEMMA TimesGrows ==
  ASSUME NEW m \in Nat, NEW a \in Int, NEW b \in Int, a <= b
  PROVE  m * a <= m * b
  OBVIOUS

(* What \div and % are.                                                    *)
LEMMA Division ==
  ASSUME NEW m \in Nat \ {0}, NEW a \in Nat
  PROVE  /\ a \div m \in Nat /\ a % m \in 0..(m - 1)
         /\ a = m * (a \div m) + (a % m)
  OBVIOUS

(* They are the only numbers of that kind.                                 *)
LEMMA DivisionIsUnique ==
  ASSUME NEW m \in Nat \ {0}, NEW q \in Nat, NEW r \in 0..(m - 1), NEW x \in Nat, NEW y \in 0..(m - 1),
         m * q + r = m * x + y
  PROVE  q = x /\ r = y
<1>1. q < x => m * q + m <= m * x
  <2>1. q < x => m * (q + 1) <= m * x
    BY TimesGrows
  <2> QED
    BY <2>1
<1>2. x < q => m * x + m <= m * q
  <2>1. x < q => m * (x + 1) <= m * q
    BY TimesGrows
  <2> QED
    BY <2>1
<1> QED
  BY <1>1, <1>2

(* CeilDiv rounds up.                                                      *)
LEMMA CeilIs ==
  ASSUME NEW c \in Nat, NEW m \in Nat \ {0}
  PROVE  CeilDiv(c, m) = IF c % m = 0 THEN c \div m ELSE c \div m + 1
<1> DEFINE x == c \div m
           y == c % m
<1>0. x \in Nat /\ y \in 0..(m - 1) /\ c = m * x + y
  BY Division
<1> DEFINE d == (c + m - 1) \div m
           e == (c + m - 1) % m
<1>1. c + m - 1 \in Nat
  OBVIOUS
<1>2. d \in Nat /\ e \in 0..(m - 1) /\ c + m - 1 = m * d + e
  BY <1>1, Division
<1> HIDE DEF d, e, x, y
<1>3. CASE y = 0
  <2>1. m * d + e = m * x + (m - 1)
    BY <1>0, <1>2, <1>3
  <2>2. d = x
    BY <1>0, <1>2, <2>1, DivisionIsUnique
  <2> QED
    BY <1>3, <2>2 DEF CeilDiv, d
<1>4. CASE y # 0
  <2>1. m * d + e = m * (x + 1) + (y - 1)
    BY <1>0, <1>2, <1>4
  <2>2. d = x + 1
    <3>1. x + 1 \in Nat /\ y - 1 \in 0..(m - 1)
      BY <1>0, <1>4
    <3> QED
      BY <1>2, <2>1, <3>1, DivisionIsUnique
  <2> QED
    BY <1>4, <2>2 DEF CeilDiv, d
<1> QED
  BY <1>3, <1>4

(* The VM that container a of c is in, m to a VM, is one of those there    *)
(* are; if they do not fill it, it is the last one and a is among the      *)
(* rest.                                                                   *)
LEMMA LastVm ==
  ASSUME NEW c \in Nat, NEW m \in Nat \ {0}, NEW a \in Nat, a < c, NEW i, i = a \div m + 1
  PROVE  /\ i \in 1..CeilDiv(c, m)
         /\ ~(i * m <= c) => i = CeilDiv(c, m) /\ a % m < c % m
<1> DEFINE q == a \div m
           r == a % m
           x == c \div m
           y == c % m
<1>1. q \in Nat /\ r \in 0..(m - 1) /\ a = m * q + r
  BY Division
<1>2. x \in Nat /\ y \in 0..(m - 1) /\ c = m * x + y
  BY Division
<1>3. CeilDiv(c, m) = IF y = 0 THEN x ELSE x + 1
  BY CeilIs
<1> HIDE DEF q, r, x, y
<1>4. q <= x
  <2>1. q > x => m * (x + 1) <= m * q
    BY <1>1, <1>2, TimesGrows
  <2> QED
    BY <1>1, <1>2, <2>1
<1>5. q = x => r < y
  BY <1>1, <1>2
<1>6. i = q + 1 /\ i * m = m * q + m
  BY <1>1 DEF q
<1>7. q < x => i * m <= c
  <2>1. q < x => m * (q + 1) <= m * x
    BY <1>1, <1>2, TimesGrows
  <2> QED
    BY <1>1, <1>2, <1>6, <2>1
<1> QED
  BY <1>1, <1>2, <1>3, <1>4, <1>5, <1>6, <1>7 DEF r, y

(* The number of a component among all of the farm's.                      *)
FarmNumber(t, j) == 6 * (t - 1) + (j - 1)

(* The number of the container n of VM i among them.                       *)
VmNumber(p, i, n) == (i - 1) * p.perNode + n - 1

(* Every component of every turbine is in a VM the profile asks for:       *)
(* FarmCount counts it in.                                                 *)
LEMMA TurbineHasPlace ==
  ASSUME NEW p, IsProfile(p), IsFarm(p), Nests(p), NEW t \in 1..p.count, NEW j \in 1..6
  PROVE  \E i \in 1..NodeCount(p) : \E n \in 1..ContainerCount(p, i) :
            n <= p.perNode /\ VmNumber(p, i, n) = FarmNumber(t, j)
<1> DEFINE m == p.perNode
           c == 6 * p.count
           a == FarmNumber(t, j)
           i == a \div m + 1
           n == (a % m) + 1
<1>1. m \in Nat \ {0} /\ c \in Nat /\ a \in Nat /\ a < c /\ Containers(p) = c /\ p.count \in Nat
  BY SMTT(20) DEF IsProfile, Nests, Containers, FarmNumber
<1>2. NodeCount(p) = CeilDiv(c, m) /\ ContainerCount(p, i) = FarmCount(p, i)
  BY <1>1 DEF NodeCount, ContainerCount
<1>8. FarmCount(p, i) = IF i * m <= c THEN m ELSE IF i = CeilDiv(c, m) THEN c % m ELSE 0
  BY <1>1 DEF FarmCount
<1> HIDE DEF c, a, m
<1>3. a \div m \in Nat /\ a % m \in 0..(m - 1) /\ a = m * (a \div m) + (a % m)
  BY <1>1, Division
<1>4. i \in 1..CeilDiv(c, m) /\ (~(i * m <= c) => i = CeilDiv(c, m) /\ a % m < c % m)
  BY <1>1, LastVm
<1>5. c % m \in Nat
  BY <1>1, Division
<1>6. n \in 1..FarmCount(p, i)
  <2> HIDE DEF i
  <2>1. CASE i * m <= c
    BY <1>1, <1>3, <1>8, <2>1
  <2>2. CASE ~(i * m <= c)
    BY <1>3, <1>4, <1>5, <1>8, <2>2
  <2> QED
    BY <2>1, <2>2
<1>7. VmNumber(p, i, n) = a /\ n <= m
  BY <1>1, <1>3, SMTT(20) DEF VmNumber, m
<1> QED
  BY <1>2, <1>4, <1>6, <1>7 DEF a, m

(* Which component a container is follows from its number, and its number  *)
(* from that.                                                              *)
LEMMA ContainerOfPlace ==
  ASSUME NEW p, IsProfile(p), IsFarm(p), Nests(p), NEW i \in Nat \ {0}, NEW n \in 1..ContainerCount(p, i),
         NEW t \in Nat \ {0}, NEW j \in 1..6, NEW c, c = [turbine |-> t, type |-> Components[j]]
  PROVE  FarmContainers(p, i)[n] = c
           <=> VmNumber(p, i, n) = FarmNumber(t, j)
<1> DEFINE a == VmNumber(p, i, n)
<1>1. p.perNode \in Nat /\ (i - 1) * p.perNode \in Nat
  BY DEF IsProfile
<1>2. ContainerCount(p, i) \in Nat
  <2>1. Containers(p) % p.perNode \in Nat
    BY <1>1, Division DEF IsProfile, Nests, Containers
  <2> QED
    BY <1>1, <2>1 DEF ContainerCount, FarmCount
<1>3. a \in Nat
  BY <1>1, <1>2 DEF VmNumber
<1>4. FarmContainers(p, i)[n] = [turbine |-> (a \div 6) + 1, type |-> Components[(a % 6) + 1]]
  BY DEF FarmContainers, VmNumber
<1> HIDE DEF a
<1>5. a \div 6 \in Nat /\ a % 6 \in 0..5 /\ a = 6 * (a \div 6) + (a % 6)
  BY <1>3
<1>6. \A x, y \in 1..6 : Components[x] = Components[y] => x = y
  BY DEF Components
<1>7. FarmContainers(p, i)[n] = c <=> (a \div 6) + 1 = t /\ Components[(a % 6) + 1] = Components[j]
  BY <1>4
<1>8. Components[(a % 6) + 1] = Components[j] <=> (a % 6) + 1 = j
  BY <1>5, <1>6
<1>9. a = 6 * (t - 1) + (j - 1) <=> (a \div 6) + 1 = t /\ (a % 6) + 1 = j
  BY <1>3
<1> QED
  BY <1>7, <1>8, <1>9 DEF FarmNumber, a

(* Two parts of TurbinesAreWhole.                                          *)
HasName(v, n, c) == n \in DOMAIN Runs(v) /\ Runs(v)[n].name = ContainerName(c)

IsConfigured(v, n, p, c) ==
  LET volume == Runs(v)[n].volume
  IN  volume \in DOMAIN files[Tarball] /\ files[Tarball][volume] = ContainerConfig(p, c)

(* A container has the name of a component only at the number of that      *)
(* component, and mounts its configuration.                                *)
LEMMA PlacesOfName ==
  ASSUME ScalePlaces, FilesInv, Started, NEW k \in OwnProfiles, IsFarm(Profiles[k]), Nests(Profiles[k]), NEW v \in Vms(k),
         NEW t \in Nat \ {0}, NEW j \in 1..6, NEW n, NEW c, c = [turbine |-> t, type |-> Components[j]]
  PROVE  /\ v = <<k, v[2]>> /\ v[2] \in Nat \ {0}
         /\ HasName(v, n, c) <=>
              n \in 1..ContainerCount(Profiles[k], v[2]) /\ VmNumber(Profiles[k], v[2], n) = FarmNumber(t, j)
         /\ HasName(v, n, c) => IsConfigured(v, n, Profiles[k], c)
<1> DEFINE p == Profiles[k]
           i == v[2]
           own == FarmContainers(p, i)[n]
<1>1. v \in ProfileVms /\ v[1] = k /\ k \in DOMAIN Profiles /\ Runs(v) = FarmLaunch(p, i) /\ IsOwn(k)
  BY RunsOfOwnVm DEF IsLaunchOf, OwnProfiles
<1>2. IsScale /\ clean /\ ConfigFiles /\ scenario \in Scenarios
  BY DEF FilesInv, Started, StartedClean, ScalePlaces
<1>3. v = <<k, i>> /\ i \in Nat \ {0} /\ IsProfile(p) /\ IsFarm(p) /\ Nests(p)
  BY <1>1, <1>2, ProfilesAreProfiles, CountIsNatural DEF ProfileVms
<1>4. DOMAIN Runs(v) = 1..ContainerCount(p, i)
  BY <1>1 DEF FarmLaunch
<1> SUFFICES ASSUME n \in 1..ContainerCount(p, i)
             PROVE  /\ Runs(v)[n].name = ContainerName(c) <=> VmNumber(p, i, n) = FarmNumber(t, j)
                    /\ Runs(v)[n].name = ContainerName(c) =>
                         /\ Runs(v)[n].volume \in DOMAIN files[Tarball]
                         /\ files[Tarball][Runs(v)[n].volume] = ContainerConfig(p, c)
  BY <1>3, <1>4 DEF HasName, IsConfigured
<1>5. Runs(v)[n].name = ContainerName(own) /\ Runs(v)[n].volume = ConfigFile(Host(v), n)
  BY <1>1, FarmLaunchAt DEF Host
<1>6. own = [turbine |-> own.turbine, type |-> own.type]
  BY DEF FarmContainers
<1>7. own = c <=> VmNumber(p, i, n) = FarmNumber(t, j)
  <2> HIDE DEF p, i
  <2> QED
    BY <1>3, ContainerOfPlace
<1>8. files[Tarball][ConfigFile(Host(v), n)] = ContainerConfig(p, own) /\ ConfigFile(Host(v), n) \in DOMAIN files[Tarball]
  BY <1>1, <1>2 DEF ConfigFiles, Configured, InTar, Configuration
<1> HIDE DEF own
<1>9. ContainerName(own) = ContainerName(c) <=> own = c
  BY <1>6 DEF ContainerName
<1> QED
  BY <1>5, <1>7, <1>8, <1>9

(* However the containers are spread over VMs, every component of every    *)
(* turbine runs once, and mounts the configuration that another stage made *)
(* for it under the same number.                                           *)
THEOREM FarmsAreWhole == Spec => []TurbinesAreWhole
<1>1. SentInv /\ FilesInv => TurbinesAreWhole
  <2> SUFFICES ASSUME SentInv, FilesInv, Started, NEW k \in OwnProfiles, IsFarm(Profiles[k]), Nests(Profiles[k]),
                      NEW t \in 1..Profiles[k].count, NEW j \in DOMAIN Components
               PROVE  LET c == [turbine |-> t, type |-> Components[j]]
                          at == {a \in Vms(k) \X (1..Profiles[k].perNode) :
                                   a[2] \in DOMAIN Runs(a[1]) /\ Runs(a[1])[a[2]].name = ContainerName(c)}
                      IN  /\ Cardinality(at) = 1
                          /\ \A a \in at :
                               LET volume == Runs(a[1])[a[2]].volume
                               IN  /\ volume \in DOMAIN files[Tarball]
                                   /\ files[Tarball][volume] = ContainerConfig(Profiles[k], c)
    BY DEF TurbinesAreWhole
  <2> DEFINE p == Profiles[k]
             m == p.perNode
             c == [turbine |-> t, type |-> Components[j]]
             at == {a \in Vms(k) \X (1..m) : a[2] \in DOMAIN Runs(a[1]) /\ Runs(a[1])[a[2]].name = ContainerName(c)}
  <2>1. IsProfile(p) /\ m \in Nat \ {0} /\ k \in DOMAIN Profiles /\ t \in Nat \ {0} /\ j \in 1..6
    <3>1. IsProfile(p) /\ k \in DOMAIN Profiles
      BY ProfilesAreProfiles DEF Started, SentInv, ScalePlaces, OwnProfiles
    <3> QED
      BY <3>1 DEF IsProfile, Nests, Components
  <2>2. \A v \in Vms(k) : \A n :
          /\ v = <<k, v[2]>> /\ v[2] \in Nat \ {0}
          /\ HasName(v, n, c) <=> n \in 1..ContainerCount(p, v[2]) /\ VmNumber(p, v[2], n) = FarmNumber(t, j)
          /\ HasName(v, n, c) => IsConfigured(v, n, p, c)
    <3>1. c = [turbine |-> t, type |-> Components[j]] /\ ScalePlaces
      BY DEF SentInv, Started
    <3> HIDE DEF c
    <3> QED
      BY <2>1, <3>1, PlacesOfName
  <2> HIDE DEF c
  <2>3. PICK i \in 1..NodeCount(p), n \in Nat : n \in 1..ContainerCount(p, i) /\ n <= m /\ VmNumber(p, i, n) = FarmNumber(t, j)
    BY <2>1, TurbineHasPlace
  <2>4. <<k, i>> \in Vms(k) /\ n \in 1..m
    BY <2>1, <2>3 DEF Vms, ProfileVms
  <2>5. <<<<k, i>>, n>> \in at
    BY <2>2, <2>3, <2>4 DEF HasName
  <2>6. ASSUME NEW a \in at
        PROVE  a = <<<<k, i>>, n>>
    <3> DEFINE w == a[1][2]
               x == a[2]
    <3>1. a[1] = <<k, w>> /\ w \in Nat \ {0} /\ x \in 1..m /\ VmNumber(p, w, x) = FarmNumber(t, j) /\ a = <<a[1], x>>
      BY <2>2 DEF HasName
    <3> HIDE DEF w, x
    <3>2. m * (w - 1) + (x - 1) = m * (i - 1) + (n - 1)
      BY <2>1, <2>2, <2>3, <2>4, <3>1 DEF VmNumber
    <3>3. w - 1 = i - 1 /\ x - 1 = n - 1
      <4>1. w - 1 \in Nat /\ x - 1 \in 0..(m - 1) /\ i - 1 \in Nat /\ n - 1 \in 0..(m - 1)
        BY <2>1, <2>2, <2>4, <3>1
      <4> HIDE DEF m
      <4> QED
        BY <2>1, <3>2, <4>1, DivisionIsUnique, SMTT(20)
    <3> QED
      BY <2>2, <2>4, <3>1, <3>3
  <2>7. Cardinality(at) = 1
    <3>1. at = {<<<<k, i>>, n>>}
      BY <2>5, <2>6
    <3> QED
      BY <3>1, FS_Singleton
  <2> QED
    BY <2>2, <2>7 DEF c, HasName, IsConfigured
<1> QED
  BY <1>1, SentInvAlways, FilesInvAlways, PTL

-----------------------------------------------------------------------------
(* Sums.                                                                   *)
AnyOf(s) == CHOOSE x \in s : TRUE

(* The function by which the sum over a set is defined.                    *)
Summing(g, val, S) ==
  g = [s \in SUBSET S |-> IF s = {} THEN 0 ELSE val[AnyOf(s)] + g[s \ {AnyOf(s)}]]

(* The sum over a finite set of numbers that are m, but for one.           *)
LEMMA SumOfAllButOne ==
  ASSUME NEW S, IsFiniteSet(S), NEW last, NEW m \in Nat, NEW r \in Nat,
         NEW val, \A x \in S : val[x] = IF x = last THEN r ELSE m
  PROVE  /\ \E g : Summing(g, val, S)
         /\ \A g : Summing(g, val, S) =>
              g[S] = IF last \in S THEN m * (Cardinality(S) - 1) + r ELSE m * Cardinality(S)
<1> DEFINE total(s) == IF last \in s THEN m * (Cardinality(s) - 1) + r ELSE m * Cardinality(s)
<1>1. \A s \in SUBSET S : IsFiniteSet(s) /\ Cardinality(s) \in Nat
  BY FS_Subset, FS_CardinalityType
<1>2. ASSUME NEW s \in SUBSET S, s # {}
      PROVE  /\ AnyOf(s) \in s
             /\ Cardinality(s \ {AnyOf(s)}) = Cardinality(s) - 1
             /\ Cardinality(s) \in Nat \ {0}
             /\ total(s) = val[AnyOf(s)] + total(s \ {AnyOf(s)})
  <2> DEFINE c == AnyOf(s)
             k == Cardinality(s)
  <2>1. c \in s
    BY <1>2 DEF AnyOf
  <2>2. Cardinality(s \ {c}) = k - 1 /\ k \in Nat /\ k # 0
    BY <1>1, <1>2, <2>1, FS_RemoveElement, FS_EmptySet
  <2> HIDE DEF c, k
  <2>3. m * (k - 1) = m * k - m /\ m * ((k - 1) - 1) = m * (k - 1) - m
    BY <2>2
  <2>4. total(s) = val[c] + total(s \ {c})
    <3>1. CASE c = last
      BY <2>1, <2>2, <2>3, <3>1 DEF k
    <3>2. CASE c # last /\ last \in s
      BY <2>1, <2>2, <2>3, <3>2 DEF k
    <3>3. CASE c # last /\ last \notin s
      BY <2>1, <2>2, <2>3, <3>3 DEF k
    <3> QED
      BY <3>1, <3>2, <3>3
  <2> QED
    BY <2>1, <2>2, <2>4 DEF c, k
<1>3. total({}) = 0
  BY FS_EmptySet
<1> HIDE DEF total
<1>4. \E g : Summing(g, val, S)
  <2> DEFINE g == [s \in SUBSET S |-> total(s)]
  <2>1. \A s \in SUBSET S : g[s] = IF s = {} THEN 0 ELSE val[AnyOf(s)] + g[s \ {AnyOf(s)}]
    BY <1>2, <1>3
  <2>2. g = [s \in SUBSET S |-> g[s]]
    OBVIOUS
  <2> HIDE DEF g
  <2>3. Summing(g, val, S)
    BY <2>1, <2>2 DEF Summing
  <2> QED
    BY <2>3
<1>5. ASSUME NEW g, Summing(g, val, S)
      PROVE  g[S] = total(S)
  <2> DEFINE ok == {n \in Nat : \A s \in SUBSET S : Cardinality(s) = n => g[s] = total(s)}
  <2>0. \A s \in SUBSET S : g[s] = IF s = {} THEN 0 ELSE val[AnyOf(s)] + g[s \ {AnyOf(s)}]
    BY <1>5 DEF Summing
  <2>1. 0 \in ok
    BY <1>1, <1>3, <2>0, FS_EmptySet
  <2>2. \A n \in Nat : n \in ok => n + 1 \in ok
    <3> SUFFICES ASSUME NEW n \in Nat, n \in ok, NEW s \in SUBSET S, Cardinality(s) = n + 1
                 PROVE  g[s] = total(s)
      OBVIOUS
    <3>1. s # {}
      BY FS_EmptySet
    <3>2. Cardinality(s \ {AnyOf(s)}) = n /\ total(s) = val[AnyOf(s)] + total(s \ {AnyOf(s)})
      BY <1>2, <3>1
    <3> QED
      BY <2>0, <3>1, <3>2
  <2> HIDE DEF ok
  <2>3. Nat \subseteq ok
    BY <2>1, <2>2, NaturalInduction
  <2> QED
    BY <1>1, <2>3 DEF ok
<1> QED
  BY <1>4, <1>5 DEF total

(* Every VM of a profile is full but for the last, which has the rest: the *)
(* builtin plugin and the farm, which count differently, agree.            *)
LEMMA CountOfVm ==
  ASSUME NEW p, IsProfile(p), Nests(p)
  PROVE  /\ NodeCount(p) \in Nat \ {0} /\ Containers(p) \in Nat /\ p.perNode \in Nat \ {0}
         /\ Containers(p) - (NodeCount(p) - 1) * p.perNode \in 1..p.perNode
         /\ \A i \in 1..NodeCount(p) :
              ContainerCount(p, i) = IF i = NodeCount(p) THEN Containers(p) - (i - 1) * p.perNode ELSE p.perNode
<1> DEFINE m == p.perNode
           c == Containers(p)
           x == c \div m
           y == c % m
           k == NodeCount(p)
<1>1. m \in Nat \ {0} /\ c \in Nat \ {0} /\ (~IsFarm(p) => p.containers = c)
  BY DEF IsProfile, Nests, Containers
<1>2. x \in Nat /\ y \in 0..(m - 1) /\ c = m * x + y
  BY <1>1, Division
<1>3. k = IF y = 0 THEN x ELSE x + 1
  BY <1>1, CeilIs DEF NodeCount
<1>4. k = CeilDiv(c, m)
  BY DEF NodeCount
<1>5. \A i :
        /\ IsFarm(p) => ContainerCount(p, i) = IF i * m <= c THEN m ELSE IF i = k THEN y ELSE 0
        /\ ~IsFarm(p) => ContainerCount(p, i) = IF i = k THEN c - (i - 1) * m ELSE m
  BY <1>1, <1>4 DEF ContainerCount, FarmCount, BuiltinCount
<1> HIDE DEF m, c, x, y, k
<1>6. x = 0 => m * x = 0
  BY <1>1
<1>7. k \in Nat \ {0}
  BY <1>1, <1>2, <1>3, <1>6
<1>8. (k - 1) * m = IF y = 0 THEN m * x - m ELSE m * x
  BY <1>1, <1>2, <1>3
<1>9. c - (k - 1) * m \in 1..m
  BY <1>1, <1>2, <1>8
<1>10. k * m <= c => c - (k - 1) * m = m
  BY <1>1, <1>7, <1>9
<1>11. ~(k * m <= c) => c - (k - 1) * m = y
  BY <1>1, <1>2, <1>3, <1>8
<1>12. ASSUME NEW i \in 1..k
       PROVE  ContainerCount(p, i) = IF i = k THEN c - (i - 1) * m ELSE m
  <2>0. IsFarm(p) => ContainerCount(p, i) = IF i * m <= c THEN m ELSE IF i = k THEN y ELSE 0
    BY <1>5, Zenon
  <2>1. CASE IsFarm(p) /\ i = k
    <3>1. ContainerCount(p, k) = IF k * m <= c THEN m ELSE y
      BY <2>0, <2>1, Zenon
    <3>2. ContainerCount(p, k) = c - (k - 1) * m
      BY <1>10, <1>11, <3>1, Zenon
    <3> QED
      BY <2>1, <3>2, Zenon
  <2>2. CASE IsFarm(p) /\ i # k
    <3>1. i <= k - 1
      BY <1>7, <2>2
    <3>2. m * i <= m * (k - 1)
      BY <1>1, <1>7, <3>1, TimesGrows
    <3>3. m * i = i * m /\ m * (k - 1) = (k - 1) * m
      BY <1>1, <1>7
    <3>4. i * m <= c
      BY <1>1, <1>7, <1>9, <3>2, <3>3
    <3> QED
      BY <2>0, <2>2, <3>4, Zenon
  <2>3. CASE ~IsFarm(p)
    BY <1>5, <2>3, Zenon
  <2> QED
    BY <2>1, <2>2, <2>3
<1>13. m \in Nat \ {0} /\ c \in Nat /\ k \in Nat \ {0} /\ c - (k - 1) * m \in 1..m
  BY <1>1, <1>7, <1>9
<1> QED
  BY <1>12, <1>13 DEF m, c, k

(* A profile has as many VMs as it asks for.                               *)
LEMMA VmsOfProfile ==
  ASSUME NEW k \in DOMAIN Profiles, NodeCount(Profiles[k]) \in Nat \ {0}
  PROVE  /\ \A v : v \in Vms(k) <=> \E i \in 1..NodeCount(Profiles[k]) : v = <<k, i>>
         /\ IsFiniteSet(Vms(k)) /\ Cardinality(Vms(k)) = NodeCount(Profiles[k])
<1> DEFINE n == NodeCount(Profiles[k])
           f == [i \in 1..n |-> <<k, i>>]
<1>1. \A v : v \in Vms(k) <=> \E i \in 1..n : v = <<k, i>>
  BY DEF Vms, ProfileVms
<1>2. f \in Bijection(1..n, Vms(k))
  <2>1. f \in [1..n -> Vms(k)] /\ (\A i, j \in 1..n : f[i] = f[j] => i = j) /\ (\A v \in Vms(k) : \E i \in 1..n : f[i] = v)
    BY <1>1
  <2> HIDE DEF f, n
  <2> QED
    BY <2>1 DEF Bijection, Injection, Surjection, IsInjective
<1>3. ExistsBijection(1..n, Vms(k))
  BY <1>2 DEF ExistsBijection
<1>4. IsFiniteSet(Vms(k)) /\ Cardinality(Vms(k)) = n
  <2> HIDE DEF n
  <2>1. n \in Nat
    BY DEF n
  <2> QED
    BY <1>3, <2>1, FS_NatBijection, FS_CountingElements
<1> QED
  BY <1>1, <1>4

(* The containers of a profile add up to what it asks for, no VM is empty  *)
(* and none has too many.                                                  *)
THEOREM FarmsAddUp == Spec => []ContainersAddUp
<1>1. SentInv /\ FilesInv => ContainersAddUp
  <2> SUFFICES ASSUME SentInv, FilesInv, Started, NEW k \in OwnProfiles, Nests(Profiles[k])
               PROVE  /\ MapThenSumSet(LAMBDA v : Len(Runs(v)), Vms(k)) = Containers(Profiles[k])
                      /\ \A v \in Vms(k) : Len(Runs(v)) \in 1..Profiles[k].perNode
    BY DEF ContainersAddUp
  <2> DEFINE p == Profiles[k]
             m == p.perNode
             n == NodeCount(p)
             last == <<k, n>>
             r == Containers(p) - (n - 1) * m
             val == [v \in Vms(k) |-> Len(Runs(v))]
  <2>1. IsProfile(p) /\ k \in DOMAIN Profiles /\ Nests(p) /\ n \in Nat
    BY ProfilesAreProfiles, CountIsNatural DEF Started, SentInv, ScalePlaces, OwnProfiles
  <2>2. Containers(p) \in Nat /\ m \in Nat \ {0}
    BY <2>1 DEF IsProfile, Nests, Containers
  <2>3. n \in Nat \ {0}
    BY <2>1, CountOfVm
  <2>4. r \in 1..m /\ \A i \in 1..n : ContainerCount(p, i) = IF i = n THEN r ELSE m
    BY <2>1, <2>3, CountOfVm
  <2>5. /\ \A v : v \in Vms(k) <=> \E i \in 1..n : v = <<k, i>>
        /\ IsFiniteSet(Vms(k)) /\ Cardinality(Vms(k)) = n
    BY <2>1, <2>3, VmsOfProfile
  <2> HIDE DEF r
  <2>6. ASSUME NEW v \in Vms(k)
        PROVE  Len(Runs(v)) = IF v = last THEN r ELSE m
    <3>1. PICK i \in 1..n : v = <<k, i>>
      BY <2>5
    <3>2. Runs(v) = [x \in 1..ContainerCount(p, i) |-> Runs(v)[x]]
      BY <3>1, RunsOfOwnVm DEF IsLaunchOf
    <3>3. ContainerCount(p, i) = IF i = n THEN r ELSE m
      BY <2>4
    <3>4. ContainerCount(p, i) \in Nat
      BY <2>2, <2>4, <3>3
    <3>5. Len(Runs(v)) = ContainerCount(p, i)
      BY <3>2, <3>4, FunctionIsSequence
    <3> QED
      BY <3>1, <3>3, <3>5
  <2> HIDE DEF p, m, n, val
  <2>7. \A v \in Vms(k) : Len(Runs(v)) \in 1..m
    BY <2>2, <2>4, <2>6
  <2>8. MapThenSumSet(LAMBDA v : Len(Runs(v)), Vms(k)) = Containers(p)
    <3> DEFINE g == CHOOSE g : Summing(g, val, Vms(k))
    <3>1. \A x \in Vms(k) : val[x] = IF x = last THEN r ELSE m
      BY <2>6 DEF val
    <3>2. last \in Vms(k)
      BY <2>3, <2>5
    <3>3. (\E f : Summing(f, val, Vms(k))) /\ \A f : Summing(f, val, Vms(k)) => f[Vms(k)] = m * (n - 1) + r
      <4> DEFINE S == Vms(k)
      <4>1. IsFiniteSet(S) /\ Cardinality(S) = n /\ last \in S /\ m \in Nat /\ r \in Nat
        BY <2>2, <2>4, <2>5, <3>2
      <4>2. \A x \in S : val[x] = IF x = last THEN r ELSE m
        BY <3>1
      <4> HIDE DEF last, S
      <4>3. /\ \E f : Summing(f, val, S)
            /\ \A f : Summing(f, val, S) =>
                 f[S] = IF last \in S THEN m * (Cardinality(S) - 1) + r ELSE m * Cardinality(S)
        BY <4>1, <4>2, SumOfAllButOne
      <4> QED
        BY <4>1, <4>3 DEF S
    <3>4. g[Vms(k)] = m * (n - 1) + r
      BY <3>3
    <3>5. m * (n - 1) + r = Containers(p)
      BY <2>2, <2>3 DEF r
    <3>6. MapThenSumSet(LAMBDA v : Len(Runs(v)), Vms(k)) = g[Vms(k)]
      BY DEF MapThenSumSet, MapThenFoldSet, Summing, AnyOf, val
    <3> QED
      BY <3>4, <3>5, <3>6
  <2> QED
    BY <2>7, <2>8 DEF p, m
<1> QED
  BY <1>1, SentInvAlways, FilesInvAlways, PTL

-----------------------------------------------------------------------------
(* How many containers every VM of a profile but the last has.             *)
Each(p) == IF Nests(p) THEN p.perNode ELSE 0

(* The number before that of a VM's first container in a network.          *)
FirstNumber(p, i, net) == net.network + (i - 1) * Each(p)

KnownNets(k) == WithAddresses(Profiles[k].networks)

(* The addresses carried from VM to VM are those the VM starts from.       *)
AddressesCounted ==
  app = "post-start" /\ vm # 0 /\ ~IsFarm(ThisProfile) =>
    \A j \in DOMAIN KnownNets(step.i) :
      /\ KnownNets(step.i)[j].network \in Nat
      /\ vm <= NodeCount(ThisProfile) => addrs[j].n = FirstNumber(ThisProfile, vm, KnownNets(step.i)[j])

(* The addresses in a file of builtin containers.                          *)
IsNumbered(runs, v) ==
  \A n \in 1..ContainerCount(Profiles[v[1]], v[2]) :
    /\ DOMAIN runs[n].ips = DOMAIN KnownNets(v[1])
    /\ \A j \in DOMAIN KnownNets(v[1]) :
         /\ KnownNets(v[1])[j].network \in Nat
         /\ runs[n].ips[j].net = KnownNets(v[1])[j].name
         /\ runs[n].ips[j].n = FirstNumber(Profiles[v[1]], v[2], KnownNets(v[1])[j]) + n

FilesNumbered ==
  \A v \in ProfileVms :
    LET path == MinimegaFile(Host(v))
    IN  IsOwn(v[1]) /\ ~IsFarm(Profiles[v[1]]) /\ path \in DOMAIN files => IsNumbered(files[path], v)

(* Only what passed the plugins' validation is configured and started.     *)
Validated(k) == clean \/ (app = "configure" /\ (k < step.i \/ (k = step.i /\ vm # 0)))

ProfilesValidated == \A k \in DOMAIN Profiles : Validated(k) => ~ConfigInvalid(Profiles[k])

(* The inductive invariant under which addresses are distinct.             *)
AddressInv == IsScale => AddressesCounted /\ FilesNumbered /\ ProfilesValidated

-----------------------------------------------------------------------------
(* The function by which Known folds over the numbers of the networks.     *)
Keeping(g, nets, vlans, n) ==
  g = [s \in SUBSET (1..n) |->
        IF s = {} THEN << >>
        ELSE Keep(g[s \ {Max(s)}], nets[Max(s)], vlans)]

(* There is one for every number of networks.                              *)
LEMMA KeepingExists ==
  ASSUME NEW nets, NEW vlans
  PROVE  \A n \in Nat : \E g : Keeping(g, nets, vlans, n)
<1> DEFINE S == {n \in Nat : \E g : Keeping(g, nets, vlans, n)}
<1>1. 0 \in S
  <2> DEFINE g == [s \in SUBSET (1..0) |-> << >>]
  <2>1. \A s \in SUBSET (1..0) : s = {}
    OBVIOUS
  <2>2. Keeping(g, nets, vlans, 0)
    BY <2>1 DEF Keeping
  <2> QED
    BY <2>2
<1>2. \A n \in Nat : n \in S => n + 1 \in S
  <2> SUFFICES ASSUME NEW n \in Nat, NEW f, Keeping(f, nets, vlans, n)
               PROVE  \E g : Keeping(g, nets, vlans, n + 1)
    OBVIOUS
  <2> DEFINE g == [s \in SUBSET (1..(n + 1)) |->
                    IF n + 1 \in s THEN Keep(f[s \ {n + 1}], nets[n + 1], vlans) ELSE f[s]]
  <2>1. \A s \in SUBSET (1..(n + 1)) : s \ {n + 1} \in SUBSET (1..n) /\ (n + 1 \notin s => s \in SUBSET (1..n))
    OBVIOUS
  <2>2. ASSUME NEW s \in SUBSET (1..(n + 1))
        PROVE  g[s] = IF s = {} THEN << >>
                      ELSE Keep(g[s \ {Max(s)}], nets[Max(s)], vlans)
    <3>1. CASE n + 1 \in s
      <4>1. Max(s) = n + 1 /\ s # {}
        BY <3>1, MaxIsLast
      <4>2. g[s \ {n + 1}] = f[s \ {n + 1}]
        OBVIOUS
      <4> QED
        BY <3>1, <4>1, <4>2
    <3>2. CASE n + 1 \notin s
      <4>1. s \in SUBSET (1..n) /\ g[s] = f[s]
        BY <2>1, <3>2
      <4>2. g[s \ {Max(s)}] = f[s \ {Max(s)}]
        BY <3>2
      <4> HIDE DEF g
      <4> QED
        BY <4>1, <4>2 DEF Keeping
    <3> QED
      BY <3>1, <3>2
  <2>3. g = [s \in SUBSET (1..(n + 1)) |-> g[s]]
    OBVIOUS
  <2>4. Keeping(g, nets, vlans, n + 1)
    <3> HIDE DEF g
    <3> QED
      BY <2>2, <2>3 DEF Keeping
  <2> QED
    BY <2>4
<1>3. Nat \subseteq S
  <2> HIDE DEF S
  <2> QED
    BY <1>1, <1>2, NaturalInduction
<1> QED
  BY <1>3

(* Known is its last value.                                                *)
LEMMA KnownIsKeeping ==
  ASSUME NEW T, NEW nets \in Seq(T), NEW vlans
  PROVE  \E g : /\ Keeping(g, nets, vlans, Len(nets))
                /\ Known(nets, vlans) = g[1..Len(nets)]
<1> DEFINE n == Len(nets)
           g == CHOOSE g : Keeping(g, nets, vlans, n)
<1>1. DOMAIN nets = 1..n /\ n \in Nat
  OBVIOUS
<1>2. Keeping(g, nets, vlans, n)
  BY <1>1, KeepingExists, Zenon
<1>3. Known(nets, vlans) = g[1..n]
  BY <1>1 DEF Known, FoldLeft, MapThenFoldSet, Keeping
<1> QED
  BY <1>2, <1>3

(* Known keeps or leaves one network after the other.                      *)
LEMMA KeepingSteps ==
  ASSUME NEW T, NEW nets \in Seq(T), NEW vlans
  PROVE  \E f : /\ f[0] = << >>
                /\ \A k \in 1..Len(nets) : f[k] = Keep(f[k - 1], nets[k], vlans)
                /\ Known(nets, vlans) = f[Len(nets)]
<1> DEFINE n == Len(nets)
<1>1. n \in Nat
  OBVIOUS
<1>2. PICK g : /\ Keeping(g, nets, vlans, n)
               /\ Known(nets, vlans) = g[1..n]
  BY KnownIsKeeping
<1> DEFINE f == [k \in 0..n |-> g[1..k]]
<1>3. f[0] = << >>
  BY <1>1, <1>2 DEF Keeping
<1>4. ASSUME NEW k \in 1..n
      PROVE  f[k] = Keep(f[k - 1], nets[k], vlans)
  <2>1. k - 1 \in Nat /\ (k - 1) + 1 = k /\ k \in 1..k /\ 1..k \in SUBSET (1..n)
    BY <1>1
  <2>2. Max(1..k) = k
    BY <2>1, MaxIsLast
  <2>3. (1..k) \ {k} = 1..(k - 1)
    BY <2>1
  <2>4. g[1..k] = Keep(g[1..(k - 1)], nets[k], vlans)
    BY <1>2, <2>1, <2>2, <2>3 DEF Keeping
  <2> QED
    BY <1>1, <2>1, <2>4
<1>5. Known(nets, vlans) = f[n]
  BY <1>1, <1>2
<1> QED
  <2> HIDE DEF f
  <2> QED
    BY <1>3, <1>4, <1>5


(* Networks with names of their own have them when some are left out.      *)
LEMMA KnownAreDistinct ==
  ASSUME NEW T, NEW nets \in Seq(T), NEW vlans,
         \A i, j \in DOMAIN nets : nets[i].name = nets[j].name => i = j
  PROVE  /\ \A a \in DOMAIN Known(nets, vlans) :
              \E i \in DOMAIN nets : Known(nets, vlans)[a] = nets[i] /\ nets[i].name \in vlans
         /\ \A a, b \in DOMAIN Known(nets, vlans) : Known(nets, vlans)[a].name = Known(nets, vlans)[b].name => a = b
<1> DEFINE n == Len(nets)
           From(s, k) == \A a \in DOMAIN s : \E i \in 1..k : s[a] = nets[i] /\ nets[i].name \in vlans
           Apart(s) == \A a, b \in DOMAIN s : s[a].name = s[b].name => a = b
<1>1. n \in Nat /\ DOMAIN nets = 1..n
  OBVIOUS
<1>2. PICK f : /\ f[0] = << >>
               /\ \A k \in 1..n : f[k] = Keep(f[k - 1], nets[k], vlans)
               /\ Known(nets, vlans) = f[n]
  BY KeepingSteps
<1> DEFINE S == {k \in Nat : k <= n => f[k] \in Seq(T) /\ From(f[k], k) /\ Apart(f[k])}
<1>3. 0 \in S
  <2>1. f[0] \in Seq(T) /\ DOMAIN f[0] = {}
    BY <1>2
  <2>2. From(f[0], 0) /\ Apart(f[0])
    BY <2>1
  <2> HIDE DEF From, Apart
  <2> QED
    BY <2>1, <2>2
<1>4. ASSUME NEW k \in Nat, k \in S
      PROVE  k + 1 \in S
  <2> SUFFICES ASSUME k + 1 <= n
               PROVE  f[k + 1] \in Seq(T) /\ From(f[k + 1], k + 1) /\ Apart(f[k + 1])
    OBVIOUS
  <2> DEFINE s == f[k]
             net == nets[k + 1]
  <2>1. s \in Seq(T) /\ From(s, k) /\ Apart(s)
    BY <1>1, <1>4
  <2>2. f[k + 1] = IF net.name \in vlans THEN Append(s, net) ELSE s
    BY <1>1, <1>2 DEF Keep
  <2>3. k + 1 \in 1..n /\ net \in T
    BY <1>1
  <2> HIDE DEF s, S
  <2>4. CASE net.name \notin vlans
    BY <2>1, <2>2, <2>4
  <2>5. CASE net.name \in vlans
    <3> DEFINE t == Append(s, net)
    <3>1. /\ t \in Seq(T) /\ Len(s) \in Nat /\ DOMAIN s = 1..Len(s) /\ DOMAIN t = 1..(Len(s) + 1)
          /\ t[Len(s) + 1] = net /\ \A a \in 1..Len(s) : t[a] = s[a]
      BY <2>1, <2>3
    <3> HIDE DEF t
    <3>2. \A a \in DOMAIN t : (a \in DOMAIN s /\ t[a] = s[a]) \/ (a = Len(s) + 1 /\ t[a] = net)
      BY <3>1
    <3>3. From(t, k + 1)
      <4> SUFFICES ASSUME NEW a \in DOMAIN t
                   PROVE  \E i \in 1..(k + 1) : t[a] = nets[i] /\ nets[i].name \in vlans
        OBVIOUS
      <4>1. CASE a \in DOMAIN s /\ t[a] = s[a]
        BY <2>1, <4>1
      <4>2. CASE t[a] = net
        BY <2>5, <4>2
      <4> QED
        BY <3>2, <4>1, <4>2
    <3>4. \A a \in DOMAIN s : s[a].name # net.name
      <4> SUFFICES ASSUME NEW a \in DOMAIN s, s[a].name = net.name
                   PROVE  FALSE
        OBVIOUS
      <4>1. PICK i \in 1..k : s[a] = nets[i]
        BY <2>1
      <4>2. i \in DOMAIN nets /\ k + 1 \in DOMAIN nets /\ i # k + 1
        BY <1>1, <2>3
      <4> QED
        BY <4>1, <4>2
    <3>5. Apart(t)
      BY <2>1, <3>2, <3>4
    <3>6. f[k + 1] = t
      BY <2>2, <2>5 DEF t
    <3> HIDE DEF From, Apart
    <3> QED
      BY <3>1, <3>3, <3>5, <3>6
  <2> QED
    BY <2>4, <2>5
<1>5. n \in S
  <2> HIDE DEF S
  <2> QED
    BY <1>1, <1>3, <1>4, NaturalInduction
<1>6. From(f[n], n) /\ Apart(f[n])
  <2> HIDE DEF From, Apart
  <2> QED
    BY <1>1, <1>5
<1>7. /\ \A a \in DOMAIN f[n] : \E i \in DOMAIN nets : f[n][a] = nets[i] /\ nets[i].name \in vlans
      /\ \A a, b \in DOMAIN f[n] : f[n][a].name = f[n][b].name => a = b
  BY <1>1, <1>6
<1> QED
  BY <1>2, <1>7

-----------------------------------------------------------------------------
(* Filling in a name leaves the networks of a profile apart.               *)
LEMMA ProfilesAreApart ==
  ASSUME ScenariosKeepNetworksApart, scenario \in Scenarios, IsScale, NEW k \in DOMAIN Profiles
  PROVE  NetworksAreApart(Profiles[k])
<1> DEFINE p == scenario.profiles[k]
           name == NameOf(scenario, p)
           q == Profiles[k]
<1>1. k \in DOMAIN scenario.profiles
  BY DEF Profiles
<1>2. IsProfile(p) /\ NetworksAreApart(p)
  BY <1>1, ScenarioAssumption DEF IsScale, ScenariosKeepNetworksApart
<1>3. q = [p EXCEPT !.name = name]
  BY <1>1 DEF Profiles
<1> HIDE DEF name, q, p
<1>4. q = [f \in DOMAIN p |-> IF f = "name" THEN name ELSE p[f]]
  BY <1>2, <1>3 DEF IsProfile
<1>5. \A f \in {"plugin", "networks", "extNet", "count"} : f \in DOMAIN q /\ q[f] = p[f]
  BY <1>2, <1>4 DEF IsProfile, NetworksAreApart
<1>6. q.plugin = p.plugin /\ q.networks = p.networks /\ q.extNet = p.extNet /\ q.count = p.count
  BY <1>5
<1>7. IsFarm(q) = IsFarm(p)
  BY <1>6 DEF IsFarm, PluginName
<1>8. NetworksAreApart(q)
  BY <1>2, <1>5, <1>6, <1>7 DEF NetworksAreApart
<1> QED
  BY <1>8 DEF q

(* What an experiment knows of a profile's networks are networks of it,    *)
(* each once.                                                              *)
LEMMA KnownNetsAreApart ==
  ASSUME ScenariosKeepNetworksApart, scenario \in Scenarios, IsScale, NEW k \in DOMAIN Profiles
  PROVE  /\ \A a \in DOMAIN KnownNets(k) :
              /\ KnownNets(k)[a].network \in Nat \cup {None}
              /\ ~NetworksRaise(Profiles[k].networks) => KnownNets(k)[a].network \in Nat
         /\ \A a, b \in DOMAIN KnownNets(k) : KnownNets(k)[a].name = KnownNets(k)[b].name => a = b
<1> DEFINE nets == Profiles[k].networks
           known == KnownNets(k)
<1>1. /\ nets \in Seq(ToSet(nets))
      /\ \A j \in DOMAIN nets : nets[j].network \in Nat \cup {None}
      /\ \A i, j \in DOMAIN nets : nets[i].name = nets[j].name => i = j
  BY ProfilesAreApart DEF NetworksAreApart
<1>2. known = Known(nets, scenario.vlans)
  BY DEF KnownNets, WithAddresses
<1> HIDE DEF nets, known
<1>3. /\ \A a \in DOMAIN known : \E i \in DOMAIN nets : known[a] = nets[i] /\ nets[i].name \in scenario.vlans
      /\ \A a, b \in DOMAIN known : known[a].name = known[b].name => a = b
  BY <1>1, <1>2, KnownAreDistinct
<1>4. \A a \in DOMAIN known :
        /\ known[a].network \in Nat \cup {None}
        /\ ~NetworksRaise(nets) => known[a].network \in Nat
  BY <1>1, <1>3 DEF NetworksRaise
<1> QED
  BY <1>3, <1>4 DEF nets, known


(* What addresses depend on stays when the scenario does.                  *)
LEMMA ScenarioStaysForAddresses ==
  ASSUME scenario' = scenario
  PROVE  /\ \A k : KnownNets(k)' = KnownNets(k)
         /\ \A runs, v : IsNumbered(runs, v)' = IsNumbered(runs, v)
<1>1. Profiles' = Profiles
  BY ScenarioStays
<1>2. \A k : KnownNets(k)' = KnownNets(k)
  BY <1>1 DEF KnownNets, WithAddresses
<1> QED
  BY <1>1, <1>2 DEF IsNumbered

(* FilesNumbered holds after a step that leaves the minimega files alone.  *)
LEMMA NumbersKept ==
  ASSUME FilesNumbered, scenario' = scenario, NEW fs, files' = fs, VmFilesStay(fs)
  PROVE  FilesNumbered'
<1>1. SUFFICES ASSUME NEW v \in ProfileVms, IsOwn(v[1]), ~IsFarm(Profiles[v[1]]), MinimegaFile(Host(v)) \in DOMAIN fs
      PROVE  IsNumbered(fs[MinimegaFile(Host(v))], v)
  BY ScenarioStaysForFiles, ScenarioStaysForAddresses DEF FilesNumbered
<1> QED
  BY <1>1 DEF FilesNumbered, VmFilesStay

(* A VM of builtin containers that is not the profile's last has as many   *)
(* as each has.                                                            *)
LEMMA EachVm ==
  ASSUME NEW p, IsProfile(p), ~IsFarm(p), NEW i \in 1..NodeCount(p), i # NodeCount(p)
  PROVE  ContainerCount(p, i) = Each(p) /\ Each(p) \in Nat
<1>1. CASE Nests(p)
  BY <1>1, CountOfVm DEF Each, IsProfile
<1>2. CASE ~Nests(p)
  BY <1>2 DEF Each, ContainerCount, BuiltinCount
<1> QED
  BY <1>1, <1>2

(* Starting a VM, and a send that fails, keep addresses numbered: the file *)
(* has the VM's, and the next VM starts after them.                        *)
LEMMA LaunchNumbers ==
  ASSUME IsScale, ScalePlaces, AddressesOfProfile, AddressesCounted, FilesNumbered, StartVm \/ SendFails
  PROVE  AddressesCounted' /\ FilesNumbered'
<1> DEFINE path == MinimegaFile(ThisHost)
           p == ThisProfile
           k == step.i
           i == vm
           nets == KnownNets(k)
           fs == Overlay(File(path, Launched(p, i)), files)
<1>1. /\ scenario' = scenario /\ InVms("post-start") /\ app = "post-start" /\ files' = fs
      /\ StartVm => step' = step /\ vm' = i + 1 /\ app' = app /\ addrs' = Advance(addrs, ContainerCount(p, i))
      /\ SendFails => app' = "failed"
  BY DEF StartVm, SendFails, InVms, InProfiles, NextVm, FailStage, Write
<1>2. /\ Host(<<k, i>>) = ThisHost /\ k \in DOMAIN Profiles /\ i \in Nat \ {0} /\ <<k, i>> \in ProfileVms
      /\ IsProfile(p) /\ NodeCount(p) \in Nat /\ i \in 1..NodeCount(p) /\ p = Profiles[k]
  BY <1>1, ThisVm DEF ScalePlaces, InVms, ThisProfile
<1>3. /\ \A x : x \in DOMAIN fs <=> x = path \/ x \in DOMAIN files
      /\ fs[path] = Launched(p, i)
      /\ \A x \in DOMAIN files : x # path => fs[x] = files[x]
  BY OverlayValues DEF File
<1>4. DOMAIN addrs = DOMAIN nets /\ \A j \in DOMAIN nets : addrs[j] = [net |-> nets[j].name, n |-> addrs[j].n]
  BY <1>1, <1>2 DEF AddressesOfProfile, KnownNets, ThisProfile
<1>5. ~IsFarm(p) => \A j \in DOMAIN nets : nets[j].network \in Nat /\ addrs[j].n = FirstNumber(p, i, nets[j])
  BY <1>1, <1>2 DEF AddressesCounted
<1> HIDE DEF fs, path, p, k, i, nets
<1>6. ~IsFarm(p) => IsNumbered(Launched(p, i), <<k, i>>)
  <2> SUFFICES ASSUME ~IsFarm(p)
               PROVE  IsNumbered(Launched(p, i), <<k, i>>)
    OBVIOUS
  <2>1. Launched(p, i) = BuiltinContainers(p, i)
    BY DEF Launched
  <2>2. ASSUME NEW n \in 1..ContainerCount(p, i)
        PROVE  BuiltinContainers(p, i)[n].ips = [j \in DOMAIN nets |-> [addrs[j] EXCEPT !.n = @ + n]]
    BY <1>4 DEF BuiltinContainers
  <2>3. ASSUME NEW n \in 1..ContainerCount(p, i), NEW j \in DOMAIN nets
        PROVE  LET a == BuiltinContainers(p, i)[n].ips[j]
               IN  a.net = nets[j].name /\ a.n = FirstNumber(p, i, nets[j]) + n
    <3>1. BuiltinContainers(p, i)[n].ips[j] = [addrs[j] EXCEPT !.n = @ + n]
      BY <2>2
    <3>2. addrs[j] = [net |-> nets[j].name, n |-> addrs[j].n] /\ addrs[j].n = FirstNumber(p, i, nets[j])
      BY <1>4, <1>5
    <3> QED
      BY <3>1, <3>2
  <2>4. \A n \in 1..ContainerCount(p, i) : DOMAIN BuiltinContainers(p, i)[n].ips = DOMAIN nets
    BY <2>2
  <2> QED
    BY <1>2, <1>5, <2>1, <2>3, <2>4 DEF IsNumbered, nets
<1>7. FilesNumbered'
  <2>1. SUFFICES ASSUME NEW v \in ProfileVms, IsOwn(v[1]), ~IsFarm(Profiles[v[1]]), MinimegaFile(Host(v)) \in DOMAIN fs
        PROVE  IsNumbered(fs[MinimegaFile(Host(v))], v)
    BY <1>1, ScenarioStaysForFiles, ScenarioStaysForAddresses DEF FilesNumbered
  <2>2. CASE Host(v) = ThisHost
    <3>1. v = <<k, i>>
      BY <1>2, <2>1, <2>2 DEF IsOwn, Vms
    <3> QED
      BY <1>2, <1>3, <1>6, <2>1, <2>2, <3>1 DEF path
  <2>3. CASE Host(v) # ThisHost
    <3>1. MinimegaFile(Host(v)) # path
      BY <2>3, PathsDiffer DEF path
    <3> QED
      BY <1>3, <2>1, <3>1 DEF FilesNumbered
  <2> QED
    BY <2>2, <2>3
<1>8. AddressesCounted'
  <2>1. CASE SendFails
    BY <1>1, <2>1 DEF AddressesCounted
  <2>2. CASE StartVm
    <3>1. ThisProfile' = p /\ vm' = i + 1 /\ KnownNets(step.i)' = nets
      BY <1>1, <1>2, <2>2, ScenarioStays, ScenarioStaysForAddresses DEF ThisProfile, p, k, i, nets
    <3>2. SUFFICES ASSUME ~IsFarm(p), NEW j \in DOMAIN nets, i + 1 <= NodeCount(p)
          PROVE  addrs'[j].n = FirstNumber(p, i + 1, nets[j])
      <4> HIDE DEF nets, p, i, k
      <4> QED
        BY <1>5, <3>1 DEF AddressesCounted
    <3>3. ContainerCount(p, i) = Each(p) /\ Each(p) \in Nat
      BY <1>2, <3>2, EachVm
    <3>4. addrs'[j] = [addrs[j] EXCEPT !.n = @ + ContainerCount(p, i)]
      BY <1>1, <1>4, <2>2 DEF Advance
    <3>5. addrs[j] = [net |-> nets[j].name, n |-> addrs[j].n] /\ nets[j].network \in Nat
          /\ addrs[j].n = FirstNumber(p, i, nets[j])
      BY <1>4, <1>5, <3>2
    <3>6. addrs'[j].n = FirstNumber(p, i, nets[j]) + Each(p)
      BY <3>3, <3>4, <3>5
    <3>7. FirstNumber(p, i + 1, nets[j]) = FirstNumber(p, i, nets[j]) + Each(p)
      <4>1. ((i + 1) - 1) * Each(p) = (i - 1) * Each(p) + Each(p) /\ (i - 1) * Each(p) \in Nat /\ ((i + 1) - 1) * Each(p) \in Nat
        BY <1>2, <3>3
      <4> QED
        BY <3>3, <3>5, <4>1 DEF FirstNumber
    <3> QED
      BY <3>6, <3>7
  <2> QED
    BY <2>1, <2>2
<1> QED
  BY <1>7, <1>8

(* ProfilesValidated holds after a step: each profile is validated before  *)
(* its first VM is configured, and nothing starts before all are.          *)
LEMMA ValidatedStep ==
  ASSUME IsScale, ScalePlaces, StartedClean, ProfilesValidated, [Next]_vars
  PROVE  ProfilesValidated'
<1>1. scenario' = scenario /\ Profiles' = Profiles
  BY ScenarioIsKept, ScenarioStays
<1>2. SUFFICES ASSUME NEW k \in DOMAIN Profiles, Validated(k)', ~Validated(k)
      PROVE  ~ConfigInvalid(Profiles[k])
  BY <1>1 DEF ProfilesValidated
<1>3. ~clean /\ (app = "configure" => ~(k < step.i \/ (k = step.i /\ vm # 0))) /\ app \notin {"post-start", "started"}
  BY <1>2 DEF Validated, StartedClean
<1>4. clean' => clean' # clean
  BY <1>3, Zenon
<1>5. clean' \/ (app' = "configure" /\ (k < step'.i \/ (k = step'.i /\ vm' # 0)))
  BY <1>2 DEF Validated
<1>6. k \in 1..Len(Profiles) /\ Len(Profiles) \in Nat
  BY VmsHavePlaces
<1>7. CASE Configure \/ Start
  <2>1. clean' = clean /\ (app' = "configure" => step'.i = 1 /\ vm' = 0)
    BY <1>7 DEF Configure, Start, Launch, GoTo, ScalePlaces, Idle, Stage, scaleVars
  <2> QED
    BY <1>4, <1>5, <1>6, <2>1
<1>8. CASE UNCHANGED vars
  BY <1>3, <1>4, <1>5, <1>8 DEF vars, processVars, scaleVars
<1>9. CASE ScaleNext /\ clean' = (clean \/ Succeeded)
  <2>1. clean' => Succeeded
    BY <1>3, <1>9, Zenon
  <2>2. CASE BeginProfile
    <3>1. app' = app /\ step' = step /\ app = "configure" /\ vm' = 1 /\ ~Succeeded /\ ~ConfigInvalid(Profiles[step.i])
      BY <2>2 DEF BeginProfile, Outside, InProfiles, processVars, Succeeded, ThisProfile
    <3>2. k = step.i
      BY <1>3, <1>5, <2>1, <3>1
    <3> QED
      BY <3>1, <3>2
  <2>3. CASE ConfigureVm
    <3>1. app' = app /\ step' = step /\ app = "configure" /\ vm # 0 /\ ~Succeeded
      BY <2>3 DEF ConfigureVm, InVms, InProfiles, Succeeded
    <3> QED
      BY <1>3, <1>5, <2>1, <3>1
  <2>4. CASE EndProfile("configure")
    <3>1. /\ app' = app /\ app = "configure" /\ step'.i = step.i + 1 /\ vm' = 0 /\ vm # 0 /\ ~Succeeded /\ step.i \in Nat
      <4>1. /\ app' = app /\ app = "configure" /\ step' = [step EXCEPT !.i = @ + 1] /\ vm' = 0
            /\ vm > NodeCount(Profiles[step.i]) /\ step.i \in DOMAIN Profiles
        BY <2>4, VmsHavePlaces DEF EndProfile, VmsDone, InProfiles, Again, ThisProfile, ScalePlaces
      <4>2. NodeCount(Profiles[step.i]) \in Nat
        BY <4>1, VmsHavePlaces
      <4> QED
        BY <4>1, <4>2 DEF Succeeded, ScalePlaces
    <3> QED
      BY <1>3, <1>5, <1>6, <2>1, <3>1
  <2>5. CASE ConfigureDone
    <3>1. app = "configure" /\ step.i > Len(Profiles) /\ step.i \in Nat
      BY <2>5 DEF ConfigureDone, ScalePlaces
    <3> QED
      BY <1>3, <1>6, <3>1
  <2>6. CASE EndProfile("post-start") \/ BeginNetworks \/ NetworksFail \/ StartVm \/ StartVmFails \/ ConnectFails \/ SendFails
             \/ PostStartDone
    <3>1. app = "post-start"
      BY <2>6 DEF EndProfile, VmsDone, BeginNetworks, NetworksFail, StartVm, StartVmFails, ConnectFails, SendFails, PostStartDone,
                  InVms, Outside, InProfiles
    <3> QED
      BY <1>3, <3>1
  <2>7. CASE ProfileFails \/ ConfigureVmFails
    <3>1. app' = "failed" /\ ~Succeeded
      BY <2>7 DEF ProfileFails, ConfigureVmFails, FailStage, Succeeded
    <3> QED
      BY <1>5, <2>1, <3>1
  <2> QED
    BY <1>9, <2>2, <2>3, <2>4, <2>5, <2>6, <2>7 DEF ScaleNext
<1> QED
  BY <1>7, <1>8, <1>9, TurbinesAreOfTheOtherApp DEF Next, Stages

(* The addresses of a profile start at the numbers of its networks.        *)
LEMMA BeginNumbers ==
  ASSUME ScenariosKeepNetworksApart, IsScale, ScalePlaces, BeginNetworks
  PROVE  AddressesCounted'
<1> DEFINE p == ThisProfile
           nets == KnownNets(step.i)
<1>1. /\ scenario' = scenario /\ step' = step /\ vm' = 1 /\ step.i \in DOMAIN Profiles /\ scenario \in Scenarios
      /\ ~NetworksRaise(Profiles[step.i].networks)
      /\ addrs' = [k \in DOMAIN nets |-> [net |-> nets[k].name, n |-> nets[k].network]]
  BY VmsHavePlaces DEF BeginNetworks, Outside, InProfiles, processVars, ScalePlaces, KnownNets, ThisProfile
<1>2. \A j \in DOMAIN nets : nets[j].network \in Nat
  BY <1>1, KnownNetsAreApart
<1>3. KnownNets(step.i)' = nets /\ ThisProfile' = p /\ Profiles' = Profiles
  BY <1>1, ScenarioStays, ScenarioStaysForAddresses DEF ThisProfile
<1>4. IsProfile(p)
  BY <1>1, ProfilesAreProfiles DEF ThisProfile
<1> HIDE DEF nets, p
<1>5. \A j \in DOMAIN nets : addrs'[j].n = nets[j].network
  BY <1>1
<1>6. Each(p) \in Nat
  BY <1>4 DEF Each, IsProfile
<1>7. \A j \in DOMAIN nets : FirstNumber(p, 1, nets[j]) = nets[j].network
  BY <1>2, <1>6 DEF FirstNumber
<1> QED
  BY <1>1, <1>2, <1>3, <1>5, <1>7 DEF AddressesCounted

(* AddressInv is an invariant.                                             *)
LEMMA AddressInvAlways ==
  ASSUME ScenariosKeepNetworksApart PROVE Spec => []AddressInv
<1>1. Init => AddressInv
  BY DEF Init, ProcessInit, ScaleInit, AddressInv, AddressesCounted, FilesNumbered, ProfilesValidated, Validated
<1>2. SentInv /\ FilesInv /\ AddressInv /\ [Next]_vars => AddressInv'
  <2> SUFFICES ASSUME SentInv, FilesInv, AddressInv, [Next]_vars, IsScale'
               PROVE  AddressesCounted' /\ FilesNumbered' /\ ProfilesValidated'
    BY DEF AddressInv
  <2>1. scenario' = scenario /\ IsScale
    BY ScenarioIsKept, ScenarioStays
  <2>2. /\ ScalePlaces /\ StartedClean /\ AddressesOfProfile
        /\ AddressesCounted /\ FilesNumbered /\ ProfilesValidated
    BY <2>1 DEF SentInv, FilesInv, AddressInv
  <2>3. ProfilesValidated'
    BY <2>1, <2>2, ValidatedStep
  <2>4. files' = files => FilesNumbered'
    <3>1. VmFilesStay(files)
      BY DEF VmFilesStay
    <3>2. PICK fs : fs = files
      OBVIOUS
    <3> QED
      BY <2>1, <2>2, <3>1, <3>2, NumbersKept
  <2>5. CASE Configure \/ Start
    <3>1. files' = files /\ (app' # "post-start" \/ vm' = 0)
      BY <2>1, <2>2, <2>5 DEF Configure, Start, Launch, scaleVars, ScalePlaces, Idle, Stage
    <3> QED
      BY <2>3, <2>4, <3>1 DEF AddressesCounted
  <2>6. CASE ConfigureVm \/ ConfigureVmFails
    <3>1. FilesNumbered'
      BY <2>1, <2>2, <2>6, ConfigureWritesFiles, NumbersKept
    <3>2. app' \in {"configure", "failed"}
      BY <2>6 DEF ConfigureVm, ConfigureVmFails, InVms, InProfiles, FailStage
    <3> QED
      BY <2>3, <3>1, <3>2 DEF AddressesCounted
  <2>7. CASE StartVm \/ SendFails
    BY <2>1, <2>2, <2>3, <2>7, LaunchNumbers
  <2>8. CASE BeginNetworks
    <3>1. files' = files
      BY <2>8 DEF BeginNetworks, processVars
    <3> QED
      BY <2>1, <2>2, <2>3, <2>4, <2>8, <3>1, BeginNumbers
  <2>9. CASE BeginProfile \/ ProfileFails \/ EndProfile("configure") \/ ConfigureDone \/ NetworksFail \/ StartVmFails
             \/ ConnectFails \/ EndProfile("post-start") \/ PostStartDone
    <3>1. files' = files /\ (app' # "post-start" \/ vm' = 0)
      BY <2>9 DEF BeginProfile, ProfileFails, EndProfile, ConfigureDone, NetworksFail, StartVmFails, ConnectFails, PostStartDone,
                  Outside, InProfiles, VmsDone, FailStage, Finish, processVars
    <3> QED
      BY <2>3, <2>4, <3>1 DEF AddressesCounted
  <2>10. CASE UNCHANGED vars
    <3>1. files' = files /\ app' = app /\ step' = step /\ vm' = vm /\ addrs' = addrs
      BY <2>10 DEF vars, processVars, scaleVars
    <3>2. KnownNets(step.i)' = KnownNets(step.i) /\ ThisProfile' = ThisProfile
      BY <2>1, <3>1, ScenarioStays, ScenarioStaysForAddresses DEF ThisProfile
    <3>3. AddressesCounted'
      BY <2>2, <3>1, <3>2 DEF AddressesCounted
    <3> QED
      BY <2>3, <2>4, <3>1, <3>3
  <2> QED
    BY <2>1, <2>2, <2>5, <2>6, <2>7, <2>8, <2>9, <2>10, TurbinesAreOfTheOtherApp DEF Next, Stages, ScaleNext
<1> QED
  BY <1>1, <1>2, SentInvAlways, FilesInvAlways, PTL DEF Spec

-----------------------------------------------------------------------------
(* The addresses of a farm's containers.                                   *)
LEMMA AddressOfFarm ==
  ASSUME NEW p, NEW c, NEW j \in DOMAIN IpsOf(p, c)
  PROVE  \/ j = 1 /\ IsMain(c) /\ IpsOf(p, c)[j] = ExtIp(p, c.turbine)
         \/ j = (IF IsMain(c) THEN 2 ELSE 1) /\ IpsOf(p, c)[j] = PrivateIp(c.turbine, c.type)
<1> DEFINE e == ExtIp(p, c.turbine)
           i == PrivateIp(c.turbine, c.type)
<1> HIDE DEF e, i
<1>1. IpsOf(p, c) = (IF IsMain(c) THEN <<e>> ELSE << >>) \o <<i>>
  BY DEF IpsOf, e, i
<1>2. CASE IsMain(c)
  <2>1. IpsOf(p, c) = <<e>> \o <<i>>
    BY <1>1, <1>2
  <2>2. j \in {1, 2} /\ IpsOf(p, c)[1] = e /\ IpsOf(p, c)[2] = i
    BY <2>1
  <2> QED
    BY <1>2, <2>2 DEF e, i
<1>3. CASE ~IsMain(c)
  <2>1. IpsOf(p, c) = << >> \o <<i>>
    BY <1>1, <1>3
  <2>2. j = 1 /\ IpsOf(p, c)[1] = i
    BY <2>1
  <2> QED
    BY <1>3, <2>2 DEF e, i
<1> QED
  BY <1>2, <1>3

(* A farm's containers are those of its own turbines.                      *)
IsOfTurbine(p, i, n) ==
  \E t \in 1..p.count, j \in 1..6 :
    /\ FarmContainers(p, i)[n] = [turbine |-> t, type |-> Components[j]]
    /\ VmNumber(p, i, n) = FarmNumber(t, j)

LEMMA ContainerOfFarm ==
  ASSUME NEW p, IsProfile(p), IsFarm(p), p.count >= 1, NEW i \in 1..NodeCount(p), NEW n \in 1..ContainerCount(p, i)
  PROVE  /\ Nests(p) /\ p.perNode \in Nat \ {0} /\ n \in 1..p.perNode /\ NodeCount(p) \in Nat
         /\ IsOfTurbine(p, i, n)
<1> DEFINE m == p.perNode
           c == Containers(p)
           k == NodeCount(p)
           a == VmNumber(p, i, n)
<1>1. m \in Nat /\ p.count \in Nat /\ c = 6 * p.count /\ c > 0
  BY DEF IsProfile, Containers
<1>2. Nests(p)
  <2> SUFFICES ASSUME m = 0
               PROVE  FALSE
    BY <1>1 DEF Nests
  <2>1. ContainerCount(p, i) = m
    <3>1. k = p.count
      BY <1>1 DEF NodeCount, Nests
    <3>2. i * m = 0
      BY <1>1, <3>1
    <3> QED
      BY <1>1, <3>2 DEF ContainerCount, FarmCount
  <2> QED
    BY <2>1
<1>3. /\ k \in Nat \ {0} /\ m \in Nat \ {0} /\ c - (k - 1) * m \in 1..m
      /\ ContainerCount(p, i) = IF i = k THEN c - (i - 1) * m ELSE m
  BY <1>2, CountOfVm
<1>4. n \in 1..m
  BY <1>3
<1>5. a \in Nat /\ a < c
  <2> HIDE DEF m, c, k
  <2>1. a = m * (i - 1) + (n - 1) /\ m * (i - 1) \in Nat
    BY <1>3, <1>4 DEF VmNumber, m
  <2>2. CASE i = k
    BY <1>1, <1>3, <1>4, <2>1, <2>2
  <2>3. CASE i # k
    <3>1. i <= k - 1 /\ i \in Nat
      BY <1>3, <2>3 DEF k
    <3>2. m * i <= m * (k - 1)
      BY <1>3, <3>1, TimesGrows
    <3>3. m * (i - 1) = m * i - m /\ m * (k - 1) = (k - 1) * m
      BY <1>3, <3>1
    <3> QED
      BY <1>1, <1>3, <1>4, <2>1, <3>1, <3>2, <3>3
  <2> QED
    BY <2>2, <2>3
<1> DEFINE t == (a \div 6) + 1
           j == (a % 6) + 1
<1>6. t \in 1..p.count /\ j \in 1..6 /\ a = FarmNumber(t, j)
  <2> HIDE DEF a
  <2> QED
    BY <1>1, <1>5 DEF FarmNumber
<1>7. FarmContainers(p, i)[n] = [turbine |-> t, type |-> Components[j]]
  BY DEF FarmContainers, VmNumber
<1> HIDE DEF t, j, a
<1>8. \E x \in 1..p.count, y \in 1..6 :
        /\ FarmContainers(p, i)[n] = [turbine |-> x, type |-> Components[y]]
        /\ a = FarmNumber(x, y)
  BY <1>6, <1>7
<1> QED
  BY <1>2, <1>3, <1>4, <1>8 DEF a, IsOfTurbine

(* No two components of a turbine have the same number.                    *)
LEMMA PrivateNumbersDiffer ==
  \A z, w \in 1..6 : PrivateNumber[Components[z]] = PrivateNumber[Components[w]] => z = w
<1> DEFINE numbers == <<254, 21, 11, 31, 32, 33>>
<1>1. DOMAIN Components = 1..6 /\ \A z \in 1..6 : Components[z] \in ToSet(Components)
  BY DEF Components, ToSet
<1>2. \A type \in ToSet(Components) :
        PrivateNumber[type] =
          CASE type = "main-controller" -> 254 [] type = "signal-converter" -> 21 [] type = "yaw-controller" -> 11
            [] type = "blade-1" -> 31 [] type = "blade-2" -> 32 [] type = "blade-3" -> 33
  BY DEF PrivateNumber
<1>3. /\ Components[1] = "main-controller" /\ Components[2] = "signal-converter" /\ Components[3] = "yaw-controller"
      /\ Components[4] = "blade-1" /\ Components[5] = "blade-2" /\ Components[6] = "blade-3"
  BY DEF Components
<1>4. \A z \in 1..6 : PrivateNumber[Components[z]] = numbers[z]
  <2>1. \A z \in 1..6 : z = 1 \/ z = 2 \/ z = 3 \/ z = 4 \/ z = 5 \/ z = 6
    OBVIOUS
  <2>2. /\ PrivateNumber[Components[1]] = 254 /\ PrivateNumber[Components[2]] = 21
        /\ PrivateNumber[Components[3]] = 11 /\ PrivateNumber[Components[4]] = 31
        /\ PrivateNumber[Components[5]] = 32 /\ PrivateNumber[Components[6]] = 33
    BY <1>1, <1>2, <1>3
  <2> QED
    BY <2>1, <2>2
<1>5. \A z, w \in 1..6 : numbers[z] = numbers[w] => z = w
  OBVIOUS
<1> QED
  BY <1>4, <1>5

(* The addresses of a farm's containers tell them apart.                   *)
LEMMA AddressTellsComponent ==
  ASSUME NEW p, IsProfile(p), IsFarm(p), NetworksAreApart(p), p.extNet # None,
         NEW t \in 1..p.count, NEW x \in 1..6, NEW c, c = [turbine |-> t, type |-> Components[x]],
         NEW u \in 1..p.count, NEW y \in 1..6, NEW d, d = [turbine |-> u, type |-> Components[y]],
         NEW i \in DOMAIN IpsOf(p, c), NEW j \in DOMAIN IpsOf(p, d), IpsOf(p, c)[i] = IpsOf(p, d)[j]
  PROVE  t = u /\ x = y /\ i = j
<1>1. ExtStart(p.extNet) \in Nat /\ p.count \in Nat
  BY DEF NetworksAreApart, ExtStart, IsProfile
<1>2. \A z \in 1..p.count : p.extNet.name # TurbineNet(z)
  BY DEF NetworksAreApart
<1>3. c.turbine = t /\ c.type = Components[x] /\ d.turbine = u /\ d.type = Components[y]
  OBVIOUS
<1>4. /\ \A z : ExtIp(p, z).net = p.extNet.name /\ ExtIp(p, z).n = ExtStart(p.extNet) + z - 1
      /\ \A z, w : PrivateIp(z, w).net = TurbineNet(z) /\ PrivateIp(z, w).n = PrivateNumber[w]
      /\ \A z, w : TurbineNet(z) = TurbineNet(w) => z = w
  BY DEF ExtIp, PrivateIp, TurbineNet
<1>5. /\ \A z, w \in 1..6 : Components[z] = Components[w] => z = w
      /\ \A z, w \in 1..6 : PrivateNumber[Components[z]] = PrivateNumber[Components[w]] => z = w
  BY PrivateNumbersDiffer DEF Components
<1> DEFINE a == IpsOf(p, c)[i]
<1>6. /\ \/ i = 1 /\ IsMain(c) /\ a = ExtIp(p, t)
         \/ i = (IF IsMain(c) THEN 2 ELSE 1) /\ a = PrivateIp(t, c.type)
      /\ \/ j = 1 /\ IsMain(d) /\ a = ExtIp(p, u)
         \/ j = (IF IsMain(d) THEN 2 ELSE 1) /\ a = PrivateIp(u, d.type)
  BY <1>3, AddressOfFarm
<1> HIDE DEF a
<1>7. CASE a = ExtIp(p, t) /\ a = ExtIp(p, u) /\ i = 1 /\ j = 1 /\ IsMain(c) /\ IsMain(d)
  <2>1. ExtStart(p.extNet) + t - 1 = ExtStart(p.extNet) + u - 1
    BY <1>7 DEF ExtIp
  <2>2. t = u
    BY <1>1, <2>1
  <2>3. Components[x] = Components[y]
    BY <1>3, <1>7 DEF IsMain
  <2> QED
    BY <1>5, <1>7, <2>2, <2>3
<1>8. CASE a = PrivateIp(t, c.type) /\ a = PrivateIp(u, d.type)
  <2>1. t = u
    BY <1>4, <1>8
  <2>2. PrivateNumber[Components[x]] = PrivateNumber[Components[y]]
    BY <1>3, <1>4, <1>8
  <2>3. x = y
    BY <1>5, <2>2
  <2>4. c = d
    BY <2>1, <2>3
  <2>5. IsMain(c) = IsMain(d) /\ ~(a = ExtIp(p, t))
    BY <1>2, <1>4, <1>8, <2>4
  <2> QED
    BY <1>6, <2>1, <2>3, <2>5
<1>9. ~(a = ExtIp(p, t) /\ a = PrivateIp(u, d.type)) /\ ~(a = ExtIp(p, u) /\ a = PrivateIp(t, c.type))
  BY <1>2, <1>4
<1> QED
  BY <1>6, <1>7, <1>8, <1>9

(* Numbers counted from that of a VM tell the VM and its containers apart. *)
LEMMA NumberTellsPlace ==
  ASSUME NEW m \in Nat \ {0}, NEW i \in Nat \ {0}, NEW k \in Nat \ {0}, NEW x \in 1..m, NEW y \in 1..m,
         (i - 1) * m + x = (k - 1) * m + y
  PROVE  i = k /\ x = y
<1>1. i - 1 \in Nat /\ k - 1 \in Nat /\ x - 1 \in 0..(m - 1) /\ y - 1 \in 0..(m - 1)
  OBVIOUS
<1>2. (i - 1) * m = m * (i - 1) /\ (k - 1) * m = m * (k - 1) /\ m * (i - 1) \in Nat /\ m * (k - 1) \in Nat
  BY <1>1
<1>3. m * (i - 1) + (x - 1) = m * (k - 1) + (y - 1)
  BY <1>2
<1>4. i - 1 = k - 1 /\ x - 1 = y - 1
  BY <1>1, <1>3, DivisionIsUnique
<1> QED
  BY <1>4

(* The containers of a profile's VMs have addresses of their own in each   *)
(* network, however they are spread over the VMs.                          *)
THEOREM AddressesDiffer ==
  ASSUME ScenariosKeepNetworksApart PROVE Spec => []AddressesAreDistinct
<1>1. SentInv /\ FilesInv /\ AddressInv => AddressesAreDistinct
  <2> SUFFICES ASSUME SentInv, FilesInv, AddressInv, Started, NEW k \in OwnProfiles, NEW v \in Vms(k), NEW w \in Vms(k),
                      NEW a \in AddressesOf(v), NEW b \in AddressesOf(w),
                      Runs(v)[a[1]].ips[a[2]] = Runs(w)[b[1]].ips[b[2]]
               PROVE  v = w /\ a = b
    BY DEF AddressesAreDistinct
  <2> DEFINE p == Profiles[k]
             i == v[2]
             x == a[1]
             j == a[2]
             h == w[2]
             y == b[1]
             g == b[2]
  <2>1. /\ IsScale /\ ScalePlaces /\ scenario \in Scenarios /\ k \in DOMAIN Profiles /\ IsOwn(k)
        /\ clean /\ FilesNumbered /\ ProfilesValidated /\ VmFiles
    BY DEF SentInv, FilesInv, AddressInv, Started, ScalePlaces, StartedClean, OwnProfiles
  <2>2. /\ v \in ProfileVms /\ v = <<k, i>> /\ i \in 1..NodeCount(p) /\ w \in ProfileVms /\ w = <<k, h>> /\ h \in 1..NodeCount(p)
        /\ NodeCount(p) \in Nat
    BY <2>1, VmsHavePlaces DEF Vms
  <2>3. /\ a = <<x, j>> /\ x \in DOMAIN Runs(v) /\ j \in DOMAIN Runs(v)[x].ips
        /\ b = <<y, g>> /\ y \in DOMAIN Runs(w) /\ g \in DOMAIN Runs(w)[y].ips
    BY DEF AddressesOf
  <2>4. IsLaunchOf(Runs(v), v) /\ IsLaunchOf(Runs(w), w)
    BY RunsOfOwnVm
  <2>5. x \in 1..ContainerCount(p, i) /\ y \in 1..ContainerCount(p, h)
    BY <2>2, <2>3, <2>4 DEF IsLaunchOf
  <2>6. IsProfile(p) /\ NetworksAreApart(p) /\ ~ConfigInvalid(p)
    BY <2>1, ProfilesAreProfiles, ProfilesAreApart DEF ProfilesValidated, Validated
  <2>7. CASE IsFarm(p)
    <3>1. p.count >= 1 /\ p.extNet # None
      BY <2>6, <2>7 DEF ConfigInvalid
    <3>2. Runs(v) = FarmLaunch(p, i) /\ Runs(w) = FarmLaunch(p, h)
      BY <2>2, <2>4, <2>7 DEF IsLaunchOf
    <3> HIDE DEF p, i, x, j, h, y, g
    <3>3. ASSUME NEW e \in 1..NodeCount(p), NEW r \in 1..ContainerCount(p, e)
          PROVE  /\ p.perNode \in Nat \ {0} /\ r \in 1..p.perNode
                 /\ IsOfTurbine(p, e, r)
      BY <2>6, <2>7, <3>1, ContainerOfFarm
    <3>4. PICK t \in 1..p.count, z \in 1..6 :
               /\ FarmContainers(p, i)[x] = [turbine |-> t, type |-> Components[z]]
               /\ VmNumber(p, i, x) = FarmNumber(t, z)
      BY <2>2, <2>5, <3>3 DEF IsOfTurbine
    <3>5. PICK u \in 1..p.count, s \in 1..6 :
               /\ FarmContainers(p, h)[y] = [turbine |-> u, type |-> Components[s]]
               /\ VmNumber(p, h, y) = FarmNumber(u, s)
      BY <2>2, <2>5, <3>3 DEF IsOfTurbine
    <3>0. p.perNode \in Nat \ {0} /\ x \in 1..p.perNode /\ y \in 1..p.perNode
      BY <2>2, <2>5, <3>3
    <3> DEFINE c == FarmContainers(p, i)[x]
               d == FarmContainers(p, h)[y]
    <3>6. Runs(v)[x].ips = IpsOf(p, c) /\ Runs(w)[y].ips = IpsOf(p, d)
      BY <2>5, <3>2, FarmLaunchAt
    <3>7. /\ c = [turbine |-> t, type |-> Components[z]] /\ d = [turbine |-> u, type |-> Components[s]]
          /\ j \in DOMAIN IpsOf(p, c) /\ g \in DOMAIN IpsOf(p, d) /\ IpsOf(p, c)[j] = IpsOf(p, d)[g]
      BY <2>3, <3>4, <3>5, <3>6 DEF x, j, y, g
    <3> HIDE DEF c, d
    <3>8. t = u /\ z = s /\ j = g
      BY <2>6, <2>7, <3>1, <3>7, AddressTellsComponent
    <3>9. (i - 1) * p.perNode + x = (h - 1) * p.perNode + y
      <4>1. (i - 1) * p.perNode \in Nat /\ (h - 1) * p.perNode \in Nat
        BY <2>2, <3>0
      <4>2. (i - 1) * p.perNode + x - 1 = (h - 1) * p.perNode + y - 1
        BY <3>4, <3>5, <3>8 DEF VmNumber
      <4> QED
        BY <3>0, <4>1, <4>2
    <3>10. i = h /\ x = y
      <4>1. i \in Nat \ {0} /\ h \in Nat \ {0}
        BY <2>2
      <4> QED
        BY <3>0, <3>9, <4>1, NumberTellsPlace, Zenon
    <3> QED
      BY <2>2, <2>3, <3>8, <3>10
  <2>8. CASE ~IsFarm(p)
    <3> DEFINE nets == KnownNets(k)
               m == p.perNode
    <3>1. IsNumbered(Runs(v), v) /\ IsNumbered(Runs(w), w)
      <4>1. Launching(v) /\ Launching(w)
        BY DEF Launching, Started
      <4> QED
        BY <2>1, <2>2, <2>8, <4>1 DEF FilesNumbered, VmFiles, Runs
    <3>2. Nests(p)
      BY <2>5, <2>8 DEF ContainerCount, BuiltinCount
    <3>3. m \in Nat \ {0} /\ x \in 1..m /\ y \in 1..m
      <4>1. m \in Nat \ {0} /\ ContainerCount(p, i) \in 1..m /\ ContainerCount(p, h) \in 1..m
        BY <2>2, <2>6, <3>2, CountOfVm
      <4> QED
        BY <2>5, <4>1
    <3> HIDE DEF p, i, x, j, h, y, g, nets, m
    <3>4. /\ j \in DOMAIN nets /\ g \in DOMAIN nets /\ nets[j].network \in Nat
          /\ Runs(v)[x].ips[j].net = nets[j].name /\ Runs(w)[y].ips[g].net = nets[g].name
          /\ Runs(v)[x].ips[j].n = FirstNumber(p, i, nets[j]) + x /\ Runs(w)[y].ips[g].n = FirstNumber(p, h, nets[g]) + y
      BY <2>2, <2>3, <2>5, <3>1 DEF IsNumbered, nets, p
    <3>5. Runs(v)[x].ips[j] = Runs(w)[y].ips[g]
      BY DEF x, j, y, g
    <3>6. j = g
      <4>1. nets[j].name = nets[g].name
        BY <3>4, <3>5
      <4> QED
        BY <2>1, <3>4, <4>1, KnownNetsAreApart DEF nets
    <3>7. FirstNumber(p, i, nets[j]) + x = FirstNumber(p, h, nets[j]) + y
      BY <3>4, <3>5, <3>6
    <3>8. (i - 1) * m + x = (h - 1) * m + y
      <4>1. (i - 1) * m \in Nat /\ (h - 1) * m \in Nat
        BY <2>2, <3>3
      <4>2. nets[j].network + (i - 1) * m + x = nets[j].network + (h - 1) * m + y
        BY <3>2, <3>7 DEF FirstNumber, Each, m
      <4> DEFINE before == (i - 1) * m
                 after == (h - 1) * m
      <4>3. before \in Nat /\ after \in Nat /\ nets[j].network + before + x = nets[j].network + after + y
        BY <4>1, <4>2
      <4>4. nets[j].network \in Nat /\ x \in Nat /\ y \in Nat
        BY <3>3, <3>4
      <4> HIDE DEF before, after
      <4>5. before + x = after + y
        BY <4>3, <4>4
      <4> QED
        BY <4>5 DEF before, after
    <3>9. i = h /\ x = y
      <4>1. i \in Nat \ {0} /\ h \in Nat \ {0}
        BY <2>2
      <4> QED
        BY <3>3, <3>8, <4>1, NumberTellsPlace
    <3> QED
      BY <2>2, <2>3, <3>6, <3>9
  <2> QED
    BY <2>7, <2>8
<1> QED
  BY <1>1, SentInvAlways, FilesInvAlways, AddressInvAlways, PTL
-----------------------------------------------------------------------------
(* The configurations of devices.  In an experiment with the scale app     *)
(* each file that is one is that of a container of a farm.                 *)
IsConfig(path) == path[1] \in {"ot-sim", "scale"}

OfContainer(path, content) ==
  \E v \in ProfileVms : \E n \in 1..ContainerCount(Profiles[v[1]], v[2]) :
    IsFarm(Profiles[v[1]]) /\ path = ConfigFile(Host(v), n) /\ content = Configuration(v, n)

(* With ConfigFiles, which says that the file of every container is there, *)
(* the inductive invariant under which clients find their servers.         *)
ContainerFiles ==
  /\ app = "configured" => clean
  /\ \A path \in DOMAIN files : IsConfig(path) => OfContainer(path, files[path])

ContainerInv == IsScale => ContainerFiles

(* What is the configuration of a device and what is not.                  *)
LEMMA WhatIsConfig ==
  ASSUME NEW h, NEW n
  PROVE  ~IsConfig(MinimegaFile(h)) /\ ~IsConfig(StartupFile(h)) /\ ~IsConfig(Tarball) /\ IsConfig(ConfigFile(h, n))
  BY DEF IsConfig, MinimegaFile, StartupFile, Tarball, ConfigFile

(* A configuration a turn of the configure stage leaves was there, or is   *)
(* that of a container of its VM.                                          *)
OfThisVm(path, content) ==
  /\ IsFarm(ThisProfile)
  /\ \E n \in 1..ContainerCount(ThisProfile, vm) :
       path = ConfigFile(ThisHost, n) /\ content = ContainerConfig(ThisProfile, FarmContainers(ThisProfile, vm)[n])

OldOrOfThisVm(fs) ==
  \A path \in DOMAIN fs : IsConfig(path) =>
    (path \in DOMAIN files /\ fs[path] = files[path]) \/ OfThisVm(path, fs[path])

(* A VM runs some number of containers.                                    *)
LEMMA CountIsWhole ==
  ASSUME NEW p, IsProfile(p), IsFarm(p), NEW i \in Nat
  PROVE  ContainerCount(p, i) \in Nat
<1>1. p.perNode \in Nat /\ Containers(p) \in Nat
  BY DEF IsProfile, Containers
<1>2. CASE p.perNode = 0
  <2>1. i * p.perNode = 0
    BY <1>2
  <2>2. i * p.perNode <= Containers(p)
    BY <1>1, <2>1
  <2> QED
    BY <1>1, <2>2 DEF ContainerCount, FarmCount
<1>3. CASE p.perNode # 0
  <2>1. ASSUME NEW a \in Nat, NEW m \in Nat \ {0}
        PROVE  a % m \in Nat
    BY Division
  <2>2. Containers(p) % p.perNode \in Nat
    BY <1>1, <1>3, <2>1
  <2> QED
    BY <1>1, <2>2 DEF ContainerCount, FarmCount
<1> QED
  BY <1>2, <1>3

(* The containers before the first main controller are containers.         *)
LEMMA FirstMainController ==
  ASSUME NEW p, NEW i, ContainerCount(p, i) \in Nat, MainControllers(p, i) # {}, NEW first,
         first = CHOOSE k \in MainControllers(p, i) : \A j \in MainControllers(p, i) : k <= j
  PROVE  1..(first - 1) \subseteq 1..ContainerCount(p, i)
<1> DEFINE M == MainControllers(p, i)
<1>1. M \in SUBSET (1..ContainerCount(p, i))
  BY DEF MainControllers
<1>2. \E k \in M : \A j \in M : k <= j
  <2>1. M \in SUBSET Nat
    BY <1>1
  <2>2. Min(M) \in M /\ \A j \in M : Min(M) <= j
    BY <2>1, LeastNumber
  <2> QED
    BY <2>2
<1>3. first \in M
  BY <1>2, Zenon
<1>4. first \in Nat /\ first <= ContainerCount(p, i)
  BY <1>1, <1>3
<1>5. ASSUME NEW x \in Nat, NEW y \in Nat, x <= y
      PROVE  \A n \in 1..(x - 1) : n \in 1..y
  BY <1>5
<1> QED
  BY <1>4, <1>5

(* What the turn writes, whether it succeeds or fails.                     *)
LEMMA ConfigureWritesConfigs ==
  ASSUME IsScale, ScalePlaces, ConfigureVm \/ ConfigureVmFails
  PROVE  \E fs : files' = fs /\ OldOrOfThisVm(fs)
<1> DEFINE start == WithStartup
           mid(m) == Overlay(FarmConfigs(ThisProfile, vm, m), start)
<1>1. OldOrOfThisVm(start)
  BY OverlayValues, WhatIsConfig DEF WithStartup, File, OldOrOfThisVm
<1> HIDE DEF start
<1>2. ASSUME NEW m, 1..m \subseteq 1..ContainerCount(ThisProfile, vm), IsFarm(ThisProfile)
      PROVE  OldOrOfThisVm(mid(m))
  <2> DEFINE configs == FarmConfigs(ThisProfile, vm, m)
  <2>1. /\ \A x \in DOMAIN configs : \E n \in 1..m : x = ConfigFile(ThisHost, n)
        /\ \A h, n : ConfigFile(h, n) \in DOMAIN configs =>
             h = ThisHost /\ configs[ConfigFile(h, n)] = ContainerConfig(ThisProfile, FarmContainers(ThisProfile, vm)[n])
    BY FarmConfigsAre DEF ThisHost
  <2> HIDE DEF configs
  <2>2. \A x : /\ x \in DOMAIN mid(m) <=> x \in DOMAIN configs \/ x \in DOMAIN start
               /\ x \in DOMAIN configs => mid(m)[x] = configs[x]
               /\ x \in DOMAIN start /\ x \notin DOMAIN configs => mid(m)[x] = start[x]
    BY OverlayValues DEF configs
  <2> HIDE DEF mid
  <2> SUFFICES ASSUME NEW path \in DOMAIN mid(m), IsConfig(path)
               PROVE  (path \in DOMAIN files /\ mid(m)[path] = files[path]) \/ OfThisVm(path, mid(m)[path])
    BY DEF OldOrOfThisVm
  <2>3. CASE path \in DOMAIN configs
    BY <1>2, <2>1, <2>2, <2>3 DEF OfThisVm
  <2>4. CASE path \notin DOMAIN configs
    BY <1>1, <2>2, <2>4 DEF OldOrOfThisVm
  <2> QED
    BY <2>3, <2>4
<1>3. ASSUME NEW fs, OldOrOfThisVm(fs)
      PROVE  OldOrOfThisVm(WithTarball(fs, ThisHost))
  <2> DEFINE tar == [path \in InTarball(fs, ThisHost) |-> fs[path]]
             new == Overlay(File(Tarball, tar), fs)
  <2>1. \A x \in DOMAIN new : x = Tarball \/ (x \in DOMAIN fs /\ new[x] = fs[x])
    <3> HIDE DEF tar
    <3> QED
      BY OverlayValues DEF File
  <2> HIDE DEF new
  <2>2. OldOrOfThisVm(new)
    BY <1>3, <2>1, WhatIsConfig DEF OldOrOfThisVm
  <2> QED
    BY <2>2 DEF WithTarball, new
<1> HIDE DEF mid
<1>4. CASE ConfigureVm /\ ~IsFarm(ThisProfile)
  BY <1>1, <1>4 DEF ConfigureVm, start
<1>5. CASE ConfigureVm /\ IsFarm(ThisProfile)
  <2>1. files' = WithTarball(mid(ContainerCount(ThisProfile, vm)), ThisHost)
    BY <1>5 DEF ConfigureVm, mid, start
  <2> QED
    BY <1>2, <1>3, <1>5, <2>1
<1>6. CASE ConfigureVmFails
  <2> DEFINE M == MainControllers(ThisProfile, vm)
             first == CHOOSE k \in M : \A j \in M : k <= j
  <2>1. files' = mid(first - 1) /\ IsFarm(ThisProfile) /\ M # {} /\ InVms("configure")
    BY <1>6 DEF ConfigureVmFails, FarmRaises, mid, start
  <2>2. ContainerCount(ThisProfile, vm) \in Nat
    BY <2>1, ThisVm, CountIsWhole
  <2>3. 1..(first - 1) \subseteq 1..ContainerCount(ThisProfile, vm)
    BY <2>1, <2>2, FirstMainController
  <2> HIDE DEF first
  <2> QED
    BY <1>2, <2>1, <2>3
<1> QED
  BY <1>4, <1>5, <1>6

(* ContainerFiles holds after a step that writes no configuration that is  *)
(* not a container's.                                                      *)
LEMMA ContainerFilesKept ==
  ASSUME ContainerFiles, scenario' = scenario, NEW fs, files' = fs, app' = "configured" => clean',
         \A path \in DOMAIN fs : IsConfig(path) => (path \in DOMAIN files /\ fs[path] = files[path]) \/ OfContainer(path, fs[path])
  PROVE  ContainerFiles'
<1>1. /\ Profiles' = Profiles /\ ProfileVms' = ProfileVms /\ \A v : Host(v)' = Host(v)
  BY ScenarioStays
<1>2. \A v, n : Configuration(v, n)' = Configuration(v, n)
  BY <1>1 DEF Configuration
<1>3. \A path, content : OfContainer(path, content)' = OfContainer(path, content)
  BY <1>1, <1>2 DEF OfContainer
<1>4. \A path \in DOMAIN fs : IsConfig(path) => OfContainer(path, fs[path])
  BY DEF ContainerFiles
<1>5. \A path \in DOMAIN fs : IsConfig(path) => OfContainer(path, fs[path])'
  BY <1>3, <1>4
<1> QED
  BY <1>5 DEF ContainerFiles

(* A step of a stage writes only such configurations.                      *)
LEMMA ContainerStep ==
  ASSUME IsScale, ScalePlaces, ContainerFiles, ScaleNext, clean' = (clean \/ Succeeded)
  PROVE  ContainerFiles'
<1>1. scenario' = scenario
  BY ScenarioIsKept DEF ScaleNext, BeginProfile, ProfileFails, ConfigureVm, ConfigureVmFails, EndProfile, ConfigureDone, BeginNetworks,
     NetworksFail, StartVm, StartVmFails, ConnectFails, SendFails, PostStartDone, processVars
<1>2. Succeeded => clean'
  BY Zenon
<1>3. CASE ConfigureVm \/ ConfigureVmFails
  <2>1. app' # "configured" /\ InVms("configure")
    BY <1>3 DEF ConfigureVm, ConfigureVmFails, InVms, InProfiles, FailStage
  <2>2. PICK fs : files' = fs /\ OldOrOfThisVm(fs)
    BY <1>3, ConfigureWritesConfigs
  <2>3. ASSUME NEW path, NEW content, OfThisVm(path, content)
        PROVE  OfContainer(path, content)
    <3>1. <<step.i, vm>> \in ProfileVms /\ Host(<<step.i, vm>>) = ThisHost
      BY <2>1, ThisVm
    <3>2. PICK v : v = <<step.i, vm>>
      OBVIOUS
    <3>3. v[1] = step.i /\ v[2] = vm /\ Profiles[v[1]] = ThisProfile
      BY <3>2 DEF ThisProfile
    <3> QED
      BY <2>3, <3>1, <3>2, <3>3 DEF OfContainer, OfThisVm, Configuration
  <2>4. \A path \in DOMAIN fs : IsConfig(path) =>
          (path \in DOMAIN files /\ fs[path] = files[path]) \/ OfContainer(path, fs[path])
    BY <2>2, <2>3 DEF OldOrOfThisVm
  <2> QED
    BY <1>1, <2>1, <2>2, <2>4, ContainerFilesKept
<1>4. CASE StartVm \/ SendFails
  <2> DEFINE content == Launched(ThisProfile, vm)
             fs == Overlay(File(MinimegaFile(ThisHost), content), files)
  <2>1. app' # "configured" /\ files' = fs
    BY <1>4 DEF StartVm, SendFails, InVms, InProfiles, FailStage, Write
  <2> HIDE DEF content
  <2>2. \A path \in DOMAIN fs : IsConfig(path) => path \in DOMAIN files /\ fs[path] = files[path]
    BY OverlayValues, WhatIsConfig DEF File
  <2> HIDE DEF fs
  <2> QED
    BY <1>1, <2>1, <2>2, ContainerFilesKept
<1>5. CASE \/ BeginProfile \/ ProfileFails \/ EndProfile("configure") \/ ConfigureDone \/ BeginNetworks \/ NetworksFail
           \/ StartVmFails \/ ConnectFails \/ EndProfile("post-start") \/ PostStartDone
  <2>1. files' = files /\ (app' = "configured" => app' # app)
    BY <1>5 DEF BeginProfile, ProfileFails, EndProfile, ConfigureDone, BeginNetworks, NetworksFail, StartVmFails, ConnectFails,
                PostStartDone, Outside, VmsDone, InVms, InProfiles, Finish, FailStage, processVars
  <2>2. app' = "configured" => clean'
    BY <1>2, <2>1 DEF Succeeded
  <2>3. PICK fs : fs = files
    OBVIOUS
  <2> QED
    BY <1>1, <2>1, <2>2, <2>3, ContainerFilesKept
<1> QED
  BY <1>3, <1>4, <1>5 DEF ScaleNext

(* ContainerInv is an invariant.                                           *)
LEMMA ContainerInvAlways == Spec => []ContainerInv
<1>1. Init => ContainerInv
  BY DEF Init, ProcessInit, ContainerInv, ContainerFiles
<1>2. SentInv /\ ContainerInv /\ [Next]_vars => ContainerInv'
  <2> SUFFICES ASSUME SentInv, ContainerInv, [Next]_vars, IsScale'
               PROVE  ContainerFiles'
    BY DEF ContainerInv
  <2>1. scenario' = scenario /\ IsScale
    BY ScenarioIsKept, ScenarioStays
  <2>2. ScalePlaces /\ ContainerFiles
    BY <2>1 DEF SentInv, ContainerInv
  <2>3. PICK fs : fs = files
    OBVIOUS
  <2>4. CASE Configure \/ Start \/ UNCHANGED vars
    <3>1. files' = fs /\ (app' = "configured" => app' = app /\ clean' = clean)
      BY <2>1, <2>3, <2>4 DEF Configure, Start, Launch, vars, processVars
    <3>2. app' = "configured" => clean'
      BY <2>2, <3>1 DEF ContainerFiles
    <3> QED
      BY <2>1, <2>2, <2>3, <3>1, <3>2, ContainerFilesKept
  <2>5. CASE ScaleNext /\ clean' = (clean \/ Succeeded)
    BY <2>1, <2>2, <2>5, ContainerStep
  <2> QED
    BY <2>1, <2>2, <2>4, <2>5, TurbinesAreOfTheOtherApp DEF Next, Stages
<1> QED
  BY <1>1, <1>2, SentInvAlways, PTL DEF Spec

-----------------------------------------------------------------------------
(* What the other devices of a turbine serve.                              *)
Others == {"signal-converter", "yaw-controller", "blade-1", "blade-2", "blade-3"}

RegistersOf(type, columns) ==
  IF type = "signal-converter" THEN AnemometerRegisters(columns)
  ELSE IF type = "yaw-controller" THEN YawRegisters ELSE BladeRegisters

(* The sections of a device's configuration.                               *)
LEMMA SectionsAre ==
  /\ \A type, sections : Device(type, sections).sections = sections
  /\ \A at, anemo, yaw, blades, columns, federate :
       MainController(at, anemo, yaw, blades, columns, federate).sections = MainSections(at, anemo, yaw, blades, columns)
  BY DEF Device, MainController

(* A section by its fields, and the servers of a device.                   *)
LEMMA SectionIs ==
  /\ \A mode, proto, at, regs :
       LET s == Section(mode, proto, at, regs)
       IN  s.mode = mode /\ s.proto = proto /\ s.at = at /\ s.points = Points(regs)
  /\ \A at, regs : ToSet(Server(at, regs)) = {Section("server", "modbus", at, regs)}
<1>1. \A mode, proto, at, regs :
       LET s == Section(mode, proto, at, regs)
       IN  s.mode = mode /\ s.proto = proto /\ s.at = at /\ s.points = Points(regs)
  BY DEF Section
<1>2. ASSUME NEW s
      PROVE  ToSet(<<s>>) = {s}
  BY DEF ToSet
<1> QED
  BY <1>1, <1>2 DEF Server

(* The clients of a main controller are one for each of its devices.       *)
LEMMA ClientsOfMain ==
  ASSUME NEW at, NEW anemo, NEW yaw, NEW blades, IsList(blades), NEW columns,
         NEW c \in ToSet(MainSections(at, anemo, yaw, blades, columns)), c.mode = "client"
  PROVE  \/ c = Client(anemo, AnemometerRegisters(columns)) \/ c = Client(yaw, YawRegisters)
         \/ \E k \in DOMAIN blades : c = Client(blades[k], BladeRegisters)
<1> DEFINE ofBlades == [k \in DOMAIN blades |-> Client(blades[k], BladeRegisters)]
           a == Client(anemo, AnemometerRegisters(columns))
           b == Client(yaw, YawRegisters)
           d == Section("server", "dnp3", at, OutstationRegisters(columns))
<1>1. IsList(ofBlades) /\ ToSet(ofBlades) = {Client(blades[k], BladeRegisters) : k \in DOMAIN blades}
  <2>1. DOMAIN blades = 1..Len(blades) /\ Len(blades) \in Nat
    BY DEF IsList
  <2>2. PICK n \in Nat : DOMAIN blades = 1..n
    BY <2>1
  <2>3. ofBlades = [k \in 1..n |-> ofBlades[k]]
    BY <2>2
  <2>4. ofBlades \in Seq(ToSet(ofBlades)) /\ DOMAIN ofBlades = 1..n
    <3> HIDE DEF ofBlades
    <3> QED
      BY <2>3, FunctionIsSequence
  <2> QED
    BY <2>2, <2>4 DEF ToSet, IsList
<1>2. d.mode = "server"
  BY SectionIs
<1> HIDE DEF ofBlades, a, b, d
<1>3. ToSet(<<a, b>> \o ofBlades \o <<d>>) = {a, b} \cup ToSet(ofBlades) \cup {d}
  <2>1. IsList(<<a, b>>) /\ ToSet(<<a, b>>) = {a, b} /\ IsList(<<d>>) /\ ToSet(<<d>>) = {d}
    BY ShortLists
  <2>2. IsList(<<a, b>> \o ofBlades) /\ ToSet(<<a, b>> \o ofBlades) = {a, b} \cup ToSet(ofBlades)
    BY <1>1, <2>1, ListOfConcat
  <2>3. PICK x, y : x = <<a, b>> \o ofBlades /\ y = <<d>>
    OBVIOUS
  <2>4. IsList(x) /\ IsList(y) /\ ToSet(x) = {a, b} \cup ToSet(ofBlades) /\ ToSet(y) = {d}
    BY <2>1, <2>2, <2>3
  <2>5. ToSet(x \o y) = ToSet(x) \cup ToSet(y)
    BY <2>4, ListOfConcat
  <2> QED
    BY <2>3, <2>4, <2>5
<1>4. c \in {a, b} \cup ToSet(ofBlades) \cup {d}
  BY <1>3 DEF MainSections, a, b, d, ofBlades
<1>5. c = a \/ c = b \/ \E k \in DOMAIN blades : c = Client(blades[k], BladeRegisters)
  BY <1>1, <1>2, <1>4
<1> QED
  BY <1>5 DEF a, b

(* What the containers of a farm are configured as.                        *)
LEMMA ServersOfFarm ==
  ASSUME NEW p, NEW t, NEW type \in Others, NEW c, c = [turbine |-> t, type |-> type], NEW config, config = ContainerConfig(p, c)
  PROVE  /\ ToSet(config.sections) \subseteq {Section("server", "modbus", PrivateIp(t, type), RegistersOf(type, p.columns))}
         /\ (type = "signal-converter" => p.replay) =>
              Section("server", "modbus", PrivateIp(t, type), RegistersOf(type, p.columns)) \in ToSet(config.sections)
<1> DEFINE at == PrivateIp(t, type)
<1>1. c.type = type /\ c.turbine = t /\ TopologyIp(p, c) = at
  BY DEF TopologyIp, Others
<1> HIDE DEF at
<1>2. CASE type = "signal-converter"
  <2>1. config = Anemometer(at, p.columns, p.replay)
    BY <1>1, <1>2 DEF ContainerConfig
  <2>2. config.sections = IF p.replay THEN Server(at, AnemometerRegisters(p.columns)) ELSE << >>
    BY <2>1, SectionsAre DEF Anemometer
  <2>3. ToSet(<< >>) = {}
    BY ShortLists
  <2> QED
    BY <1>2, <2>2, <2>3, SectionIs DEF RegistersOf, at
<1>3. CASE type = "yaw-controller"
  <2>1. config = YawController(at)
    BY <1>1, <1>3 DEF ContainerConfig
  <2>2. config.sections = Server(at, YawRegisters)
    BY <2>1, SectionsAre DEF YawController
  <2> QED
    BY <1>3, <2>2, SectionIs DEF RegistersOf, at
<1>4. CASE type \in {"blade-1", "blade-2", "blade-3"}
  <2>1. config = BladeController(at)
    BY <1>1, <1>4 DEF ContainerConfig
  <2>2. config.sections = Server(at, BladeRegisters)
    BY <2>1, SectionsAre DEF BladeController
  <2> QED
    BY <1>4, <2>2, SectionIs DEF RegistersOf, at
<1> QED
  BY <1>2, <1>3, <1>4 DEF Others

LEMMA ClientsOfFarm ==
  ASSUME NEW p, NEW t, NEW c, c = [turbine |-> t, type |-> "main-controller"], NEW config, config = ContainerConfig(p, c),
         NEW s \in ToSet(config.sections), s.mode = "client"
  PROVE  \E type \in Others : s = Client(PrivateIp(t, type), RegistersOf(type, p.columns))
<1> DEFINE ip(type) == PrivateIp(t, type)
           blades == <<ip("blade-1"), ip("blade-2"), ip("blade-3")>>
           at == TopologyIp(p, c)
<1>1. c.type = "main-controller" /\ c.turbine = t
  OBVIOUS
<1>2. \E federate : config = MainController(at, ip("signal-converter"), ip("yaw-controller"), blades, p.columns, federate)
  <2>1. config = MainController(at, ip("signal-converter"), ip("yaw-controller"), blades, p.columns, UsesHelics(p))
    BY <1>1 DEF ContainerConfig
  <2> QED
    BY <2>1, Zenon
<1>3. config.sections = MainSections(at, ip("signal-converter"), ip("yaw-controller"), blades, p.columns)
  BY <1>2, SectionsAre
<1>4. IsList(blades) /\ DOMAIN blades = {1, 2, 3}
  BY ShortLists
<1> HIDE DEF blades, at
<1>5. \/ s = Client(ip("signal-converter"), AnemometerRegisters(p.columns)) \/ s = Client(ip("yaw-controller"), YawRegisters)
      \/ \E k \in DOMAIN blades : s = Client(blades[k], BladeRegisters)
  BY <1>3, <1>4, ClientsOfMain
<1>6. \A k \in DOMAIN blades : blades[k] \in {ip("blade-1"), ip("blade-2"), ip("blade-3")}
  BY <1>4 DEF blades
<1>7. /\ RegistersOf("signal-converter", p.columns) = AnemometerRegisters(p.columns) /\ RegistersOf("yaw-controller", p.columns) = YawRegisters
      /\ \A type \in {"blade-1", "blade-2", "blade-3"} : RegistersOf(type, p.columns) = BladeRegisters
  BY DEF RegistersOf
<1> QED
  BY <1>5, <1>6, <1>7 DEF Others

-----------------------------------------------------------------------------
(* A farm's name tells it.                                                 *)
LEMMA FarmsHaveNames ==
  ASSUME ScenariosKeepDevicesApart, scenario \in Scenarios, IsScale,
         NEW k \in DOMAIN Profiles, NEW l \in DOMAIN Profiles, IsFarm(Profiles[k]), Profiles[k].name = Profiles[l].name
  PROVE  k = l
<1> DEFINE given(j) == scenario.profiles[j]
<1>1. DOMAIN Profiles = DOMAIN scenario.profiles
  BY DEF Profiles
<1>2. FarmsAreApart(scenario) /\ \A j \in DOMAIN scenario.profiles : IsProfile(given(j))
  BY ScenarioAssumption DEF ScenariosKeepDevicesApart, IsScale
<1>3. ASSUME NEW j \in DOMAIN Profiles
      PROVE  Profiles[j].name = NameOf(scenario, given(j)) /\ (IsFarm(Profiles[j]) <=> IsFarm(given(j)))
  <2>1. PICK p, q, name : p = given(j) /\ q = Profiles[j] /\ name = NameOf(scenario, p)
    OBVIOUS
  <2>2. IsProfile(p) /\ q = [p EXCEPT !.name = name]
    BY <1>1, <1>2, <2>1 DEF Profiles
  <2>3. q.name = name /\ q.plugin = p.plugin
    BY <2>2, NamedIsProfile
  <2> QED
    BY <2>1, <2>3 DEF IsFarm, PluginName
<1> QED
  BY <1>1, <1>2, <1>3 DEF FarmsAreApart

(* In the directory of the app the file of a farm's container is its own.  *)
LEMMA FileOfContainer ==
  ASSUME ScenariosKeepDevicesApart, IsScale, ScalePlaces, ConfigFiles, ContainerFiles, clean,
         NEW v \in ProfileVms, IsFarm(Profiles[v[1]]), NEW n \in 1..ContainerCount(Profiles[v[1]], v[2])
  PROVE  LET path == ConfigFile(Host(v), n)
         IN  path \in Configs /\ files[path] = Configuration(v, n) /\ path[2][1] = Profiles[v[1]].name
<1> DEFINE path == ConfigFile(Host(v), n)
<1>1. path \in DOMAIN files
  BY DEF ConfigFiles, Configured
<1>2. IsConfig(path) /\ path \in Configs
  BY <1>1, WhatIsConfig DEF Configs, IsConfig
<1>3. PICK w, m : /\ w \in ProfileVms /\ m \in 1..ContainerCount(Profiles[w[1]], w[2])
                   /\ IsFarm(Profiles[w[1]]) /\ path = ConfigFile(Host(w), m) /\ files[path] = Configuration(w, m)
  BY <1>1, <1>2 DEF ContainerFiles, OfContainer
<1>4. Host(v) = Host(w) /\ m = n
  BY <1>3 DEF ConfigFile
<1>5. /\ Host(v)[1] = Profiles[v[1]].name /\ Host(v)[2] = v[2]
      /\ Host(w)[1] = Profiles[w[1]].name /\ Host(w)[2] = w[2]
  BY <1>3 DEF Host, Hostname
<1>6. v[2] = w[2] /\ Profiles[v[1]].name = Profiles[w[1]].name
  BY <1>4, <1>5
<1>7. v = <<v[1], v[2]>> /\ w = <<w[1], w[2]>> /\ v[1] \in DOMAIN Profiles /\ w[1] \in DOMAIN Profiles
  BY <1>3, VmsHavePlaces
<1>8. v[1] = w[1]
  BY <1>6, <1>7, FarmsHaveNames DEF ScalePlaces
<1>9. files[path] = Configuration(v, n)
  BY <1>3, <1>4, <1>6, <1>7, <1>8
<1>10. path[2][1] = Profiles[v[1]].name
  BY <1>5 DEF ConfigFile
<1> QED
  BY <1>2, <1>9, <1>10

(* A main controller's clients find their servers in the same farm.        *)
LEMMA FarmClientsFindServers ==
  ASSUME ScenariosKeepDevicesApart, IsScale, ScalePlaces, ConfigFiles, ContainerFiles, clean,
         NEW f \in Configs, NEW c \in SectionsOf(f, "client"), IsAnemometer(c.at) => Replays(f)
  PROVE  \E g \in Configs : SameFarm(f, g) /\ \E s \in SectionsOf(g, "server") :
            s.at = c.at /\ ToSet(c.points) \subseteq ToSet(s.points)
<1>1. PICK v, n : /\ v \in ProfileVms /\ n \in 1..ContainerCount(Profiles[v[1]], v[2])
                   /\ IsFarm(Profiles[v[1]]) /\ f = ConfigFile(Host(v), n) /\ files[f] = Configuration(v, n)
  BY DEF Configs, ContainerFiles, OfContainer, IsConfig
<1>2. PICK k, i, p : k = v[1] /\ i = v[2] /\ p = Profiles[k]
  OBVIOUS
<1>3. /\ k \in DOMAIN Profiles /\ i \in 1..NodeCount(p) /\ NodeCount(p) \in Nat /\ v = <<k, i>>
      /\ IsProfile(p) /\ IsFarm(p) /\ n \in 1..ContainerCount(p, i) /\ scenario \in Scenarios
  BY <1>1, <1>2, VmsHavePlaces, ProfilesAreProfiles DEF ScalePlaces
<1>4. p.count >= 1 /\ p.count \in Nat
  <2>1. p.count \in Nat
    BY <1>3 DEF IsProfile
  <2>2. CASE Nests(p)
    BY <1>3, <2>1, <2>2 DEF Nests, Containers
  <2>3. CASE ~Nests(p)
    BY <1>3, <2>1, <2>3 DEF NodeCount
  <2> QED
    BY <2>1, <2>2, <2>3
<1>5. Nests(p) /\ IsOfTurbine(p, i, n)
  BY <1>3, <1>4, ContainerOfFarm
<1>6. PICK t \in 1..p.count, j \in 1..6 : FarmContainers(p, i)[n] = [turbine |-> t, type |-> Components[j]]
  BY <1>5 DEF IsOfTurbine
<1>7. /\ Components[1] = "main-controller" /\ \A x \in 2..6 : Components[x] \in Others
      /\ \A type \in Others : \E x \in 2..6 : Components[x] = type
  BY DEF Components, Others
<1>8. /\ files[f] = ContainerConfig(p, [turbine |-> t, type |-> Components[j]])
      /\ c \in ToSet(files[f].sections) /\ c.mode = "client" /\ f[2][1] = p.name
  BY <1>1, <1>2, <1>6, <1>3, FileOfContainer DEF Configuration, SectionsOf
<1>9. j = 1
  <2> SUFFICES ASSUME j \in 2..6
               PROVE  FALSE
    BY <1>6
  <2>1. PICK type, d : type = Components[j] /\ d = [turbine |-> t, type |-> type]
    OBVIOUS
  <2>2. PICK config : config = files[f]
    OBVIOUS
  <2>3. type \in Others /\ config = ContainerConfig(p, d) /\ c \in ToSet(config.sections)
    BY <1>7, <1>8, <2>1, <2>2
  <2>4. ToSet(config.sections) \subseteq {Section("server", "modbus", PrivateIp(t, type), RegistersOf(type, p.columns))}
    BY <2>1, <2>3, ServersOfFarm
  <2>5. c = Section("server", "modbus", PrivateIp(t, type), RegistersOf(type, p.columns))
    BY <2>3, <2>4
  <2>6. c.mode = "server"
    BY <2>5, SectionIs
  <2> QED
    BY <1>8, <2>6
<1>10. PICK type \in Others : c = Client(PrivateIp(t, type), RegistersOf(type, p.columns))
  BY <1>7, <1>8, <1>9, ClientsOfFarm
<1>11. c.at = PrivateIp(t, type) /\ c.points = Points(RegistersOf(type, p.columns))
  BY <1>10, SectionIs DEF Client
<1>12. type = "signal-converter" => p.replay
  <2> SUFFICES ASSUME type = "signal-converter"
               PROVE  p.replay
    OBVIOUS
  <2>1. IsAnemometer(c.at)
    BY <1>11 DEF IsAnemometer, PrivateIp
  <2>2. PICK l \in DOMAIN Profiles : Profiles[l].name = f[2][1] /\ Profiles[l].replay
    BY <2>1 DEF Replays
  <2>3. Profiles[k].name = Profiles[l].name
    BY <1>2, <1>8, <2>2
  <2>4. k = l
    BY <1>2, <1>3, <2>3, FarmsHaveNames
  <2> QED
    BY <1>2, <2>2, <2>4
<1>13. PICK x \in 2..6 : Components[x] = type
  BY <1>7
<1>14. PICK h, m : h \in 1..NodeCount(p) /\ m \in 1..ContainerCount(p, h) /\ VmNumber(p, h, m) = FarmNumber(t, x)
  BY <1>3, <1>5, TurbineHasPlace
<1>15. FarmContainers(p, h)[m] = [turbine |-> t, type |-> type]
  <2>1. PICK d : d = [turbine |-> t, type |-> Components[x]]
    OBVIOUS
  <2>2. h \in Nat \ {0} /\ t \in Nat \ {0} /\ x \in 1..6
    BY <1>3, <1>4, <1>14
  <2>3. FarmContainers(p, h)[m] = d
    BY <1>3, <1>5, <1>14, <2>1, <2>2, ContainerOfPlace
  <2> QED
    BY <1>13, <2>1, <2>3
<1>16. PICK w : w = <<k, h>>
  OBVIOUS
<1>17. w \in ProfileVms /\ w[1] = k /\ w[2] = h
  BY <1>2, <1>3, <1>14, <1>16 DEF ProfileVms
<1>18. PICK g : g = ConfigFile(Host(w), m)
  OBVIOUS
<1>19. g \in Configs /\ files[g] = Configuration(w, m) /\ g[2][1] = p.name
  BY <1>2, <1>3, <1>14, <1>17, <1>18, FileOfContainer
<1>20. files[g] = ContainerConfig(p, [turbine |-> t, type |-> type])
  BY <1>2, <1>15, <1>17, <1>19 DEF Configuration
<1>21. PICK s : s = Section("server", "modbus", PrivateIp(t, type), RegistersOf(type, p.columns))
  OBVIOUS
<1>22. s \in ToSet(files[g].sections)
  BY <1>12, <1>20, <1>21, ServersOfFarm
<1>23. s.mode = "server" /\ s.proto = "modbus" /\ s.at = c.at /\ s.points = c.points
  BY <1>11, <1>21, SectionIs
<1>24. s \in SectionsOf(g, "server")
  BY <1>22, <1>23 DEF SectionsOf
<1>25. SameFarm(f, g)
  BY <1>8, <1>19 DEF SameFarm
<1> QED
  BY <1>19, <1>23, <1>24, <1>25

-----------------------------------------------------------------------------
(* The standalone app.  Its turbines are a list, and so are their blades   *)
(* and the injects of their hosts.                                         *)
LEMMA TurbinesAreListed ==
  ASSUME scenario \in Scenarios, ~IsScale
  PROVE  /\ IsTopology(scenario.topology) /\ SameMachines(scenario.topology, scenario.topology)
         /\ IsList(Turbines) /\ \A t \in ToSet(Turbines) : IsList(t.blades) /\ IsList(t.host.injects)
<1> DEFINE hosts == scenario.hosts
           S == {h \in ToSet(hosts) : h.type = "main-controller"}
           mains == Select(hosts, S)
           of(h) == [k \in DOMAIN h.turbines |-> Overlay([host |-> h], h.turbines[k])]
           lists == [k \in DOMAIN mains |-> of(mains[k])]
           U == UNION {ToSet(of(h)) : h \in ToSet(hosts)}
<1>1. /\ IsTopology(scenario.topology) /\ \A j \in DOMAIN scenario.topology : "ifaces" \in DOMAIN scenario.topology[j]
      /\ IsList(hosts) /\ \A h \in ToSet(hosts) : IsHostOfTurbines(h)
  BY ScenarioAssumption DEF IsMachine, IsScale, IsList, ToSet
<1>2. Turbines = FlattenSeq(lists)
  BY DEF Turbines, TurbinesOf, Hosts
<1>3. IsList(mains) /\ ToSet(mains) \subseteq ToSet(hosts)
  <2> HIDE DEF S, hosts
  <2>1. Select(hosts, S) \in Seq(ToSet(hosts)) /\ ToSet(Select(hosts, S)) = ToSet(hosts) \cap S
    BY <1>1, SelectIs DEF IsList
  <2> QED
    BY <2>1, ListOfSequence
<1>4. ASSUME NEW h \in ToSet(hosts)
      PROVE  of(h) \in Seq(U)
  <2>1. PICK n \in Nat : DOMAIN h.turbines = 1..n
    BY <1>1 DEF IsHostOfTurbines
  <2>2. PICK f : f = of(h)
    OBVIOUS
  <2>3. f = [k \in 1..n |-> f[k]]
    BY <2>1, <2>2
  <2>4. f \in Seq(ToSet(f))
    BY <2>3, FunctionIsSequence
  <2>5. ToSet(f) \subseteq U
    BY <2>2
  <2> HIDE DEF U, of
  <2> QED
    BY <2>2, <2>4, <2>5, SeqMonotonic
<1>5. lists \in Seq(Seq(U))
  <2> HIDE DEF U, of
  <2>1. PICK n \in Nat : DOMAIN mains = 1..n
    <3> HIDE DEF mains
    <3> QED
      BY <1>3 DEF IsList
  <2>2. \A k \in 1..n : mains[k] \in ToSet(hosts)
    <3> HIDE DEF mains, hosts
    <3> QED
      BY <1>3, <2>1 DEF ToSet
  <2>3. PICK f : f = lists
    OBVIOUS
  <2>4. f = [k \in 1..n |-> f[k]] /\ \A k \in 1..n : f[k] \in Seq(U)
    <3> HIDE DEF mains
    <3> QED
      BY <1>4, <2>1, <2>2, <2>3
  <2>5. f \in Seq(ToSet(f)) /\ DOMAIN f = 1..n
    BY <2>4, FunctionIsSequence
  <2>6. ToSet(f) \subseteq Seq(U)
    BY <2>4, <2>5 DEF ToSet
  <2>7. f \in Seq(Seq(U))
    BY <2>5, <2>6, SeqMonotonic
  <2> QED
    BY <2>3, <2>7
<1>6. IsList(Turbines) /\ ToSet(Turbines) \subseteq U
  <2> HIDE DEF U, lists
  <2>1. Turbines \in Seq(U)
    BY <1>2, <1>5, FlattenIs
  <2> QED
    BY <2>1, ListOfSequence
<1>7. ASSUME NEW t \in U
      PROVE  IsList(t.blades) /\ IsList(t.host.injects)
  <2>1. PICK h \in ToSet(hosts) : t \in ToSet(of(h))
    BY <1>7
  <2>2. PICK k \in DOMAIN h.turbines : t = Overlay([host |-> h], h.turbines[k])
    BY <2>1 DEF ToSet
  <2>3. PICK u : u = h.turbines[k]
    OBVIOUS
  <2>4. IsList(h.injects) /\ "blades" \in DOMAIN u /\ IsList(u.blades)
    BY <1>1, <2>3 DEF IsHostOfTurbines, IsList
  <2>5. t.host = h /\ t.blades = u.blades
    BY <2>2, <2>3, <2>4 DEF Overlay
  <2> QED
    BY <2>4, <2>5
<1>8. SameMachines(scenario.topology, scenario.topology)
  BY <1>1 DEF SameMachines
<1> QED
  BY <1>1, <1>6, <1>7, <1>8

(* The devices of a turbine, as the variable device counts them.           *)
Devices(t) == 1..(Len(t.blades) + 3)

DeviceHost(t, d) ==
  IF d = 1 THEN t.main ELSE IF d = 2 THEN t.anemo ELSE IF d = 3 THEN t.yaw ELSE t.blades[d - 3]

(* No start changes where a host is.                                       *)
Home(hostname) == ExtractNodeInterfaceIp(scenario.topology, hostname, None)

IsMainConfig(config, t) ==
  config.sections = MainSections(Home(t.main), Home(t.anemo), Home(t.yaw), [k \in DOMAIN t.blades |-> Home(t.blades[k])],
                                 ColumnsOf(scenario, t))

IsDeviceConfig(config, t, d) ==
  IF d = 1 THEN IsMainConfig(config, t)
  ELSE config.sections = Server(Home(DeviceHost(t, d)),
                                IF d = 2 THEN AnemometerRegisters(ColumnsOf(scenario, t))
                                ELSE IF d = 3 THEN YawRegisters ELSE BladeRegisters)

OfDevice(path, content) ==
  \E t \in ToSet(Turbines) : \E d \in Devices(t) :
    path = AppConfigFile(DeviceHost(t, d)) /\ IsDeviceConfig(content, t, d)

(* The devices the stage has had its turn with.                            *)
HadTurn(n, d) == app = "started" \/ (app = "wind-turbine" /\ (n < step.i \/ (n = step.i /\ d < device)))

TurbinePlaces ==
  /\ scenario \in Scenarios /\ app \in {"none", "wind-turbine", "started", "failed"}
  /\ step \in [loop : {"none", "turbines"}, i : Nat \ {0}] /\ device \in Nat \ {0}
  /\ app # "wind-turbine" => device = 1

TurbineTopology ==
  /\ SameMachines(scenario.topology, doc)
  /\ app = "wind-turbine" => SameMachines(scenario.topology, nodes)

TurbineFiles ==
  /\ \A path \in DOMAIN files : OfDevice(path, files[path])
  /\ \A n \in DOMAIN Turbines : \A d \in Devices(Turbines[n]) :
       HadTurn(n, d) => AppConfigFile(DeviceHost(Turbines[n], d)) \in DOMAIN files

(* The inductive invariant of the standalone app.                          *)
TurbineInv == ~IsScale => TurbinePlaces /\ TurbineTopology /\ TurbineFiles

(* What is worked out from the scenario stays.                             *)
LEMMA ScenarioStaysForTurbines ==
  ASSUME scenario' = scenario
  PROVE  /\ Turbines' = Turbines /\ \A path, content : OfDevice(path, content)' = OfDevice(path, content)
<1>1. Turbines' = Turbines
  BY DEF Turbines, Hosts
<1>2. \A hostname : Home(hostname)' = Home(hostname)
  BY DEF Home
<1>3. \A config, t : IsMainConfig(config, t)' = IsMainConfig(config, t)
  BY <1>2 DEF IsMainConfig
<1>4. \A config, t, d : IsDeviceConfig(config, t, d)' = IsDeviceConfig(config, t, d)
  BY <1>2, <1>3 DEF IsDeviceConfig
<1>5. \A path, content : OfDevice(path, content)' = OfDevice(path, content)
  BY <1>1, <1>4 DEF OfDevice
<1> QED
  BY <1>1, <1>5

(* TurbineFiles holds after a step that adds at most configurations of     *)
(* devices, and that of every device whose turn is over by then.           *)
LEMMA TurbineFilesKept ==
  ASSUME TurbineFiles, scenario' = scenario, NEW fs, files' = fs, DOMAIN files \subseteq DOMAIN fs,
         \A path \in DOMAIN fs : (path \in DOMAIN files /\ fs[path] = files[path]) \/ OfDevice(path, fs[path]),
         \A n \in DOMAIN Turbines : \A d \in Devices(Turbines[n]) :
           HadTurn(n, d)' => HadTurn(n, d) \/ AppConfigFile(DeviceHost(Turbines[n], d)) \in DOMAIN fs
  PROVE  TurbineFiles'
<1>1. Turbines' = Turbines /\ \A path, content : OfDevice(path, content)' = OfDevice(path, content)
  BY ScenarioStaysForTurbines
<1>2. \A path \in DOMAIN fs : OfDevice(path, fs[path])
  BY DEF TurbineFiles
<1>3. \A path \in DOMAIN fs : OfDevice(path, fs[path])'
  BY <1>1, <1>2
<1>4. \A n \in DOMAIN Turbines : \A d \in Devices(Turbines[n]) :
        HadTurn(n, d)' => AppConfigFile(DeviceHost(Turbines[n], d)) \in DOMAIN fs
  BY DEF TurbineFiles
<1> QED
  BY <1>1, <1>3, <1>4 DEF TurbineFiles

(* The turn of one device of a turbine.                                    *)
LEMMA DeviceTurn ==
  ASSUME TurbinePlaces, TurbineFiles, scenario' = scenario, app = "wind-turbine", app' = app, step.i \in DOMAIN Turbines,
         NEW t, t = ThisTurbine, IsList(t.blades), device \in Devices(t),
         NEW config, IsDeviceConfig(config, t, device), Write(AppConfigFile(DeviceHost(t, device)), config), NextDevice
  PROVE  TurbineFiles'
<1> DEFINE path == AppConfigFile(DeviceHost(t, device))
           fs == Overlay(File(path, config), files)
<1>1. OfDevice(path, config)
  <2>1. t \in ToSet(Turbines)
    BY DEF ThisTurbine, ToSet
  <2> QED
    BY <2>1 DEF OfDevice
<1>2. files' = fs
  BY DEF Write
<1> HIDE DEF path
<1>3. /\ DOMAIN files \subseteq DOMAIN fs /\ path \in DOMAIN fs
      /\ \A x \in DOMAIN fs : (x \in DOMAIN files /\ fs[x] = files[x]) \/ (x = path /\ fs[x] = config)
  BY OverlayValues DEF File
<1> HIDE DEF fs
<1>4. \A x \in DOMAIN fs : (x \in DOMAIN files /\ fs[x] = files[x]) \/ OfDevice(x, fs[x])
  BY <1>1, <1>3
<1>5. ASSUME NEW n \in DOMAIN Turbines, NEW d \in Devices(Turbines[n]), HadTurn(n, d)'
      PROVE  HadTurn(n, d) \/ AppConfigFile(DeviceHost(Turbines[n], d)) \in DOMAIN fs
  <2>1. n < step.i \/ (n = step.i /\ d < device + 1)
    BY <1>5 DEF HadTurn, NextDevice
  <2>2. d \in Nat /\ device \in Nat
    BY DEF Devices, TurbinePlaces
  <2>3. HadTurn(n, d) \/ (n = step.i /\ d = device)
    BY <2>1, <2>2 DEF HadTurn
  <2>4. n = step.i /\ d = device => AppConfigFile(DeviceHost(Turbines[n], d)) = path
    BY DEF path, ThisTurbine
  <2> QED
    BY <1>3, <2>3, <2>4
<1> QED
  BY <1>2, <1>3, <1>4, <1>5, TurbineFilesKept

(* The main controller's turn.                                             *)
LEMMA MainTurn ==
  ASSUME ~IsScale, TurbinePlaces, TurbineTopology, TurbineFiles, MainControllerConfigured
  PROVE  TurbineTopology' /\ TurbineFiles'
<1> DEFINE base == scenario.topology
<1>1. PICK t : t = ThisTurbine
  OBVIOUS
<1>2. scenario' = scenario /\ app = "wind-turbine" /\ app' = app /\ step.i <= Len(Turbines) /\ device = 1 /\ doc' = doc
  BY DEF MainControllerConfigured, InTurbine
<1>3. IsTopology(base) /\ step.i \in DOMAIN Turbines /\ IsList(t.blades) /\ IsList(t.host.injects) /\ Len(t.blades) \in Nat
  <2>1. IsTopology(base) /\ IsList(Turbines) /\ \A u \in ToSet(Turbines) : IsList(u.blades) /\ IsList(u.host.injects)
    BY TurbinesAreListed DEF TurbinePlaces
  <2>2. step.i \in DOMAIN Turbines
    BY <1>2, <2>1 DEF IsList, TurbinePlaces
  <2>3. t \in ToSet(Turbines)
    BY <1>1, <2>2 DEF ThisTurbine, ToSet
  <2> QED
    BY <2>1, <2>2, <2>3 DEF IsList
<1>4. SameMachines(base, doc) /\ SameMachines(base, nodes)
  BY <1>2 DEF TurbineTopology
<1> HIDE DEF base
<1>5. TurbineTopology'
  <2>1. PICK list : list = Append(t.host.injects, AppConfigInject(t.main))
    OBVIOUS
  <2>2. IsList(list)
    BY <1>3, <2>1, ListOfAppend
  <2>3. PICK ns : ns = AddFederate(nodes, t)
    OBVIOUS
  <2>4. SameMachines(base, ns)
    BY <1>4, <2>3, AnnotationKeepsMachines DEF AddFederate
  <2>5. nodes' = AddInjects(ns, t.main, list)
    BY <1>1, <2>1, <2>3 DEF MainControllerConfigured
  <2>6. SameMachines(base, nodes)'
    BY <1>2, <2>2, <2>4, <2>5, InjectsKeepMachines DEF base
  <2> QED
    BY <1>2, <1>4, <2>6 DEF TurbineTopology, base
<1>6. \A hostname : Address(hostname) = Home(hostname)
  BY <1>3, <1>4, SameAddresses DEF Address, Home, base
<1> DEFINE blades == [k \in DOMAIN t.blades |-> Home(t.blades[k])]
<1>7. \E federate :
        Write(AppConfigFile(t.main),
              MainController(Home(t.main), Home(t.anemo), Home(t.yaw), blades, ColumnsOf(scenario, t), federate))
  <2>1. Write(AppConfigFile(t.main),
              MainController(Address(t.main), Address(t.anemo), Address(t.yaw),
                             [k \in DOMAIN t.blades |-> Address(t.blades[k])], MainColumns(t), t.host.topic))
    BY <1>1 DEF MainControllerConfigured
  <2>2. [k \in DOMAIN t.blades |-> Address(t.blades[k])] = blades
    BY <1>6
  <2> HIDE DEF blades
  <2>3. Write(AppConfigFile(t.main),
              MainController(Home(t.main), Home(t.anemo), Home(t.yaw), blades, ColumnsOf(scenario, t), t.host.topic))
    BY <1>6, <2>1, <2>2 DEF MainColumns
  <2> QED
    BY <2>3, Zenon
<1>8. PICK federate :
        Write(AppConfigFile(t.main),
              MainController(Home(t.main), Home(t.anemo), Home(t.yaw), blades, ColumnsOf(scenario, t), federate))
  BY <1>7
<1>9. PICK config : config = MainController(Home(t.main), Home(t.anemo), Home(t.yaw), blades, ColumnsOf(scenario, t), federate)
  OBVIOUS
<1>10. IsDeviceConfig(config, t, device)
  <2>1. config.sections = MainSections(Home(t.main), Home(t.anemo), Home(t.yaw), blades, ColumnsOf(scenario, t))
    BY <1>9, SectionsAre
  <2> QED
    BY <1>2, <2>1 DEF IsDeviceConfig, IsMainConfig
<1>11. Write(AppConfigFile(DeviceHost(t, device)), config) /\ NextDevice
  BY <1>2, <1>8, <1>9 DEF DeviceHost, MainControllerConfigured
<1>12. device \in Devices(t)
  BY <1>2, <1>3 DEF Devices
<1> QED
  BY <1>1, <1>2, <1>3, <1>5, <1>10, <1>11, <1>12, DeviceTurn

(* The turn of another device.                                             *)
LEMMA OtherTurn ==
  ASSUME ~IsScale, TurbinePlaces, TurbineTopology, TurbineFiles,
         AnemometerConfigured \/ YawConfigured \/ BladeConfigured
  PROVE  TurbineTopology' /\ TurbineFiles'
<1> DEFINE base == scenario.topology
<1>1. PICK t : t = ThisTurbine
  OBVIOUS
<1>2. /\ scenario' = scenario /\ app = "wind-turbine" /\ app' = app /\ step.i <= Len(Turbines) /\ doc' = doc /\ NextDevice
      /\ device \in {2, 3} \/ (device \in Nat /\ device >= 4 /\ device - 3 <= Len(t.blades))
  BY <1>1 DEF AnemometerConfigured, YawConfigured, BladeConfigured, InTurbine, WithConfig, TurbinePlaces
<1>3. IsTopology(base) /\ step.i \in DOMAIN Turbines /\ IsList(t.blades) /\ Len(t.blades) \in Nat
  <2>1. IsTopology(base) /\ IsList(Turbines) /\ \A u \in ToSet(Turbines) : IsList(u.blades)
    BY TurbinesAreListed DEF TurbinePlaces
  <2>2. step.i \in DOMAIN Turbines
    BY <1>2, <2>1 DEF IsList, TurbinePlaces
  <2>3. t \in ToSet(Turbines)
    BY <1>1, <2>2 DEF ThisTurbine, ToSet
  <2> QED
    BY <2>1, <2>2, <2>3 DEF IsList
<1>4. SameMachines(base, doc) /\ SameMachines(base, nodes)
  BY <1>2 DEF TurbineTopology
<1> HIDE DEF base
<1>5. \A hostname : Address(hostname) = Home(hostname)
  BY <1>3, <1>4, SameAddresses DEF Address, Home, base
<1> DEFINE h == DeviceHost(t, device)
           regs == IF device = 2 THEN AnemometerRegisters(ColumnsOf(scenario, t))
                   ELSE IF device = 3 THEN YawRegisters ELSE BladeRegisters
<1>6. \E injects, config : IsList(injects) /\ WithConfig(h, injects, config) /\ config.sections = Server(Home(h), regs)
  <2>1. CASE AnemometerConfigured
    <3>1. device = 2 /\ h = t.anemo /\ regs = AnemometerRegisters(ColumnsOf(scenario, t))
      BY <2>1 DEF AnemometerConfigured, InTurbine, DeviceHost
    <3>2. PICK injects, config : /\ injects = <<[src |-> Replay(t), dst |-> "weather"]>>
                                 /\ config = Anemometer(Home(t.anemo), ColumnsOf(scenario, t), TRUE)
      OBVIOUS
    <3>3. WithConfig(t.anemo, injects, config)
      BY <1>1, <1>5, <2>1, <3>2 DEF AnemometerConfigured
    <3>4. config.sections = Server(Home(t.anemo), AnemometerRegisters(ColumnsOf(scenario, t)))
      BY <3>2, SectionsAre DEF Anemometer
    <3>5. IsList(injects)
      BY <3>2, ShortLists
    <3> HIDE DEF h, regs
    <3> QED
      BY <3>1, <3>3, <3>4, <3>5
  <2>2. CASE YawConfigured
    <3>1. device = 3 /\ h = t.yaw /\ regs = YawRegisters
      BY <2>2 DEF YawConfigured, InTurbine, DeviceHost
    <3>2. PICK injects, config : injects = << >> /\ config = YawController(Home(t.yaw))
      OBVIOUS
    <3>3. WithConfig(t.yaw, injects, config)
      BY <1>1, <1>5, <2>2, <3>2 DEF YawConfigured
    <3>4. config.sections = Server(Home(t.yaw), YawRegisters)
      BY <3>2, SectionsAre DEF YawController
    <3>5. IsList(injects)
      BY <3>2, ShortLists
    <3> HIDE DEF h, regs
    <3> QED
      BY <3>1, <3>3, <3>4, <3>5
  <2>3. CASE BladeConfigured
    <3>0. device >= 4 /\ device \in Nat
      BY <2>3 DEF BladeConfigured, TurbinePlaces
    <3>1. h = t.blades[device - 3] /\ regs = BladeRegisters
      BY <3>0 DEF DeviceHost
    <3>2. PICK injects, config : injects = << >> /\ config = BladeController(Home(h))
      OBVIOUS
    <3> HIDE DEF h, regs
    <3>3. WithConfig(h, injects, config)
      BY <1>1, <1>5, <2>3, <3>1, <3>2 DEF BladeConfigured
    <3>4. config.sections = Server(Home(h), BladeRegisters)
      BY <3>2, SectionsAre DEF BladeController
    <3>5. IsList(injects)
      BY <3>2, ShortLists
    <3> QED
      BY <3>1, <3>3, <3>4, <3>5
  <2> QED
    BY <2>1, <2>2, <2>3
<1>7. PICK injects, config : IsList(injects) /\ WithConfig(h, injects, config) /\ config.sections = Server(Home(h), regs)
  BY <1>6
<1>8. TurbineTopology'
  <2>1. PICK list : list = Append(injects, AppConfigInject(h))
    OBVIOUS
  <2>2. IsList(list)
    BY <1>7, <2>1, ListOfAppend
  <2> HIDE DEF h
  <2>3. nodes' = AddInjects(nodes, h, list)
    BY <1>7, <2>1 DEF WithConfig
  <2>4. SameMachines(base, nodes)'
    BY <1>2, <1>4, <2>2, <2>3, InjectsKeepMachines DEF base
  <2> QED
    BY <1>2, <1>4, <2>4 DEF TurbineTopology, base
<1>9. IsDeviceConfig(config, t, device)
  BY <1>2, <1>7 DEF IsDeviceConfig
<1>10. Write(AppConfigFile(DeviceHost(t, device)), config)
  BY <1>7 DEF WithConfig
<1>11. device \in Devices(t)
  BY <1>2, <1>3 DEF Devices
<1> QED
  BY <1>1, <1>2, <1>3, <1>8, <1>9, <1>10, <1>11, DeviceTurn

(* The steps between turns, and those that end the stage.                  *)
LEMMA TurbinesOtherwise ==
  ASSUME ~IsScale, TurbinePlaces, TurbineTopology, TurbineFiles, Start \/ NextTurbine \/ TurbineFails \/ TurbinesDone \/ UNCHANGED vars
  PROVE  TurbineTopology' /\ TurbineFiles'
<1>1. scenario' = scenario /\ files' = files
  BY DEF Start, NextTurbine, TurbineFails, TurbinesDone, Raise, vars, processVars
<1>2. IsList(Turbines) /\ DOMAIN Turbines = 1..Len(Turbines) /\ Len(Turbines) \in Nat
  BY TurbinesAreListed DEF TurbinePlaces, IsList
<1>3. TurbineTopology'
  BY <1>1 DEF TurbineTopology, Start, NextTurbine, TurbineFails, TurbinesDone, Raise, Finish, Launch, InTurbine, vars, processVars
<1>4. ASSUME NEW n \in DOMAIN Turbines, NEW d \in Devices(Turbines[n]), HadTurn(n, d)'
      PROVE  HadTurn(n, d)
  <2>1. n \in Nat /\ n >= 1 /\ n <= Len(Turbines) /\ d \in Nat /\ d >= 1
    BY <1>2 DEF Devices
  <2>2. CASE Start
    <3>1. app' = "wind-turbine" /\ step'.i = 1 /\ device' = 1
      BY <2>2 DEF Start, Launch, GoTo, TurbinePlaces, Idle, turbineVars
    <3> QED
      BY <1>4, <2>1, <3>1 DEF HadTurn
  <2>3. CASE NextTurbine
    <3>1. app = "wind-turbine" /\ app' = app /\ step'.i = step.i + 1 /\ device' = 1 /\ step.i \in Nat /\ device \in Nat
      BY <2>3 DEF NextTurbine, InTurbine, Again, TurbinePlaces
    <3>2. n < step.i \/ n = step.i
      BY <1>4, <2>1, <3>1 DEF HadTurn
    <3>3. n = step.i => d < device
      <4> SUFFICES ASSUME n = step.i
                   PROVE  d < device
        OBVIOUS
      <4>1. PICK t : t = Turbines[n]
        OBVIOUS
      <4>2. t \in ToSet(Turbines)
        BY <4>1 DEF ToSet
      <4>3. Len(t.blades) \in Nat
        BY <4>2, TurbinesAreListed DEF TurbinePlaces, IsList
      <4>4. device - 3 > Len(t.blades) /\ d <= Len(t.blades) + 3
        BY <2>3, <4>1, <4>3 DEF NextTurbine, ThisTurbine, Devices
      <4> QED
        BY <2>1, <3>1, <4>3, <4>4
    <3> QED
      BY <3>1, <3>2, <3>3 DEF HadTurn
  <2>4. CASE TurbineFails
    BY <1>4, <2>4 DEF TurbineFails, Raise, HadTurn
  <2>5. CASE TurbinesDone
    <3>1. app = "wind-turbine" /\ step.i > Len(Turbines) /\ step.i \in Nat
      BY <2>5 DEF TurbinesDone, TurbinePlaces
    <3> QED
      BY <2>1, <3>1 DEF HadTurn
  <2>6. CASE UNCHANGED vars
    BY <1>4, <2>6 DEF HadTurn, vars, processVars, turbineVars
  <2> QED
    BY <2>2, <2>3, <2>4, <2>5, <2>6
<1>5. PICK fs : fs = files
  OBVIOUS
<1> QED
  BY <1>1, <1>3, <1>4, <1>5, TurbineFilesKept

(* TurbinePlaces is inductive.                                             *)
LEMMA TurbinePlacesStep ==
  ASSUME ~IsScale, TurbinePlaces, scenario' = scenario, Start \/ TurbineNext \/ UNCHANGED vars
  PROVE  TurbinePlaces'
<1> USE DEF TurbinePlaces
<1>1. CASE Start
  BY <1>1 DEF Start, Launch, GoTo, Idle, turbineVars
<1>2. CASE MainControllerConfigured
  BY <1>2 DEF MainControllerConfigured, InTurbine, NextDevice
<1>3. CASE AnemometerConfigured \/ YawConfigured \/ BladeConfigured
  <2>1. app = "wind-turbine" /\ app' = app /\ UNCHANGED step /\ device' = device + 1
    BY <1>3 DEF AnemometerConfigured, YawConfigured, BladeConfigured, WithConfig, InTurbine, NextDevice
  <2> QED
    BY <2>1
<1>4. CASE NextTurbine
  BY <1>4 DEF NextTurbine, InTurbine, Again
<1>5. CASE TurbineFails
  BY <1>5 DEF TurbineFails, Raise, TurbineReset
<1>6. CASE TurbinesDone
  BY <1>6 DEF TurbinesDone, Finish, TurbineReset
<1>7. CASE UNCHANGED vars
  BY <1>7 DEF vars, processVars, turbineVars
<1> QED
  BY <1>1, <1>2, <1>3, <1>4, <1>5, <1>6, <1>7 DEF TurbineNext

(* The stages of the scale app do not run in an experiment without it.     *)
LEMMA StagesAreOfTheOtherApp ==
  ASSUME ~IsScale, TurbinePlaces, ScaleNext
  PROVE  FALSE
<1>1. app # "configure" /\ app # "post-start"
  BY DEF TurbinePlaces
<1> QED
  BY <1>1 DEF ScaleNext, BeginProfile, ProfileFails, ConfigureVm, ConfigureVmFails, EndProfile, ConfigureDone, BeginNetworks,
              NetworksFail, StartVm, StartVmFails, ConnectFails, SendFails, PostStartDone, Outside, VmsDone, InVms, InProfiles

(* TurbineInv is an invariant.                                             *)
LEMMA TurbineInvAlways == Spec => []TurbineInv
<1>1. Init => TurbineInv
  <2> SUFFICES ASSUME Init, ~IsScale
               PROVE  TurbinePlaces /\ TurbineTopology /\ TurbineFiles
    BY DEF TurbineInv
  <2>1. TurbinePlaces
    BY DEF Init, ProcessInit, TurbineInit, TurbinePlaces
  <2>2. TurbineTopology
    BY <2>1, TurbinesAreListed DEF Init, ProcessInit, TurbineTopology, TurbinePlaces
  <2>3. TurbineFiles
    BY DEF Init, ProcessInit, TurbineFiles, HadTurn
  <2> QED
    BY <2>1, <2>2, <2>3
<1>2. TurbineInv /\ [Next]_vars => TurbineInv'
  <2> SUFFICES ASSUME TurbineInv, [Next]_vars, ~IsScale'
               PROVE  TurbinePlaces' /\ TurbineTopology' /\ TurbineFiles'
    BY DEF TurbineInv
  <2>1. scenario' = scenario /\ ~IsScale
    BY ScenarioIsKept, ScenarioStays
  <2>2. TurbinePlaces /\ TurbineTopology /\ TurbineFiles
    BY <2>1 DEF TurbineInv
  <2>3. Start \/ TurbineNext \/ UNCHANGED vars
    BY <2>1, <2>2, StagesAreOfTheOtherApp DEF Next, Configure, Stages
  <2>4. TurbinePlaces'
    BY <2>1, <2>2, <2>3, TurbinePlacesStep
  <2>5. TurbineTopology' /\ TurbineFiles'
    BY <2>1, <2>2, <2>3, MainTurn, OtherTurn, TurbinesOtherwise DEF TurbineNext
  <2> QED
    BY <2>4, <2>5
<1> QED
  BY <1>1, <1>2, PTL DEF Spec

(* A main controller's clients find their servers among the devices of the *)
(* turbine.                                                                *)
LEMMA TurbineClientsFindServers ==
  ASSUME ScenariosKeepDevicesApart, ~IsScale, TurbinePlaces, TurbineFiles, app = "started",
         NEW f \in Configs, NEW c \in SectionsOf(f, "client")
  PROVE  \E g \in Configs : SameFarm(f, g) /\ \E s \in SectionsOf(g, "server") :
            s.at = c.at /\ ToSet(c.points) \subseteq ToSet(s.points)
<1> DEFINE regs(t, d) == IF d = 2 THEN AnemometerRegisters(ColumnsOf(scenario, t))
                         ELSE IF d = 3 THEN YawRegisters ELSE BladeRegisters
<1>1. PICK t, d : /\ t \in ToSet(Turbines) /\ d \in Devices(t)
                   /\ f = AppConfigFile(DeviceHost(t, d)) /\ IsDeviceConfig(files[f], t, d)
  BY DEF Configs, TurbineFiles, OfDevice
<1>2. c \in ToSet(files[f].sections) /\ c.mode = "client"
  BY DEF SectionsOf
<1>3. /\ IsList(Turbines) /\ \A u \in ToSet(Turbines) : IsList(u.blades)
      /\ TurbinesAreApart(scenario) /\ Turbines = TurbinesOf(scenario.hosts)
  BY TurbinesAreListed DEF ScenariosKeepDevicesApart, TurbinePlaces, IsScale, Turbines, Hosts
<1>4. d = 1
  <2> SUFFICES ASSUME d # 1
               PROVE  FALSE
    OBVIOUS
  <2>1. files[f].sections = Server(Home(DeviceHost(t, d)), regs(t, d))
    BY <1>1 DEF IsDeviceConfig
  <2> HIDE DEF regs
  <2>2. PICK at, rs : at = Home(DeviceHost(t, d)) /\ rs = regs(t, d)
    OBVIOUS
  <2>3. c = Section("server", "modbus", at, rs)
    BY <1>2, <2>1, <2>2, SectionIs
  <2>4. c.mode = "server"
    BY <2>3, SectionIs
  <2> QED
    BY <1>2, <2>4
<1> DEFINE blades == [k \in DOMAIN t.blades |-> Home(t.blades[k])]
<1>5. IsList(blades) /\ DOMAIN blades = DOMAIN t.blades /\ DOMAIN t.blades = 1..Len(t.blades) /\ Len(t.blades) \in Nat
  <2>1. DOMAIN t.blades = 1..Len(t.blades) /\ Len(t.blades) \in Nat
    BY <1>1, <1>3 DEF IsList
  <2>2. PICK n \in Nat : n = Len(t.blades)
    BY <2>1
  <2>3. blades = [k \in 1..n |-> blades[k]] /\ DOMAIN blades = 1..n
    BY <2>1, <2>2
  <2>4. blades \in Seq(ToSet(blades))
    <3> HIDE DEF blades
    <3> QED
      BY <2>3, FunctionIsSequence
  <2> HIDE DEF blades
  <2> QED
    BY <2>1, <2>2, <2>3, <2>4 DEF IsList
<1>6. files[f].sections = MainSections(Home(t.main), Home(t.anemo), Home(t.yaw), blades, ColumnsOf(scenario, t))
  BY <1>1, <1>4 DEF IsDeviceConfig, IsMainConfig
<1>7. \E e \in Devices(t) : e # 1 /\ c = Client(Home(DeviceHost(t, e)), regs(t, e))
  <2> HIDE DEF blades
  <2>1. PICK at, anemo, yaw, columns : at = Home(t.main) /\ anemo = Home(t.anemo) /\ yaw = Home(t.yaw) /\ columns = ColumnsOf(scenario, t)
    OBVIOUS
  <2>2. \/ c = Client(anemo, AnemometerRegisters(columns)) \/ c = Client(yaw, YawRegisters)
        \/ \E k \in DOMAIN blades : c = Client(blades[k], BladeRegisters)
    BY <1>2, <1>5, <1>6, <2>1, ClientsOfMain
  <2>3. CASE c = Client(anemo, AnemometerRegisters(columns))
    <3>1. 2 \in Devices(t) /\ DeviceHost(t, 2) = t.anemo /\ regs(t, 2) = AnemometerRegisters(columns)
      BY <1>5, <2>1 DEF Devices, DeviceHost
    <3> QED
      BY <2>1, <2>3, <3>1
  <2>4. CASE c = Client(yaw, YawRegisters)
    <3>1. 3 \in Devices(t) /\ DeviceHost(t, 3) = t.yaw /\ regs(t, 3) = YawRegisters
      BY <1>5 DEF Devices, DeviceHost
    <3> QED
      BY <2>1, <2>4, <3>1
  <2>5. CASE \E k \in DOMAIN blades : c = Client(blades[k], BladeRegisters)
    <3>1. PICK k \in DOMAIN t.blades : c = Client(blades[k], BladeRegisters)
      BY <1>5, <2>5
    <3>2. PICK e \in Nat : e = k + 3
      BY <1>5
    <3>3. e \in Devices(t) /\ e >= 4 /\ e - 3 = k
      BY <1>5, <3>2 DEF Devices
    <3>4. DeviceHost(t, e) = t.blades[k] /\ regs(t, e) = BladeRegisters
      BY <3>3 DEF DeviceHost
    <3>5. blades[k] = Home(t.blades[k])
      BY DEF blades
    <3> HIDE DEF regs
    <3> QED
      BY <3>1, <3>3, <3>4, <3>5
  <2> QED
    BY <2>2, <2>3, <2>4, <2>5
<1> HIDE DEF blades
<1>8. PICK e \in Devices(t) : e # 1 /\ c = Client(Home(DeviceHost(t, e)), regs(t, e))
  BY <1>7
<1>9. PICK g : g = AppConfigFile(DeviceHost(t, e))
  OBVIOUS
<1>10. g \in Configs
  <2>1. PICK n \in DOMAIN Turbines : t = Turbines[n]
    BY <1>1 DEF ToSet
  <2>2. g \in DOMAIN files
    BY <1>9, <2>1 DEF TurbineFiles, HadTurn
  <2>3. g[1] = "ot-sim"
    BY <1>9 DEF AppConfigFile
  <2> QED
    BY <2>2, <2>3 DEF Configs
<1>11. PICK u, x : /\ u \in ToSet(Turbines) /\ x \in Devices(u)
                    /\ g = AppConfigFile(DeviceHost(u, x)) /\ IsDeviceConfig(files[g], u, x)
  BY <1>10 DEF Configs, TurbineFiles, OfDevice
<1>12. DeviceHost(u, x) = DeviceHost(t, e)
  BY <1>9, <1>11 DEF AppConfigFile
<1>13. x # 1 /\ regs(u, x) = regs(t, e)
  <2>1. /\ {t.main, t.anemo, t.yaw} \cap ToSet(u.blades) = {} /\ {u.main, u.anemo, u.yaw} \cap ToSet(t.blades) = {}
        /\ u.main \notin {t.anemo, t.yaw} /\ t.anemo # u.yaw /\ u.anemo # t.yaw
        /\ (t # u /\ t.anemo = u.anemo => ColumnsOf(scenario, t) = ColumnsOf(scenario, u))
    BY <1>1, <1>3, <1>11 DEF TurbinesAreApart
  <2>2. e \in Nat /\ e >= 1 /\ x \in Nat /\ x >= 1
    BY <1>8, <1>11 DEF Devices
  <2>3. \A v \in {t, u} : \A y \in Devices(v) : y > 3 => DeviceHost(v, y) \in ToSet(v.blades)
    <3> SUFFICES ASSUME NEW v \in {t, u}, NEW y \in Devices(v), y > 3
                 PROVE  DeviceHost(v, y) \in ToSet(v.blades)
      OBVIOUS
    <3>1. DOMAIN v.blades = 1..Len(v.blades) /\ Len(v.blades) \in Nat
      BY <1>1, <1>3, <1>11 DEF IsList
    <3>2. y - 3 \in DOMAIN v.blades
      BY <3>1 DEF Devices
    <3> QED
      BY <3>2 DEF DeviceHost, ToSet, Devices
  <2>4. /\ x = 1 => DeviceHost(u, x) = u.main
        /\ e = 2 => DeviceHost(t, e) = t.anemo
        /\ e = 3 => DeviceHost(t, e) = t.yaw
        /\ x = 2 => DeviceHost(u, x) = u.anemo
        /\ x = 3 => DeviceHost(u, x) = u.yaw
    BY DEF DeviceHost
  <2>5. /\ e > 3 => DeviceHost(t, e) \in ToSet(t.blades)
        /\ x > 3 => DeviceHost(u, x) \in ToSet(u.blades)
    BY <1>8, <1>11, <2>3
  <2>6. x # 1 /\ (x = 2 <=> e = 2) /\ (x = 3 <=> e = 3) /\ (e = 2 => t.anemo = u.anemo)
    BY <1>8, <1>12, <2>1, <2>2, <2>4, <2>5
  <2> QED
    BY <2>1, <2>6
<1>14. files[g].sections = Server(Home(DeviceHost(t, e)), regs(t, e))
  BY <1>11, <1>12, <1>13 DEF IsDeviceConfig
<1> HIDE DEF regs
<1>15. PICK at, rs : at = Home(DeviceHost(t, e)) /\ rs = regs(t, e)
  OBVIOUS
<1>16. PICK s : s = Section("server", "modbus", at, rs)
  OBVIOUS
<1>17. s \in ToSet(files[g].sections)
  BY <1>14, <1>15, <1>16, SectionIs
<1>18. c.at = at /\ c.points = Points(rs) /\ s.at = at /\ s.points = Points(rs) /\ s.mode = "server" /\ s.proto = "modbus"
  BY <1>8, <1>15, <1>16, SectionIs DEF Client
<1>19. s \in SectionsOf(g, "server")
  BY <1>17, <1>18 DEF SectionsOf
<1> QED
  BY <1>10, <1>18, <1>19 DEF SameFarm

(* In every experiment that is configured or started a main controller's   *)
(* clients find their servers, when devices are kept apart.                *)
THEOREM ClientsMeetServers ==
  ASSUME ScenariosKeepDevicesApart
  PROVE  Spec => []ClientsFindServers
<1>1. SentInv /\ FilesInv /\ ContainerInv /\ TurbineInv => ClientsFindServers
  <2> SUFFICES ASSUME SentInv, FilesInv, ContainerInv, TurbineInv, app \in {"configured", "started"},
                      NEW f \in Configs, NEW c \in SectionsOf(f, "client"), IsAnemometer(c.at) => Replays(f)
               PROVE  \E g \in Configs : SameFarm(f, g) /\ \E s \in SectionsOf(g, "server") :
                        s.at = c.at /\ ToSet(c.points) \subseteq ToSet(s.points)
    BY DEF ClientsFindServers
  <2>1. CASE IsScale
    <3>1. ScalePlaces /\ ConfigFiles /\ ContainerFiles /\ clean
      BY <2>1 DEF SentInv, FilesInv, ContainerInv, StartedClean, ContainerFiles
    <3> QED
      BY <2>1, <3>1, FarmClientsFindServers
  <2>2. CASE ~IsScale
    <3>1. TurbinePlaces /\ TurbineFiles /\ app = "started"
      BY <2>2 DEF TurbineInv, TurbinePlaces
    <3> QED
      BY <2>2, <3>1, TurbineClientsFindServers
  <2> QED
    BY <2>1, <2>2
<1> QED
  BY <1>1, SentInvAlways, FilesInvAlways, ContainerInvAlways, TurbineInvAlways, PTL

-----------------------------------------------------------------------------
(* What the turn of a device leaves in a topology.                         *)
DeviceInjects(t, d) ==
  Append(IF d = 1 THEN t.host.injects ELSE IF d = 2 THEN <<[src |-> Replay(t), dst |-> "weather"]>> ELSE << >>,
         AppConfigInject(DeviceHost(t, d)))

HomeOfBroker ==
  IF Broker = None THEN None
  ELSE IF Broker.host # None THEN ExtractNodeInterfaceIp(scenario.topology, Broker.host, Broker.iface) ELSE Broker.ip

OneFederate == <<[broker |-> HomeOfBroker, count |-> 1]>>

Announces(ns, hostname) == InTopology(ns, hostname) => ExtractNode(ns, hostname).federate = OneFederate

Applied(ns, t, d) ==
  /\ Carries(ns, DeviceHost(t, d), DeviceInjects(t, d))
  /\ d = 1 /\ t.host.topic => Announces(ns, t.main)

(* What every turn has left stays, and a stage that has succeeded before   *)
(* finds all of it: it changes nothing.                                    *)
TurbinesApplied ==
  /\ Tidy(doc) /\ (app = "wind-turbine" => Tidy(nodes))
  /\ \A n \in DOMAIN Turbines : \A d \in Devices(Turbines[n]) :
       /\ app = "wind-turbine" /\ HadTurn(n, d) => Applied(nodes, Turbines[n], d)
       /\ clean => Applied(doc, Turbines[n], d)
  /\ clean /\ app = "wind-turbine" => nodes = doc

TurbineAgain == ~IsScale => TurbinesApplied

(* What a turn leaves depends on the scenario alone.                       *)
LEMMA ScenarioStaysForTurns ==
  ASSUME scenario' = scenario
  PROVE  Turbines' = Turbines /\ \A ns, t, d : Applied(ns, t, d)' = Applied(ns, t, d)
<1>1. Turbines' = Turbines
  BY ScenarioStaysForTurbines
<1>2. \A t, d : DeviceInjects(t, d)' = DeviceInjects(t, d)
  BY DEF DeviceInjects, Replay, Hosts
<1>3. OneFederate' = OneFederate
  BY DEF OneFederate, HomeOfBroker, Broker
<1>4. \A ns, hostname : Announces(ns, hostname)' = Announces(ns, hostname)
  BY <1>3 DEF Announces
<1>5. \A ns, t, d : Applied(ns, t, d)' = Applied(ns, t, d)
  BY <1>2, <1>4 DEF Applied
<1> QED
  BY <1>1, <1>5

(* What was left before stays when more injects are added...               *)
LEMMA InjectsLeave ==
  ASSUME NEW ns, Tidy(ns), NEW hostname, NEW injects, IsList(injects), NEW ms, ms = AddInjects(ns, hostname, injects)
  PROVE  /\ Tidy(ms) /\ Carries(ms, hostname, injects)
         /\ \A t, d : Applied(ns, t, d) => Applied(ms, t, d)
         /\ \A x : Announces(ns, x) => Announces(ms, x)
<1>1. /\ Tidy(ms) /\ SameBut(ns, ms) /\ Carries(ms, hostname, injects)
      /\ \A x : NodeIndex(ms, x) = NodeIndex(ns, x)
      /\ \A j \in DOMAIN ns : ToSet(ns[j].injects) \subseteq ToSet(ms[j].injects)
  BY InjectsCarried
<1>2. \A j \in DOMAIN ns : ms[j].federate = ns[j].federate
  BY <1>1 DEF SameBut, Tidy, IsTopology, IsNode
<1>3. \A x : InTopology(ns, x) => NodeIndex(ns, x) \in DOMAIN ns
  BY NodeIsFound DEF Tidy, InTopology
<1>4. \A x, list : Carries(ns, x, list) => Carries(ms, x, list)
  BY <1>1, <1>3 DEF Carries, InTopology, ExtractNode
<1>5. \A x : Announces(ns, x) => Announces(ms, x)
  BY <1>1, <1>2, <1>3 DEF Announces, InTopology, ExtractNode
<1>6. \A t, d : Applied(ns, t, d) => Applied(ms, t, d)
  BY <1>4, <1>5 DEF Applied
<1> QED
  BY <1>1, <1>5, <1>6

(* ... and when a main controller is annotated.                            *)
LEMMA AnnotationLeaves ==
  ASSUME NEW ns, Tidy(ns), NEW hostname, NEW ms, ms = AddAnnotation(ns, hostname, OneFederate)
  PROVE  /\ Tidy(ms) /\ Announces(ms, hostname)
         /\ \A t, d : Applied(ns, t, d) => Applied(ms, t, d)
         /\ Announces(ns, hostname) => ms = ns
<1> HIDE DEF OneFederate
<1>1. /\ Tidy(ms) /\ DOMAIN ms = DOMAIN ns
      /\ \A j \in DOMAIN ns :
           /\ DOMAIN ms[j] = DOMAIN ns[j]
           /\ \A field \in DOMAIN ns[j] \ {"federate"} : ms[j][field] = ns[j][field]
           /\ ms[j].federate = IF j = NodeIndex(ns, hostname) THEN OneFederate ELSE ns[j].federate
      /\ \A x : NodeIndex(ms, x) = NodeIndex(ns, x)
  BY AnnotationIs
<1>2. \A j \in DOMAIN ns : ms[j].injects = ns[j].injects
  BY <1>1 DEF Tidy, IsTopology, IsNode
<1>3. \A x : InTopology(ns, x) => NodeIndex(ns, x) \in DOMAIN ns
  BY NodeIsFound DEF Tidy, InTopology
<1>4. \A x, list : Carries(ns, x, list) => Carries(ms, x, list)
  BY <1>1, <1>2, <1>3 DEF Carries, InTopology, ExtractNode
<1>5. Announces(ms, hostname) /\ \A x : Announces(ns, x) => Announces(ms, x)
  BY <1>1, <1>3 DEF Announces, InTopology, ExtractNode
<1>6. \A t, d : Applied(ns, t, d) => Applied(ms, t, d)
  BY <1>4, <1>5 DEF Applied
<1>7. ASSUME Announces(ns, hostname)
      PROVE  ms = ns
  <2>1. \A j \in DOMAIN ns : j = NodeIndex(ns, hostname) => ns[j].federate = OneFederate
    <3>1. 0 \notin DOMAIN ns
      BY DEF Tidy, IsTopology
    <3> QED
      BY <1>7, <3>1 DEF Announces, InTopology, ExtractNode
  <2>2. \A j \in DOMAIN ns : ms[j].federate = ns[j].federate
    BY <1>1, <2>1
  <2>3. \A j \in DOMAIN ns : DOMAIN ms[j] = DOMAIN ns[j] /\ \A field \in DOMAIN ns[j] : ms[j][field] = ns[j][field]
    BY <1>1, <2>2
  <2> QED
    BY <1>1, <2>3, SameTopology DEF Tidy
<1> QED
  BY <1>1, <1>5, <1>6, <1>7

(* The turn of a device, whichever it is.                                  *)
LEMMA DeviceChanges ==
  ASSUME ~IsScale, TurbinePlaces, TurbineTopology,
         MainControllerConfigured \/ AnemometerConfigured \/ YawConfigured \/ BladeConfigured
  PROVE  LET t == ThisTurbine
             list == DeviceInjects(t, device)
         IN  /\ app = "wind-turbine" /\ app' = app /\ scenario' = scenario /\ doc' = doc
             /\ step' = step /\ device' = device + 1 /\ step.i \in DOMAIN Turbines /\ IsList(list)
             /\ \/ /\ device = 1 /\ t.host.topic
                   /\ nodes' = AddInjects(AddAnnotation(nodes, t.main, OneFederate), DeviceHost(t, device), list)
                \/ /\ ~(device = 1 /\ t.host.topic)
                   /\ nodes' = AddInjects(nodes, DeviceHost(t, device), list)
<1> DEFINE base == scenario.topology
<1>1. PICK t : t = ThisTurbine
  OBVIOUS
<1>2. /\ app = "wind-turbine" /\ app' = app /\ scenario' = scenario /\ doc' = doc
      /\ step' = step /\ device' = device + 1 /\ step.i <= Len(Turbines)
  BY DEF MainControllerConfigured, AnemometerConfigured, YawConfigured, BladeConfigured, InTurbine, WithConfig, NextDevice
<1>3. IsTopology(base) /\ step.i \in DOMAIN Turbines /\ IsList(t.host.injects)
  <2>1. IsTopology(base) /\ IsList(Turbines) /\ \A u \in ToSet(Turbines) : IsList(u.host.injects)
    BY TurbinesAreListed DEF TurbinePlaces
  <2>2. step.i \in DOMAIN Turbines
    BY <1>2, <2>1 DEF IsList, TurbinePlaces
  <2>3. t \in ToSet(Turbines)
    BY <1>1, <2>2 DEF ThisTurbine, ToSet
  <2> QED
    BY <2>1, <2>2, <2>3
<1>4. AppBrokerAddress = HomeOfBroker
  <2>1. SameMachines(base, nodes)
    BY <1>2 DEF TurbineTopology
  <2>2. \A hostname, iface : ExtractNodeInterfaceIp(nodes, hostname, iface) = ExtractNodeInterfaceIp(base, hostname, iface)
    <3> HIDE DEF base
    <3> QED
      BY <1>3, <2>1, SameAddresses
  <2> QED
    BY <2>2 DEF AppBrokerAddress, HomeOfBroker
<1>5. IsList(DeviceInjects(t, device))
  <2>1. PICK list : list = IF device = 1 THEN t.host.injects ELSE IF device = 2 THEN <<[src |-> Replay(t), dst |-> "weather"]>> ELSE << >>
    OBVIOUS
  <2>2. IsList(list)
    BY <1>3, <2>1, ShortLists
  <2>3. DeviceInjects(t, device) = Append(list, AppConfigInject(DeviceHost(t, device)))
    BY <2>1 DEF DeviceInjects
  <2>4. PICK x : x = AppConfigInject(DeviceHost(t, device))
    OBVIOUS
  <2> QED
    BY <2>2, <2>3, <2>4, ListOfAppend
<1>6. \/ /\ device = 1 /\ t.host.topic
         /\ nodes' = AddInjects(AddAnnotation(nodes, t.main, OneFederate), DeviceHost(t, device), DeviceInjects(t, device))
      \/ /\ ~(device = 1 /\ t.host.topic)
         /\ nodes' = AddInjects(nodes, DeviceHost(t, device), DeviceInjects(t, device))
  <2>1. CASE MainControllerConfigured
    <3>1. device = 1 /\ DeviceHost(t, device) = t.main /\ DeviceInjects(t, device) = Append(t.host.injects, AppConfigInject(t.main))
      BY <2>1 DEF MainControllerConfigured, InTurbine, DeviceHost, DeviceInjects
    <3>2. nodes' = AddInjects(AddFederate(nodes, t), t.main, Append(t.host.injects, AppConfigInject(t.main)))
      BY <1>1, <2>1 DEF MainControllerConfigured
    <3>3. CASE t.host.topic
      <4>1. AddFederate(nodes, t) = AddAnnotation(nodes, t.main, OneFederate)
        BY <1>4, <3>3 DEF AddFederate, OneFederate
      <4> QED
        BY <3>1, <3>2, <3>3, <4>1
    <3>4. CASE ~t.host.topic
      BY <3>1, <3>2, <3>4 DEF AddFederate
    <3> QED
      BY <3>3, <3>4
  <2>2. CASE AnemometerConfigured
    <3>1. device = 2 /\ DeviceHost(t, device) = t.anemo
      BY <2>2 DEF AnemometerConfigured, InTurbine, DeviceHost
    <3> QED
      BY <1>1, <2>2, <3>1 DEF AnemometerConfigured, WithConfig, DeviceInjects
  <2>3. CASE YawConfigured
    <3>1. device = 3 /\ DeviceHost(t, device) = t.yaw
      BY <2>3 DEF YawConfigured, InTurbine, DeviceHost
    <3> QED
      BY <1>1, <2>3, <3>1 DEF YawConfigured, WithConfig, DeviceInjects
  <2>4. CASE BladeConfigured
    <3>1. device >= 4 /\ device \in Nat /\ DeviceHost(t, device) = t.blades[device - 3]
      BY <2>4 DEF BladeConfigured, TurbinePlaces, DeviceHost
    <3>2. PICK blade : blade = t.blades[device - 3]
      OBVIOUS
    <3>3. nodes' = AddInjects(nodes, blade, Append(<< >>, AppConfigInject(blade)))
      BY <1>1, <2>4, <3>2 DEF BladeConfigured, WithConfig
    <3>4. device # 1 /\ device # 2 /\ DeviceHost(t, device) = blade
      BY <3>1, <3>2
    <3>5. DeviceInjects(t, device) = Append(<< >>, AppConfigInject(blade))
      BY <3>4, Zenon DEF DeviceInjects
    <3> QED
      BY <3>3, <3>4, <3>5
  <2> QED
    BY <2>1, <2>2, <2>3, <2>4
<1> QED
  BY <1>1, <1>2, <1>3, <1>5, <1>6

(* The turn of a device leaves what the device asks for; when that is      *)
(* there already, the topology stays as it is.                             *)
LEMMA DeviceLeaves ==
  ASSUME ~IsScale, TurbinePlaces, TurbineTopology, Tidy(nodes),
         MainControllerConfigured \/ AnemometerConfigured \/ YawConfigured \/ BladeConfigured,
         NEW ms, ms = nodes'
  PROVE  /\ Tidy(ms) /\ Applied(ms, ThisTurbine, device)
         /\ \A t, d : Applied(nodes, t, d) => Applied(ms, t, d)
         /\ Applied(nodes, ThisTurbine, device) => ms = nodes
<1>1. PICK t, h, list, ns : t = ThisTurbine /\ h = DeviceHost(t, device) /\ list = DeviceInjects(t, device) /\ ns = nodes
  OBVIOUS
<1>2. /\ IsList(list)
      /\ \/ device = 1 /\ t.host.topic /\ ms = AddInjects(AddAnnotation(ns, t.main, OneFederate), h, list)
         \/ ~(device = 1 /\ t.host.topic) /\ ms = AddInjects(ns, h, list)
  BY <1>1, DeviceChanges
<1>3. CASE device = 1 /\ t.host.topic
  <2>1. PICK as : as = AddAnnotation(ns, t.main, OneFederate)
    OBVIOUS
  <2>2. /\ Tidy(as) /\ Announces(as, t.main) /\ \A u, d : Applied(ns, u, d) => Applied(as, u, d)
        /\ Announces(ns, t.main) => as = ns
    BY <1>1, <2>1, AnnotationLeaves
  <2>3. ms = AddInjects(as, h, list)
    BY <1>2, <1>3, <2>1
  <2>4. /\ Tidy(ms) /\ Carries(ms, h, list) /\ \A u, d : Applied(as, u, d) => Applied(ms, u, d)
        /\ \A x : Announces(as, x) => Announces(ms, x)
    BY <1>2, <2>2, <2>3, InjectsLeave
  <2>5. Applied(ms, t, device)
    BY <1>1, <2>2, <2>4 DEF Applied
  <2>6. ASSUME Applied(ns, t, device)
        PROVE  ms = ns
    <3>1. Announces(ns, t.main) /\ Carries(ns, h, list)
      BY <1>1, <1>3, <2>6 DEF Applied
    <3>2. as = ns
      BY <2>2, <3>1
    <3> QED
      BY <1>1, <1>2, <2>3, <3>1, <3>2, InjectsAgain
  <2> QED
    BY <1>1, <2>2, <2>4, <2>5, <2>6
<1>4. CASE ~(device = 1 /\ t.host.topic)
  <2>1. ms = AddInjects(ns, h, list)
    BY <1>2, <1>4
  <2>2. Tidy(ms) /\ Carries(ms, h, list) /\ \A u, d : Applied(ns, u, d) => Applied(ms, u, d)
    BY <1>1, <1>2, <2>1, InjectsLeave
  <2>3. Applied(ms, t, device)
    BY <1>1, <1>4, <2>2 DEF Applied
  <2>4. Applied(ns, t, device) => ms = ns
    BY <1>1, <1>2, <2>1, InjectsAgain DEF Applied
  <2> QED
    BY <1>1, <2>2, <2>3, <2>4
<1> QED
  BY <1>3, <1>4

(* Whether the device that is next is one of its turbine's.                *)
LEMMA NextDeviceIsOne ==
  ASSUME ~IsScale, TurbinePlaces, MainControllerConfigured \/ AnemometerConfigured \/ YawConfigured \/ BladeConfigured
  PROVE  device \in Devices(ThisTurbine) /\ step.i \in DOMAIN Turbines
<1>1. PICK t : t = ThisTurbine
  OBVIOUS
<1>2. IsList(Turbines) /\ \A u \in ToSet(Turbines) : IsList(u.blades)
  BY TurbinesAreListed DEF TurbinePlaces
<1>3. step.i \in DOMAIN Turbines
  <2>1. step.i <= Len(Turbines)
    BY DEF MainControllerConfigured, AnemometerConfigured, YawConfigured, BladeConfigured, InTurbine
  <2> QED
    BY <1>2, <2>1 DEF IsList, TurbinePlaces
<1>4. IsList(t.blades)
  BY <1>1, <1>2, <1>3 DEF ThisTurbine, ToSet
<1>5. Len(t.blades) \in Nat /\ device \in Nat
  BY <1>4 DEF IsList, TurbinePlaces
<1>6. device \in {1, 2, 3} \/ (device >= 4 /\ device - 3 <= Len(t.blades))
  BY <1>1 DEF MainControllerConfigured, AnemometerConfigured, YawConfigured, BladeConfigured, InTurbine
<1>7. device \in Devices(t)
  BY <1>5, <1>6 DEF Devices
<1> QED
  BY <1>1, <1>3, <1>7

(* TurbinesApplied holds after the turn of a device.                       *)
LEMMA TurnsApplied ==
  ASSUME ~IsScale, TurbinePlaces, TurbineTopology, TurbinesApplied,
         MainControllerConfigured \/ AnemometerConfigured \/ YawConfigured \/ BladeConfigured,
         clean' => clean
  PROVE  TurbinesApplied'
<1>1. PICK ms, ds, t : ms = nodes' /\ ds = doc /\ t = ThisTurbine
  OBVIOUS
<1>2. /\ app = "wind-turbine" /\ app' = app /\ scenario' = scenario /\ doc' = ds
      /\ step' = step /\ device' = device + 1
  BY <1>1, DeviceChanges
<1>3. /\ Turbines' = Turbines /\ \A ns, u, d : Applied(ns, u, d)' = Applied(ns, u, d)
      /\ device \in Devices(t) /\ step.i \in DOMAIN Turbines /\ t = Turbines[step.i]
  BY <1>1, <1>2, ScenarioStaysForTurns, NextDeviceIsOne DEF ThisTurbine
<1>4. /\ Tidy(ms) /\ Applied(ms, t, device)
      /\ \A u, d : Applied(nodes, u, d) => Applied(ms, u, d)
      /\ Applied(nodes, t, device) => ms = nodes
  BY <1>1, <1>2, DeviceLeaves DEF TurbinesApplied
<1>5. ASSUME NEW n \in DOMAIN Turbines, NEW d \in Devices(Turbines[n]), HadTurn(n, d)'
      PROVE  Applied(ms, Turbines[n], d)
  <2>1. n < step.i \/ (n = step.i /\ d < device + 1)
    BY <1>2, <1>5 DEF HadTurn
  <2>2. d \in Nat /\ device \in Nat
    BY DEF Devices, TurbinePlaces
  <2>3. HadTurn(n, d) \/ (n = step.i /\ d = device)
    BY <1>2, <2>1, <2>2 DEF HadTurn
  <2>4. HadTurn(n, d) => Applied(nodes, Turbines[n], d)
    BY <1>2 DEF TurbinesApplied
  <2> QED
    BY <1>3, <1>4, <2>3, <2>4
<1>6. clean => ms = ds
  <2> SUFFICES ASSUME clean
               PROVE  ms = ds
    OBVIOUS
  <2>1. nodes = ds /\ Applied(ds, t, device)
    BY <1>1, <1>2, <1>3 DEF TurbinesApplied
  <2> QED
    BY <1>4, <2>1
<1>7. \A n \in DOMAIN Turbines : \A d \in Devices(Turbines[n]) : clean => Applied(ds, Turbines[n], d)
  BY <1>1 DEF TurbinesApplied
<1>8. Tidy(ds)
  BY <1>1 DEF TurbinesApplied
<1>9. /\ Tidy(ms)' /\ Tidy(ds)'
      /\ \A n \in DOMAIN Turbines : \A d \in Devices(Turbines[n]) :
           /\ HadTurn(n, d)' => Applied(ms, Turbines[n], d)'
           /\ clean' => Applied(ds, Turbines[n], d)'
  BY <1>3, <1>4, <1>5, <1>7, <1>8
<1> QED
  BY <1>1, <1>2, <1>3, <1>6, <1>9 DEF TurbinesApplied

(* A list of turbines is gone through when its last turbine is.            *)
LEMMA AllHadTurn ==
  ASSUME ~IsScale, TurbinePlaces, app = "wind-turbine", step.i > Len(Turbines)
  PROVE  \A n \in DOMAIN Turbines : \A d \in Devices(Turbines[n]) : HadTurn(n, d)
<1>1. DOMAIN Turbines = 1..Len(Turbines) /\ Len(Turbines) \in Nat /\ step.i \in Nat
  BY TurbinesAreListed DEF TurbinePlaces, IsList
<1> QED
  BY <1>1 DEF HadTurn

(* TurbinesApplied holds after the steps between turns, and those that end *)
(* the stage.                                                              *)
LEMMA TurnsOtherwise ==
  ASSUME ~IsScale, TurbinePlaces, TurbinesApplied, scenario' = scenario,
         \/ Start \/ UNCHANGED vars
         \/ (NextTurbine \/ TurbineFails \/ TurbinesDone) /\ clean' = (clean \/ Succeeded)
  PROVE  TurbinesApplied'
<1>1. PICK ns, ds : ns = nodes /\ ds = doc
  OBVIOUS
<1>2. /\ Turbines' = Turbines /\ \A xs, u, d : Applied(xs, u, d)' = Applied(xs, u, d)
      /\ IsList(Turbines)
  BY ScenarioStaysForTurns, TurbinesAreListed DEF TurbinePlaces
<1>3. DOMAIN Turbines = 1..Len(Turbines) /\ Len(Turbines) \in Nat
  BY <1>2 DEF IsList
<1> DEFINE All(xs) == \A n \in DOMAIN Turbines : \A d \in Devices(Turbines[n]) : Applied(xs, Turbines[n], d)
<1>4. \A xs : All(xs)' = All(xs)
  BY <1>2
<1>5. Tidy(ds) /\ (clean => All(ds))
  BY <1>1 DEF TurbinesApplied
<1>6. ASSUME app' # "wind-turbine", doc' = ds, clean' => clean
      PROVE  TurbinesApplied'
  <2>1. clean' => All(ds)'
    BY <1>4, <1>5, <1>6
  <2>2. Tidy(ds)'
    BY <1>5
  <2> QED
    BY <1>2, <1>6, <2>1, <2>2 DEF TurbinesApplied
<1>7. CASE Start
  <2>1. app' = "wind-turbine" /\ step'.i = 1 /\ device' = 1 /\ nodes' = ds /\ doc' = ds /\ clean' = clean
    BY <1>1, <1>7 DEF Start, Launch, GoTo, TurbinePlaces, Idle, turbineVars
  <2>2. \A n \in DOMAIN Turbines : \A d \in Devices(Turbines[n]) : ~HadTurn(n, d)'
    BY <1>3, <2>1 DEF HadTurn, Devices
  <2>3. clean' => All(ds)'
    BY <1>4, <1>5, <2>1
  <2>4. Tidy(ds)'
    BY <1>5
  <2> QED
    BY <1>2, <2>1, <2>2, <2>3, <2>4 DEF TurbinesApplied
<1>8. CASE NextTurbine /\ clean' = (clean \/ Succeeded)
  <2>1. /\ app = "wind-turbine" /\ app' = app /\ step'.i = step.i + 1 /\ device' = 1 /\ step.i \in Nat /\ device \in Nat
        /\ nodes' = ns /\ doc' = ds
    BY <1>1, <1>8 DEF NextTurbine, InTurbine, Again, TurbinePlaces
  <2>2. ASSUME NEW n \in DOMAIN Turbines, NEW d \in Devices(Turbines[n]), HadTurn(n, d)'
        PROVE  Applied(ns, Turbines[n], d)
    <3>1. n \in Nat /\ d \in Nat /\ d >= 1
      BY <1>3 DEF Devices
    <3>2. n < step.i \/ n = step.i
      BY <2>1, <2>2, <3>1 DEF HadTurn
    <3>3. ASSUME n = step.i
          PROVE  d < device
      <4>1. PICK t : t = Turbines[n]
        OBVIOUS
      <4>2. t \in ToSet(Turbines)
        BY <4>1 DEF ToSet
      <4>3. Len(t.blades) \in Nat
        BY <4>2, TurbinesAreListed DEF TurbinePlaces, IsList
      <4>4. device - 3 > Len(t.blades) /\ d <= Len(t.blades) + 3
        BY <1>8, <3>3, <4>1, <4>3 DEF NextTurbine, ThisTurbine, Devices
      <4> QED
        BY <2>1, <3>1, <4>3, <4>4
    <3>4. HadTurn(n, d)
      BY <2>1, <3>2, <3>3 DEF HadTurn
    <3> QED
      BY <1>1, <2>1, <3>4 DEF TurbinesApplied
  <2>3. clean' => clean
    BY <1>8, <2>1 DEF Succeeded
  <2>4. clean' => All(ds)'
    BY <1>4, <1>5, <2>3
  <2>5. \A n \in DOMAIN Turbines : \A d \in Devices(Turbines[n]) : HadTurn(n, d)' => Applied(ns, Turbines[n], d)'
    BY <1>2, <2>2
  <2>6. Tidy(ds)' /\ Tidy(ns)' /\ (clean' => ns = ds)
    BY <1>1, <1>5, <2>1, <2>3 DEF TurbinesApplied
  <2> QED
    BY <1>2, <2>1, <2>4, <2>5, <2>6 DEF TurbinesApplied
<1>9. CASE TurbineFails /\ clean' = (clean \/ Succeeded)
  <2>1. app' = "failed" /\ doc' = ds
    BY <1>1, <1>9 DEF TurbineFails, Raise
  <2>2. clean' => clean
    BY <1>9, <2>1 DEF Succeeded
  <2> QED
    BY <1>6, <2>1, <2>2
<1>10. CASE TurbinesDone /\ clean' = (clean \/ Succeeded)
  <2>1. app = "wind-turbine" /\ app' = "started" /\ doc' = ns /\ step.i > Len(Turbines)
    BY <1>1, <1>10 DEF TurbinesDone, Finish
  <2>2. All(ns)
    BY <1>1, <2>1, AllHadTurn DEF TurbinesApplied
  <2>3. Tidy(ns)'
    BY <1>1, <2>1 DEF TurbinesApplied
  <2>4. All(ns)'
    BY <1>4, <2>2
  <2> QED
    BY <1>2, <2>1, <2>3, <2>4 DEF TurbinesApplied
<1>11. CASE UNCHANGED vars
  <2>1. /\ app' = app /\ nodes' = ns /\ doc' = ds /\ clean' = clean
        /\ \A n, d : HadTurn(n, d)' = HadTurn(n, d)
    BY <1>1, <1>11 DEF vars, processVars, turbineVars, HadTurn
  <2>2. \A n \in DOMAIN Turbines : \A d \in Devices(Turbines[n]) :
          /\ app = "wind-turbine" /\ HadTurn(n, d) => Applied(ns, Turbines[n], d)'
          /\ clean => Applied(ds, Turbines[n], d)'
    BY <1>1, <1>2 DEF TurbinesApplied
  <2>3. Tidy(ds)' /\ (app = "wind-turbine" => Tidy(ns)' /\ (clean => ns = ds))
    BY <1>1 DEF TurbinesApplied
  <2> QED
    BY <1>2, <2>1, <2>2, <2>3 DEF TurbinesApplied
<1> QED
  BY <1>7, <1>8, <1>9, <1>10, <1>11

(* TurbineAgain is an invariant.                                           *)
LEMMA TurbineAgainAlways == Spec => []TurbineAgain
<1>1. Init => TurbineAgain
  <2> SUFFICES ASSUME Init, ~IsScale
               PROVE  TurbinesApplied
    BY DEF TurbineAgain
  <2>1. doc = scenario.topology /\ scenario \in Scenarios /\ app = "none" /\ clean = FALSE
    BY DEF Init, ProcessInit
  <2>2. Tidy(doc)
    BY <2>1, ScenarioAssumption DEF Tidy, IsMachine, IsList
  <2> QED
    BY <2>1, <2>2 DEF TurbinesApplied
<1>2. TurbineInv /\ TurbineAgain /\ [Next]_vars => TurbineAgain'
  <2> SUFFICES ASSUME TurbineInv, TurbineAgain, [Next]_vars, ~IsScale'
               PROVE  TurbinesApplied'
    BY DEF TurbineAgain
  <2>1. scenario' = scenario /\ ~IsScale
    BY ScenarioIsKept, ScenarioStays
  <2>2. TurbinePlaces /\ TurbineTopology /\ TurbinesApplied
    BY <2>1 DEF TurbineInv, TurbineAgain
  <2>3. Start \/ (TurbineNext /\ clean' = (clean \/ Succeeded)) \/ UNCHANGED vars
    BY <2>1, <2>2, StagesAreOfTheOtherApp DEF Next, Configure, Stages
  <2>4. CASE Start \/ UNCHANGED vars \/ ((NextTurbine \/ TurbineFails \/ TurbinesDone) /\ clean' = (clean \/ Succeeded))
    BY <2>1, <2>2, <2>4, TurnsOtherwise
  <2>5. CASE (MainControllerConfigured \/ AnemometerConfigured \/ YawConfigured \/ BladeConfigured) /\ clean' = (clean \/ Succeeded)
    <3>1. app' = app
      BY <2>1, <2>2, <2>5, DeviceChanges
    <3>2. clean' => clean
      BY <2>5, <3>1 DEF Succeeded
    <3> QED
      BY <2>1, <2>2, <2>5, <3>2, TurnsApplied
  <2> QED
    BY <2>3, <2>4, <2>5 DEF TurbineNext
<1> QED
  BY <1>1, <1>2, TurbineInvAlways, PTL DEF Spec

-----------------------------------------------------------------------------
(* What the turn of a VM leaves in a topology: the VM with its injects...  *)
Covered(ns, v) ==
  /\ InTopology(ns, Host(v))
  /\ Carries(ns, Host(v), CommonInjects(Profiles[v[1]], Host(v)))
  /\ IsFarm(Profiles[v[1]]) => Carries(ns, Host(v), FarmInjects(Profiles[v[1]]))

(* ... and what it announces on the node of its broker, where other VMs    *)
(* may announce too: what stands there in the end is the last one's.       *)
Writes(v) == IsFarm(Profiles[v[1]]) /\ CountsFederates(Profiles[v[1]], v[2])

BrokerHost(v) == Profiles[v[1]].helics.host

Announcement(ns, v) ==
  <<[broker |-> BrokerAddress(ns, Profiles[v[1]].helics), count |-> FederateCount(Profiles[v[1]], v[2])]>>

Before(v, w) == v[1] < w[1] \/ (v[1] = w[1] /\ v[2] < w[2])

IsLast(v, S) == \A w \in S : Writes(w) /\ BrokerHost(w) = BrokerHost(v) => ~Before(v, w)

Reflects(ns, S) ==
  \A v \in S :
    /\ Covered(ns, v)
    /\ Writes(v) =>
         /\ InTopology(ns, BrokerHost(v))
         /\ IsLast(v, S) => ExtractNode(ns, BrokerHost(v)).federate = Announcement(ns, v)

(* ns differs from what phenix has only in announcements that the turns    *)
(* still to come make again.                                               *)
Nearly(ns) ==
  /\ DOMAIN ns = DOMAIN doc
  /\ \A j \in DOMAIN doc :
       /\ DOMAIN ns[j] = DOMAIN doc[j]
       /\ \A field \in DOMAIN doc[j] \ {"federate"} : ns[j][field] = doc[j][field]
       /\ \/ ns[j].federate = doc[j].federate
          \/ \E v \in ProfileVms : ~Passed(v) /\ Writes(v) /\ j = NodeIndex(doc, BrokerHost(v))

PassedVms == {v \in ProfileVms : Passed(v)}

VmsApplied ==
  /\ Sound(doc) /\ (clean => Reflects(doc, ProfileVms))
  /\ app = "configure" => /\ Sound(nodes) /\ Reflects(nodes, PassedVms)
                          /\ clean => Nearly(nodes)

ScaleAgain == IsScale => VmsApplied

(* What is left by VMs depends on the scenario alone.                      *)
LEMMA ScenarioStaysForVms ==
  ASSUME scenario' = scenario
  PROVE  /\ Profiles' = Profiles /\ ProfileVms' = ProfileVms
         /\ \A ns, S : Reflects(ns, S)' = Reflects(ns, S)
<1>1. Profiles' = Profiles /\ ProfileVms' = ProfileVms /\ \A v : Host(v)' = Host(v)
  BY ScenarioStays
<1>2. /\ \A v : Writes(v)' = Writes(v) /\ BrokerHost(v)' = BrokerHost(v)
      /\ \A ns, v : Announcement(ns, v)' = Announcement(ns, v) /\ Covered(ns, v)' = Covered(ns, v)
  BY <1>1 DEF Writes, BrokerHost, Announcement, Covered
<1>3. \A v, S : IsLast(v, S)' = IsLast(v, S)
  BY <1>2 DEF IsLast
<1>4. \A ns, S : Reflects(ns, S)' = Reflects(ns, S)
  BY <1>2, <1>3 DEF Reflects
<1> QED
  BY <1>1, <1>4

(* The VMs are pairs of numbers.                                           *)
LEMMA VmsArePairs ==
  ASSUME IsScale, scenario \in Scenarios
  PROVE  \A v \in ProfileVms : /\ v = <<v[1], v[2]>> /\ v[1] \in DOMAIN Profiles /\ v[1] \in Nat /\ v[1] <= Len(Profiles)
                               /\ v[2] \in Nat /\ v[2] >= 1 /\ v[2] <= NodeCount(Profiles[v[1]])
                               /\ NodeCount(Profiles[v[1]]) \in Nat
<1>1. \A v \in ProfileVms : v[1] \in DOMAIN Profiles /\ v[2] \in 1..NodeCount(Profiles[v[1]]) /\ v = <<v[1], v[2]>>
  BY DEF ProfileVms
<1>2. DOMAIN Profiles = 1..Len(Profiles) /\ Len(Profiles) \in Nat /\ \A k \in DOMAIN Profiles : NodeCount(Profiles[k]) \in Nat
  BY ProfilesAreProfiles, CountIsNatural
<1> QED
  BY <1>1, <1>2

(* A broker that is there keeps its address while the topology grows.      *)
LEMMA SameAnnouncement ==
  ASSUME NEW ns, NEW ms, NEW K, Grows(ns, ms, K), NEW v, Writes(v), InTopology(ns, BrokerHost(v))
  PROVE  Announcement(ms, v) = Announcement(ns, v)
<1> DEFINE b == Profiles[v[1]].helics
<1>1. b # None /\ b.host # None /\ BrokerHost(v) = b.host
  BY DEF Writes, CountsFederates, BrokerHost
<1>2. ExtractNodeInterfaceIp(ms, b.host, b.iface) = ExtractNodeInterfaceIp(ns, b.host, b.iface)
  <2> HIDE DEF b
  <2>1. PICK h : h = b.host
    OBVIOUS
  <2> QED
    BY <1>1, <2>1, GrowsKeeps
<1>3. BrokerAddress(ms, b) = BrokerAddress(ns, b)
  <2> HIDE DEF b
  <2> QED
    BY <1>1, <1>2 DEF BrokerAddress
<1> QED
  BY <1>3 DEF Announcement

(* One more VM has had its turn.                                           *)
LEMMA ReflectsMore ==
  ASSUME NEW S, NEW u, \A v \in S : Before(v, u), ~Before(u, u),
         NEW ns, NEW ms, Reflects(ns, S),
         Grows(ns, ms, IF Writes(u) THEN {NodeIndex(ns, BrokerHost(u))} ELSE {}),
         Covered(ms, u),
         Writes(u) => InTopology(ns, BrokerHost(u)) /\ ExtractNode(ms, BrokerHost(u)).federate = Announcement(ms, u)
  PROVE  Reflects(ms, S \cup {u})
<1> DEFINE K == IF Writes(u) THEN {NodeIndex(ns, BrokerHost(u))} ELSE {}
<1>1. Grows(ns, ms, K)
  OBVIOUS
<1>2. ASSUME NEW v \in S
      PROVE  /\ Covered(ms, v)
             /\ Writes(v) => /\ InTopology(ms, BrokerHost(v))
                             /\ IsLast(v, S \cup {u}) => ExtractNode(ms, BrokerHost(v)).federate = Announcement(ms, v)
  <2>1. /\ Covered(ns, v)
        /\ Writes(v) => /\ InTopology(ns, BrokerHost(v))
                        /\ IsLast(v, S) => ExtractNode(ns, BrokerHost(v)).federate = Announcement(ns, v)
    BY <1>2 DEF Reflects
  <2>2. Covered(ms, v)
    <3> HIDE DEF K
    <3>1. PICK h : h = Host(v)
      OBVIOUS
    <3>2. InTopology(ns, h)
      BY <2>1, <3>1 DEF Covered
    <3>3. InTopology(ms, h) /\ \A injects : Carries(ns, h, injects) => Carries(ms, h, injects)
      BY <1>1, <3>2, GrowsKeeps
    <3> QED
      BY <2>1, <3>1, <3>3 DEF Covered
  <2>3. ASSUME Writes(v)
        PROVE  InTopology(ms, BrokerHost(v))
    <3> HIDE DEF K
    <3> QED
      BY <1>1, <2>1, <2>3, GrowsKeeps
  <2>4. ASSUME Writes(v), IsLast(v, S \cup {u})
        PROVE  ExtractNode(ms, BrokerHost(v)).federate = Announcement(ms, v)
    <3>1. InTopology(ns, BrokerHost(v)) /\ ExtractNode(ns, BrokerHost(v)).federate = Announcement(ns, v)
      BY <2>1, <2>4 DEF IsLast
    <3>2. Writes(u) => BrokerHost(u) # BrokerHost(v)
      BY <1>2, <2>4 DEF IsLast
    <3>3. ASSUME Writes(u)
          PROVE  NodeIndex(ns, BrokerHost(v)) # NodeIndex(ns, BrokerHost(u))
      <4>1. ns[NodeIndex(ns, BrokerHost(v))].hostname = BrokerHost(v)
        <5> HIDE DEF K
        <5> QED
          BY <1>1, <3>1, GrowsKeeps
      <4>2. ns[NodeIndex(ns, BrokerHost(u))].hostname = BrokerHost(u)
        <5>1. InTopology(ns, BrokerHost(u))
          BY <3>3
        <5> HIDE DEF K
        <5> QED
          BY <1>1, <5>1, GrowsKeeps
      <4> QED
        BY <3>2, <3>3, <4>1, <4>2
    <3>4. NodeIndex(ns, BrokerHost(v)) \notin K
      BY <3>3
    <3> HIDE DEF K
    <3>5. ExtractNode(ms, BrokerHost(v)).federate = ExtractNode(ns, BrokerHost(v)).federate
      BY <1>1, <3>1, <3>4, GrowsKeeps
    <3>6. Announcement(ms, v) = Announcement(ns, v)
      BY <1>1, <2>4, <3>1, SameAnnouncement
    <3> QED
      BY <3>1, <3>5, <3>6
  <2> QED
    BY <2>2, <2>3, <2>4
<1>3. Writes(u) => InTopology(ms, BrokerHost(u))
  <2> SUFFICES ASSUME Writes(u)
               PROVE  InTopology(ms, BrokerHost(u))
    OBVIOUS
  <2>1. InTopology(ns, BrokerHost(u))
    OBVIOUS
  <2> HIDE DEF K
  <2> QED
    BY <1>1, <2>1, GrowsKeeps
<1> QED
  BY <1>2, <1>3 DEF Reflects

(* The node a VM has when it is added.                                     *)
LEMMA AddedNode ==
  ASSUME NEW p, NEW i, NEW ns, Sound(ns), NEW ms, ms = AddNode(ns, NodeSpec(p, i))
  PROVE  /\ Grows(ns, ms, {}) /\ InTopology(ms, Hostname(p, i))
         /\ InTopology(ns, Hostname(p, i)) => ms = ns
<1>1. PICK node : node = NodeSpec(p, i)
  OBVIOUS
<1>2. IsNode(node) /\ "ifaces" \in DOMAIN node /\ node.hostname = Hostname(p, i) /\ node.injects = << >>
  BY <1>1 DEF NodeSpec, IsNode
<1>3. IsList(node.injects)
  BY <1>2, ShortLists
<1>4. CASE InTopology(ns, node.hostname)
  BY <1>1, <1>2, <1>4 DEF AddNode, Grows
<1>5. CASE ~InTopology(ns, node.hostname)
  <2>1. ms = Append(ns, node)
    BY <1>1, <1>5 DEF AddNode
  <2> QED
    BY <1>2, <1>3, <1>5, <2>1, NodeGrows
<1> QED
  BY <1>4, <1>5

(* What the turn of a VM does to a topology that has what the VM leaves.   *)
AnnouncesOnly(ns, ms, v) ==
  IF Writes(v) THEN ms = AddAnnotation(ns, BrokerHost(v), Announcement(ns, v)) ELSE ms = ns

(* A VM's turn lets the topology grow by what the VM leaves.               *)
LEMMA VmLeaves ==
  ASSUME IsScale, ScalePlaces, ConfigureVm, NEW ns, ns = nodes, Sound(ns), NEW ms, ms = nodes', NEW u, u = <<step.i, vm>>
  PROVE  /\ Grows(ns, ms, IF Writes(u) THEN {NodeIndex(ns, BrokerHost(u))} ELSE {}) /\ Covered(ms, u)
         /\ Writes(u) => InTopology(ns, BrokerHost(u)) /\ ExtractNode(ms, BrokerHost(u)).federate = Announcement(ms, u)
         /\ Covered(ns, u) => AnnouncesOnly(ns, ms, u)
<1>1. PICK p, h, ci, fi : p = ThisProfile /\ h = ThisHost /\ ci = CommonInjects(p, h) /\ fi = FarmInjects(p)
  OBVIOUS
<1>2. PICK added, common, farm : /\ added = AddNode(ns, NodeSpec(p, vm))
                                 /\ common = AddInjects(added, h, ci) /\ farm = AddInjects(common, h, fi)
  OBVIOUS
<1>3. /\ InVms("configure")
      /\ ~IsFarm(p) => ms = common
      /\ IsFarm(p) => ~FarmRaises(p, vm) /\ ms = Annotated(farm, p, vm)
  BY <1>1, <1>2 DEF ConfigureVm
<1>4. IsProfile(p) /\ Host(u) = h /\ h = Hostname(p, vm) /\ p = Profiles[u[1]] /\ vm = u[2]
  BY <1>1, <1>3, ThisVm DEF ThisHost, ThisProfile
<1>5. IsList(ci) /\ IsList(fi)
  BY <1>1, <1>4, VmInjectsAreLists
<1>6. Grows(ns, added, {}) /\ InTopology(added, h) /\ (InTopology(ns, h) => added = ns)
  BY <1>2, <1>4, AddedNode
<1>7. Grows(added, common, {}) /\ InTopology(common, h) /\ Carries(common, h, ci)
  <2>1. Sound(added) /\ Tidy(added)
    BY <1>6 DEF Grows, Sound
  <2>2. Grows(added, common, {}) /\ Carries(common, h, ci)
    BY <1>2, <1>5, <2>1, InjectsGrow, InjectsCarried
  <2> QED
    BY <1>6, <2>2, GrowsKeeps
<1>8. Grows(common, farm, {}) /\ InTopology(farm, h) /\ Carries(farm, h, ci) /\ Carries(farm, h, fi)
  <2>1. Sound(common) /\ Tidy(common)
    BY <1>7 DEF Grows, Sound
  <2>2. Grows(common, farm, {}) /\ Carries(farm, h, fi)
    BY <1>2, <1>5, <2>1, InjectsGrow, InjectsCarried
  <2> QED
    BY <1>7, <2>2, GrowsKeeps
<1>9. Grows(ns, common, {}) /\ Grows(ns, farm, {})
  <2>1. Grows(ns, common, {})
    BY <1>6, <1>7, GrowsMore
  <2> QED
    BY <1>8, <2>1, GrowsMore
<1>10. Covered(ns, u) /\ IsFarm(p) => farm = ns
  <2> SUFFICES ASSUME Covered(ns, u), IsFarm(p)
               PROVE  farm = ns
    OBVIOUS
  <2>1. InTopology(ns, h) /\ Carries(ns, h, ci) /\ Carries(ns, h, fi)
    BY <1>1, <1>4 DEF Covered
  <2>2. Tidy(ns)
    BY DEF Sound
  <2> QED
    BY <1>2, <1>5, <1>6, <2>1, <2>2, InjectsAgain
<1>11. CASE ~IsFarm(p)
  <2>1. ms = common /\ ~Writes(u)
    BY <1>3, <1>4, <1>11 DEF Writes
  <2>2. Covered(ms, u)
    BY <1>1, <1>4, <1>7, <1>11, <2>1 DEF Covered
  <2>3. Covered(ns, u) => ms = ns
    <3> SUFFICES ASSUME Covered(ns, u)
                 PROVE  ms = ns
      OBVIOUS
    <3>1. InTopology(ns, h) /\ Carries(ns, h, ci)
      BY <1>1, <1>4 DEF Covered
    <3>2. Tidy(ns)
      BY DEF Sound
    <3> QED
      BY <1>2, <1>5, <1>6, <2>1, <3>1, <3>2, InjectsAgain
  <2> QED
    BY <1>9, <2>1, <2>2, <2>3 DEF AnnouncesOnly
<1>12. CASE IsFarm(p) /\ ~CountsFederates(p, vm)
  <2>1. ms = farm /\ ~Writes(u)
    BY <1>3, <1>4, <1>12 DEF Writes, Annotated
  <2>2. Covered(ms, u)
    BY <1>1, <1>4, <1>8, <2>1 DEF Covered
  <2> QED
    BY <1>9, <1>10, <1>12, <2>1, <2>2 DEF AnnouncesOnly
<1>13. CASE IsFarm(p) /\ CountsFederates(p, vm)
  <2>1. PICK b, value : b = BrokerHost(u) /\ value = Announcement(farm, u)
    OBVIOUS
  <2>2. Writes(u) /\ b = p.helics.host
    BY <1>4, <1>13, <2>1 DEF Writes, BrokerHost
  <2>3. ms = AddAnnotation(farm, b, value)
    BY <1>3, <1>4, <1>13, <2>1, <2>2 DEF Annotated, Announcement
  <2>4. InTopology(ns, b)
    <3>1. BrokerAddress(ns, p.helics) # None /\ p.helics # None /\ p.helics.host # None
      BY <1>3, <1>13 DEF FarmRaises, CountsFederates
    <3>2. ExtractNodeInterfaceIp(ns, p.helics.host, p.helics.iface) # None
      BY <3>1 DEF BrokerAddress
    <3>3. PICK i : i = p.helics.iface
      OBVIOUS
    <3> QED
      BY <2>2, <3>2, <3>3, AddressIsOfNode
  <2>5. InTopology(farm, b) /\ NodeIndex(farm, b) = NodeIndex(ns, b) /\ NodeIndex(ns, b) \in DOMAIN ns
    BY <1>9, <2>4, GrowsKeeps
  <2>6. Sound(farm) /\ Tidy(farm)
    BY <1>9 DEF Grows, Sound
  <2>7. Grows(farm, ms, {NodeIndex(ns, b)})
    <3>1. Grows(farm, ms, {NodeIndex(farm, b)})
      BY <2>3, <2>6, AnnotationGrows
    <3> QED
      BY <2>5, <3>1
  <2>8. Grows(ns, ms, {NodeIndex(ns, b)})
    <3>1. PICK K, L : K = {} /\ L = {NodeIndex(ns, b)}
      OBVIOUS
    <3>2. Grows(ns, farm, K) /\ Grows(farm, ms, L) /\ K \cup L \subseteq L
      BY <1>9, <2>7, <3>1
    <3>3. Grows(ns, ms, L)
      BY <3>2, GrowsMore
    <3> QED
      BY <3>1, <3>3
  <2>9. Covered(ms, u)
    <3>1. PICK L : L = {NodeIndex(ns, b)}
      OBVIOUS
    <3>2. InTopology(ms, h) /\ Carries(ms, h, ci) /\ Carries(ms, h, fi)
      BY <1>8, <2>7, <3>1, GrowsKeeps
    <3> QED
      BY <1>1, <1>4, <3>2 DEF Covered
  <2>10. ExtractNode(ms, b).federate = Announcement(ms, u)
    <3>1. NodeIndex(ms, b) = NodeIndex(farm, b) /\ \A j \in DOMAIN farm : ms[j].federate = IF j = NodeIndex(farm, b) THEN value ELSE farm[j].federate
      BY <2>3, <2>6, AnnotationIs
    <3>2. NodeIndex(farm, b) \in DOMAIN farm
      BY <2>5, <1>9 DEF Grows
    <3>3. ExtractNode(ms, b).federate = value
      BY <3>1, <3>2 DEF ExtractNode
    <3>4. Announcement(ms, u) = Announcement(farm, u)
      BY <2>1, <2>2, <2>5, <2>7, SameAnnouncement
    <3> QED
      BY <2>1, <3>3, <3>4
  <2>11. Covered(ns, u) => ms = AddAnnotation(ns, b, Announcement(ns, u))
    BY <1>10, <1>13, <2>1, <2>3
  <2> QED
    BY <2>1, <2>2, <2>4, <2>8, <2>9, <2>10, <2>11 DEF AnnouncesOnly
<1> QED
  BY <1>11, <1>12, <1>13

(* A topology that is nearly what phenix has has its machines.             *)
LEMMA NearlyHasMachines ==
  ASSUME NEW ns, Sound(ns), NEW ds, ds = doc, Sound(ds), Nearly(ns)
  PROVE  Grows(ds, ns, DOMAIN ds)
<1>1. DOMAIN ns = DOMAIN ds /\ \A j \in DOMAIN ds : \A field \in DOMAIN ds[j] \ {"federate"} : ns[j][field] = ds[j][field]
  BY DEF Nearly
<1>2. \A j \in DOMAIN ds : {"hostname", "injects", "ifaces"} \subseteq DOMAIN ds[j]
  BY DEF Sound, Tidy, IsTopology, IsNode
<1>3. \A j \in DOMAIN ds : ns[j].hostname = ds[j].hostname /\ ns[j].ifaces = ds[j].ifaces /\ ns[j].injects = ds[j].injects
  BY <1>1, <1>2
<1> QED
  BY <1>1, <1>3 DEF Grows

(* The VM whose turn it is comes after those that had theirs.              *)
LEMMA ThisVmIsNext ==
  ASSUME IsScale, ScalePlaces, ConfigureVm, NEW u, u = <<step.i, vm>>
  PROVE  /\ u \in ProfileVms /\ \A v \in PassedVms : Before(v, u)
         /\ ~Before(u, u)
         /\ \A v \in ProfileVms : /\ Passed(v)' <=> Passed(v) \/ v = u
                                  /\ Before(u, v) => ~Passed(v)'
<1>1. u \in ProfileVms /\ vm \in Nat /\ step.i \in Nat
  BY ThisVm DEF ConfigureVm, ScalePlaces
<1>2. \A v \in ProfileVms : v = <<v[1], v[2]>> /\ v[1] \in Nat /\ v[2] \in Nat
  BY VmsArePairs DEF ScalePlaces
<1>3. step' = step /\ vm' = vm + 1
  BY DEF ConfigureVm, NextVm
<1>4. u[1] = step.i /\ u[2] = vm
  OBVIOUS
<1>5. \A v \in PassedVms : Before(v, u)
  BY <1>4 DEF PassedVms, Passed, Before
<1>6. ~Before(u, u)
  BY <1>1, <1>4 DEF Before
<1>7. ASSUME NEW v \in ProfileVms
      PROVE  /\ Passed(v)' <=> Passed(v) \/ v = u
             /\ Before(u, v) => ~Passed(v)'
  <2>1. v = <<v[1], v[2]>> /\ v[1] \in Nat /\ v[2] \in Nat
    BY <1>2
  <2>2. Passed(v)' <=> (v[1] < step.i \/ (v[1] = step.i /\ v[2] < vm + 1))
    BY <1>3 DEF Passed
  <2>3. v = u <=> v[1] = step.i /\ v[2] = vm
    BY <2>1
  <2>4. Passed(v) <=> (v[1] < step.i \/ (v[1] = step.i /\ v[2] < vm))
    BY DEF Passed
  <2>5. Passed(v)' <=> Passed(v) \/ v = u
    BY <1>1, <2>1, <2>2, <2>3, <2>4
  <2>6. Before(u, v) => ~Passed(v)'
    BY <1>1, <1>4, <2>1, <2>2 DEF Before
  <2> QED
    BY <2>5, <2>6
<1> QED
  BY <1>1, <1>5, <1>6, <1>7

(* The turn of a VM in a stage that has succeeded before.                  *)
LEMMA TurnAgain ==
  ASSUME IsScale, ScalePlaces, ConfigureVm, NEW ns, ns = nodes, Sound(ns), NEW ds, ds = doc, Sound(ds),
         Reflects(ds, ProfileVms), Nearly(ns), NEW ms, ms = nodes'
  PROVE  /\ DOMAIN ms = DOMAIN ds
         /\ \A j \in DOMAIN ds :
              /\ DOMAIN ms[j] = DOMAIN ds[j]
              /\ \A field \in DOMAIN ds[j] \ {"federate"} : ms[j][field] = ds[j][field]
              /\ \/ ms[j].federate = ds[j].federate
                 \/ \E v \in ProfileVms : ~Passed(v)' /\ Writes(v) /\ j = NodeIndex(ds, BrokerHost(v))
<1>1. PICK u, h : u = <<step.i, vm>> /\ h = Host(u)
  OBVIOUS
<1>2. /\ u \in ProfileVms
      /\ \A v \in ProfileVms : (Passed(v)' <=> Passed(v) \/ v = u) /\ (Before(u, v) => ~Passed(v)')
  BY <1>1, ThisVmIsNext
<1>3. Grows(ds, ns, DOMAIN ds)
  BY NearlyHasMachines
<1>4. /\ Covered(ds, u)
      /\ Writes(u) => /\ InTopology(ds, BrokerHost(u))
                      /\ IsLast(u, ProfileVms) => ExtractNode(ds, BrokerHost(u)).federate = Announcement(ds, u)
  BY <1>2 DEF Reflects
<1>5. Covered(ns, u)
  <2>1. InTopology(ds, h)
    BY <1>1, <1>4 DEF Covered
  <2>2. InTopology(ns, h) /\ \A injects : Carries(ds, h, injects) => Carries(ns, h, injects)
    BY <1>3, <2>1, GrowsKeeps
  <2> QED
    BY <1>1, <1>4, <2>2 DEF Covered
<1>6. AnnouncesOnly(ns, ms, u)
  BY <1>1, <1>5, VmLeaves
<1>7. /\ DOMAIN ns = DOMAIN ds
      /\ \A j \in DOMAIN ds :
           /\ DOMAIN ns[j] = DOMAIN ds[j]
           /\ \A field \in DOMAIN ds[j] \ {"federate"} : ns[j][field] = ds[j][field]
           /\ \/ ns[j].federate = ds[j].federate
              \/ \E v \in ProfileVms : ~Passed(v) /\ Writes(v) /\ j = NodeIndex(ds, BrokerHost(v))
  BY DEF Nearly
<1>8. CASE ~Writes(u) /\ ms = ns
  <2>1. \A v \in ProfileVms : ~Passed(v) /\ Writes(v) => ~Passed(v)'
    BY <1>2, <1>8
  <2> QED
    BY <1>7, <1>8, <2>1
<1>9. CASE Writes(u) /\ ms = AddAnnotation(ns, BrokerHost(u), Announcement(ns, u))
  <2>1. PICK b, value : b = BrokerHost(u) /\ value = Announcement(ns, u)
    OBVIOUS
  <2>2. InTopology(ds, b) /\ NodeIndex(ns, b) = NodeIndex(ds, b) /\ value = Announcement(ds, u)
    <3>1. InTopology(ds, b)
      BY <1>4, <1>9, <2>1
    <3>2. NodeIndex(ns, b) = NodeIndex(ds, b)
      BY <1>3, <3>1, GrowsKeeps
    <3>3. Announcement(ns, u) = Announcement(ds, u)
      BY <1>3, <1>9, <2>1, <3>1, SameAnnouncement
    <3> QED
      BY <2>1, <3>1, <3>2, <3>3
  <2>3. /\ DOMAIN ms = DOMAIN ns
        /\ \A j \in DOMAIN ns :
             /\ DOMAIN ms[j] = DOMAIN ns[j]
             /\ \A field \in DOMAIN ns[j] \ {"federate"} : ms[j][field] = ns[j][field]
             /\ ms[j].federate = IF j = NodeIndex(ns, b) THEN value ELSE ns[j].federate
    <3>1. Tidy(ns) /\ ms = AddAnnotation(ns, b, value)
      BY <1>9, <2>1 DEF Sound
    <3> QED
      BY <3>1, AnnotationIs
  <2>4. ASSUME NEW j \in DOMAIN ds, j # NodeIndex(ds, b)
        PROVE  \/ ms[j].federate = ds[j].federate
               \/ \E v \in ProfileVms : ~Passed(v)' /\ Writes(v) /\ j = NodeIndex(ds, BrokerHost(v))
    <3>1. ms[j].federate = ns[j].federate
      BY <1>7, <2>2, <2>3, <2>4
    <3>2. ASSUME NEW v \in ProfileVms, ~Passed(v), j = NodeIndex(ds, BrokerHost(v))
          PROVE  ~Passed(v)'
      BY <1>2, <2>1, <2>4, <3>2
    <3> QED
      BY <1>7, <3>1, <3>2
  <2>5. ASSUME NEW j \in DOMAIN ds, j = NodeIndex(ds, b)
        PROVE  \/ ms[j].federate = ds[j].federate
               \/ \E v \in ProfileVms : ~Passed(v)' /\ Writes(v) /\ j = NodeIndex(ds, BrokerHost(v))
    <3>1. ms[j].federate = value
      BY <1>7, <2>2, <2>3, <2>5
    <3>2. CASE IsLast(u, ProfileVms)
      BY <1>4, <1>9, <2>1, <2>2, <2>5, <3>1, <3>2 DEF ExtractNode
    <3>3. CASE ~IsLast(u, ProfileVms)
      <4>1. PICK w \in ProfileVms : Writes(w) /\ BrokerHost(w) = b /\ Before(u, w)
        BY <2>1, <3>3 DEF IsLast
      <4> QED
        BY <1>2, <2>5, <4>1
    <3> QED
      BY <3>2, <3>3
  <2>6. \A j \in DOMAIN ds : DOMAIN ms[j] = DOMAIN ds[j] /\ \A field \in DOMAIN ds[j] \ {"federate"} : ms[j][field] = ds[j][field]
    BY <1>7, <2>3
  <2> QED
    BY <1>7, <2>3, <2>4, <2>5, <2>6
<1> QED
  BY <1>6, <1>8, <1>9 DEF AnnouncesOnly

(* VmsApplied holds after the turn of a VM.                                *)
LEMMA VmTurnApplied ==
  ASSUME IsScale, ScalePlaces, VmsApplied, ConfigureVm, clean' => clean
  PROVE  VmsApplied'
<1>1. PICK ns, ms, ds, u : ns = nodes /\ ms = nodes' /\ ds = doc /\ u = <<step.i, vm>>
  OBVIOUS
<1>2. scenario' = scenario /\ app = "configure" /\ app' = app /\ doc' = ds
  BY <1>1 DEF ConfigureVm, InVms, InProfiles
<1>3. /\ Profiles' = Profiles /\ ProfileVms' = ProfileVms
      /\ \A xs, S : Reflects(xs, S)' = Reflects(xs, S)
  BY <1>2, ScenarioStaysForVms
<1>4. /\ u \in ProfileVms /\ ~Before(u, u) /\ \A v \in PassedVms : Before(v, u)
      /\ \A v \in ProfileVms : Passed(v)' <=> Passed(v) \/ v = u
  BY <1>1, ThisVmIsNext
<1>5. PassedVms' = PassedVms \cup {u}
  BY <1>3, <1>4 DEF PassedVms
<1>6. Sound(ns) /\ Sound(ds) /\ Reflects(ns, PassedVms) /\ (clean => Reflects(ds, ProfileVms) /\ Nearly(ns))
  BY <1>1, <1>2 DEF VmsApplied
<1>7. /\ Grows(ns, ms, IF Writes(u) THEN {NodeIndex(ns, BrokerHost(u))} ELSE {}) /\ Covered(ms, u)
      /\ Writes(u) => InTopology(ns, BrokerHost(u)) /\ ExtractNode(ms, BrokerHost(u)).federate = Announcement(ms, u)
  BY <1>1, <1>6, VmLeaves
<1>8. Sound(ms)
  BY <1>7 DEF Grows
<1>9. Reflects(ms, PassedVms \cup {u})
  <2>1. PICK S : S = PassedVms
    OBVIOUS
  <2> QED
    BY <1>4, <1>6, <1>7, <2>1, ReflectsMore
<1>10. clean => Nearly(ms)'
  <2> SUFFICES ASSUME clean
               PROVE  Nearly(ms)'
    OBVIOUS
  <2>1. /\ DOMAIN ms = DOMAIN ds
        /\ \A j \in DOMAIN ds :
             /\ DOMAIN ms[j] = DOMAIN ds[j]
             /\ \A field \in DOMAIN ds[j] \ {"federate"} : ms[j][field] = ds[j][field]
             /\ \/ ms[j].federate = ds[j].federate
                \/ \E v \in ProfileVms : ~Passed(v)' /\ Writes(v) /\ j = NodeIndex(ds, BrokerHost(v))
    BY <1>1, <1>6, TurnAgain
  <2>2. \A v : Writes(v)' = Writes(v) /\ BrokerHost(v)' = BrokerHost(v)
    BY <1>3 DEF Writes, BrokerHost
  <2> QED
    BY <1>2, <1>3, <2>1, <2>2 DEF Nearly
<1>11. \A S : S = PassedVms \cup {u} => Reflects(ms, S)'
  BY <1>3, <1>9
<1>12. Reflects(ms, PassedVms)' /\ (clean' => Reflects(ds, ProfileVms)') /\ Sound(ms)' /\ Sound(ds)'
  BY <1>3, <1>5, <1>6, <1>8, <1>11
<1> QED
  BY <1>1, <1>2, <1>10, <1>12 DEF VmsApplied

(* VmsApplied holds after a step that touches no topology and after which  *)
(* the same VMs have had their turn.                                       *)
LEMMA VmsKept ==
  ASSUME VmsApplied, scenario' = scenario, doc' = doc, clean' => clean,
         app' = "configure" => /\ app = "configure" /\ nodes' = nodes
                               /\ \A v \in ProfileVms : Passed(v)' <=> Passed(v)
  PROVE  VmsApplied'
<1>1. PICK ns, ds : ns = nodes /\ ds = doc
  OBVIOUS
<1>2. /\ Profiles' = Profiles /\ ProfileVms' = ProfileVms
      /\ \A xs, S : Reflects(xs, S)' = Reflects(xs, S)
  BY ScenarioStaysForVms
<1>3. \A v : Writes(v)' = Writes(v) /\ BrokerHost(v)' = BrokerHost(v)
  BY <1>2 DEF Writes, BrokerHost
<1>4. Sound(ds)' /\ (clean' => Reflects(ds, ProfileVms)')
  BY <1>1, <1>2 DEF VmsApplied
<1>5. ASSUME app' = "configure"
      PROVE  /\ nodes' = ns /\ Sound(ns)' /\ Reflects(ns, PassedVms)'
             /\ clean' => Nearly(ns)'
  <2>1. nodes' = ns /\ Sound(ns) /\ Reflects(ns, PassedVms) /\ (clean => Nearly(ns))
    BY <1>1, <1>5 DEF VmsApplied
  <2>2. PassedVms' = PassedVms
    BY <1>2, <1>5 DEF PassedVms
  <2>3. Reflects(ns, PassedVms)'
    <3>1. \A S : S = PassedVms => Reflects(ns, S)'
      BY <1>2, <2>1
    <3> QED
      BY <2>2, <3>1
  <2>4. Nearly(ns) => Nearly(ns)'
    BY <1>2, <1>3, <1>5 DEF Nearly
  <2> QED
    BY <2>1, <2>3, <2>4
<1> QED
  BY <1>1, <1>4, <1>5 DEF VmsApplied

(* VmsApplied holds after the steps between turns and after those that     *)
(* begin or end a stage.                                                   *)
LEMMA VmsOtherwise ==
  ASSUME IsScale, ScalePlaces, ScaleNodes, StartedClean, VmsApplied, scenario' = scenario,
         \/ Configure \/ Start \/ UNCHANGED vars
         \/ ScaleNext /\ ~ConfigureVm /\ clean' = (clean \/ Succeeded)
  PROVE  VmsApplied'
<1>1. PICK ns, ds : ns = nodes /\ ds = doc
  OBVIOUS
<1>2. /\ Profiles' = Profiles /\ ProfileVms' = ProfileVms
      /\ \A xs, S : Reflects(xs, S)' = Reflects(xs, S)
  BY ScenarioStaysForVms
<1>3. \A v \in ProfileVms : /\ v[1] \in Nat /\ v[1] <= Len(Profiles) /\ v[2] \in Nat /\ v[2] >= 1
                            /\ v[2] <= NodeCount(Profiles[v[1]]) /\ NodeCount(Profiles[v[1]]) \in Nat
  BY VmsArePairs DEF ScalePlaces
<1>4. step.i \in Nat /\ vm \in Nat /\ Len(Profiles) \in Nat
  BY ProfilesAreProfiles DEF ScalePlaces
<1>5. CASE Configure
  <2>1. /\ vm' = 0 /\ step'.i = 1 /\ nodes' = ds /\ doc' = ds /\ clean' = clean /\ app' = "configure"
    BY <1>1, <1>5 DEF Configure, Launch, GoTo, scaleVars, ScalePlaces, Idle, Stage
  <2>2. PassedVms' = {}
    <3>1. \A v \in ProfileVms : v[1] >= 1
      BY VmsArePairs, ProfilesAreProfiles DEF ScalePlaces
    <3>2. \A v \in ProfileVms : ~Passed(v)'
      BY <1>3, <2>1, <3>1 DEF Passed
    <3> QED
      BY <1>2, <3>2 DEF PassedVms
  <2>3. Reflects(ds, PassedVms)'
    <3>1. Reflects(ds, {})'
      BY DEF Reflects
    <3> QED
      BY <2>2, <3>1
  <2>4. Sound(ds)' /\ (clean' => Reflects(ds, ProfileVms)')
    BY <1>1, <1>2, <2>1 DEF VmsApplied
  <2>5. Nearly(ds)'
    BY <2>1 DEF Nearly
  <2> QED
    BY <2>1, <2>3, <2>4, <2>5 DEF VmsApplied
<1>6. CASE Start
  <2>1. doc' = doc /\ clean' = clean /\ app' = "post-start"
    BY <1>6 DEF Start, Launch
  <2> QED
    BY <2>1, VmsKept
<1>7. CASE UNCHANGED vars
  BY <1>7, VmsKept DEF vars, processVars, scaleVars, Passed
<1>8. ASSUME clean' = (clean \/ Succeeded), app' = app \/ app' = "failed", doc' = doc,
             app' = "configure" => nodes' = nodes /\ \A v \in ProfileVms : Passed(v)' <=> Passed(v)
      PROVE  VmsApplied'
  <2>1. clean' => clean
    BY <1>8 DEF Succeeded
  <2>2. app' = "configure" => app = "configure"
    BY <1>8
  <2> QED
    BY <1>8, <2>1, <2>2, VmsKept
<1>9. CASE BeginProfile /\ clean' = (clean \/ Succeeded)
  <2>1. app' = app /\ doc' = doc /\ nodes' = nodes /\ step' = step /\ vm = 0 /\ vm' = 1
    BY <1>9 DEF BeginProfile, Outside, processVars
  <2>2. \A v \in ProfileVms : Passed(v)' <=> Passed(v)
    BY <1>3, <2>1 DEF Passed
  <2> QED
    BY <1>8, <1>9, <2>1, <2>2
<1>10. CASE EndProfile("configure") /\ clean' = (clean \/ Succeeded)
  <2>1. /\ app' = app /\ doc' = doc /\ nodes' = nodes /\ step'.i = step.i + 1 /\ vm' = 0
        /\ vm > NodeCount(Profiles[step.i])
    BY <1>10 DEF EndProfile, VmsDone, InProfiles, Again, ScalePlaces, ThisProfile
  <2>2. ASSUME NEW v \in ProfileVms
        PROVE  Passed(v)' <=> Passed(v)
    <3>1. Passed(v)' <=> v[1] < step.i + 1
      BY <1>3, <2>1 DEF Passed
    <3>2. v[1] = step.i => v[2] < vm
      BY <1>3, <1>4, <2>1
    <3> QED
      BY <1>3, <1>4, <3>1, <3>2 DEF Passed
  <2> QED
    BY <1>8, <1>10, <2>1, <2>2
<1>11. CASE (BeginNetworks \/ StartVm \/ EndProfile("post-start")) /\ clean' = (clean \/ Succeeded)
  <2>1. app' = app /\ doc' = doc /\ app = "post-start"
    BY <1>11 DEF BeginNetworks, StartVm, EndProfile, Outside, InVms, VmsDone, InProfiles, processVars
  <2> QED
    BY <1>8, <1>11, <2>1
<1>12. CASE /\ ProfileFails \/ ConfigureVmFails \/ NetworksFail \/ StartVmFails \/ ConnectFails \/ SendFails
            /\ clean' = (clean \/ Succeeded)
  <2>1. app' = "failed" /\ doc' = doc
    BY <1>12 DEF ProfileFails, ConfigureVmFails, NetworksFail, StartVmFails, ConnectFails, SendFails, FailStage
  <2> QED
    BY <1>8, <1>12, <2>1
<1>13. CASE ConfigureDone
  <2>1. app = "configure" /\ app' = "configured" /\ doc' = ns /\ step.i > Len(Profiles)
    BY <1>1, <1>13 DEF ConfigureDone, Finish
  <2>2. PassedVms = ProfileVms
    BY <1>3, <1>4, <2>1 DEF PassedVms, Passed
  <2>3. Sound(ns) /\ Reflects(ns, ProfileVms)
    BY <1>1, <2>1, <2>2 DEF VmsApplied
  <2>4. Reflects(ns, ProfileVms)'
    BY <1>2, <2>3
  <2>5. Sound(ns)'
    BY <2>3
  <2> QED
    BY <2>1, <2>4, <2>5 DEF VmsApplied
<1>14. CASE PostStartDone
  <2>1. app = "post-start" /\ app' = "started" /\ doc' = ds
    BY <1>1, <1>14 DEF PostStartDone, Finish, ScaleNodes
  <2>2. clean
    BY <2>1 DEF StartedClean
  <2>3. doc' = doc
    BY <1>1, <2>1
  <2> QED
    BY <2>1, <2>2, <2>3, VmsKept
<1> QED
  BY <1>5, <1>6, <1>7, <1>9, <1>10, <1>11, <1>12, <1>13, <1>14 DEF ScaleNext

(* ScaleAgain is an invariant.                                             *)
LEMMA ScaleAgainAlways == Spec => []ScaleAgain
<1>1. Init => ScaleAgain
  <2> SUFFICES ASSUME Init, IsScale
               PROVE  VmsApplied
    BY DEF ScaleAgain
  <2>1. doc = scenario.topology /\ scenario \in Scenarios /\ app = "none" /\ clean = FALSE
    BY DEF Init, ProcessInit
  <2>2. Sound(doc)
    BY <2>1, ScenarioAssumption DEF Sound, Tidy, IsMachine, IsList
  <2> QED
    BY <2>1, <2>2 DEF VmsApplied
<1>2. SentInv /\ FilesInv /\ ScaleAgain /\ [Next]_vars => ScaleAgain'
  <2> SUFFICES ASSUME SentInv, FilesInv, ScaleAgain, [Next]_vars, IsScale'
               PROVE  VmsApplied'
    BY DEF ScaleAgain
  <2>1. scenario' = scenario /\ IsScale
    BY ScenarioIsKept, ScenarioStays
  <2>2. ScalePlaces /\ ScaleNodes /\ StartedClean /\ VmsApplied
    BY <2>1 DEF SentInv, FilesInv, ScaleAgain
  <2>3. Configure \/ Start \/ UNCHANGED vars \/ (ScaleNext /\ clean' = (clean \/ Succeeded))
    BY <2>1, <2>2, TurbinesAreOfTheOtherApp DEF Next, Stages
  <2>4. CASE ConfigureVm /\ clean' = (clean \/ Succeeded)
    <3>1. app' = app
      BY <2>4 DEF ConfigureVm
    <3>2. clean' => clean
      BY <2>4, <3>1 DEF Succeeded
    <3> QED
      BY <2>1, <2>2, <2>4, <3>2, VmTurnApplied
  <2> QED
    BY <2>1, <2>2, <2>3, <2>4, VmsOtherwise
<1> QED
  BY <1>1, <1>2, SentInvAlways, FilesInvAlways, PTL DEF Spec

-----------------------------------------------------------------------------
(* A configure stage of the scale app that ran before, a post-start and a  *)
(* start of the standalone app after another print the experiment as they  *)
(* read it: no VM, inject or announcement is added twice, whatever the     *)
(* profiles share and whatever stages failed in between.  It is not that   *)
(* no step of theirs changes their copy: VMs with a broker in common write *)
(* over each other, and the last of them writes what was there before.     *)
THEOREM StagesRepeat == Spec => StageAgainChangesNothing
<1>1. /\ SentInv /\ FilesInv /\ ScaleAgain /\ TurbineInv /\ TurbineAgain
      /\ [Next]_vars
      => (clean => doc' = doc)
  <2> SUFFICES ASSUME SentInv, FilesInv, ScaleAgain, TurbineInv, TurbineAgain, [Next]_vars, clean
               PROVE  doc' = doc
    OBVIOUS
  <2>1. CASE IsScale
    <3>1. ScalePlaces /\ ScaleNodes /\ VmsApplied
      BY <2>1 DEF SentInv, ScaleAgain
    <3>2. ~TurbineNext
      BY <2>1, <3>1, TurbinesAreOfTheOtherApp
    <3>3. CASE ConfigureDone
      <4>1. PICK ns, ds : ns = nodes /\ ds = doc
        OBVIOUS
      <4>2. app = "configure" /\ doc' = ns /\ step.i > Len(Profiles)
        BY <3>3, <4>1 DEF ConfigureDone, Finish
      <4>3. Sound(ns) /\ Sound(ds) /\ Nearly(ns)
        BY <3>1, <4>1, <4>2 DEF VmsApplied
      <4>4. \A v \in ProfileVms : Passed(v)
        <5>1. \A v \in ProfileVms : v[1] \in Nat /\ v[1] <= Len(Profiles)
          BY <2>1, <3>1, VmsArePairs DEF ScalePlaces
        <5>2. step.i \in Nat /\ Len(Profiles) \in Nat
          BY <2>1, <3>1, ProfilesAreProfiles DEF ScalePlaces
        <5> QED
          BY <4>2, <5>1, <5>2 DEF Passed
      <4>5. /\ DOMAIN ns = DOMAIN ds
            /\ \A j \in DOMAIN ds : DOMAIN ns[j] = DOMAIN ds[j] /\ \A field \in DOMAIN ds[j] : ns[j][field] = ds[j][field]
        BY <4>1, <4>3, <4>4 DEF Nearly
      <4>6. ns = ds
        BY <4>3, <4>5, SameTopology DEF Sound, Tidy
      <4> QED
        BY <4>1, <4>2, <4>6
    <3>4. CASE PostStartDone
      BY <3>1, <3>4 DEF PostStartDone, Finish, ScaleNodes
    <3>5. CASE ScaleNext /\ ~ConfigureDone /\ ~PostStartDone
      BY <3>5 DEF ScaleNext, BeginProfile, ProfileFails, ConfigureVm, ConfigureVmFails, EndProfile, BeginNetworks,
                  NetworksFail, StartVm, StartVmFails, ConnectFails, SendFails, processVars
    <3>6. CASE Configure \/ Start \/ UNCHANGED vars
      BY <3>6 DEF Configure, Start, vars, processVars
    <3> QED
      BY <3>2, <3>3, <3>4, <3>5, <3>6 DEF Next, Stages
  <2>2. CASE ~IsScale
    <3>1. TurbinePlaces /\ TurbineTopology /\ TurbinesApplied
      BY <2>2 DEF TurbineInv, TurbineAgain
    <3>2. ~ScaleNext
      BY <2>2, <3>1, StagesAreOfTheOtherApp
    <3>3. CASE TurbinesDone
      BY <3>1, <3>3 DEF TurbinesDone, Finish, TurbinesApplied
    <3>4. CASE MainControllerConfigured \/ AnemometerConfigured \/ YawConfigured \/ BladeConfigured
      BY <2>2, <3>1, <3>4, ScenarioIsKept, DeviceChanges
    <3>5. CASE NextTurbine \/ TurbineFails
      BY <3>5 DEF NextTurbine, TurbineFails, Raise
    <3>6. CASE Configure \/ Start \/ UNCHANGED vars
      BY <3>6 DEF Configure, Start, vars, processVars
    <3> QED
      BY <3>2, <3>3, <3>4, <3>5, <3>6 DEF Next, Stages, TurbineNext
  <2> QED
    BY <2>1, <2>2
<1> QED
  BY <1>1, SentInvAlways, FilesInvAlways, ScaleAgainAlways, TurbineInvAlways, TurbineAgainAlways, PTL
     DEF Spec, StageAgainChangesNothing
=============================================================================
