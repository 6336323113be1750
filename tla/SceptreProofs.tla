---------------------------- MODULE SceptreProofs ----------------------------
(***************************************************************************)
(* Proofs about Sceptre, for any scenarios whose metadata are what         *)
(* ScenariosAssumption says: any hosts, devices and interfaces, and any    *)
(* number of starts.                                                       *)
(***************************************************************************)
EXTENDS Sceptre, TopologyProofs, FiniteSetTheorems

-----------------------------------------------------------------------------
(* Where the processes of the app are.  A process of a configured          *)
(* experiment is that of a start.                                          *)
StartLoops ==
  {"providers", "fd-servers", "federates", "clients", "feps", "opcs", "scadas", "hmis", "engineers", "historians"}

InStart == app = "sceptre" /\ configured

Places ==
  /\ scenario \in Scenarios
  /\ app \in {"none", "sceptre", "started", "failed"}
  /\ step = [loop |-> step.loop, i |-> step.i] /\ step.i \in Nat \ {0}
  /\ app = "sceptre" => IF configured THEN step.loop \in StartLoops ELSE step.loop \in ToSet(ConfigureLoops)
  /\ clean => configured

(* The steps that end a process without result.                            *)
Failing == ServerFails \/ FederateFails \/ ClientFails \/ FepFails \/ OpcFails \/ ScadaFails \/ EngineersFail \/ HistorianFails

(* The steps from one loop to the next.                                    *)
Proceeding ==
  ProvidersDone \/ ServersDone \/ FederatesDone \/ ClientsDone \/ FepsDone \/ OpcsDone \/ ScadasDone \/ HmisDone \/ EngineersDone

(* The turns of the loops.                                                 *)
Turning == Provider \/ FieldDeviceServer \/ Federate \/ Client \/ Opc \/ Scada \/ Hmi \/ Engineer \/ Historian

(* Every step of a start is of one of these sorts.                         *)
LEMMA StartingSteps == Starting <=> StartExperiment \/ Turning \/ Proceeding \/ Failing \/ Started
BY DEF Starting, Turning, Proceeding, Failing

(* The hosts of a loop of the start.                                       *)
LoopHosts(loop) ==
  CASE loop = "providers" -> OfType("provider")
    [] loop = "fd-servers" -> OfType("fd-server")
    [] loop = "federates" -> WithLabel("helics-federate")
    [] loop = "clients" -> OfType("fd-client")
    [] loop = "feps" -> OfType("fep")
    [] loop = "opcs" -> OfType("opc")
    [] loop = "scadas" -> OfType("scada-server")
    [] loop = "hmis" -> OfType("hmi")
    [] loop = "engineers" -> OfType("engineer-workstation")
    [] loop = "historians" -> OfType("historian")

Rank(loop) ==
  CASE loop = "providers" -> 1 [] loop = "fd-servers" -> 2 [] loop = "federates" -> 3 [] loop = "clients" -> 4
    [] loop = "feps" -> 5 [] loop = "opcs" -> 6 [] loop = "scadas" -> 7 [] loop = "hmis" -> 8
    [] loop = "engineers" -> 9 [] loop = "historians" -> 10

(* The turn of h in a loop is over.                                        *)
Handled(loop, h) ==
  \/ Rank(loop) < Rank(step.loop)
  \/ loop = step.loop /\ \E k \in DOMAIN LoopHosts(loop) : k < step.i /\ LoopHosts(loop)[k] = h

-----------------------------------------------------------------------------
(* The hosts of a type are a sequence of hosts.                            *)
LEMMA HostsAreListed ==
  ASSUME scenario \in Scenarios
  PROVE  /\ \A type : OfType(type) \in Seq(Hosts) /\ ToSet(OfType(type)) = {h \in Hosts : h.type = type}
         /\ \A label : WithLabel(label) \in Seq(Hosts) /\ ToSet(WithLabel(label)) = {h \in Hosts : label \in h.labels}
<1>1. scenario.hosts \in Seq(Hosts)
  BY ScenariosAssumption DEF IsScenario, Hosts
<1>2. ASSUME NEW type
      PROVE  OfType(type) \in Seq(Hosts) /\ ToSet(OfType(type)) = {h \in Hosts : h.type = type}
  <2> DEFINE S == {h \in Hosts : h.type = type}
  <2>1. Select(scenario.hosts, S) \in Seq(Hosts) /\ ToSet(Select(scenario.hosts, S)) = ToSet(scenario.hosts) \cap S
    <3> HIDE DEF S
    <3> QED
      BY <1>1, SelectIs
  <2> QED
    BY <2>1 DEF OfType, Hosts
<1>3. ASSUME NEW label
      PROVE  WithLabel(label) \in Seq(Hosts) /\ ToSet(WithLabel(label)) = {h \in Hosts : label \in h.labels}
  <2> DEFINE S == {h \in Hosts : label \in h.labels}
  <2>1. Select(scenario.hosts, S) \in Seq(Hosts) /\ ToSet(Select(scenario.hosts, S)) = ToSet(scenario.hosts) \cap S
    <3> HIDE DEF S
    <3> QED
      BY <1>1, SelectIs
  <2> QED
    BY <2>1 DEF WithLabel, Hosts
<1> QED
  BY <1>2, <1>3

(* The hosts of every loop are a sequence of hosts of the scenario.        *)
LEMMA LoopsAreListed ==
  ASSUME scenario \in Scenarios, NEW loop \in StartLoops
  PROVE  /\ LoopHosts(loop) \in Seq(Hosts)
         /\ DOMAIN LoopHosts(loop) = 1..Len(LoopHosts(loop)) /\ Len(LoopHosts(loop)) \in Nat
<1>1. LoopHosts(loop) \in Seq(Hosts)
  BY HostsAreListed DEF LoopHosts, StartLoops
<1> QED
  BY <1>1

(* No step changes the scenario, nor therefore the hosts of a loop.        *)
LEMMA ScenarioIsKept ==
  ASSUME [Next]_vars
  PROVE  scenario' = scenario
<1>1. CASE Configuring
  BY <1>1 DEF Configuring, BeginConfigure, ConfigureHost, ConfigureNext, ConfigureFails, Configured
<1>2. CASE StartExperiment \/ Started
  BY <1>2 DEF StartExperiment, Started
<1>3. CASE Turning
  BY <1>3 DEF Turning, Turn, Provider, FieldDeviceServer, Federate, Client, Opc, Scada, Hmi, Engineer, Historian
<1>4. CASE Proceeding
  BY <1>4 DEF Proceeding, Proceed, ProvidersDone, ServersDone, FederatesDone, ClientsDone, FepsDone, OpcsDone, ScadasDone,
              HmisDone, EngineersDone
<1>5. CASE Failing
  BY <1>5 DEF Failing, Fail, ServerFails, FederateFails, ClientFails, FepFails, OpcFails, ScadaFails, EngineersFail,
              HistorianFails
<1> QED
  BY <1>1, <1>2, <1>3, <1>4, <1>5, StartingSteps DEF Next, vars, processVars

(* What depends on the scenario alone stays with it.                       *)
LEMMA ScenarioStays ==
  ASSUME scenario' = scenario
  PROVE  /\ Hosts' = Hosts
         /\ \A type : OfType(type)' = OfType(type)
         /\ \A label : WithLabel(label)' = WithLabel(label)
         /\ \A loop : LoopHosts(loop)' = LoopHosts(loop)
<1>1. Hosts' = Hosts
  BY DEF Hosts
<1>2. \A type : OfType(type)' = OfType(type)
  BY <1>1 DEF OfType
<1>3. \A label : WithLabel(label)' = WithLabel(label)
  BY <1>1 DEF WithLabel
<1>4. \A loop : LoopHosts(loop)' = LoopHosts(loop)
  BY <1>2, <1>3 DEF LoopHosts
<1> QED
  BY <1>1, <1>2, <1>3, <1>4

(* What a turn of h in a loop changes of the process.                      *)
TurnAt(loop, h) ==
  /\ InStart /\ step.loop = loop /\ step.i \in DOMAIN LoopHosts(loop) /\ h = LoopHosts(loop)[step.i]
  /\ step' = [step EXCEPT !.i = @ + 1]
  /\ UNCHANGED <<scenario, doc, starts, app, configured, clean>>

(* What the end of a loop changes of it.                                   *)
EndOf(loop, next) ==
  /\ InStart /\ step.loop = loop /\ step.i > Len(LoopHosts(loop))
  /\ step' = [loop |-> next, i |-> 1]
  /\ UNCHANGED <<scenario, doc, starts, app, nodes, configured, clean>>

Failed == InStart /\ app' = "failed" /\ local' = NoLocals /\ UNCHANGED <<scenario, doc, files, starts, configured, clean>>

(* No loop of a start is one of configure.                                 *)
LEMMA NotConfigureLoops == StartLoops \cap ToSet(ConfigureLoops) = {}
BY DEF StartLoops, ConfigureLoops, ToSet

(* Who is in a loop of a start, or behind it, is in the start.             *)
LEMMA InALoop ==
  ASSUME Places, NEW loop \in StartLoops
  PROVE  /\ In(loop, LoopHosts(loop)) => InStart /\ step.loop = loop /\ step.i \in DOMAIN LoopHosts(loop)
         /\ After(loop, LoopHosts(loop)) => InStart /\ step.loop = loop /\ step.i > Len(LoopHosts(loop))
<1>1. DOMAIN LoopHosts(loop) = 1..Len(LoopHosts(loop)) /\ Len(LoopHosts(loop)) \in Nat
  BY LoopsAreListed DEF Places
<1>2. step.i \in Nat \ {0}
  BY DEF Places
<1>3. app = "sceptre" /\ step.loop = loop => InStart
  BY NotConfigureLoops DEF Places, InStart
<1>4. In(loop, LoopHosts(loop)) => step.loop = loop /\ app = "sceptre" /\ step.i <= Len(LoopHosts(loop))
  BY DEF In, At
<1>5. After(loop, LoopHosts(loop)) => step.loop = loop /\ app = "sceptre" /\ step.i > Len(LoopHosts(loop))
  BY DEF After, At
<1> QED
  BY <1>1, <1>2, <1>3, <1>4, <1>5

(* The turns of the loops of a start, each for the host it is at.          *)
LEMMA TurnsAre ==
  ASSUME Places
  PROVE  /\ Provider => TurnAt("providers", OfType("provider")[step.i])
         /\ FieldDeviceServer => TurnAt("fd-servers", OfType("fd-server")[step.i])
         /\ Federate => TurnAt("federates", WithLabel("helics-federate")[step.i])
         /\ Client => TurnAt("clients", OfType("fd-client")[step.i])
         /\ Opc => TurnAt("opcs", OfType("opc")[step.i])
         /\ Scada => TurnAt("scadas", OfType("scada-server")[step.i])
         /\ Hmi => TurnAt("hmis", OfType("hmi")[step.i])
         /\ Engineer => TurnAt("engineers", OfType("engineer-workstation")[step.i])
         /\ Historian => TurnAt("historians", OfType("historian")[step.i])
<1>1. ASSUME NEW loop \in StartLoops, In(loop, LoopHosts(loop)), Turn
      PROVE  TurnAt(loop, LoopHosts(loop)[step.i])
  BY <1>1, InALoop DEF Turn, Again, TurnAt
<1>2. /\ LoopHosts("providers") = OfType("provider") /\ LoopHosts("fd-servers") = OfType("fd-server")
      /\ LoopHosts("federates") = WithLabel("helics-federate") /\ LoopHosts("clients") = OfType("fd-client")
      /\ LoopHosts("opcs") = OfType("opc") /\ LoopHosts("scadas") = OfType("scada-server")
      /\ LoopHosts("hmis") = OfType("hmi") /\ LoopHosts("engineers") = OfType("engineer-workstation")
      /\ LoopHosts("historians") = OfType("historian")
  BY DEF LoopHosts
<1> USE <1>1, <1>2 DEF StartLoops
<1>3. Provider => TurnAt("providers", OfType("provider")[step.i])
  BY DEF Provider
<1>4. FieldDeviceServer => TurnAt("fd-servers", OfType("fd-server")[step.i])
  BY DEF FieldDeviceServer
<1>5. Federate => TurnAt("federates", WithLabel("helics-federate")[step.i])
  BY DEF Federate
<1>6. Client => TurnAt("clients", OfType("fd-client")[step.i])
  BY DEF Client
<1>7. Opc => TurnAt("opcs", OfType("opc")[step.i])
  BY DEF Opc
<1>8. Scada => TurnAt("scadas", OfType("scada-server")[step.i])
  BY DEF Scada
<1>9. Hmi => TurnAt("hmis", OfType("hmi")[step.i])
  BY DEF Hmi
<1>10. Engineer => TurnAt("engineers", OfType("engineer-workstation")[step.i])
  BY DEF Engineer
<1>11. Historian => TurnAt("historians", OfType("historian")[step.i])
  BY DEF Historian
<1> QED
  BY <1>3, <1>4, <1>5, <1>6, <1>7, <1>8, <1>9, <1>10, <1>11

(* The ends of the loops of a start, each with the loop that follows.      *)
LEMMA EndsAre ==
  ASSUME Places
  PROVE  /\ ProvidersDone => EndOf("providers", "fd-servers")
         /\ ServersDone => EndOf("fd-servers", "federates")
         /\ FederatesDone => EndOf("federates", "clients")
         /\ ClientsDone => EndOf("clients", "feps")
         /\ FepsDone => EndOf("feps", "opcs")
         /\ OpcsDone => EndOf("opcs", "scadas")
         /\ ScadasDone => EndOf("scadas", "hmis")
         /\ HmisDone => EndOf("hmis", "engineers")
         /\ EngineersDone => EndOf("engineers", "historians")
<1>1. ASSUME NEW loop \in StartLoops, NEW next, After(loop, LoopHosts(loop)), Proceed(next)
      PROVE  EndOf(loop, next)
  BY <1>1, InALoop DEF Proceed, GoTo, EndOf
<1>2. /\ LoopHosts("providers") = OfType("provider") /\ LoopHosts("fd-servers") = OfType("fd-server")
      /\ LoopHosts("federates") = WithLabel("helics-federate") /\ LoopHosts("clients") = OfType("fd-client")
      /\ LoopHosts("feps") = OfType("fep") /\ LoopHosts("opcs") = OfType("opc")
      /\ LoopHosts("scadas") = OfType("scada-server") /\ LoopHosts("hmis") = OfType("hmi")
      /\ LoopHosts("engineers") = OfType("engineer-workstation")
  BY DEF LoopHosts
<1> USE <1>1, <1>2 DEF StartLoops
<1>3. ProvidersDone => EndOf("providers", "fd-servers")
  BY DEF ProvidersDone
<1>4. ServersDone => EndOf("fd-servers", "federates")
  BY DEF ServersDone
<1>5. FederatesDone => EndOf("federates", "clients")
  BY DEF FederatesDone
<1>6. ClientsDone => EndOf("clients", "feps")
  BY DEF ClientsDone
<1>7. FepsDone => EndOf("feps", "opcs")
  BY DEF FepsDone
<1>8. OpcsDone => EndOf("opcs", "scadas")
  BY DEF OpcsDone
<1>9. ScadasDone => EndOf("scadas", "hmis")
  BY DEF ScadasDone
<1>10. HmisDone => EndOf("hmis", "engineers")
  BY DEF HmisDone
<1>11. EngineersDone => EndOf("engineers", "historians")
  BY DEF EngineersDone
<1> QED
  BY <1>3, <1>4, <1>5, <1>6, <1>7, <1>8, <1>9, <1>10, <1>11

(* A step that fails ends the process and keeps what is not the process's. *)
LEMMA FailsAre ==
  ASSUME Places, Failing
  PROVE  Failed
<1>1. app = "sceptre" /\ step.loop \in StartLoops
  BY DEF Failing, ServerFails, FederateFails, ClientFails, FepFails, OpcFails, ScadaFails, EngineersFail,
         HistorianFails, In, After, At, StartLoops
<1>2. InStart
  BY <1>1, NotConfigureLoops DEF Places, InStart
<1>3. Fail
  BY DEF Failing, ServerFails, FederateFails, ClientFails, FepFails, OpcFails, ScadaFails, EngineersFail,
         HistorianFails
<1> QED
  BY <1>2, <1>3 DEF Fail, Raise, Failed

(* When the last loop is over, the process of a start has handled all.     *)
LEMMA DoneIsEnd ==
  ASSUME Places, Done
  PROVE  InStart /\ step.loop = "historians" /\ step.i > Len(LoopHosts("historians"))
<1>1. LoopHosts("historians") = OfType("historian")
  BY DEF LoopHosts
<1> QED
  BY <1>1, InALoop DEF Done, StartLoops

(* Initially no process runs.                                              *)
LEMMA InitPlaces ==
  ASSUME Init
  PROVE  Places
<1>1. scenario \in Scenarios /\ app = "none" /\ step = [loop |-> "none", i |-> 1]
  BY DEF Init, ProcessInit
<1>2. clean => configured
  BY Zenon DEF Init
<1> QED
  BY <1>1, <1>2 DEF Places

(* Every step leads from a place of the app to a place.                    *)
LEMMA NextPlaces ==
  ASSUME Places, [Next]_vars
  PROVE  Places'
<1>1. scenario' \in Scenarios
  BY ScenarioIsKept DEF Places
<1>2. /\ app \in {"none", "sceptre", "started", "failed"}
      /\ step = [loop |-> step.loop, i |-> step.i] /\ step.i \in Nat \ {0}
      /\ app = "sceptre" => IF configured THEN step.loop \in StartLoops ELSE step.loop \in ToSet(ConfigureLoops)
      /\ clean => configured
  BY DEF Places
<1>4. LET new == [step EXCEPT !.i = @ + 1]
      IN  new = [loop |-> new.loop, i |-> new.i] /\ new.i \in Nat \ {0} /\ new.loop = step.loop
  BY <1>2
(* What a step that starts, goes on with, or ends a process leaves.        *)
<1>5. ASSUME app' \in {"none", "started", "failed"}, step' = [loop |-> "none", i |-> 1], clean' => configured'
      PROVE  Places'
  BY <1>1, <1>5 DEF Places
<1>6. ASSUME app = "sceptre", step' = [step EXCEPT !.i = @ + 1], UNCHANGED <<app, configured, clean>>
      PROVE  Places'
  BY <1>1, <1>2, <1>4, <1>6 DEF Places
<1>7. ASSUME NEW next, app' = "sceptre", step' = [loop |-> next, i |-> 1], clean' => configured',
             IF configured' THEN next \in StartLoops ELSE next \in ToSet(ConfigureLoops)
      PROVE  Places'
  BY <1>1, <1>7 DEF Places
<1>10. CASE BeginConfigure
  <2>1. app' = "sceptre" /\ step' = [loop |-> "opc", i |-> 1] /\ UNCHANGED sceptreVars /\ ~configured
    BY <1>10 DEF BeginConfigure, Launch, GoTo
  <2>2. ~configured' /\ (clean' => configured')
    BY <1>2, <2>1, Zenon DEF sceptreVars
  <2>3. "opc" \in ToSet(ConfigureLoops)
    BY DEF ConfigureLoops, ToSet
  <2> QED
    BY <1>7, <2>1, <2>2, <2>3
<1>11. CASE ConfigureHost
  BY <1>6, <1>11 DEF ConfigureHost, InConfigure, Again, sceptreVars
<1>12. CASE ConfigureNext
  <2>1. PICK k \in 1..(Len(ConfigureLoops) - 1) :
          InConfigure(ConfigureLoops[k]) /\ GoTo(ConfigureLoops[k + 1]) /\ UNCHANGED <<app, sceptreVars>>
    BY <1>12 DEF ConfigureNext
  <2>2. {ConfigureLoops[k], ConfigureLoops[k + 1]} \subseteq ToSet(ConfigureLoops)
    BY DEF ConfigureLoops, ToSet
  <2>3. app = "sceptre" /\ app' = "sceptre" /\ step.loop = ConfigureLoops[k] /\ step' = [loop |-> ConfigureLoops[k + 1], i |-> 1]
    BY <2>1 DEF InConfigure, At, GoTo
  <2>4. ~configured
    BY <1>2, <2>2, <2>3, NotConfigureLoops
  <2>5. ~configured' /\ (clean' => configured')
    BY <1>2, <2>1, <2>4, Zenon DEF sceptreVars
  <2> QED
    BY <1>7, <2>2, <2>3, <2>5
<1>13. CASE ConfigureFails
  <2>1. clean' => configured'
    BY <1>2, <1>13, Zenon DEF ConfigureFails, sceptreVars
  <2> QED
    BY <1>5, <1>13, <2>1 DEF ConfigureFails, Raise
<1>14. CASE Configured
  <2>1. clean' => configured'
    BY <1>14, Zenon DEF Configured
  <2> QED
    BY <1>5, <1>14, <2>1 DEF Configured, Finish
<1>15. CASE StartExperiment
  <2>1. app' = "sceptre" /\ step' = [loop |-> "providers", i |-> 1] /\ UNCHANGED sceptreVars /\ configured
    BY <1>15 DEF StartExperiment, Launch, GoTo
  <2>2. configured' /\ (clean' => configured')
    BY <1>2, <2>1, Zenon DEF sceptreVars
  <2>3. "providers" \in StartLoops
    BY DEF StartLoops
  <2> QED
    BY <1>7, <2>1, <2>2, <2>3
<1>16. CASE Turning
  BY <1>6, <1>16, TurnsAre DEF Turning, TurnAt, InStart
<1>17. CASE Proceeding
  <2>1. \E next \in StartLoops : \E loop : EndOf(loop, next)
    BY <1>17, EndsAre DEF Proceeding, StartLoops
  <2>2. PICK next \in StartLoops : \E loop : EndOf(loop, next)
    BY <2>1
  <2>3. app' = "sceptre" /\ step' = [loop |-> next, i |-> 1] /\ configured /\ UNCHANGED <<configured, clean>>
    BY <2>2 DEF EndOf, InStart
  <2>4. configured' /\ (clean' => configured')
    BY <1>2, <2>3, Zenon
  <2> QED
    BY <1>7, <2>3, <2>4
<1>18. CASE Failing
  <2>1. step' = [loop |-> "none", i |-> 1] /\ app' = "failed"
    BY <1>18 DEF Failing, ServerFails, FederateFails, ClientFails, FepFails, OpcFails, ScadaFails, EngineersFail,
         HistorianFails, Fail, Raise
  <2>2. UNCHANGED <<configured, clean>>
    BY <1>18, FailsAre DEF Failed
  <2>3. clean' => configured'
    BY <1>2, <2>2, Zenon
  <2> QED
    BY <1>5, <2>1, <2>3
<1>19. CASE Started
  <2>1. configured /\ UNCHANGED configured
    BY <1>19, DoneIsEnd DEF Started, InStart
  <2>2. clean' => configured'
    BY <2>1, Zenon
  <2> QED
    BY <1>5, <1>19, <2>2 DEF Started, Finish
<1>20. CASE UNCHANGED vars
  BY <1>1, <1>2, <1>20 DEF Places, vars, processVars, sceptreVars
<1> QED
  BY <1>10, <1>11, <1>12, <1>13, <1>14, <1>15, <1>16, <1>17, <1>18, <1>19, <1>20, StartingSteps DEF Next, Configuring

(* Whose turn is over after a step.                                        *)
LEMMA HandledAfterTurn ==
  ASSUME Places, NEW loop \in StartLoops, NEW h, TurnAt(loop, h)
  PROVE  \A l \in StartLoops : \A g : Handled(l, g)' => Handled(l, g) \/ (l = loop /\ g = h)
<1>1. /\ \A l : LoopHosts(l)' = LoopHosts(l)
      /\ step.loop = loop /\ step'.loop = loop /\ step'.i = step.i + 1 /\ h = LoopHosts(loop)[step.i]
      /\ step.i \in DOMAIN LoopHosts(loop) /\ step.i \in Nat
      /\ DOMAIN LoopHosts(loop) = 1..Len(LoopHosts(loop)) /\ Len(LoopHosts(loop)) \in Nat
  BY ScenarioStays, LoopsAreListed DEF TurnAt, Places
<1> SUFFICES ASSUME NEW l \in StartLoops, NEW g, Handled(l, g)', ~Handled(l, g)
             PROVE  l = loop /\ g = h
  OBVIOUS
<1>2. PICK k \in DOMAIN LoopHosts(l) : l = loop /\ k < step.i + 1 /\ LoopHosts(l)[k] = g
  BY <1>1 DEF Handled
<1>3. ~(k < step.i)
  BY <1>1, <1>2 DEF Handled
<1>4. k = step.i
  BY <1>1, <1>2, <1>3
<1> QED
  BY <1>1, <1>2, <1>4

(* At the end of a loop all its hosts are handled.                         *)
LEMMA HandledAtEnd ==
  ASSUME Places, NEW loop \in StartLoops, step.loop = loop, step.i > Len(LoopHosts(loop))
  PROVE  \A g \in ToSet(LoopHosts(loop)) : Handled(loop, g)
<1>1. DOMAIN LoopHosts(loop) = 1..Len(LoopHosts(loop)) /\ Len(LoopHosts(loop)) \in Nat /\ step.i \in Nat
  BY LoopsAreListed DEF Places
<1> SUFFICES ASSUME NEW g \in ToSet(LoopHosts(loop))
             PROVE  Handled(loop, g)
  OBVIOUS
<1>2. PICK k \in DOMAIN LoopHosts(loop) : LoopHosts(loop)[k] = g
  BY DEF ToSet
<1>3. k < step.i
  BY <1>1
<1> QED
  BY <1>2, <1>3 DEF Handled

(* Going to the next loop handles no further host.                         *)
LEMMA HandledAfterEnd ==
  ASSUME Places, NEW loop \in StartLoops, NEW next \in StartLoops, EndOf(loop, next), Rank(next) = Rank(loop) + 1
  PROVE  \A l \in StartLoops : \A g \in ToSet(LoopHosts(l)) : Handled(l, g)' => Handled(l, g)
<1>1. /\ \A l : LoopHosts(l)' = LoopHosts(l)
      /\ step.loop = loop /\ step'.loop = next /\ step'.i = 1 /\ step.i > Len(LoopHosts(loop))
  BY ScenarioStays DEF EndOf
<1> SUFFICES ASSUME NEW l \in StartLoops, NEW g \in ToSet(LoopHosts(l)), Handled(l, g)'
             PROVE  Handled(l, g)
  OBVIOUS
<1>2. DOMAIN LoopHosts(l) = 1..Len(LoopHosts(l)) /\ Len(LoopHosts(l)) \in Nat
  BY LoopsAreListed DEF Places
<1>3. Rank(l) < Rank(next)
  <2>1. ~(\E k \in DOMAIN LoopHosts(l) : k < 1)
    BY <1>2
  <2> QED
    BY <1>1, <2>1 DEF Handled
<1>4. \A m \in StartLoops : Rank(m) \in Nat
  BY DEF StartLoops, Rank
<1>5. \A m, n \in StartLoops : Rank(m) = Rank(n) => m = n
  BY DEF StartLoops, Rank
<1>6. Rank(l) < Rank(loop) \/ l = loop
  BY <1>3, <1>4, <1>5
<1>7. CASE Rank(l) < Rank(loop)
  BY <1>1, <1>7 DEF Handled
<1>8. CASE l = loop
  BY <1>1, <1>8, HandledAtEnd
<1> QED
  BY <1>6, <1>7, <1>8

(* A start has handled nobody at its first step, and all when it is done.  *)
LEMMA NoneHandledAtFirst ==
  ASSUME Places, step' = [loop |-> "providers", i |-> 1], scenario' = scenario
  PROVE  \A l \in StartLoops : \A g : ~Handled(l, g)'
<1>1. \A l \in StartLoops : ~(Rank(l) < Rank("providers"))
  BY DEF StartLoops, Rank
<1>2. \A l \in StartLoops : \A k \in DOMAIN LoopHosts(l) : ~(k < 1)
  BY LoopsAreListed DEF Places
<1>3. \A l : LoopHosts(l)' = LoopHosts(l)
  BY ScenarioStays
<1> QED
  BY <1>1, <1>2, <1>3 DEF Handled

(* At the end of a start the hosts of all loops are handled.               *)
LEMMA AllHandledAtLast ==
  ASSUME Places, Done
  PROVE  \A l \in StartLoops : \A g \in ToSet(LoopHosts(l)) : Handled(l, g)
<1>1. step.loop = "historians" /\ \A g \in ToSet(LoopHosts("historians")) : Handled("historians", g)
  BY DoneIsEnd, HandledAtEnd DEF StartLoops
<1>2. \A l \in StartLoops : Rank(l) < Rank("historians") \/ l = "historians"
  BY DEF StartLoops, Rank
<1> QED
  BY <1>1, <1>2 DEF Handled

(* A configure process is not a start.                                     *)
LEMMA NotWhileConfiguring ==
  ASSUME Places, Configuring
  PROVE  ~InStart /\ ~InStart' /\ (app' = "sceptre" => ~configured)
<1>1. app = "sceptre" => IF configured THEN step.loop \in StartLoops ELSE step.loop \in ToSet(ConfigureLoops)
  BY DEF Places
<1>2. \A k \in DOMAIN ConfigureLoops : ConfigureLoops[k] \in ToSet(ConfigureLoops)
  BY DEF ToSet
<1>3. CASE BeginConfigure
  <2>1. app = "none" /\ ~configured /\ UNCHANGED configured
    BY <1>3 DEF BeginConfigure, sceptreVars
  <2> QED
    BY <2>1 DEF InStart
<1>4. ASSUME NEW loop \in ToSet(ConfigureLoops), InConfigure(loop), UNCHANGED configured
      PROVE  ~configured /\ ~InStart /\ ~InStart'
  <2>1. app = "sceptre" /\ step.loop = loop
    BY <1>4 DEF InConfigure, At
  <2>2. ~configured
    BY <1>1, <1>4, <2>1, NotConfigureLoops
  <2> QED
    BY <1>4, <2>2 DEF InStart
<1>5. CASE ConfigureHost
  <2>1. PICK loop \in ToSet(ConfigureLoops) : InConfigure(loop) /\ UNCHANGED sceptreVars
    BY <1>5 DEF ConfigureHost
  <2> QED
    BY <1>4, <2>1 DEF sceptreVars
<1>6. CASE ConfigureNext
  <2>1. PICK k \in 1..(Len(ConfigureLoops) - 1) : InConfigure(ConfigureLoops[k]) /\ UNCHANGED sceptreVars
    BY <1>6 DEF ConfigureNext
  <2>2. ConfigureLoops[k] \in ToSet(ConfigureLoops)
    BY DEF ConfigureLoops, ToSet
  <2> QED
    BY <1>4, <2>1, <2>2 DEF sceptreVars
<1>7. ASSUME app' # "sceptre", app = "sceptre", step.loop \in ToSet(ConfigureLoops)
      PROVE  ~InStart /\ ~InStart'
  BY <1>1, <1>7, NotConfigureLoops DEF InStart
<1>8. CASE ConfigureFails
  <2>1. step.loop \in ToSet(ConfigureLoops)
    BY <1>8 DEF ConfigureFails, ConfigureRaises, At, ConfigureLoops, ToSet
  <2> QED
    BY <1>7, <1>8, <2>1 DEF ConfigureFails, Raise
<1>9. CASE Configured
  <2>1. step.loop \in ToSet(ConfigureLoops)
    BY <1>9 DEF Configured, At, ConfigureLoops, ToSet
  <2> QED
    BY <1>7, <1>9, <2>1 DEF Configured, Finish
<1> QED
  BY <1>3, <1>5, <1>6, <1>8, <1>9 DEF Configuring

(* A step of a start, seen from its end: it begins the start, is a turn,   *)
(* or goes on to the next loop.                                            *)
LEMMA StepsOfStart ==
  ASSUME Places, [Next]_vars, InStart'
  PROVE  StartExperiment \/ (InStart /\ (Turning \/ Proceeding \/ UNCHANGED vars))
<1>1. ~Configuring
  BY NotWhileConfiguring
<1>2. ~Failing
  BY FailsAre DEF Failed, InStart
<1>3. ~Started
  BY DEF Started, Finish, InStart
<1>4. Turning => InStart
  BY TurnsAre DEF Turning, TurnAt
<1>5. Proceeding => InStart
  BY EndsAre DEF Proceeding, EndOf
<1>6. UNCHANGED vars => InStart
  BY DEF vars, processVars, sceptreVars, InStart
<1> QED
  BY <1>1, <1>2, <1>3, <1>4, <1>5, <1>6, StartingSteps DEF Next

-----------------------------------------------------------------------------
(* The topology: no step changes more of it than the injects.              *)
NodesAre(ns) == Tidy(ns) /\ SameBut(scenario.topology, ns)

(* The topology of a scenario is tidy, and has its hosts.                  *)
LEMMA ScenarioIs ==
  ASSUME scenario \in Scenarios
  PROVE  /\ NodesAre(scenario.topology)
         /\ \A h \in Hosts : InTopology(scenario.topology, h.hostname)
<1>1. IsScenario(scenario)
  BY ScenariosAssumption
<1>2. Tidy(scenario.topology)
  <2>1. IsTopology(scenario.topology) /\ \A j \in DOMAIN scenario.topology : IsList(scenario.topology[j].injects)
    BY <1>1 DEF IsScenario, IsList
  <2> QED
    BY <2>1 DEF Tidy
<1>3. SameBut(scenario.topology, scenario.topology)
  BY DEF SameBut
<1> QED
  BY <1>1, <1>2, <1>3 DEF NodesAre, IsScenario, Hosts

(* Every host has its node wherever only injects were added.               *)
LEMMA HostsHaveNodes ==
  ASSUME scenario \in Scenarios, NEW ns, NodesAre(ns), NEW h \in Hosts
  PROVE  /\ InTopology(ns, h.hostname)
         /\ NodeIndex(ns, h.hostname) = NodeIndex(scenario.topology, h.hostname)
         /\ NodeIndex(ns, h.hostname) \in DOMAIN ns
<1>1. IsTopology(ns) /\ IsTopology(scenario.topology) /\ SameBut(scenario.topology, ns)
  BY ScenarioIs DEF NodesAre, Tidy
<1>2. NodeIndex(ns, h.hostname) = NodeIndex(scenario.topology, h.hostname)
  BY <1>1, SameNames
<1>3. InTopology(ns, h.hostname)
  BY <1>2, ScenarioIs DEF InTopology
<1>4. NodeIndex(ns, h.hostname) \in DOMAIN ns
  BY <1>1, <1>3, NodeIsFound DEF InTopology
<1> QED
  BY <1>2, <1>3, <1>4

(* Adding an inject keeps the rest.                                        *)
LEMMA OneMore ==
  ASSUME scenario \in Scenarios, NEW ns, NodesAre(ns), NEW h \in Hosts, NEW inject,
         NEW ms, ms = AddInject(ns, h.hostname, inject)
  PROVE  /\ NodesAre(ms) /\ Adds(ns, ms, NodeIndex(ns, h.hostname), {inject})
         /\ inject \in ToSet(ExtractNode(ns, h.hostname).injects) => ms = ns
<1>1. Tidy(ns) /\ SameBut(scenario.topology, ns) /\ InTopology(ns, h.hostname)
  BY HostsHaveNodes DEF NodesAre
<1>2. /\ Tidy(ms) /\ Adds(ns, ms, NodeIndex(ns, h.hostname), {inject})
      /\ inject \in ToSet(ExtractNode(ns, h.hostname).injects) => ms = ns
  BY <1>1, AddInjectIs
<1>3. SameBut(scenario.topology, ms)
  BY <1>1, <1>2 DEF SameBut, Adds
<1> QED
  BY <1>2, <1>3 DEF NodesAre

(* add_inject, file after file, adds them to the node of its host only.    *)
LEMMA SomeMore ==
  ASSUME scenario \in Scenarios, NEW ns, NodesAre(ns), NEW h \in Hosts, NEW injects, IsList(injects),
         NEW ms, ms = AddInjects(ns, h.hostname, injects)
  PROVE  NodesAre(ms) /\ Adds(ns, ms, NodeIndex(ns, h.hostname), ToSet(injects))
<1>1. Tidy(ns) /\ SameBut(scenario.topology, ns) /\ InTopology(ns, h.hostname)
  BY HostsHaveNodes DEF NodesAre
<1>2. Tidy(ms) /\ Adds(ns, ms, NodeIndex(ns, h.hostname), ToSet(injects))
  BY <1>1, AddInjectsAre
<1>3. SameBut(scenario.topology, ms)
  BY <1>1, <1>2 DEF SameBut, Adds
<1> QED
  BY <1>2, <1>3 DEF NodesAre

-----------------------------------------------------------------------------
(* The files of the app that the configure stage names: a list of injects, *)
(* those of them that are the app's from S.                                *)
Fits(injects, S) ==
  IsList(injects) /\ \A inject \in ToSet(injects) : inject.src[1] \in OwnFiles => inject.src \in S

SharedPaths == {<<"startup", "scheduler">>, <<"startup", "sceptre-startup">>}

(* An inject made by the app is of the path given, or of the user or his   *)
(* override.                                                               *)
LEMMA InjectIs ==
  ASSUME NEW h
  PROVE  /\ \A o, path, dst : Inject(h, o, path, dst).src[1] \in OwnFiles => Inject(h, o, path, dst).src = path
         /\ \A file : Made(h, file).src[1] \in OwnFiles => Made(h, file).src = SceptrePath(h, file)
         /\ \A file : User(h, file).src[1] \notin OwnFiles
<1>1. \A o, path, dst : Inject(h, o, path, dst).src[1] \in OwnFiles => Inject(h, o, path, dst).src = path
  <2> SUFFICES ASSUME NEW o, NEW path, NEW dst, Inject(h, o, path, dst).src # path
               PROVE  Inject(h, o, path, dst).src[1] \notin OwnFiles
    OBVIOUS
  <2>1. Inject(h, o, path, dst).src = <<"override", h.hostname, o>>
    BY DEF Inject
  <2> QED
    BY <2>1 DEF OwnFiles
<1>2. \A file : Made(h, file).src[1] \in OwnFiles => Made(h, file).src = SceptrePath(h, file)
  BY <1>1 DEF Made
<1>3. \A file : User(h, file).src[1] \notin OwnFiles
  BY DEF User, OwnFiles
<1> QED
  BY <1>1, <1>2, <1>3

(* What two lists of injects promise, they promise together.               *)
LEMMA FitsConcat ==
  ASSUME NEW s, NEW S, Fits(s, S), NEW t, NEW T, Fits(t, T)
  PROVE  Fits(s \o t, S \cup T)
<1>1. IsList(s \o t) /\ ToSet(s \o t) = ToSet(s) \cup ToSet(t)
  BY ListOfConcat DEF Fits
<1> QED
  BY <1>1 DEF Fits

(* What is injected on a condition is promised on it.                      *)
LEMMA FitsIf ==
  ASSUME NEW s, NEW S, Fits(s, S), NEW condition
  PROVE  Fits(If(condition, s), IF condition THEN S ELSE {})
BY ShortLists DEF Fits, If

(* The scripts all Windows hosts are given.                                *)
LEMMA FitsShared == Fits(WindowsStartup, SharedPaths)
BY ShortLists DEF Fits, WindowsStartup, SharedPaths

(* What short lists of injects promise.                                    *)
LEMMA FitsFew ==
  ASSUME NEW h
  PROVE  /\ \A o, path, dst : Fits(<<Inject(h, o, path, dst)>>, {path})
         /\ \A a : Fits(<<Made(h, a)>>, {SceptrePath(h, a)})
         /\ \A a : Fits(<<User(h, a)>>, {})
         /\ \A a, b : Fits(<<Made(h, a), Made(h, b)>>, {SceptrePath(h, a), SceptrePath(h, b)})
         /\ \A a, b : Fits(<<Made(h, a), User(h, b)>>, {SceptrePath(h, a)})
         /\ \A a, b : Fits(<<User(h, a), User(h, b)>>, {})
         /\ \A a, b, c, d : Fits(<<Made(h, a), Made(h, b), User(h, c), User(h, d)>>, {SceptrePath(h, a), SceptrePath(h, b)})
<1>1. \A o, path, dst : Fits(<<Inject(h, o, path, dst)>>, {path})
  BY ShortLists, InjectIs DEF Fits
<1>2. \A a : Fits(<<Made(h, a)>>, {SceptrePath(h, a)})
  BY ShortLists, InjectIs DEF Fits
<1>3. \A a : Fits(<<User(h, a)>>, {})
  BY ShortLists, InjectIs DEF Fits
<1>4. \A a, b : Fits(<<Made(h, a), Made(h, b)>>, {SceptrePath(h, a), SceptrePath(h, b)})
  BY ShortLists, InjectIs DEF Fits
<1>5. \A a, b : Fits(<<Made(h, a), User(h, b)>>, {SceptrePath(h, a)})
  BY ShortLists, InjectIs DEF Fits
<1>6. \A a, b : Fits(<<User(h, a), User(h, b)>>, {})
  BY ShortLists, InjectIs DEF Fits
<1>7. \A a, b, c, d : Fits(<<Made(h, a), Made(h, b), User(h, c), User(h, d)>>, {SceptrePath(h, a), SceptrePath(h, b)})
  BY ShortLists, InjectIs DEF Fits
<1> QED
  BY <1>1, <1>2, <1>3, <1>4, <1>5, <1>6, <1>7

(* The start script a host is given by its operating system, which no step *)
(* changes.                                                                *)
Extension(h) == IF ExtractNode(scenario.topology, h.hostname).os = "windows" THEN "start.ps1" ELSE "start.sh"

(* The operating system of a host stays that of the scenario.              *)
LEMMA ExtensionIs ==
  ASSUME scenario \in Scenarios, NodesAre(nodes), NEW h \in Hosts
  PROVE  StartExtension(h) = Extension(h)
<1> DEFINE k == NodeIndex(scenario.topology, h.hostname)
<1>1. k = NodeIndex(nodes, h.hostname) /\ k \in DOMAIN scenario.topology
  BY HostsHaveNodes, ScenarioIs DEF NodesAre, SameBut
<1>2. "os" \in DOMAIN scenario.topology[k]
  BY <1>1, ScenariosAssumption DEF IsScenario
<1>3. nodes[k].os = scenario.topology[k].os
  BY <1>1, <1>2 DEF NodesAre, SameBut
<1> QED
  BY <1>1, <1>3 DEF StartExtension, IsWindows, NodeOf, ExtractNode, Extension

(* The paths a loop may name for a host.                                   *)
Promised(loop, h) ==
  CASE loop = "opc" -> {SceptrePath(h, "opc.xml"), SceptrePath(h, "topserver.ps1")} \cup SharedPaths
    [] loop = "field-device" -> {StartupPath(h, "start.sh"), SceptrePath(h, "config.xml")}
    [] loop = "hmi" -> {SceptrePath(h, "hmi.ps1")} \cup SharedPaths
    [] loop = "scada-server" ->
         (IF h.project THEN {SceptrePath(h, "scada.ps1")}
          ELSE {SceptrePath(h, "autoproject"), SceptrePath(h, "scada_autoproject.ps1")}) \cup SharedPaths
    [] loop = "engineer-workstation" ->
         {SceptrePath(h, "putty.ps1")} \cup (IF h.interval THEN {SceptrePath(h, "auto_winscp.ps1")} ELSE {}) \cup SharedPaths
    [] loop = "historian" -> {SceptrePath(h, "historian_config.txt"), SceptrePath(h, "historian.ps1")} \cup SharedPaths
    [] loop = "provider" ->
         {SceptrePath(h, "config.ini"), StartupPath(h, Extension(h))}
         \cup (IF IsPowerWorld(h) THEN {SceptrePath(h, "objects.txt")} ELSE {})
    [] loop = "helics-federate" -> {SceptrePath(h, "helics.json")}
    [] loop = "helics-broker" -> {StartupPath(h, "helics.sh")}
    [] loop = "elk-vm" -> {StartupPath(h, "elk-start.sh")}
    [] OTHER -> {<<"elk", file>> : file \in ToSet(ElkFiles)}

(* Injects that fit some paths fit more.                                   *)
LEMMA FitsMore ==
  ASSUME NEW s, NEW S, Fits(s, S), NEW T, S \subseteq T
  PROVE  Fits(s, T)
BY DEF Fits

(* Every loop of configure injects no more than it promises.               *)
LEMMA ConfigureInjectsFit ==
  ASSUME scenario \in Scenarios, NodesAre(nodes), NEW h \in Hosts
  PROVE  \A loop : Fits(ConfigureInjects(loop, h), Promised(loop, h))
<1>1. Fits(OpcInjects(h), Promised("opc", h))
  <2>1. Fits(<<Made(h, "opc.xml"), Made(h, "topserver.ps1")>>, {SceptrePath(h, "opc.xml"), SceptrePath(h, "topserver.ps1")})
    BY FitsFew
  <2> QED
    BY <2>1, FitsConcat, FitsShared DEF OpcInjects, Promised
<1>2. Fits(FieldDeviceInjects(h), Promised("field-device", h))
  BY ShortLists, InjectIs DEF Fits, FieldDeviceInjects, Promised
<1>3. Fits(HmiInjects(h), Promised("hmi", h))
  <2>1. Fits(<<Made(h, "hmi.ps1")>>, {SceptrePath(h, "hmi.ps1")})
    BY FitsFew
  <2> QED
    BY <2>1, FitsConcat, FitsShared DEF HmiInjects, Promised
<1>4. Fits(ScadaInjects(h), Promised("scada-server", h))
  <2> DEFINE auto == [src |-> SceptrePath(h, "autoproject"), dst |-> "autoproject"]
             yes == <<User(h, "project")>> \o If(h.automation, <<User(h, "automation")>>) \o <<Made(h, "scada.ps1")>>
             no == <<auto, Made(h, "scada_autoproject.ps1")>>
  <2>1. Fits(<<User(h, "project")>> \o If(h.automation, <<User(h, "automation")>>), {})
    <3>1. Fits(<<User(h, "project")>>, {}) /\ Fits(<<User(h, "automation")>>, {})
      BY FitsFew
    <3>2. Fits(If(h.automation, <<User(h, "automation")>>), IF h.automation THEN {} ELSE {})
      BY <3>1, FitsIf
    <3>3. Fits(<<User(h, "project")>> \o If(h.automation, <<User(h, "automation")>>), {} \cup (IF h.automation THEN {} ELSE {}))
      BY <3>1, <3>2, FitsConcat
    <3> QED
      BY <3>3, FitsMore
  <2>2. Fits(yes, {SceptrePath(h, "scada.ps1")})
    <3>1. Fits(<<Made(h, "scada.ps1")>>, {SceptrePath(h, "scada.ps1")})
      BY FitsFew
    <3>2. Fits(yes, {} \cup {SceptrePath(h, "scada.ps1")})
      BY <2>1, <3>1, FitsConcat
    <3> QED
      BY <3>2, FitsMore
  <2>3. Fits(no, {SceptrePath(h, "autoproject"), SceptrePath(h, "scada_autoproject.ps1")})
    BY ShortLists, InjectIs DEF Fits
  <2> HIDE DEF yes, no
  <2>4. Fits(If(h.project, yes), IF h.project THEN {SceptrePath(h, "scada.ps1")} ELSE {})
    BY <2>2, FitsIf
  <2>5. Fits(If(~h.project, no), IF ~h.project THEN {SceptrePath(h, "autoproject"), SceptrePath(h, "scada_autoproject.ps1")} ELSE {})
    BY <2>3, FitsIf
  <2>6. Fits(If(h.project, yes) \o If(~h.project, no) \o WindowsStartup,
             ((IF h.project THEN {SceptrePath(h, "scada.ps1")} ELSE {})
              \cup (IF ~h.project THEN {SceptrePath(h, "autoproject"), SceptrePath(h, "scada_autoproject.ps1")} ELSE {}))
             \cup SharedPaths)
    BY <2>4, <2>5, FitsConcat, FitsShared
  <2>7. Fits(ScadaInjects(h),
             ((IF h.project THEN {SceptrePath(h, "scada.ps1")} ELSE {})
              \cup (IF ~h.project THEN {SceptrePath(h, "autoproject"), SceptrePath(h, "scada_autoproject.ps1")} ELSE {}))
             \cup SharedPaths)
    BY <2>6 DEF ScadaInjects, yes, no
  <2> QED
    BY <2>7, FitsMore DEF Promised
<1>5. Fits(EngineerInjects(h), Promised("engineer-workstation", h))
  <2>1. Fits(<<Made(h, "putty.ps1")>>, {SceptrePath(h, "putty.ps1")}) /\ Fits(<<Made(h, "auto_winscp.ps1")>>, {SceptrePath(h, "auto_winscp.ps1")})
    BY FitsFew
  <2>2. Fits(If(h.interval, <<Made(h, "auto_winscp.ps1")>>), IF h.interval THEN {SceptrePath(h, "auto_winscp.ps1")} ELSE {})
    BY <2>1, FitsIf
  <2>3. Fits(<<Made(h, "putty.ps1")>> \o If(h.interval, <<Made(h, "auto_winscp.ps1")>>),
             {SceptrePath(h, "putty.ps1")} \cup (IF h.interval THEN {SceptrePath(h, "auto_winscp.ps1")} ELSE {}))
    BY <2>1, <2>2, FitsConcat
  <2> QED
    BY <2>3, FitsConcat, FitsShared DEF EngineerInjects, Promised
<1>6. Fits(HistorianInjects(h), Promised("historian", h))
  <2>1. Fits(<<Made(h, "historian_config.txt"), Made(h, "historian.ps1")>>,
             {SceptrePath(h, "historian_config.txt"), SceptrePath(h, "historian.ps1")})
    BY FitsFew
  <2> QED
    BY <2>1, FitsConcat, FitsShared DEF HistorianInjects, Promised
<1>7. Fits(ProviderInjects(h), Promised("provider", h))
  <2> DEFINE S == {SceptrePath(h, "config.ini")} \cup (IF IsPowerWorld(h) THEN {SceptrePath(h, "objects.txt")} ELSE {})
             script == Inject(h, "sceptre-" \o StartExtension(h), StartupPath(h, StartExtension(h)), "sceptre-start")
  <2>0. /\ SceptrePath(h, "config.ini") \in S
        /\ IsPowerWorld(h) => SceptrePath(h, "objects.txt") \in S
    OBVIOUS
  <2> HIDE DEF S
  <2>6. Fits(ProviderFiles(h), S)
    <3>1. CASE h.simulator \in {"PowerWorld", "PowerWorldHelics"}
      <4>1. Fits(<<Made(h, "config.ini"), Made(h, "objects.txt"), User(h, "case"), User(h, "oneline")>>,
                 {SceptrePath(h, "config.ini"), SceptrePath(h, "objects.txt")})
        BY FitsFew
      <4>2. ProviderFiles(h) = <<Made(h, "config.ini"), Made(h, "objects.txt"), User(h, "case"), User(h, "oneline")>>
        BY <3>1 DEF ProviderFiles
      <4>3. IsPowerWorld(h)
        BY <3>1 DEF IsPowerWorld
      <4> QED
        BY <2>0, <4>1, <4>2, <4>3, FitsMore
    <3>2. CASE h.simulator = "PowerWorldDynamics"
      <4>1. Fits(<<Made(h, "config.ini"), Made(h, "objects.txt")>>, {SceptrePath(h, "config.ini"), SceptrePath(h, "objects.txt")})
        BY FitsFew
      <4>2. ProviderFiles(h) = <<Made(h, "config.ini"), Made(h, "objects.txt")>>
        BY <3>2 DEF ProviderFiles
      <4>3. IsPowerWorld(h)
        BY <3>2 DEF IsPowerWorld
      <4> QED
        BY <2>0, <4>1, <4>2, <4>3, FitsMore
    <3>3. CASE h.simulator = "Simulink"
      <4>1. Fits(<<User(h, "solver"), User(h, "publish_points")>>, {}) /\ Fits(<<User(h, "gt"), User(h, "gt_template")>>, {})
        BY FitsFew
      <4>2. Fits(If(h.gt, <<User(h, "gt"), User(h, "gt_template")>>), IF h.gt THEN {} ELSE {})
        BY <4>1, FitsIf
      <4>3. Fits(<<User(h, "solver"), User(h, "publish_points")>> \o If(h.gt, <<User(h, "gt"), User(h, "gt_template")>>),
                 {} \cup (IF h.gt THEN {} ELSE {}))
        BY <4>1, <4>2, FitsConcat
      <4>4. ProviderFiles(h) = <<User(h, "solver"), User(h, "publish_points")>> \o If(h.gt, <<User(h, "gt"), User(h, "gt_template")>>)
        BY <3>3 DEF ProviderFiles
      <4>5. {} \cup (IF h.gt THEN {} ELSE {}) \subseteq S
        OBVIOUS
      <4> QED
        BY <4>3, <4>4, <4>5, FitsMore
    <3>4. CASE h.simulator \in {"PyPower", "GenericPython"}
      <4>1. \A a : Fits(<<Made(h, "config.ini"), User(h, a)>>, {SceptrePath(h, "config.ini")})
        BY FitsFew
      <4>2. \E a : ProviderFiles(h) = <<Made(h, "config.ini"), User(h, a)>>
        <5>1. CASE h.simulator = "PyPower"
          BY <5>1 DEF ProviderFiles
        <5>2. CASE h.simulator = "GenericPython"
          BY <5>2 DEF ProviderFiles
        <5> QED
          BY <3>4, <5>1, <5>2
      <4> QED
        BY <2>0, <4>1, <4>2, FitsMore
    <3>5. CASE h.simulator \notin {"PowerWorld", "PowerWorldHelics", "PowerWorldDynamics", "Simulink", "PyPower", "GenericPython"}
      <4>1. Fits(<<Made(h, "config.ini")>>, {SceptrePath(h, "config.ini")})
        BY FitsFew
      <4>2. ProviderFiles(h) = <<Made(h, "config.ini")>>
        BY <3>5 DEF ProviderFiles
      <4> QED
        BY <2>0, <4>1, <4>2, FitsMore
    <3> QED
      BY <3>1, <3>2, <3>3, <3>4, <3>5, Zenon
  <2>7. IsList(Append(ProviderFiles(h), script)) /\ ToSet(Append(ProviderFiles(h), script)) = ToSet(ProviderFiles(h)) \cup {script}
    BY <2>6, ListOfAppend DEF Fits
  <2>8. script.src[1] \in OwnFiles => script.src = StartupPath(h, Extension(h))
    BY InjectIs, ExtensionIs
  <2> HIDE DEF script
  <2>9. Fits(Append(ProviderFiles(h), script), S \cup {StartupPath(h, Extension(h))})
    BY <2>6, <2>7, <2>8 DEF Fits
  <2> QED
    BY <2>9, FitsMore DEF ProviderInjects, Promised, script, S
<1>8. Fits(FederateInjects(h), Promised("helics-federate", h))
  BY FitsFew DEF FederateInjects, Promised
<1>9. Fits(BrokerInjects(h), Promised("helics-broker", h))
  BY FitsFew DEF BrokerInjects, Promised
<1>10. Fits(ElkVmInjects(h), Promised("elk-vm", h))
  BY FitsFew DEF ElkVmInjects, Promised
<1>11. Fits(ElkInjects(h), {<<"elk", file>> : file \in ToSet(ElkFiles)})
  <2>1. DOMAIN ElkFiles = 1..3
    BY DEF ElkFiles
  <2>2. IsList(ElkInjects(h)) /\ DOMAIN ElkInjects(h) = 1..3
    BY <2>1, FunctionIsSequence DEF IsList, ElkInjects
  <2>3. \A k \in 1..3 : ElkInjects(h)[k].src[1] \in OwnFiles => ElkInjects(h)[k].src = <<"elk", ElkFiles[k]>>
    BY <2>1, InjectIs DEF ElkInjects
  <2>4. \A k \in 1..3 : ElkFiles[k] \in ToSet(ElkFiles)
    BY <2>1 DEF ToSet
  <2> QED
    BY <2>2, <2>3, <2>4 DEF Fits, ToSet
<1> QED
  BY <1>1, <1>2, <1>3, <1>4, <1>5, <1>6, <1>7, <1>8, <1>9, <1>10, <1>11 DEF ConfigureInjects, Promised

-----------------------------------------------------------------------------
(* The loops of configure whose files a start writes, and for which hosts. *)
LaterLoops ==
  {"opc", "field-device", "hmi", "scada-server", "engineer-workstation", "historian", "provider", "helics-federate", "elk"}

IsFor(loop, h) ==
  CASE loop = "field-device" -> h.type \in {"fd-server", "fd-client", "fep"}
    [] loop = "helics-federate" -> loop \in h.labels
    [] OTHER -> h.type = loop

Mentioned(path) ==
  \E h \in Hosts :
    \/ \E loop \in LaterLoops : IsFor(loop, h) /\ path \in Promised(loop, h)
    \/ h.type = "provider" /\ HasYaml(h) /\ path = SceptrePath(h, "config.yaml")

(* A topology names no file of the app that no start writes, but those     *)
(* that exist.                                                             *)
Given(ns) ==
  \A j \in DOMAIN ns : \A inject \in ToSet(ns[j].injects) :
    inject.src[1] \in OwnFiles => Mentioned(inject.src) \/ inject.src \in DOMAIN files

TopologyInv ==
  /\ NodesAre(doc) /\ Given(doc)
  /\ app = "sceptre" => NodesAre(nodes) /\ Given(nodes)

(* What a turn writes for its host.                                        *)
Output(loop, h) ==
  CASE loop = "providers" ->
         {SceptrePath(h, "config.ini"), StartupPath(h, Extension(h))}
         \cup (IF HasYaml(h) THEN {SceptrePath(h, "config.yaml")} ELSE {})
    [] loop \in {"fd-servers", "clients"} -> {SceptrePath(h, "config.xml"), StartupPath(h, Extension(h))}
    [] loop = "federates" -> {SceptrePath(h, "helics.json")}
    [] loop = "opcs" -> {SceptrePath(h, "opc.xml"), SceptrePath(h, "topserver.ps1")}
    [] loop = "scadas" -> IF h.project THEN {SceptrePath(h, "scada.ps1")}
                          ELSE {SceptrePath(h, "autoproject"), SceptrePath(h, "scada_autoproject.ps1")}
    [] loop = "hmis" -> {SceptrePath(h, "hmi.ps1")}
    [] loop = "engineers" ->
         {SceptrePath(h, "putty.ps1")} \cup (IF h.interval THEN {SceptrePath(h, "auto_winscp.ps1")} ELSE {})
    [] loop = "historians" -> {SceptrePath(h, "historian_config.txt"), SceptrePath(h, "historian.ps1")}
    [] OTHER -> {}

OutputsInv ==
  InStart =>
    /\ SharedPaths \subseteq DOMAIN files
    /\ \A loop \in StartLoops : \A h \in ToSet(LoopHosts(loop)) :
         Handled(loop, h) => loop # "feps" /\ Output(loop, h) \subseteq DOMAIN files
    /\ Rank(step.loop) > 2 /\ local.objectsAt # None => local.objectsAt \in DOMAIN files
    /\ Rank(step.loop) > 5 => {<<"elk", file>> : file \in ToSet(ElkFiles)} \subseteq DOMAIN files

(* Once the experiment was started, the topology has what a start adds.    *)
HasItsYaml(ns, h) == HasYaml(h) => YamlInject(h) \in ToSet(ExtractNode(ns, h.hostname).injects)

RepeatInv ==
  /\ clean => \A h \in ToSet(OfType("provider")) : HasItsYaml(doc, h)
  /\ InStart /\ clean => nodes = doc
  /\ InStart => \A h \in ToSet(OfType("provider")) : Handled("providers", h) => HasItsYaml(nodes, h)

(* The variables of the start.                                             *)
LocalInv ==
  /\ DOMAIN local = DOMAIN NoLocals
  /\ ~InStart => local = NoLocals
  /\ local.addresses = FirstAddresses

FederatesInv ==
  InStart =>
    \A h \in ToSet(LoopHosts("federates")) :
      Handled("federates", h) => SceptrePath(h, "helics.json") \in DOMAIN files /\ FederateFile(h) = FederateConfig(h)

IsObjectsOf(p, path, hil) == IsPowerWorld(p) /\ path = SceptrePath(p, "objects.txt") /\ hil = p.hil

ObjectsInv ==
  InStart =>
    /\ IsList(local.objects)
    /\ local.objectsAt # None => \E p \in ToSet(OfType("provider")) : IsObjectsOf(p, local.objectsAt, local.hil)
    /\ \A h \in ToSet(LoopHosts("fd-servers")) :
         Handled("fd-servers", h) /\ FeedsPower(HostNamed(h.provider)) => ToSet(DeviceNames(h)) \subseteq ToSet(local.objects)
    /\ Rank(step.loop) > 2 /\ local.objectsAt # None =>
         local.objectsAt \in DOMAIN files /\ files[local.objectsAt] = Objects(local.objects, local.hil)

(* A primary OPC server polls what its file says.                          *)
IsPolled(o, h) ==
  /\ ~h.backup /\ OfferedIp(h) = o.ip
  /\ SceptrePath(h, "opc.xml") \in DOMAIN files /\ files[SceptrePath(h, "opc.xml")] = o.config

(* A dict of configurations by address.                                    *)
IsOpcs(opcs) ==
  /\ IsList(opcs)
  /\ \A o \in ToSet(opcs) : o = [ip |-> o.ip, config |-> o.config]
  /\ \A j, k \in DOMAIN opcs : opcs[j].ip = opcs[k].ip => j = k

OpcsInv ==
  InStart =>
    /\ IsOpcs(local.opcs)
    /\ \A o \in ToSet(local.opcs) : \E h \in ToSet(OfType("opc")) : IsPolled(o, h)

ScadasInv ==
  InStart =>
    \A s \in ToSet(LoopHosts("scadas")) :
      Handled("scadas", s) /\ ~s.project =>
        SceptrePath(s, "autoproject") \in DOMAIN files /\ files[SceptrePath(s, "autoproject")] = OpcFor(OfferedIp(s))

(* What a historian's file says, whatever the tags of one that has no OPC  *)
(* server on its subnet.                                                   *)
HistorianSays(h, file) ==
  LET k == OnSubnet(local.opcs, OfferedIp(h))
  IN  /\ ~h.backup => file.replicas = Secondaries(h.hostname)
      /\ ~h.backup /\ file.opc # None => k # 0 /\ file.opc = local.opcs[k].ip /\ file.tags \subseteq local.opcs[k].config

HistoriansInv ==
  InStart =>
    \A h \in ToSet(LoopHosts("historians")) :
      Handled("historians", h) =>
        SceptrePath(h, "historian_config.txt") \in DOMAIN files /\ HistorianSays(h, HistorianFile(h))

-----------------------------------------------------------------------------
(* What becomes of the files.                                              *)
Kept(path) == path \in DOMAIN files => path \in DOMAIN files' /\ files'[path] = files[path]

(* Files written take the place of those before; all others stay.          *)
LEMMA WriteAllIs ==
  ASSUME NEW new, WriteAll(new)
  PROVE  /\ DOMAIN files' = DOMAIN new \cup DOMAIN files
         /\ \A path \in DOMAIN new : files'[path] = new[path]
         /\ \A path : path \notin DOMAIN new => Kept(path)
BY DEF WriteAll, Overlay, Kept

(* Where one file, and two sets of files, have what.                       *)
LEMMA FileIs ==
  /\ \A path, content : DOMAIN File(path, content) = {path} /\ File(path, content)[path] = content
  /\ \A f, g : DOMAIN Overlay(f, g) = DOMAIN f \cup DOMAIN g
  /\ \A f, g : \A path \in DOMAIN f : Overlay(f, g)[path] = f[path]
  /\ \A f, g : \A path \in DOMAIN g \ DOMAIN f : Overlay(f, g)[path] = g[path]
  /\ DOMAIN NoFiles = {}
BY DEF File, Overlay, NoFiles

(* The turn of h writes its files and no others.                           *)
Wrote(loop, h) ==
  /\ Output(loop, h) \subseteq DOMAIN files'
  /\ DOMAIN files \subseteq DOMAIN files'
  /\ \A path : path \notin Output(loop, h) => Kept(path)

(* Whoever writes the output of a host wrote for it.                       *)
LEMMA WroteAll ==
  ASSUME NEW new, WriteAll(new), NEW loop, NEW h, DOMAIN new = Output(loop, h)
  PROVE  Wrote(loop, h)
BY WriteAllIs DEF Wrote

(* Every turn of a start writes the output of its loop for its host.       *)
LEMMA TurnsWrite ==
  ASSUME Places, TopologyInv
  PROVE  /\ Provider => Wrote("providers", OfType("provider")[step.i])
         /\ FieldDeviceServer => Wrote("fd-servers", OfType("fd-server")[step.i])
         /\ Federate => Wrote("federates", WithLabel("helics-federate")[step.i])
         /\ Client => Wrote("clients", OfType("fd-client")[step.i])
         /\ Opc => Wrote("opcs", OfType("opc")[step.i])
         /\ Scada => Wrote("scadas", OfType("scada-server")[step.i])
         /\ Hmi => Wrote("hmis", OfType("hmi")[step.i])
         /\ Engineer => Wrote("engineers", OfType("engineer-workstation")[step.i])
         /\ Historian => Wrote("historians", OfType("historian")[step.i])
<1>1. ASSUME NEW loop, NEW h, TurnAt(loop, h), loop \in StartLoops
      PROVE  StartExtension(h) = Extension(h)
  <2>1. LoopHosts(loop) \in Seq(Hosts) /\ step.i \in DOMAIN LoopHosts(loop) /\ h = LoopHosts(loop)[step.i]
    BY <1>1, LoopsAreListed DEF TurnAt, Places
  <2>2. h \in Hosts
    BY <2>1
  <2> QED
    BY <1>1, <2>2, ExtensionIs DEF TurnAt, InStart, TopologyInv, Places
<1>2. Provider => Wrote("providers", OfType("provider")[step.i])
  <2> SUFFICES ASSUME Provider, NEW h, h = OfType("provider")[step.i]
               PROVE  Wrote("providers", h)
    OBVIOUS
  <2>1. StartExtension(h) = Extension(h)
    BY <1>1, TurnsAre DEF StartLoops
  <2>2. WriteAll(ProviderWrites(h))
    BY DEF Provider
  <2>3. DOMAIN ProviderWrites(h) = Output("providers", h)
    BY <2>1 DEF Overlay, File, NoFiles, ProviderWrites, StartScript, Output
  <2> QED
    BY <2>2, <2>3, WroteAll
<1>3. FieldDeviceServer => Wrote("fd-servers", OfType("fd-server")[step.i])
  <2> SUFFICES ASSUME FieldDeviceServer, NEW h, h = OfType("fd-server")[step.i]
               PROVE  Wrote("fd-servers", h)
    OBVIOUS
  <2>1. StartExtension(h) = Extension(h)
    BY <1>1, TurnsAre DEF StartLoops
  <2>2. PICK content : WriteAll(Overlay(File(SceptrePath(h, "config.xml"), content), StartScript(h)))
    BY DEF FieldDeviceServer
  <2>3. DOMAIN Overlay(File(SceptrePath(h, "config.xml"), content), StartScript(h)) = Output("fd-servers", h)
    BY <2>1 DEF Overlay, File, StartScript, Output
  <2> QED
    BY <2>2, <2>3, WroteAll
<1>4. Federate => Wrote("federates", WithLabel("helics-federate")[step.i])
  <2> SUFFICES ASSUME Federate, NEW h, h = WithLabel("helics-federate")[step.i]
               PROVE  Wrote("federates", h)
    OBVIOUS
  <2>1. WriteAll(File(SceptrePath(h, "helics.json"), FederateConfig(h)))
    BY DEF Federate, Write, WriteAll
  <2>2. DOMAIN File(SceptrePath(h, "helics.json"), FederateConfig(h)) = Output("federates", h)
    BY FileIs DEF Output
  <2> QED
    BY <2>1, <2>2, WroteAll
<1>5. Client => Wrote("clients", OfType("fd-client")[step.i])
  <2> SUFFICES ASSUME Client, NEW h, h = OfType("fd-client")[step.i]
               PROVE  Wrote("clients", h)
    OBVIOUS
  <2>1. StartExtension(h) = Extension(h)
    BY <1>1, TurnsAre DEF StartLoops
  <2>2. PICK content : WriteAll(Overlay(File(SceptrePath(h, "config.xml"), content), StartScript(h)))
    BY DEF Client
  <2>3. DOMAIN Overlay(File(SceptrePath(h, "config.xml"), content), StartScript(h)) = Output("clients", h)
    BY <2>1 DEF Overlay, File, StartScript, Output
  <2> QED
    BY <2>2, <2>3, WroteAll
<1>6. Opc => Wrote("opcs", OfType("opc")[step.i])
  <2> SUFFICES ASSUME Opc, NEW h, h = OfType("opc")[step.i]
               PROVE  Wrote("opcs", h)
    OBVIOUS
  <2>1. PICK config : WriteAll(OpcWrites(h, config))
    BY DEF Opc
  <2>2. DOMAIN OpcWrites(h, config) = Output("opcs", h)
    BY DEF Overlay, File, NoFiles, OpcWrites, Output
  <2> QED
    BY <2>1, <2>2, WroteAll
<1>7. Scada => Wrote("scadas", OfType("scada-server")[step.i])
  <2> SUFFICES ASSUME Scada, NEW h, h = OfType("scada-server")[step.i]
               PROVE  Wrote("scadas", h)
    OBVIOUS
  <2>1. WriteAll(ScadaWrites(h))
    BY DEF Scada
  <2>2. DOMAIN ScadaWrites(h) = Output("scadas", h)
    BY DEF Overlay, File, NoFiles, ScadaWrites, Output
  <2> QED
    BY <2>1, <2>2, WroteAll
<1>8. Hmi => Wrote("hmis", OfType("hmi")[step.i])
  <2> SUFFICES ASSUME Hmi, NEW h, h = OfType("hmi")[step.i]
               PROVE  Wrote("hmis", h)
    OBVIOUS
  <2>1. WriteAll(File(SceptrePath(h, "hmi.ps1"), ScadasOf(h)))
    BY DEF Hmi, Write, WriteAll
  <2>2. DOMAIN File(SceptrePath(h, "hmi.ps1"), ScadasOf(h)) = Output("hmis", h)
    BY FileIs DEF Output
  <2> QED
    BY <2>1, <2>2, WroteAll
<1>9. Engineer => Wrote("engineers", OfType("engineer-workstation")[step.i])
  <2> SUFFICES ASSUME Engineer, NEW h, h = OfType("engineer-workstation")[step.i]
               PROVE  Wrote("engineers", h)
    OBVIOUS
  <2>1. WriteAll(EngineerWrites(h))
    BY DEF Engineer
  <2>2. DOMAIN EngineerWrites(h) = Output("engineers", h)
    BY DEF Overlay, File, NoFiles, EngineerWrites, Output
  <2> QED
    BY <2>1, <2>2, WroteAll
<1>10. Historian => Wrote("historians", OfType("historian")[step.i])
  <2> SUFFICES ASSUME Historian, NEW h, h = OfType("historian")[step.i]
               PROVE  Wrote("historians", h)
    OBVIOUS
  <2>1. PICK content : WriteAll([path \in {SceptrePath(h, "historian_config.txt"), SceptrePath(h, "historian.ps1")} |-> content])
    BY DEF Historian
  <2>2. DOMAIN [path \in {SceptrePath(h, "historian_config.txt"), SceptrePath(h, "historian.ps1")} |-> content] = Output("historians", h)
    BY DEF Output
  <2> QED
    BY <2>1, <2>2, WroteAll
<1> QED
  BY <1>2, <1>3, <1>4, <1>5, <1>6, <1>7, <1>8, <1>9, <1>10

(* Every turn is one host's in one loop, none of them a processor's.       *)
LEMMA TurnIs ==
  ASSUME Places, TopologyInv, Turning
  PROVE  \E loop \in StartLoops \ {"feps"} : \E h \in ToSet(LoopHosts(loop)) : TurnAt(loop, h) /\ Wrote(loop, h)
<1>1. ASSUME NEW loop \in StartLoops \ {"feps"}, NEW h, TurnAt(loop, h), Wrote(loop, h)
      PROVE  \E l \in StartLoops \ {"feps"} : \E g \in ToSet(LoopHosts(l)) : TurnAt(l, g) /\ Wrote(l, g)
  <2>1. h \in ToSet(LoopHosts(loop))
    BY <1>1 DEF TurnAt, ToSet
  <2> QED
    BY <1>1, <2>1
<1>2. {"providers", "fd-servers", "federates", "clients", "opcs", "scadas", "hmis", "engineers", "historians"} \subseteq StartLoops \ {"feps"}
  BY DEF StartLoops
<1> HIDE DEF StartLoops
<1>3. \E loop \in {"providers", "fd-servers", "federates", "clients", "opcs", "scadas", "hmis", "engineers", "historians"} :
        \E h : TurnAt(loop, h) /\ Wrote(loop, h)
  BY TurnsAre, TurnsWrite DEF Turning
<1> QED
  BY <1>1, <1>2, <1>3

ElkPaths == {<<"elk", file>> : file \in ToSet(ElkFiles)}

(* The ends of the loops write two things.                                 *)
LEMMA EndsWrite ==
  ASSUME Proceeding
  PROVE  /\ DOMAIN files \subseteq DOMAIN files'
         /\ \A path : path \notin ElkPaths /\ ~(ServersDone /\ local.objectsAt # None /\ path = local.objectsAt) => Kept(path)
         /\ FepsDone => ElkPaths \subseteq DOMAIN files'
<1>1. CASE ServersDone
  <2>1. WriteAll(IF local.objectsAt = None THEN NoFiles ELSE File(local.objectsAt, Objects(local.objects, local.hil)))
    BY <1>1 DEF ServersDone
  <2>3. ~FepsDone
    BY <1>1 DEF ServersDone, FepsDone, After, At
  <2> DEFINE new == IF local.objectsAt = None THEN NoFiles ELSE File(local.objectsAt, Objects(local.objects, local.hil))
  <2> HIDE DEF new
  <2>2. WriteAll(new)
    BY <2>1 DEF new
  <2>4. DOMAIN new = IF local.objectsAt = None THEN {} ELSE {local.objectsAt}
    BY FileIs DEF new
  <2> QED
    BY <1>1, <2>2, <2>4, <2>3, WriteAllIs
<1>2. CASE FepsDone
  <2>1. WriteAll(ElkWrites)
    BY <1>2 DEF FepsDone
  <2>2. DOMAIN ElkWrites = {<<"elk", "fdlist.json">>, <<"elk", "reg_addrs.json">>, <<"elk", "sceptre_provider_restart.py">>}
    BY DEF Overlay, File, ElkWrites
  <2>3. DOMAIN ElkFiles = 1..3
    BY DEF ElkFiles
  <2>4. ToSet(ElkFiles) = {"fdlist.json", "reg_addrs.json", "sceptre_provider_restart.py"}
    BY <2>3 DEF ToSet, ElkFiles
  <2>5. DOMAIN ElkWrites = ElkPaths
    BY <2>2, <2>4 DEF ElkPaths
  <2> QED
    BY <2>1, <2>5, WriteAllIs
<1>3. CASE ~ServersDone /\ ~FepsDone
  <2>1. files' = files
    BY <1>3 DEF Proceeding, ProvidersDone, FederatesDone, ClientsDone, OpcsDone, ScadasDone, HmisDone, EngineersDone
  <2> QED
    BY <1>3, <2>1 DEF Kept
<1> QED
  BY <1>1, <1>2, <1>3

-----------------------------------------------------------------------------
(* No file is ever taken away.                                             *)
LEMMA FilesStay ==
  ASSUME Places, TopologyInv, [Next]_vars
  PROVE  DOMAIN files \subseteq DOMAIN files'
<1>1. CASE ConfigureHost
  <2>1. \E new : WriteAll(new)
    BY <1>1 DEF ConfigureHost
  <2> QED
    BY <2>1, WriteAllIs
<1>2. CASE StartExperiment
  <2>1. \E new : WriteAll(new)
    BY <1>2 DEF StartExperiment
  <2> QED
    BY <2>1, WriteAllIs
<1>3. CASE Turning
  BY <1>3, TurnIs DEF Wrote
<1>4. CASE Proceeding
  BY <1>4, EndsWrite
<1>5. CASE BeginConfigure \/ ConfigureNext \/ ConfigureFails \/ Configured \/ Started \/ UNCHANGED vars
  BY <1>5 DEF BeginConfigure, ConfigureNext, ConfigureFails, Raise, Configured, Started, vars, processVars
<1>6. CASE Failing
  BY <1>6, FailsAre DEF Failed
<1> QED
  BY <1>1, <1>2, <1>3, <1>4, <1>5, <1>6, StartingSteps DEF Next, Configuring

(* What the topology may name does not change.                             *)
LEMMA StaysGiven ==
  ASSUME scenario' = scenario, DOMAIN files \subseteq DOMAIN files'
  PROVE  /\ \A h : Extension(h)' = Extension(h)
         /\ \A path : Mentioned(path) => Mentioned(path)'
         /\ \A ns : NodesAre(ns) => NodesAre(ns)'
         /\ \A ns : Given(ns) => Given(ns)'
<1>1. \A h : Extension(h)' = Extension(h)
  BY DEF Extension
<1>2. \A loop, h : Promised(loop, h)' = Promised(loop, h)
  BY <1>1 DEF Promised
<1>3. \A path : Mentioned(path) => Mentioned(path)'
  BY <1>2, ScenarioStays DEF Mentioned
<1>4. \A ns : NodesAre(ns) => NodesAre(ns)'
  BY DEF NodesAre
<1>5. \A ns : Given(ns) => Given(ns)'
  BY <1>3 DEF Given
<1> QED
  BY <1>1, <1>3, <1>4, <1>5

(* Injects that may be named leave a topology one that names what it may.  *)
LEMMA GivenMore ==
  ASSUME NEW ns, Given(ns), NEW k, NEW S, NEW ms, Adds(ns, ms, k, S),
         \A inject \in S : inject.src[1] \in OwnFiles => Mentioned(inject.src) \/ inject.src \in DOMAIN files'
  PROVE  \A j \in DOMAIN ms : \A inject \in ToSet(ms[j].injects) :
           inject.src[1] \in OwnFiles => Mentioned(inject.src) \/ inject.src \in DOMAIN files \cup DOMAIN files'
BY DEF Given, Adds, SameBut

(* The hosts of the loops of configure are those they are for.             *)
LEMMA ConfigureHostsAre ==
  ASSUME scenario \in Scenarios, NEW loop \in ToSet(ConfigureLoops)
  PROVE  /\ ConfigureHosts(loop) \in Seq(Hosts)
         /\ loop \in LaterLoops => \A h \in ToSet(ConfigureHosts(loop)) : IsFor(loop, h)
         /\ loop \in LaterLoops \cup {"helics-broker", "elk-vm", "configured"}
<1>1. /\ \A type : OfType(type) \in Seq(Hosts) /\ ToSet(OfType(type)) = {h \in Hosts : h.type = type}
      /\ \A label : WithLabel(label) \in Seq(Hosts) /\ ToSet(WithLabel(label)) = {h \in Hosts : label \in h.labels}
  BY HostsAreListed
<1>2. loop \in LaterLoops \cup {"helics-broker", "elk-vm", "configured"}
  BY DEF LaterLoops, ConfigureLoops, ToSet
<1>3. CASE loop = "field-device"
  <2> DEFINE servers == OfType("fd-server")
             clients == OfType("fd-client")
             feps == OfType("fep")
             both == servers \o clients
  <2>1. \A g \in ToSet(servers) \cup ToSet(clients) \cup ToSet(feps) : IsFor(loop, g)
    BY <1>1, <1>3 DEF IsFor
  <2>2. ConfigureHosts(loop) = both \o feps
    BY <1>3 DEF ConfigureHosts
  <2>3. servers \in Seq(Hosts) /\ clients \in Seq(Hosts) /\ feps \in Seq(Hosts)
    BY <1>1
  <2> HIDE DEF servers, clients, feps
  <2>4. both \in Seq(Hosts) /\ ToSet(both) = ToSet(servers) \cup ToSet(clients)
    BY <2>3, SetOfConcat
  <2> HIDE DEF both
  <2>5. both \o feps \in Seq(Hosts) /\ ToSet(both \o feps) = ToSet(both) \cup ToSet(feps)
    BY <2>3, <2>4, SetOfConcat
  <2> QED
    BY <1>2, <2>1, <2>2, <2>4, <2>5
<1>4. CASE loop = "helics-federate"
  BY <1>1, <1>2, <1>4 DEF ConfigureHosts, IsFor
<1>5. CASE loop \in {"helics-broker", "elk-vm"}
  <2>1. \A label : Select(WithLabel(label), {h \in Hosts : IsLinux(h)}) \in Seq(Hosts)
    <3> SUFFICES ASSUME NEW label PROVE Select(WithLabel(label), {h \in Hosts : IsLinux(h)}) \in Seq(Hosts)
      OBVIOUS
    <3> DEFINE S == {h \in Hosts : IsLinux(h)}
    <3>1. WithLabel(label) \in Seq(Hosts)
      BY <1>1
    <3> HIDE DEF S
    <3>2. Select(WithLabel(label), S) \in Seq(Hosts)
      BY <3>1, SelectIs
    <3> QED
      BY <3>2 DEF S
  <2>2. ConfigureHosts(loop) \in Seq(Hosts)
    <3>1. CASE loop = "helics-broker"
      BY <2>1, <3>1 DEF ConfigureHosts
    <3>2. CASE loop = "elk-vm"
      BY <2>1, <3>2 DEF ConfigureHosts
    <3> QED
      BY <1>5, <3>1, <3>2
  <2>3. loop \notin LaterLoops
    BY <1>5 DEF LaterLoops
  <2> QED
    BY <1>2, <2>2, <2>3
<1>6. CASE loop \notin {"field-device", "helics-federate", "helics-broker", "elk-vm"}
  <2>1. ConfigureHosts(loop) = OfType(loop) /\ \A h : IsFor(loop, h) <=> h.type = loop
    BY <1>6 DEF ConfigureHosts, IsFor
  <2> QED
    BY <1>1, <1>2, <2>1
<1> QED
  BY <1>3, <1>4, <1>5, <1>6

(* Initially the topology is that of the scenario.                         *)
LEMMA TopologyInvInit ==
  ASSUME Init
  PROVE  TopologyInv
<1>1. scenario \in Scenarios /\ doc = scenario.topology /\ app # "sceptre"
  BY DEF Init, ProcessInit
<1>2. NodesAre(doc)
  BY <1>1, ScenarioIs
<1>3. \A j \in DOMAIN doc : \A inject \in ToSet(doc[j].injects) : inject.src[1] \notin OwnFiles
  BY <1>1, ScenariosAssumption DEF IsScenario
<1> QED
  BY <1>1, <1>2, <1>3 DEF TopologyInv, Given

(* A turn of configure.                                                    *)
LEMMA ConfigureHostGives ==
  ASSUME Places, TopologyInv, ConfigureHost
  PROVE  NodesAre(nodes)' /\ Given(nodes)'
<1>1. scenario \in Scenarios /\ scenario' = scenario
  BY DEF Places, ConfigureHost
<1>2. PICK loop \in ToSet(ConfigureLoops) :
        /\ InConfigure(loop) /\ step.i <= Len(ConfigureHosts(loop))
        /\ nodes' = AddInjects(nodes, ConfigureHosts(loop)[step.i].hostname, ConfigureInjects(loop, ConfigureHosts(loop)[step.i]))
        /\ WriteAll(ConfigureWrites(loop, ConfigureHosts(loop)[step.i]))
  BY DEF ConfigureHost
<1> DEFINE h == ConfigureHosts(loop)[step.i]
<1>3. h \in Hosts /\ h \in ToSet(ConfigureHosts(loop))
  <2>1. ConfigureHosts(loop) \in Seq(Hosts) /\ step.i \in Nat \ {0}
    BY <1>1, ConfigureHostsAre DEF Places
  <2>2. step.i \in DOMAIN ConfigureHosts(loop)
    BY <1>2, <2>1
  <2> QED
    BY <2>1, <2>2 DEF ToSet
<1>4. NodesAre(nodes) /\ Given(nodes)
  BY <1>2 DEF InConfigure, TopologyInv
<1> HIDE DEF h
<1>5. Fits(ConfigureInjects(loop, h), Promised(loop, h))
  BY <1>1, <1>3, <1>4, ConfigureInjectsFit
<1>6. NodesAre(nodes') /\ Adds(nodes, nodes', NodeIndex(nodes, h.hostname), ToSet(ConfigureInjects(loop, h)))
  <2>1. nodes' = AddInjects(nodes, h.hostname, ConfigureInjects(loop, h)) /\ IsList(ConfigureInjects(loop, h))
    BY <1>2, <1>5 DEF h, Fits
  <2> QED
    BY <1>1, <1>3, <1>4, <2>1, SomeMore
<1>7. DOMAIN files \subseteq DOMAIN files'
  BY <1>2, WriteAllIs
<1>8. \A path \in Promised(loop, h) : Mentioned(path) \/ path \in DOMAIN files'
  <2>1. CASE loop \in LaterLoops
    <3>1. IsFor(loop, h)
      BY <1>1, <1>3, <2>1, ConfigureHostsAre
    <3> QED
      BY <1>3, <2>1, <3>1 DEF Mentioned
  <2>2. CASE loop = "helics-broker"
    <3>1. WriteAll(File(StartupPath(h, "helics.sh"), Len(WithLabel("helics-federate"))))
      BY <1>2, <2>2 DEF ConfigureWrites, h
    <3>2. StartupPath(h, "helics.sh") \in DOMAIN files'
      <4>1. DOMAIN File(StartupPath(h, "helics.sh"), Len(WithLabel("helics-federate"))) = {StartupPath(h, "helics.sh")}
        BY DEF File
      <4> QED
        BY <3>1, <4>1, WriteAllIs
    <3> QED
      BY <2>2, <3>2 DEF Promised
  <2>3. CASE loop = "elk-vm"
    <3>1. WriteAll(File(StartupPath(h, "elk-start.sh"), "filebeat"))
      BY <1>2, <2>3 DEF ConfigureWrites, h
    <3>2. StartupPath(h, "elk-start.sh") \in DOMAIN files'
      <4>1. DOMAIN File(StartupPath(h, "elk-start.sh"), "filebeat") = {StartupPath(h, "elk-start.sh")}
        BY DEF File
      <4> QED
        BY <3>1, <4>1, WriteAllIs
    <3> QED
      BY <2>3, <3>2 DEF Promised
  <2> QED
    BY <1>1, <1>2, <2>1, <2>2, <2>3, ConfigureHostsAre DEF InConfigure
<1>9. Given(nodes)'
  <2>1. \A j \in DOMAIN nodes' : \A inject \in ToSet(nodes'[j].injects) :
           inject.src[1] \in OwnFiles => Mentioned(inject.src) \/ inject.src \in DOMAIN files \cup DOMAIN files'
    <3>1. \A inject \in ToSet(ConfigureInjects(loop, h)) :
            inject.src[1] \in OwnFiles => Mentioned(inject.src) \/ inject.src \in DOMAIN files'
      BY <1>5, <1>8 DEF Fits
    <3> QED
      BY <1>4, <1>6, <3>1, GivenMore
  <2>2. \A path : Mentioned(path) => Mentioned(path)'
    BY <1>1, <1>7, StaysGiven
  <2> QED
    BY <1>7, <2>1, <2>2 DEF Given
<1>10. NodesAre(nodes)'
  BY <1>1, <1>6 DEF NodesAre
<1> QED
  BY <1>9, <1>10

(* A turn of a provider.                                                   *)
LEMMA ProviderGives ==
  ASSUME Places, TopologyInv, Provider, NEW h, h = OfType("provider")[step.i]
  PROVE  /\ h \in Hosts /\ h.type = "provider"
         /\ NodesAre(nodes)' /\ Given(nodes)'
         /\ nodes' = IF HasYaml(h) THEN AddInject(nodes, h.hostname, YamlInject(h)) ELSE nodes
<1>1. scenario \in Scenarios /\ scenario' = scenario /\ TurnAt("providers", h) /\ Wrote("providers", h)
  BY TurnsAre, TurnsWrite DEF Places, TurnAt
<1>2. h \in Hosts /\ h.type = "provider"
  <2>1. LoopHosts("providers") = OfType("provider")
    BY DEF LoopHosts
  <2>2. h \in ToSet(OfType("provider"))
    BY <1>1, <2>1 DEF TurnAt, ToSet
  <2> QED
    BY <1>1, <2>2, HostsAreListed
<1>3. NodesAre(nodes) /\ Given(nodes)
  BY <1>1 DEF TurnAt, InStart, TopologyInv
<1>4. nodes' = IF HasYaml(h) THEN AddInject(nodes, h.hostname, YamlInject(h)) ELSE nodes
  BY DEF Provider
<1>5. DOMAIN files \subseteq DOMAIN files'
  BY <1>1 DEF Wrote
<1>6. CASE ~HasYaml(h)
  BY <1>1, <1>2, <1>3, <1>4, <1>5, <1>6, StaysGiven
<1>7. CASE HasYaml(h)
  <2>1. NodesAre(nodes') /\ Adds(nodes, nodes', NodeIndex(nodes, h.hostname), {YamlInject(h)})
    BY <1>1, <1>2, <1>3, <1>4, <1>7, OneMore
  <2>2. YamlInject(h).src = SceptrePath(h, "config.yaml")
    BY DEF YamlInject
  <2>3. Mentioned(YamlInject(h).src)
    BY <1>2, <1>7, <2>2 DEF Mentioned
  <2> HIDE DEF YamlInject
  <2>4. \A j \in DOMAIN nodes' : \A inject \in ToSet(nodes'[j].injects) :
           inject.src[1] \in OwnFiles => Mentioned(inject.src) \/ inject.src \in DOMAIN files \cup DOMAIN files'
    BY <1>3, <2>1, <2>3, GivenMore
  <2>5. \A path : Mentioned(path) => Mentioned(path)'
    BY <1>1, <1>5, StaysGiven
  <2>6. Given(nodes)'
    BY <1>5, <2>4, <2>5 DEF Given
  <2>7. NodesAre(nodes)'
    BY <1>1, <2>1 DEF NodesAre
  <2> QED
    BY <1>2, <1>4, <2>6, <2>7
<1> QED
  BY <1>6, <1>7

(* Every step adds no injects but those promised.                          *)
LEMMA TopologyInvNext ==
  ASSUME Places, TopologyInv, [Next]_vars
  PROVE  TopologyInv'
<1>1. scenario' = scenario /\ DOMAIN files \subseteq DOMAIN files'
  BY ScenarioIsKept, FilesStay
<1>2. \A ns : (NodesAre(ns) => NodesAre(ns)') /\ (Given(ns) => Given(ns)')
  BY <1>1, StaysGiven
<1>3. NodesAre(doc) /\ Given(doc) /\ (app = "sceptre" => NodesAre(nodes) /\ Given(nodes))
  BY DEF TopologyInv
<1>4. ASSUME doc' = doc \/ (app = "sceptre" /\ doc' = nodes)
      PROVE  NodesAre(doc)' /\ Given(doc)'
  BY <1>2, <1>3, <1>4
<1>5. ASSUME app' = "sceptre" => nodes' = doc \/ (app = "sceptre" /\ nodes' = nodes)
      PROVE  app' = "sceptre" => NodesAre(nodes)' /\ Given(nodes)'
  BY <1>2, <1>3, <1>5
<1>6. CASE ConfigureHost
  <2>1. doc' = doc
    BY <1>6 DEF ConfigureHost
  <2> QED
    BY <1>4, <1>6, <2>1, ConfigureHostGives DEF TopologyInv
<1>7. CASE BeginConfigure \/ StartExperiment
  <2>1. doc' = doc /\ nodes' = doc
    BY <1>7 DEF BeginConfigure, StartExperiment
  <2> QED
    BY <1>4, <1>5, <2>1 DEF TopologyInv
<1>8. CASE ConfigureNext
  <2>1. doc' = doc /\ nodes' = nodes /\ app = "sceptre"
    BY <1>8 DEF ConfigureNext, InConfigure
  <2> QED
    BY <1>4, <1>5, <2>1 DEF TopologyInv
<1>9. CASE ConfigureFails \/ Failing
  <2>1. doc' = doc /\ app' = "failed"
    BY <1>9, FailsAre DEF ConfigureFails, Raise, Failed
  <2> QED
    BY <1>4, <1>5, <2>1 DEF TopologyInv
<1>10. CASE Configured \/ Started
  <2>1. doc' = nodes /\ app' # "sceptre" /\ app = "sceptre"
    BY <1>10, DoneIsEnd DEF Configured, Started, Finish, InStart
  <2> QED
    BY <1>4, <1>5, <2>1 DEF TopologyInv
<1>11. CASE Provider
  <2>1. doc' = doc
    BY <1>11, TurnsAre DEF TurnAt
  <2> QED
    BY <1>4, <1>11, <2>1, ProviderGives DEF TopologyInv
<1>12. CASE Turning /\ ~Provider
  <2>1. doc' = doc /\ app = "sceptre"
    BY <1>12, TurnsAre DEF Turning, TurnAt, InStart
  <2>2. nodes' = nodes
    BY <1>12 DEF Turning, FieldDeviceServer, Federate, Client, Opc, Scada, Hmi, Engineer, Historian
  <2> QED
    BY <1>4, <1>5, <2>1, <2>2 DEF TopologyInv
<1>13. CASE Proceeding
  <2>1. doc' = doc /\ nodes' = nodes /\ app = "sceptre"
    BY <1>13, EndsAre DEF Proceeding, EndOf, InStart
  <2> QED
    BY <1>4, <1>5, <2>1 DEF TopologyInv
<1>14. CASE UNCHANGED vars
  <2>1. doc' = doc /\ nodes' = nodes /\ app' = app
    BY <1>14 DEF vars, processVars
  <2> QED
    BY <1>4, <1>5, <2>1 DEF TopologyInv
<1> QED
  BY <1>6, <1>7, <1>8, <1>9, <1>10, <1>11, <1>12, <1>13, <1>14, StartingSteps DEF Next, Configuring

-----------------------------------------------------------------------------
(* The variables of a start: which turns change which of them.             *)
LEMMA LocalTurns ==
  ASSUME LocalInv
  PROVE  /\ Provider => /\ DOMAIN local' = DOMAIN local /\ local'.addresses = local.addresses
                        /\ local'.configs = local.configs /\ local'.objects = local.objects
                        /\ local'.opcs = local.opcs /\ local'.backups = local.backups
                        /\ \E h : h = OfType("provider")[step.i] /\
                             IF IsPowerWorld(h) THEN local'.objectsAt = SceptrePath(h, "objects.txt") /\ local'.hil = h.hil
                             ELSE local'.objectsAt = local.objectsAt /\ local'.hil = local.hil
         /\ FieldDeviceServer => /\ DOMAIN local' = DOMAIN local /\ local'.addresses = FirstAddresses
                                 /\ local'.objectsAt = local.objectsAt /\ local'.hil = local.hil
                                 /\ local'.opcs = local.opcs /\ local'.backups = local.backups
                                 /\ \E h, config : /\ h = OfType("fd-server")[step.i] /\ ServerWorks(h)
                                      /\ config = FieldDeviceConfig(h, Numbered(FieldsOf(h), FirstAddresses).regs)
                                      /\ local'.configs = Append(local.configs, config)
                                      /\ local'.objects = local.objects \o If(FeedsPower(HostNamed(h.provider)), DeviceNames(h))
         /\ Federate \/ Hmi \/ Engineer => local' = local
         /\ Client \/ Scada \/ Historian =>
              /\ DOMAIN local' = DOMAIN local /\ local'.addresses = local.addresses
              /\ local'.configs = local.configs /\ local'.objects = local.objects
              /\ local'.objectsAt = local.objectsAt /\ local'.hil = local.hil
              /\ local'.opcs = local.opcs /\ local'.backups = local.backups
         /\ Opc => /\ DOMAIN local' = DOMAIN local /\ local'.addresses = local.addresses
                   /\ local'.configs = local.configs /\ local'.objects = local.objects
                   /\ local'.objectsAt = local.objectsAt /\ local'.hil = local.hil
                   /\ \E h, config : /\ h = OfType("opc")[step.i] /\ WriteAll(OpcWrites(h, config))
                        /\ local'.opcs = IF h.backup THEN local.opcs ELSE SetOpc(local.opcs, OfferedIp(h), config)
<1>1. /\ {"addresses", "configs", "objects", "objectsAt", "hil", "fdlist", "clientIp", "opcs", "backups", "opcConfig"} \subseteq DOMAIN local
      /\ local.addresses = FirstAddresses
  BY DEF LocalInv, NoLocals
<1>2. Provider => /\ DOMAIN local' = DOMAIN local /\ local'.addresses = local.addresses
                  /\ local'.configs = local.configs /\ local'.objects = local.objects
                  /\ local'.opcs = local.opcs /\ local'.backups = local.backups
                  /\ \E h : h = OfType("provider")[step.i] /\
                       IF IsPowerWorld(h) THEN local'.objectsAt = SceptrePath(h, "objects.txt") /\ local'.hil = h.hil
                       ELSE local'.objectsAt = local.objectsAt /\ local'.hil = local.hil
  <2> SUFFICES ASSUME Provider, NEW h, h = OfType("provider")[step.i]
               PROVE  /\ DOMAIN local' = DOMAIN local /\ local'.addresses = local.addresses
                      /\ local'.configs = local.configs /\ local'.objects = local.objects
                      /\ local'.opcs = local.opcs /\ local'.backups = local.backups
                      /\ IF IsPowerWorld(h) THEN local'.objectsAt = SceptrePath(h, "objects.txt") /\ local'.hil = h.hil
                         ELSE local'.objectsAt = local.objectsAt /\ local'.hil = local.hil
    OBVIOUS
  <2>1. local' = IF IsPowerWorld(h) THEN [local EXCEPT !.objectsAt = SceptrePath(h, "objects.txt"), !.hil = h.hil] ELSE local
    BY DEF Provider
  <2> QED
    BY <1>1, <2>1
<1>3. FieldDeviceServer =>
        /\ DOMAIN local' = DOMAIN local /\ local'.addresses = FirstAddresses
        /\ local'.objectsAt = local.objectsAt /\ local'.hil = local.hil
        /\ local'.opcs = local.opcs /\ local'.backups = local.backups
        /\ \E h, config : /\ h = OfType("fd-server")[step.i] /\ ServerWorks(h)
             /\ config = FieldDeviceConfig(h, Numbered(FieldsOf(h), FirstAddresses).regs)
             /\ local'.configs = Append(local.configs, config)
             /\ local'.objects = local.objects \o If(FeedsPower(HostNamed(h.provider)), DeviceNames(h))
  <2> SUFFICES ASSUME FieldDeviceServer, NEW h, h = OfType("fd-server")[step.i],
                      NEW config, config = FieldDeviceConfig(h, Numbered(FieldsOf(h), FirstAddresses).regs)
               PROVE  /\ DOMAIN local' = DOMAIN local /\ local'.addresses = FirstAddresses
                      /\ local'.objectsAt = local.objectsAt /\ local'.hil = local.hil
                      /\ local'.opcs = local.opcs /\ local'.backups = local.backups
                      /\ ServerWorks(h)
                      /\ local'.configs = Append(local.configs, config)
                      /\ local'.objects = local.objects \o If(FeedsPower(HostNamed(h.provider)), DeviceNames(h))
    OBVIOUS
  <2>1. /\ ServerWorks(h)
        /\ \E list : local' = [local EXCEPT !.configs = Append(@, config), !.addresses = FirstAddresses,
                                            !.objects = @ \o If(FeedsPower(HostNamed(h.provider)), DeviceNames(h)),
                                            !.fdlist = list]
    BY <1>1 DEF FieldDeviceServer, CountersAfter
  <2> QED
    BY <1>1, <2>1
<1>4. Federate \/ Hmi \/ Engineer => local' = local
  BY DEF Federate, Hmi, Engineer
<1>5. Client \/ Scada \/ Historian =>
        /\ DOMAIN local' = DOMAIN local /\ local'.addresses = local.addresses
        /\ local'.configs = local.configs /\ local'.objects = local.objects
        /\ local'.objectsAt = local.objectsAt /\ local'.hil = local.hil
        /\ local'.opcs = local.opcs /\ local'.backups = local.backups
  <2>1. Client => \E ip : local' = [local EXCEPT !.clientIp = ip]
    BY DEF Client
  <2>2. Scada => local' = local \/ \E config : local' = [local EXCEPT !.opcConfig = config]
    BY DEF Scada
  <2>3. Historian => \E config : local' = [local EXCEPT !.opcConfig = config]
    BY DEF Historian
  <2> QED
    BY <1>1, <2>1, <2>2, <2>3
<1>6. Opc => /\ DOMAIN local' = DOMAIN local /\ local'.addresses = local.addresses
             /\ local'.configs = local.configs /\ local'.objects = local.objects
             /\ local'.objectsAt = local.objectsAt /\ local'.hil = local.hil
             /\ \E h, config : /\ h = OfType("opc")[step.i] /\ WriteAll(OpcWrites(h, config))
                  /\ local'.opcs = IF h.backup THEN local.opcs ELSE SetOpc(local.opcs, OfferedIp(h), config)
  <2> SUFFICES ASSUME Opc
               PROVE  /\ DOMAIN local' = DOMAIN local /\ local'.addresses = local.addresses
                      /\ local'.configs = local.configs /\ local'.objects = local.objects
                      /\ local'.objectsAt = local.objectsAt /\ local'.hil = local.hil
                      /\ \E h, config : /\ h = OfType("opc")[step.i] /\ WriteAll(OpcWrites(h, config))
                           /\ local'.opcs = IF h.backup THEN local.opcs ELSE SetOpc(local.opcs, OfferedIp(h), config)
    OBVIOUS
  <2>1. PICK h, config : /\ h = OfType("opc")[step.i] /\ WriteAll(OpcWrites(h, config))
                         /\ \E opcs, backups :
                              /\ opcs = IF h.backup THEN local.opcs ELSE SetOpc(local.opcs, OfferedIp(h), config)
                              /\ local' = [local EXCEPT !.opcConfig = config, !.opcs = opcs, !.backups = backups]
    BY DEF Opc
  <2> QED
    BY <1>1, <2>1
<1> QED
  BY <1>2, <1>3, <1>4, <1>5, <1>6

(* Nothing of them is left when a start ends, and none when it begins.     *)
LEMMA LocalEnds ==
  ASSUME Places, [Next]_vars
  PROVE  /\ Configuring \/ StartExperiment \/ Proceeding \/ UNCHANGED vars => local' = local
         /\ Failing \/ Started => local' = NoLocals
<1>1. Configuring \/ StartExperiment => local' = local
  BY DEF Configuring, BeginConfigure, ConfigureHost, ConfigureNext, ConfigureFails, Configured, StartExperiment, sceptreVars
<1>2. Proceeding => local' = local
  BY DEF Proceeding, ProvidersDone, ServersDone, FederatesDone, ClientsDone, FepsDone, OpcsDone, ScadasDone, HmisDone,
         EngineersDone
<1>3. UNCHANGED vars => local' = local
  BY DEF vars, sceptreVars
<1>4. Failing \/ Started => local' = NoLocals
  BY FailsAre DEF Failed, Started
<1> QED
  BY <1>1, <1>2, <1>3, <1>4

(* Initially the variables of the start are as they begin.                 *)
LEMMA LocalInvInit ==
  ASSUME Init
  PROVE  LocalInv
BY DEF Init, LocalInv, NoLocals

(* Every step keeps them so outside a start, and the counters always.      *)
LEMMA LocalInvNext ==
  ASSUME Places, LocalInv, [Next]_vars
  PROVE  LocalInv'
<1>1. DOMAIN local = DOMAIN NoLocals /\ local.addresses = FirstAddresses /\ (~InStart => local = NoLocals)
  BY DEF LocalInv
<1>2. CASE Configuring
  BY <1>1, <1>2, NotWhileConfiguring, LocalEnds DEF LocalInv
<1>3. CASE StartExperiment
  <2>1. ~InStart
    BY <1>3 DEF StartExperiment, Idle, InStart
  <2> QED
    BY <1>1, <1>3, <2>1, LocalEnds DEF LocalInv
<1>4. CASE Turning
  <2>1. InStart'
    BY <1>4, TurnsAre DEF Turning, TurnAt, InStart
  <2>2. DOMAIN local' = DOMAIN local /\ local'.addresses = FirstAddresses
    BY <1>1, <1>4, LocalTurns DEF Turning
  <2> QED
    BY <1>1, <2>1, <2>2 DEF LocalInv
<1>5. CASE Proceeding
  <2>1. InStart'
    BY <1>5, EndsAre DEF Proceeding, EndOf, InStart
  <2> QED
    BY <1>1, <1>5, <2>1, LocalEnds DEF LocalInv
<1>6. CASE Failing \/ Started
  BY <1>6, LocalEnds DEF LocalInv, NoLocals
<1>7. CASE UNCHANGED vars
  <2>1. UNCHANGED <<app, configured>>
    BY <1>7 DEF vars, processVars, sceptreVars
  <2>2. InStart' <=> InStart
    BY <2>1 DEF InStart
  <2> QED
    BY <1>1, <1>7, <2>2, LocalEnds DEF LocalInv
<1> QED
  BY <1>2, <1>3, <1>4, <1>5, <1>6, <1>7, StartingSteps DEF Next

-----------------------------------------------------------------------------
(* What the hosts handled so far were to get has been written.             *)
LEMMA RankIs ==
  /\ \A loop \in StartLoops : Rank(loop) \in 1..10
  /\ \A l, m \in StartLoops : Rank(l) = Rank(m) => l = m
  /\ Rank("providers") = 1 /\ Rank("fd-servers") = 2 /\ Rank("federates") = 3 /\ Rank("clients") = 4
  /\ Rank("feps") = 5 /\ Rank("opcs") = 6 /\ Rank("scadas") = 7 /\ Rank("hmis") = 8 /\ Rank("engineers") = 9
  /\ Rank("historians") = 10
  /\ \A loop \in StartLoops : (Rank(loop) = 2 <=> loop = "fd-servers") /\ (Rank(loop) = 5 <=> loop = "feps")
<1>1. /\ Rank("providers") = 1 /\ Rank("fd-servers") = 2 /\ Rank("federates") = 3 /\ Rank("clients") = 4
      /\ Rank("feps") = 5 /\ Rank("opcs") = 6 /\ Rank("scadas") = 7 /\ Rank("hmis") = 8 /\ Rank("engineers") = 9
      /\ Rank("historians") = 10
  BY DEF Rank
<1>2. StartLoops = {"providers", "fd-servers", "federates", "clients", "feps", "opcs", "scadas", "hmis", "engineers", "historians"}
  BY DEF StartLoops
<1>3. \A loop \in StartLoops : Rank(loop) \in 1..10
  BY <1>1, <1>2
<1>4. \A l, m \in StartLoops : Rank(l) = Rank(m) => l = m
  BY <1>1, <1>2
<1>5. \A loop \in StartLoops : (Rank(loop) = 2 <=> loop = "fd-servers") /\ (Rank(loop) = 5 <=> loop = "feps")
  BY <1>1, <1>2
<1> QED
  BY <1>1, <1>3, <1>4, <1>5

(* The end of a loop goes on to the next one.                              *)
LEMMA EndIs ==
  ASSUME Places, Proceeding
  PROVE  \E loop, next \in StartLoops :
           /\ EndOf(loop, next) /\ Rank(next) = Rank(loop) + 1
           /\ loop = "fd-servers" <=> ServersDone
           /\ loop = "feps" <=> FepsDone
<1> DEFINE Ends == {<<"providers", "fd-servers">>, <<"fd-servers", "federates">>, <<"federates", "clients">>,
                    <<"clients", "feps">>, <<"feps", "opcs">>, <<"opcs", "scadas">>, <<"scadas", "hmis">>,
                    <<"hmis", "engineers">>, <<"engineers", "historians">>}
<1>1. \A e \in Ends : e[1] \in StartLoops /\ e[2] \in StartLoops /\ Rank(e[2]) = Rank(e[1]) + 1
  BY DEF StartLoops, Rank
<1>2. \E e \in Ends : EndOf(e[1], e[2])
  BY EndsAre DEF Proceeding
<1> HIDE DEF Ends
<1>3. PICK e \in Ends : EndOf(e[1], e[2])
  BY <1>2
<1>4. /\ step.loop = e[1]
      /\ ServersDone => step.loop = "fd-servers"
      /\ FepsDone => step.loop = "feps"
  BY <1>3 DEF EndOf, ServersDone, FepsDone, After, At
<1>5. /\ step.loop = "fd-servers" => ServersDone
      /\ step.loop = "feps" => FepsDone
  BY DEF Proceeding, ProvidersDone, FederatesDone, ClientsDone, OpcsDone, ScadasDone, HmisDone, EngineersDone,
         ServersDone, FepsDone, After, At
<1> QED
  BY <1>1, <1>3, <1>4, <1>5

(* What a loop writes for a host depends on nothing that changes.          *)
LEMMA OutputsStay ==
  ASSUME scenario' = scenario
  PROVE  \A loop, h : Output(loop, h)' = Output(loop, h)
<1>1. \A h : Extension(h)' = Extension(h)
  BY DEF Extension
<1> QED
  BY <1>1 DEF Output

OutputsOf(loop, h) == Handled(loop, h) => loop # "feps" /\ Output(loop, h) \subseteq DOMAIN files

(* Every step keeps the output of the hosts handled.                       *)
LEMMA OutputsInvNext ==
  ASSUME Places, TopologyInv, LocalInv, OutputsInv, [Next]_vars
  PROVE  OutputsInv'
<1> SUFFICES ASSUME InStart'
             PROVE  /\ SharedPaths \subseteq DOMAIN files'
                    /\ \A loop \in StartLoops : \A h \in ToSet(LoopHosts(loop)) : OutputsOf(loop, h)'
                    /\ Rank(step'.loop) > 2 /\ local'.objectsAt # None => local'.objectsAt \in DOMAIN files'
                    /\ Rank(step'.loop) > 5 => ElkPaths \subseteq DOMAIN files'
  <2>1. scenario' = scenario
    BY ScenarioIsKept
  <2>2. \A loop : LoopHosts(loop)' = LoopHosts(loop)
    BY <2>1, ScenarioStays
  <2> QED
    BY <2>2 DEF OutputsInv, OutputsOf, SharedPaths, ElkPaths
<1>1. scenario \in Scenarios /\ scenario' = scenario
  BY ScenarioIsKept DEF Places
<1>2. /\ \A loop : LoopHosts(loop)' = LoopHosts(loop)
      /\ \A loop, h : Output(loop, h)' = Output(loop, h)
      /\ DOMAIN files \subseteq DOMAIN files'
  BY <1>1, ScenarioStays, OutputsStay, FilesStay
<1>3. ASSUME InStart, NEW l \in StartLoops, NEW h \in ToSet(LoopHosts(l)), Handled(l, h)' => Handled(l, h)
      PROVE  OutputsOf(l, h)'
  BY <1>2, <1>3 DEF OutputsInv, OutputsOf
<1>4. ASSUME InStart
      PROVE  /\ SharedPaths \subseteq DOMAIN files
             /\ Rank(step.loop) > 2 /\ local.objectsAt # None => local.objectsAt \in DOMAIN files
             /\ Rank(step.loop) > 5 => ElkPaths \subseteq DOMAIN files
             /\ step.loop \in StartLoops
  BY <1>4 DEF OutputsInv, ElkPaths, InStart, Places
<1>5. CASE StartExperiment
  <2>1. \A l \in StartLoops : \A h : ~Handled(l, h)'
    BY <1>1, <1>5, NoneHandledAtFirst DEF StartExperiment, Launch, GoTo
  <2>2. step'.loop = "providers"
    BY <1>5 DEF StartExperiment, Launch, GoTo
  <2>3. SharedPaths \subseteq DOMAIN files'
    <3> DEFINE new == Overlay(File(<<"startup", "scheduler">>, "cmd"), File(<<"startup", "sceptre-startup">>, "ps1"))
    <3>1. WriteAll(new)
      BY <1>5 DEF StartExperiment
    <3>2. DOMAIN new = SharedPaths
      BY DEF Overlay, File, SharedPaths
    <3> HIDE DEF new
    <3> QED
      BY <3>1, <3>2, WriteAllIs
  <2> QED
    BY <2>1, <2>2, <2>3, RankIs DEF OutputsOf
<1>6. CASE Turning
  <2>1. PICK loop \in StartLoops \ {"feps"} : \E h \in ToSet(LoopHosts(loop)) : TurnAt(loop, h) /\ Wrote(loop, h)
    BY <1>6, TurnIs
  <2>2. PICK h \in ToSet(LoopHosts(loop)) : TurnAt(loop, h) /\ Wrote(loop, h)
    BY <2>1
  <2>3. InStart /\ step.loop = loop /\ step'.loop = loop
    BY <2>2 DEF TurnAt, Places
  <2>4. \A l \in StartLoops : \A g \in ToSet(LoopHosts(l)) : OutputsOf(l, g)'
    <3> SUFFICES ASSUME NEW l \in StartLoops, NEW g \in ToSet(LoopHosts(l)), ~(Handled(l, g)' => Handled(l, g))
                 PROVE  OutputsOf(l, g)'
      BY <1>3, <2>3
    <3>1. l = loop /\ g = h
      BY <2>2, HandledAfterTurn
    <3>2. Output(l, g)' \subseteq DOMAIN files'
      BY <1>2, <2>2, <3>1 DEF Wrote
    <3> QED
      BY <3>1, <3>2 DEF OutputsOf
  <2>5. Rank(loop) > 2 => local'.objectsAt = local.objectsAt
    <3>1. Provider => ~(Rank(loop) > 2)
      BY <2>3, TurnsAre, RankIs DEF TurnAt
    <3>2. Turning /\ ~Provider => local'.objectsAt = local.objectsAt
      BY LocalTurns DEF Turning
    <3> QED
      BY <1>6, <3>1, <3>2
  <2> QED
    BY <1>2, <1>4, <2>3, <2>4, <2>5
<1>7. CASE Proceeding
  <2>1. PICK loop, next \in StartLoops :
           /\ EndOf(loop, next) /\ Rank(next) = Rank(loop) + 1
           /\ loop = "fd-servers" <=> ServersDone
           /\ loop = "feps" <=> FepsDone
    BY <1>7, EndIs
  <2>2. InStart /\ step.loop = loop /\ step'.loop = next
    BY <2>1 DEF EndOf
  <2>3. \A l \in StartLoops : \A g \in ToSet(LoopHosts(l)) : OutputsOf(l, g)'
    BY <1>3, <2>1, <2>2, HandledAfterEnd
  <2>4. local' = local
    BY <1>7, LocalEnds
  <2>5. Rank(next) > 2 /\ local.objectsAt # None => local.objectsAt \in DOMAIN files'
    <3>1. CASE Rank(loop) > 2
      BY <1>2, <1>4, <2>2, <3>1
    <3>2. CASE Rank(loop) = 2
      <4>1. ServersDone
        BY <2>1, <3>2, RankIs
      <4>2. WriteAll(IF local.objectsAt = None THEN NoFiles ELSE File(local.objectsAt, Objects(local.objects, local.hil)))
        BY <4>1 DEF ServersDone
      <4>3. local.objectsAt # None => WriteAll(File(local.objectsAt, Objects(local.objects, local.hil)))
        BY <4>2
      <4>4. DOMAIN File(local.objectsAt, Objects(local.objects, local.hil)) = {local.objectsAt}
        BY DEF File
      <4> QED
        BY <4>3, <4>4, WriteAllIs
    <3> QED
      BY <2>1, <3>1, <3>2, RankIs
  <2>6. Rank(next) > 5 => ElkPaths \subseteq DOMAIN files'
    <3>1. CASE Rank(loop) > 5
      BY <1>2, <1>4, <2>2, <3>1
    <3>2. CASE Rank(loop) = 5
      <4>1. FepsDone
        BY <2>1, <3>2, RankIs
      <4> QED
        BY <1>7, <4>1, EndsWrite
    <3> QED
      BY <2>1, <3>1, <3>2, RankIs
  <2> QED
    BY <1>2, <1>4, <2>2, <2>3, <2>4, <2>5, <2>6
<1>8. CASE InStart /\ UNCHANGED vars
  <2>1. step' = step /\ local' = local
    BY <1>8 DEF vars, processVars, sceptreVars
  <2>2. \A l \in StartLoops : \A g : Handled(l, g)' => Handled(l, g)
    BY <1>2, <2>1 DEF Handled
  <2> QED
    BY <1>2, <1>3, <1>4, <1>8, <2>1, <2>2
<1> QED
  BY <1>5, <1>6, <1>7, <1>8, StepsOfStart

-----------------------------------------------------------------------------
(* When a start is done, every path the topology may name is a file or is  *)
(* forgotten.                                                              *)
LEMMA MentionedAreWritten ==
  ASSUME Places, TopologyInv, OutputsInv, Done, NEW path, Mentioned(path)
  PROVE  path \in DOMAIN files \/ Forgotten(path)
<1>1. scenario \in Scenarios /\ NodesAre(nodes)
  BY DoneIsEnd DEF Places, TopologyInv, InStart
<1>2. /\ \A loop \in StartLoops : \A h \in ToSet(LoopHosts(loop)) : loop # "feps" /\ Output(loop, h) \subseteq DOMAIN files
      /\ SharedPaths \subseteq DOMAIN files
      /\ local.objectsAt # None => local.objectsAt \in DOMAIN files
      /\ ElkPaths \subseteq DOMAIN files
  <2>1. InStart /\ step.loop = "historians"
    BY DoneIsEnd
  <2>2. \A loop \in StartLoops : \A h \in ToSet(LoopHosts(loop)) : Handled(loop, h)
    BY AllHandledAtLast
  <2>3. Rank(step.loop) = 10
    BY <2>1, RankIs
  <2> QED
    BY <2>1, <2>2, <2>3 DEF OutputsInv, ElkPaths
<1>3. \A h \in Hosts :
        /\ h.type = "provider" => Output("providers", h) \subseteq DOMAIN files
        /\ h.type = "fd-server" => Output("fd-servers", h) \subseteq DOMAIN files
        /\ "helics-federate" \in h.labels => Output("federates", h) \subseteq DOMAIN files
        /\ h.type = "fd-client" => Output("clients", h) \subseteq DOMAIN files
        /\ h.type # "fep"
        /\ h.type = "opc" => Output("opcs", h) \subseteq DOMAIN files
        /\ h.type = "scada-server" => Output("scadas", h) \subseteq DOMAIN files
        /\ h.type = "hmi" => Output("hmis", h) \subseteq DOMAIN files
        /\ h.type = "engineer-workstation" => Output("engineers", h) \subseteq DOMAIN files
        /\ h.type = "historian" => Output("historians", h) \subseteq DOMAIN files
  <2>1. /\ \A type : ToSet(OfType(type)) = {h \in Hosts : h.type = type}
        /\ \A label : ToSet(WithLabel(label)) = {h \in Hosts : label \in h.labels}
    BY <1>1, HostsAreListed
  <2>2. /\ LoopHosts("providers") = OfType("provider") /\ LoopHosts("fd-servers") = OfType("fd-server")
        /\ LoopHosts("federates") = WithLabel("helics-federate") /\ LoopHosts("clients") = OfType("fd-client")
        /\ LoopHosts("feps") = OfType("fep")
        /\ LoopHosts("opcs") = OfType("opc") /\ LoopHosts("scadas") = OfType("scada-server")
        /\ LoopHosts("hmis") = OfType("hmi") /\ LoopHosts("engineers") = OfType("engineer-workstation")
        /\ LoopHosts("historians") = OfType("historian")
    BY DEF LoopHosts
  <2>3. {"providers", "fd-servers", "federates", "clients", "feps", "opcs", "scadas", "hmis", "engineers", "historians"} \subseteq StartLoops
    BY DEF StartLoops
  <2> QED
    BY <1>2, <2>1, <2>2, <2>3
<1>4. PICK h \in Hosts :
        \/ \E loop \in LaterLoops : IsFor(loop, h) /\ path \in Promised(loop, h)
        \/ h.type = "provider" /\ HasYaml(h) /\ path = SceptrePath(h, "config.yaml")
  BY DEF Mentioned
<1>5. Extension(h) = IF IsWindows(h) THEN "start.ps1" ELSE "start.sh"
  BY <1>1, ExtensionIs DEF StartExtension
<1>6. CASE h.type = "provider" /\ HasYaml(h) /\ path = SceptrePath(h, "config.yaml")
  <2>1. path \in Output("providers", h)
    BY <1>6 DEF Output
  <2> QED
    BY <1>3, <1>6, <2>1
<1>7. ASSUME NEW loop \in LaterLoops, IsFor(loop, h), path \in Promised(loop, h)
      PROVE  path \in DOMAIN files \/ Forgotten(path)
  <2>1. CASE loop = "opc"
    <3>1. path \in Output("opcs", h) \cup SharedPaths /\ h.type = "opc"
      BY <1>7, <2>1 DEF IsFor, Promised, Output
    <3> QED
      BY <1>2, <1>3, <3>1
  <2>2. CASE loop = "field-device"
    <3>1. h.type \in {"fd-server", "fd-client"} /\ path \in {StartupPath(h, "start.sh"), SceptrePath(h, "config.xml")}
      BY <1>3, <1>7, <2>2 DEF IsFor, Promised
    <3>2. {SceptrePath(h, "config.xml"), StartupPath(h, Extension(h))} \subseteq DOMAIN files
      <4>1. /\ Output("fd-servers", h) = {SceptrePath(h, "config.xml"), StartupPath(h, Extension(h))}
            /\ Output("clients", h) = {SceptrePath(h, "config.xml"), StartupPath(h, Extension(h))}
        BY DEF Output
      <4> QED
        BY <1>3, <3>1, <4>1
    <3>3. CASE path = StartupPath(h, "start.sh") /\ IsWindows(h)
      <4>1. h \in ToSet(scenario.hosts)
        BY DEF Hosts
      <4> QED
        BY <3>1, <3>3, <4>1 DEF Forgotten
    <3> QED
      BY <1>5, <3>1, <3>2, <3>3
  <2>3. CASE loop = "hmi"
    <3>1. path \in Output("hmis", h) \cup SharedPaths /\ h.type = "hmi"
      BY <1>7, <2>3 DEF IsFor, Promised, Output
    <3> QED
      BY <1>2, <1>3, <3>1
  <2>4. CASE loop = "scada-server"
    <3>1. path \in Output("scadas", h) \cup SharedPaths /\ h.type = "scada-server"
      BY <1>7, <2>4 DEF IsFor, Promised, Output
    <3> QED
      BY <1>2, <1>3, <3>1
  <2>5. CASE loop = "engineer-workstation"
    <3>1. path \in Output("engineers", h) \cup SharedPaths /\ h.type = "engineer-workstation"
      BY <1>7, <2>5 DEF IsFor, Promised, Output
    <3> QED
      BY <1>2, <1>3, <3>1
  <2>6. CASE loop = "historian"
    <3>1. path \in Output("historians", h) \cup SharedPaths /\ h.type = "historian"
      BY <1>7, <2>6 DEF IsFor, Promised, Output
    <3> QED
      BY <1>2, <1>3, <3>1
  <2>7. CASE loop = "provider"
    <3>1. h.type = "provider"
      BY <1>7, <2>7 DEF IsFor
    <3>2. path \in Output("providers", h) \/ (IsPowerWorld(h) /\ path = SceptrePath(h, "objects.txt"))
      BY <1>7, <2>7 DEF Promised, Output
    <3>3. CASE IsPowerWorld(h) /\ path = SceptrePath(h, "objects.txt")
      <4>1. CASE path = local.objectsAt
        <5>1. CASE local.objectsAt # None
          BY <1>2, <4>1, <5>1
        <5>2. CASE local.objectsAt = None
          <6>1. <<"sceptre", h.hostname, "objects.txt">> # None
            BY <1>1, ScenariosAssumption DEF IsScenario, Hosts
          <6> QED
            BY <3>3, <4>1, <5>2, <6>1 DEF SceptrePath
        <5> QED
          BY <5>1, <5>2
      <4>2. CASE path # local.objectsAt
        BY <3>3, <4>2 DEF Forgotten, Hosts
      <4> QED
        BY <4>1, <4>2
    <3> QED
      BY <1>3, <3>1, <3>2, <3>3
  <2>8. CASE loop = "helics-federate"
    <3>1. path \in Output("federates", h) /\ "helics-federate" \in h.labels
      BY <1>7, <2>8 DEF IsFor, Promised, Output
    <3> QED
      BY <1>3, <3>1
  <2>9. CASE loop = "elk"
    <3>1. path \in ElkPaths
      BY <1>7, <2>9 DEF Promised, ElkPaths
    <3> QED
      BY <1>2, <3>1
  <2> QED
    BY <1>7, <2>1, <2>2, <2>3, <2>4, <2>5, <2>6, <2>7, <2>8, <2>9 DEF LaterLoops
<1> QED
  BY <1>4, <1>6, <1>7

(* With the output of all loops there, no promised file is missing but     *)
(* those forgotten.                                                        *)
LEMMA InjectsAtTheEnd ==
  ASSUME Places, TopologyInv, OutputsInv
  PROVE  InjectsAreWritten
<1> SUFFICES ASSUME Done, NEW k \in DOMAIN nodes, NEW inject \in ToSet(nodes[k].injects), inject.src[1] \in OwnFiles
             PROVE  inject.src \in DOMAIN files \/ Forgotten(inject.src)
  BY DEF InjectsAreWritten
<1>1. Given(nodes)
  BY DoneIsEnd DEF TopologyInv, InStart
<1>2. Mentioned(inject.src) \/ inject.src \in DOMAIN files
  BY <1>1 DEF Given
<1> QED
  BY <1>2, MentionedAreWritten

-----------------------------------------------------------------------------
(* A start that succeeds leaves a topology to which the next adds nothing. *)
LEMMA KeepsYaml ==
  ASSUME scenario \in Scenarios, NEW ns, NodesAre(ns), NEW ms, NEW k, NEW S, Adds(ns, ms, k, S), NodesAre(ms),
         NEW g \in Hosts, HasItsYaml(ns, g)
  PROVE  HasItsYaml(ms, g)
<1>1. NodeIndex(ms, g.hostname) = NodeIndex(ns, g.hostname) /\ NodeIndex(ns, g.hostname) \in DOMAIN ns
  BY HostsHaveNodes
<1> QED
  BY <1>1 DEF HasItsYaml, Adds, ExtractNode

(* A provider that was given its configuration before is given nothing     *)
(* new.                                                                    *)
LEMMA ProviderRepeats ==
  ASSUME Places, TopologyInv, RepeatInv, Provider
  PROVE  /\ clean => nodes' = nodes
         /\ \A g \in ToSet(OfType("provider")) : Handled("providers", g)' => HasItsYaml(nodes', g)
<1> DEFINE h == OfType("provider")[step.i]
<1>1. /\ scenario \in Scenarios /\ TurnAt("providers", h) /\ InStart /\ NodesAre(nodes)
      /\ h \in Hosts /\ h.type = "provider"
      /\ NodesAre(nodes)' /\ scenario' = scenario
      /\ nodes' = IF HasYaml(h) THEN AddInject(nodes, h.hostname, YamlInject(h)) ELSE nodes
  BY TurnsAre, ProviderGives DEF Places, TurnAt, InStart, TopologyInv
<1>2. NodesAre(nodes')
  BY <1>1 DEF NodesAre
<1>3. ToSet(OfType("provider")) = {g \in Hosts : g.type = "provider"}
  BY <1>1, HostsAreListed
<1>4. \A g \in ToSet(OfType("provider")) : Handled("providers", g)' => Handled("providers", g) \/ g = h
  BY <1>1, HandledAfterTurn DEF StartLoops
<1>5. /\ InStart /\ clean => nodes = doc
      /\ clean => \A g \in ToSet(OfType("provider")) : HasItsYaml(doc, g)
      /\ \A g \in ToSet(OfType("provider")) : Handled("providers", g) => HasItsYaml(nodes, g)
  BY <1>1 DEF RepeatInv
<1> HIDE DEF h
<1>6. CASE ~HasYaml(h)
  <2>1. nodes' = nodes
    BY <1>1, <1>6
  <2>2. HasItsYaml(nodes, h)
    BY <1>6 DEF HasItsYaml
  <2> QED
    BY <1>4, <1>5, <2>1, <2>2
<1>7. CASE HasYaml(h)
  <2>1. /\ Adds(nodes, nodes', NodeIndex(nodes, h.hostname), {YamlInject(h)})
        /\ YamlInject(h) \in ToSet(ExtractNode(nodes, h.hostname).injects) => nodes' = nodes
    BY <1>1, <1>7, OneMore
  <2>2. clean => nodes' = nodes
    BY <1>1, <1>3, <1>5, <1>7, <2>1 DEF HasItsYaml
  <2>3. HasItsYaml(nodes', h)
    <3>1. NodeIndex(nodes', h.hostname) = NodeIndex(nodes, h.hostname) /\ NodeIndex(nodes, h.hostname) \in DOMAIN nodes
      BY <1>1, <1>2, HostsHaveNodes
    <3> QED
      BY <2>1, <3>1 DEF HasItsYaml, Adds, ExtractNode
  <2>4. \A g \in ToSet(OfType("provider")) : HasItsYaml(nodes, g) => HasItsYaml(nodes', g)
    BY <1>1, <1>2, <1>3, <2>1, KeepsYaml
  <2> QED
    BY <1>4, <1>5, <2>2, <2>3, <2>4
<1> QED
  BY <1>6, <1>7

(* Initially no start has ended.                                           *)
LEMMA RepeatInvInit ==
  ASSUME Init
  PROVE  RepeatInv
<1>1. ~clean
  BY Zenon DEF Init
<1>2. ~InStart
  BY DEF Init, ProcessInit, InStart
<1> QED
  BY <1>1, <1>2 DEF RepeatInv

(* What no step changes once the experiment was started.                   *)
LEMMA CleanSteps ==
  ASSUME Places, TopologyInv, RepeatInv, [Next]_vars
  PROVE  clean => doc' = doc
<1>1. clean => configured
  BY DEF Places
<1>2. CASE BeginConfigure \/ ConfigureHost \/ ConfigureNext \/ ConfigureFails
  BY <1>2 DEF BeginConfigure, ConfigureHost, ConfigureNext, ConfigureFails, Raise
<1>3. CASE Configured
  <2>1. app = "sceptre" /\ ~InStart
    BY <1>3, NotWhileConfiguring DEF Configured, Configuring
  <2> QED
    BY <1>1, <2>1 DEF InStart
<1>4. CASE StartExperiment \/ UNCHANGED vars
  BY <1>4 DEF StartExperiment, vars, processVars
<1>5. CASE Turning
  BY <1>5, TurnsAre DEF Turning, TurnAt
<1>6. CASE Proceeding
  BY <1>6, EndsAre DEF Proceeding, EndOf
<1>7. CASE Failing
  BY <1>7, FailsAre DEF Failed
<1>8. CASE Started
  <2>1. doc' = nodes /\ InStart
    BY <1>8, DoneIsEnd DEF Started, Finish
  <2> QED
    BY <2>1 DEF RepeatInv
<1> QED
  BY <1>2, <1>3, <1>4, <1>5, <1>6, <1>7, <1>8, StartingSteps DEF Next, Configuring

(* Every step keeps what a start before gave the providers.                *)
LEMMA RepeatInvNext ==
  ASSUME Places, TopologyInv, RepeatInv, [Next]_vars
  PROVE  RepeatInv'
<1>1. scenario' = scenario /\ scenario \in Scenarios /\ \A type : OfType(type)' = OfType(type)
  BY ScenarioIsKept, ScenarioStays DEF Places
<1>2. \A ns, g : HasItsYaml(ns, g)' <=> HasItsYaml(ns, g)
  BY DEF HasItsYaml, HasYaml, YamlInject, SceptrePath
<1>3. /\ clean => doc' = doc
      /\ clean => \A g \in ToSet(OfType("provider")) : HasItsYaml(doc, g)
      /\ InStart /\ clean => nodes = doc
      /\ InStart => \A g \in ToSet(OfType("provider")) : Handled("providers", g) => HasItsYaml(nodes, g)
  BY CleanSteps DEF RepeatInv
<1>4. clean' => \A g \in ToSet(OfType("provider")) : HasItsYaml(doc', g)
  <2>1. CASE Started
    <3>1. doc' = nodes /\ InStart
      BY <2>1, DoneIsEnd DEF Started, Finish
    <3>2. \A g \in ToSet(OfType("provider")) : Handled("providers", g)
      <4>1. LoopHosts("providers") = OfType("provider") /\ "providers" \in StartLoops
        BY DEF LoopHosts, StartLoops
      <4> QED
        BY <2>1, <4>1, AllHandledAtLast DEF Started
    <3> QED
      BY <1>3, <3>1, <3>2
  <2>2. CASE ~Started
    <3>1. UNCHANGED clean
      <4>1. CASE Configuring
        BY <4>1 DEF Configuring, BeginConfigure, ConfigureHost, ConfigureNext, ConfigureFails, Configured, sceptreVars
      <4>2. CASE StartExperiment \/ UNCHANGED vars
        BY <4>2 DEF StartExperiment, vars, sceptreVars
      <4>3. CASE Turning
        BY <4>3, TurnsAre DEF Turning, TurnAt
      <4>4. CASE Proceeding
        BY <4>4, EndsAre DEF Proceeding, EndOf
      <4>5. CASE Failing
        BY <4>5, FailsAre DEF Failed
      <4> QED
        BY <2>2, <4>1, <4>2, <4>3, <4>4, <4>5, StartingSteps DEF Next
    <3>2. clean' => clean
      BY <3>1, Zenon
    <3> QED
      BY <1>3, <3>2
  <2> QED
    BY <2>1, <2>2
<1>5. ASSUME InStart'
      PROVE  /\ clean' => nodes' = doc'
             /\ \A g \in ToSet(OfType("provider")) : Handled("providers", g)' => HasItsYaml(nodes', g)
  <2>1. CASE StartExperiment
    <3>1. nodes' = doc /\ doc' = doc
      BY <2>1 DEF StartExperiment
    <3>2. \A g : ~Handled("providers", g)'
      BY <1>1, <2>1, NoneHandledAtFirst DEF StartExperiment, Launch, GoTo, StartLoops
    <3> QED
      BY <3>1, <3>2
  <2>2. CASE InStart /\ Provider
    <3>1. UNCHANGED <<doc, clean>>
      BY <2>2, TurnsAre DEF TurnAt
    <3>2. clean' => clean
      BY <3>1, Zenon
    <3> QED
      BY <1>3, <2>2, <3>1, <3>2, ProviderRepeats
  <2>3. CASE InStart /\ ((Turning /\ ~Provider) \/ Proceeding \/ UNCHANGED vars)
    <3>1. UNCHANGED <<doc, clean, nodes>>
      <4>1. CASE Turning /\ ~Provider
        <5>1. UNCHANGED <<doc, clean>>
          BY <4>1, TurnsAre DEF Turning, TurnAt
        <5> QED
          BY <4>1, <5>1 DEF Turning, FieldDeviceServer, Federate, Client, Opc, Scada, Hmi, Engineer, Historian
      <4>2. CASE Proceeding
        BY <4>2, EndsAre DEF Proceeding, EndOf
      <4>3. CASE UNCHANGED vars
        BY <4>3 DEF vars, processVars, sceptreVars
      <4> QED
        BY <2>3, <4>1, <4>2, <4>3
    <3>2. clean' => clean
      BY <3>1, Zenon
    <3>3. \A g \in ToSet(OfType("provider")) : Handled("providers", g)' => Handled("providers", g)
      <4>0. LoopHosts("providers") = OfType("provider") /\ "providers" \in StartLoops
        BY DEF LoopHosts, StartLoops
      <4>1. CASE Turning /\ ~Provider
        <5>1. PICK loop \in StartLoops : loop # "providers" /\ \E h : TurnAt(loop, h)
          BY <4>1, TurnsAre DEF Turning, StartLoops
        <5> QED
          BY <4>0, <5>1, HandledAfterTurn
      <4>2. CASE Proceeding
        BY <4>0, <4>2, EndIs, HandledAfterEnd
      <4>3. CASE UNCHANGED vars
        <5>1. step' = step /\ \A loop : LoopHosts(loop)' = LoopHosts(loop)
          BY <1>1, <4>3, ScenarioStays DEF vars, processVars
        <5> QED
          BY <5>1 DEF Handled
      <4> QED
        BY <2>3, <4>1, <4>2, <4>3
    <3> QED
      BY <1>3, <2>3, <3>1, <3>2, <3>3
  <2> QED
    BY <1>5, <2>1, <2>2, <2>3, StepsOfStart
<1> QED
  BY <1>1, <1>2, <1>4, <1>5 DEF RepeatInv

-----------------------------------------------------------------------------
(* What was written for a host stays: no other turn writes a file of the   *)
(* name, or not for the host.                                              *)
OnlyAt(file, loop) ==
  \A l \in StartLoops : \A g, h : SceptrePath(g, file) \in Output(l, h) => l = loop /\ g.hostname = h.hostname

(* The files that other loops read are each written by one loop.           *)
LEMMA WhereWritten ==
  /\ OnlyAt("helics.json", "federates") /\ OnlyAt("opc.xml", "opcs") /\ OnlyAt("autoproject", "scadas")
  /\ OnlyAt("historian_config.txt", "historians") /\ OnlyAt("objects.txt", "none")
<1>1. ASSUME NEW l \in StartLoops, NEW h, NEW path \in Output(l, h)
      PROVE  \/ path[1] = "startup"
             \/ /\ path[2] = h.hostname
                /\ path[3] \in CASE l = "providers" -> {"config.ini", "config.yaml"}
                                 [] l \in {"fd-servers", "clients"} -> {"config.xml"}
                                 [] l = "federates" -> {"helics.json"}
                                 [] l = "opcs" -> {"opc.xml", "topserver.ps1"}
                                 [] l = "scadas" -> {"scada.ps1", "autoproject", "scada_autoproject.ps1"}
                                 [] l = "hmis" -> {"hmi.ps1"}
                                 [] l = "engineers" -> {"putty.ps1", "auto_winscp.ps1"}
                                 [] l = "historians" -> {"historian_config.txt", "historian.ps1"}
                                 [] OTHER -> {}
  <2>1. CASE l = "providers"
    BY <1>1, <2>1 DEF Output, SceptrePath, StartupPath
  <2>2. CASE l \in {"fd-servers", "clients"}
    BY <1>1, <2>2 DEF Output, SceptrePath, StartupPath
  <2>3. CASE l = "federates"
    BY <1>1, <2>3 DEF Output, SceptrePath
  <2>4. CASE l = "opcs"
    BY <1>1, <2>4 DEF Output, SceptrePath
  <2>5. CASE l = "scadas"
    BY <1>1, <2>5 DEF Output, SceptrePath
  <2>6. CASE l = "hmis"
    BY <1>1, <2>6 DEF Output, SceptrePath
  <2>7. CASE l = "engineers"
    BY <1>1, <2>7 DEF Output, SceptrePath
  <2>8. CASE l = "historians"
    BY <1>1, <2>8 DEF Output, SceptrePath
  <2>9. CASE l = "feps"
    BY <1>1, <2>9 DEF Output
  <2> QED
    BY <2>1, <2>2, <2>3, <2>4, <2>5, <2>6, <2>7, <2>8, <2>9 DEF StartLoops
<1>2. \A g, file : /\ SceptrePath(g, file)[1] # "startup" /\ SceptrePath(g, file)[2] = g.hostname
                   /\ SceptrePath(g, file)[3] = file
  BY DEF SceptrePath
<1>3. ASSUME NEW l \in StartLoops, NEW g, NEW h, NEW file, SceptrePath(g, file) \in Output(l, h)
      PROVE  /\ g.hostname = h.hostname
             /\ file # "objects.txt"
             /\ file = "helics.json" => l = "federates"
             /\ file = "opc.xml" => l = "opcs"
             /\ file = "autoproject" => l = "scadas"
             /\ file = "historian_config.txt" => l = "historians"
  BY <1>1, <1>2, <1>3 DEF StartLoops
<1> QED
  BY <1>3 DEF OnlyAt

(* The turns after those of the field device servers.                      *)
LEMMA LateTurns ==
  ASSUME Places, LocalInv, Turning, NEW loop \in StartLoops, NEW h, TurnAt(loop, h), Rank(loop) >= 3
  PROVE  /\ nodes' = nodes /\ local'.configs = local.configs /\ local'.objects = local.objects
         /\ local'.objectsAt = local.objectsAt /\ local'.hil = local.hil
         /\ loop # "opcs" => local'.opcs = local.opcs /\ local'.backups = local.backups
<1>1. step.loop = loop
  BY DEF TurnAt
<1>2. ~Provider /\ ~FieldDeviceServer
  BY <1>1, TurnsAre, RankIs DEF TurnAt
<1>3. loop # "opcs" => ~Opc
  BY <1>1, TurnsAre DEF TurnAt
<1>4. nodes' = nodes
  BY <1>2 DEF Turning, Federate, Client, Opc, Scada, Hmi, Engineer, Historian
<1> QED
  BY <1>2, <1>3, <1>4, LocalTurns DEF Turning

(* What a host's turn was made from, when its loop is a later one.         *)
Lasts(loop) ==
  /\ scenario' = scenario /\ nodes' = nodes /\ local'.configs = local.configs
  /\ Rank(loop) > 6 => local'.opcs = local.opcs /\ local'.backups = local.backups

(* A host that is handled after a step was handled by it, or before and    *)
(* its files are still the same.                                           *)
LEMMA HandledStays ==
  ASSUME Places, TopologyInv, LocalInv, [Next]_vars, InStart', NEW loop \in StartLoops, Rank(loop) >= 3,
         NEW g \in ToSet(LoopHosts(loop)), Handled(loop, g)', NEW file, OnlyAt(file, loop)
  PROVE  \/ Turning /\ TurnAt(loop, g)
         \/ InStart /\ Handled(loop, g) /\ Kept(SceptrePath(g, file)) /\ Lasts(loop)
<1>1. scenario \in Scenarios /\ scenario' = scenario /\ \A l : LoopHosts(l)' = LoopHosts(l)
  BY ScenarioIsKept, ScenarioStays DEF Places
<1>2. ASSUME InStart, Handled(loop, g)
      PROVE  /\ step.loop \in StartLoops /\ Rank(step.loop) >= Rank(loop) /\ Rank(loop) \in Nat /\ Rank(step.loop) \in Nat
             /\ Rank(step.loop) = Rank(loop) => step.loop = loop
  <2>1. step.loop \in StartLoops
    BY <1>2 DEF Places, InStart
  <2>2. Rank(loop) \in Nat /\ Rank(step.loop) \in Nat
    BY <2>1, RankIs
  <2> QED
    BY <1>2, <2>1, <2>2, RankIs DEF Handled
<1>3. SceptrePath(g, file) \notin ElkPaths
  <2>1. SceptrePath(g, file)[1] = "sceptre"
    BY DEF SceptrePath
  <2>2. \A path \in ElkPaths : path[1] = "elk"
    BY DEF ElkPaths
  <2> QED
    BY <2>1, <2>2
<1>4. CASE StartExperiment
  <2>1. ~Handled(loop, g)'
    BY <1>1, <1>4, NoneHandledAtFirst DEF StartExperiment, Launch, GoTo
  <2> QED
    BY <2>1
<1>5. CASE InStart /\ Turning
  <2>1. PICK l \in StartLoops \ {"feps"} : \E h \in ToSet(LoopHosts(l)) : TurnAt(l, h) /\ Wrote(l, h)
    BY <1>5, TurnIs
  <2>2. PICK h \in ToSet(LoopHosts(l)) : TurnAt(l, h) /\ Wrote(l, h)
    BY <2>1
  <2>3. CASE l = loop /\ g = h
    BY <1>5, <2>2, <2>3
  <2>4. CASE ~(l = loop /\ g = h)
    <3>1. Handled(loop, g)
      BY <2>2, <2>4, HandledAfterTurn
    <3>2. step.loop = l /\ Rank(l) >= 3 /\ (Rank(loop) > 6 => l # "opcs")
      BY <1>2, <1>5, <2>2, <3>1, RankIs DEF TurnAt
    <3>3. Lasts(loop)
      BY <1>1, <1>5, <2>2, <3>2, LateTurns DEF Lasts
    <3>4. SceptrePath(g, file) \notin Output(l, h)
      <4>1. l = loop /\ g.hostname = h.hostname => g = h
        <5>1. l = loop => g \in Hosts /\ h \in Hosts
          <6>1. LoopHosts(loop) \in Seq(Hosts)
            BY <1>1, LoopsAreListed
          <6>2. ToSet(LoopHosts(loop)) \subseteq Hosts
            BY <6>1 DEF ToSet
          <6> QED
            BY <6>2
        <5> QED
          BY <1>1, <5>1, ScenariosAssumption DEF IsScenario, Hosts
      <4> QED
        BY <2>4, <4>1 DEF OnlyAt
    <3>5. Kept(SceptrePath(g, file))
      BY <2>2, <3>4 DEF Wrote
    <3> QED
      BY <1>5, <3>1, <3>3, <3>5
  <2> QED
    BY <2>3, <2>4
<1>6. CASE InStart /\ Proceeding
  <2>1. PICK l, next \in StartLoops :
           /\ EndOf(l, next) /\ Rank(next) = Rank(l) + 1
           /\ l = "fd-servers" <=> ServersDone
           /\ l = "feps" <=> FepsDone
    BY <1>6, EndIs
  <2>2. Handled(loop, g) /\ step.loop = l /\ nodes' = nodes
    BY <2>1, HandledAfterEnd DEF EndOf
  <2>3. local' = local
    BY <1>6, LocalEnds
  <2>4. ~ServersDone
    BY <1>2, <1>6, <2>1, <2>2, RankIs
  <2>5. Kept(SceptrePath(g, file))
    BY <1>3, <1>6, <2>4, EndsWrite
  <2> QED
    BY <1>1, <1>6, <2>2, <2>3, <2>5 DEF Lasts
<1>7. CASE InStart /\ UNCHANGED vars
  <2>1. step' = step /\ nodes' = nodes /\ files' = files /\ local' = local
    BY <1>7 DEF vars, processVars, sceptreVars
  <2>2. Handled(loop, g)
    BY <1>1, <2>1 DEF Handled
  <2> QED
    BY <1>1, <1>7, <2>1, <2>2 DEF Lasts, Kept
<1> QED
  BY <1>4, <1>5, <1>6, <1>7, StepsOfStart

-----------------------------------------------------------------------------
(* The files of the federates are what their registers make them.          *)
LEMMA FederateConfigLasts ==
  ASSUME Lasts("federates")
  PROVE  \A h : FederateConfig(h)' = FederateConfig(h)
<1>1. scenario' = scenario /\ nodes' = nodes /\ local'.configs = local.configs
  BY DEF Lasts
<1>2. \A n : ExtractNode(nodes, n)' = ExtractNode(nodes, n)
  BY <1>1
<1>3. DeviceRegs' = DeviceRegs
  BY <1>1 DEF DeviceRegs, RegsIn
<1>4. \A p : RegsOf(p)' = RegsOf(p)
  BY <1>3 DEF RegsOf
<1>5. Inputs' = Inputs
  BY <1>3 DEF Inputs
<1>6. \A h : Published(h)' = Published(h)
  BY <1>4 DEF Published, FederateName, Publication
<1> TAKE h
<1>7. BrokerHost(h)' = BrokerHost(h) /\ FederateName(h)' = FederateName(h)
  BY DEF BrokerHost, FederateName
<1>8. ExtractNode(nodes', BrokerHost(h)) = ExtractNode(nodes, BrokerHost(h))
  BY <1>1
<1>9. /\ {Subscription(x.device, x.reg) : x \in Inputs'} = {Subscription(x.device, x.reg) : x \in Inputs}
      /\ {<<Tag(x.reg), x.device.provider>> : x \in DeviceRegs'} = {<<Tag(x.reg), x.device.provider>> : x \in DeviceRegs}
      /\ {<<Tag(r), None>> : r \in RegsOf(FederateName(h))'} = {<<Tag(r), None>> : r \in RegsOf(FederateName(h))}
  BY <1>3, <1>4, <1>5
<1> QED
  BY <1>6, <1>7, <1>8, <1>9 DEF FederateConfig

(* Every step keeps the files of the federates.                            *)
LEMMA FederatesInvNext ==
  ASSUME Places, TopologyInv, LocalInv, FederatesInv, [Next]_vars
  PROVE  FederatesInv'
<1> SUFFICES ASSUME InStart', NEW h \in ToSet(LoopHosts("federates")), Handled("federates", h)'
             PROVE  SceptrePath(h, "helics.json") \in DOMAIN files' /\ files'[SceptrePath(h, "helics.json")] = FederateConfig(h)'
  <2>1. LoopHosts("federates")' = LoopHosts("federates")
    BY ScenarioIsKept, ScenarioStays
  <2> QED
    BY <2>1 DEF FederatesInv, FederateFile, SceptrePath
<1>1. \/ Turning /\ TurnAt("federates", h)
      \/ InStart /\ Handled("federates", h) /\ Kept(SceptrePath(h, "helics.json")) /\ Lasts("federates")
  <2>1. "federates" \in StartLoops
    BY DEF StartLoops
  <2> QED
    BY <2>1, HandledStays, WhereWritten, RankIs
<1>2. CASE Turning /\ TurnAt("federates", h)
  <2>1. Federate /\ h = WithLabel("helics-federate")[step.i]
    <3>1. LoopHosts("federates") = WithLabel("helics-federate")
      BY DEF LoopHosts
    <3> QED
      BY <1>2, <3>1, TurnsAre DEF Turning, TurnAt
  <2>2. Write(SceptrePath(h, "helics.json"), FederateConfig(h))
    BY <2>1 DEF Federate
  <2>3. files' = Overlay(File(SceptrePath(h, "helics.json"), FederateConfig(h)), files)
    BY <2>2 DEF Write
  <2>4. SceptrePath(h, "helics.json") \in DOMAIN files' /\ files'[SceptrePath(h, "helics.json")] = FederateConfig(h)
    BY <2>3 DEF Overlay, File
  <2>5. Lasts("federates")
    BY <2>1, RankIs DEF Federate, Turn, Lasts
  <2> QED
    BY <2>4, <2>5, FederateConfigLasts
<1>3. CASE InStart /\ Handled("federates", h) /\ Kept(SceptrePath(h, "helics.json")) /\ Lasts("federates")
  BY <1>3, FederateConfigLasts DEF FederatesInv, FederateFile, Kept
<1> QED
  BY <1>1, <1>2, <1>3

(* With the files of all federates there, readers meet publishers.         *)
LEMMA ReadersAtTheEnd ==
  ASSUME Places, FederatesInv
  PROVE  ReadersMeetPublishers
<1> SUFFICES ASSUME Done, NEW h \in Readers, NEW g \in Publishers
             PROVE  /\ \A s \in FederateFile(h).subs \ h.helics.subscriptions :
                         s.provider = g.hostname => [tag |-> s.tag, bool |-> s.bool] \in FederateFile(g).pubs
                    /\ \A e \in FederateFile(h).ends :
                         e[2] = g.hostname => <<e[1], None>> \in FederateFile(g).ends
  BY DEF ReadersMeetPublishers
<1>1. FederateFile(h) = FederateConfig(h) /\ FederateFile(g) = FederateConfig(g)
  <2>1. LoopHosts("federates") = WithLabel("helics-federate") /\ "federates" \in StartLoops
    BY DEF LoopHosts, StartLoops
  <2>2. InStart
    BY DoneIsEnd
  <2>3. {h, g} \subseteq ToSet(LoopHosts("federates"))
    BY <2>1 DEF Readers, Publishers
  <2>4. Handled("federates", h) /\ Handled("federates", g)
    BY <2>1, <2>3, AllHandledAtLast
  <2> QED
    BY <2>2, <2>3, <2>4 DEF FederatesInv
<1>2. FederateName(g) = g.hostname /\ h.simulator = "Helics" /\ g.simulator # "Helics"
  BY DEF Publishers, Readers, FederateName
<1>3. \A x \in DeviceRegs : x.device.provider = g.hostname => x.reg \in RegsOf(FederateName(g))
  BY <1>2 DEF RegsOf
<1>4. ASSUME NEW s \in FederateFile(h).subs \ h.helics.subscriptions, s.provider = g.hostname
      PROVE  [tag |-> s.tag, bool |-> s.bool] \in FederateFile(g).pubs
  <2>1. PICK x \in Inputs : s = Subscription(x.device, x.reg)
    BY <1>1, <1>2, <1>4 DEF FederateConfig
  <2>2. x \in DeviceRegs /\ s.provider = x.device.provider /\ [tag |-> s.tag, bool |-> s.bool] = Publication(x.reg)
    BY <2>1 DEF Inputs, Subscription, Publication
  <2>3. Publication(x.reg) \in Published(g)
    BY <1>3, <1>4, <2>2 DEF Published
  <2>4. Published(g) \subseteq FederateFile(g).pubs
    BY <1>1, <1>2 DEF FederateConfig
  <2> QED
    BY <2>2, <2>3, <2>4
<1>5. ASSUME NEW e \in FederateFile(h).ends, e[2] = g.hostname
      PROVE  <<e[1], None>> \in FederateFile(g).ends
  <2>1. PICK x \in DeviceRegs : e = <<Tag(x.reg), x.device.provider>>
    BY <1>1, <1>2 DEF FederateConfig
  <2>2. x.reg \in RegsOf(FederateName(g)) /\ e[1] = Tag(x.reg)
    BY <1>3, <1>5, <2>1
  <2>3. FederateFile(g).ends = {<<Tag(r), None>> : r \in RegsOf(FederateName(g))}
    BY <1>1, <1>2 DEF FederateConfig
  <2> QED
    BY <2>2, <2>3
<1> QED
  BY <1>4, <1>5

-----------------------------------------------------------------------------
(* The names of a field device's devices.                                  *)
LEMMA DeviceNamesAre ==
  ASSUME scenario \in Scenarios, NEW h \in Hosts
  PROVE  /\ Parsed(h) \in Seq(ToSet(ParserProtocols)) /\ ToSet(Parsed(h)) \subseteq DOMAIN h.devices
         /\ IsList(DevicesOf(h))
         /\ IsList(DeviceNames(h)) /\ ToSet(DeviceNames(h)) = {d.name : d \in ToSet(DevicesOf(h))}
<1> DEFINE T == UNION {ToSet(h.devices[p]) : p \in DOMAIN h.devices}
           P == Parsed(h)
           seqs == [k \in DOMAIN P |-> h.devices[P[k]]]
           D == DevicesOf(h)
           N == DeviceNames(h)
<1>1. P \in Seq(ToSet(ParserProtocols)) /\ ToSet(P) \subseteq DOMAIN h.devices
  <2>1. IsList(ParserProtocols)
    <3>1. ParserProtocols = [j \in 1..6 |-> ParserProtocols[j]]
      BY DEF ParserProtocols
    <3> QED
      BY <3>1, FunctionIsSequence DEF IsList
  <2> QED
    BY <2>1, SelectIs DEF Parsed, IsList
<1>2. DOMAIN P = 1..Len(P) /\ Len(P) \in Nat /\ \A k \in DOMAIN P : P[k] \in DOMAIN h.devices
  <2>1. DOMAIN P = 1..Len(P) /\ Len(P) \in Nat
    BY <1>1
  <2>2. \A k \in DOMAIN P : P[k] \in ToSet(P)
    BY DEF ToSet
  <2> QED
    BY <1>1, <2>1, <2>2
<1>3. \A p \in DOMAIN h.devices : h.devices[p] \in Seq(T)
  <2> TAKE p \in DOMAIN h.devices
  <2>1. h.devices[p] \in Seq(ToSet(h.devices[p]))
    BY ScenariosAssumption DEF IsScenario, Hosts
  <2>2. ToSet(h.devices[p]) \subseteq T
    OBVIOUS
  <2> HIDE DEF T
  <2> QED
    BY <2>1, <2>2
<1>4. seqs \in Seq(Seq(T))
  <2> HIDE DEF T, P
  <2>1. \A k \in 1..Len(P) : h.devices[P[k]] \in Seq(T)
    BY <1>2, <1>3
  <2> QED
    BY <1>2, <2>1
<1>5. D \in Seq(T)
  <2> HIDE DEF T
  <2> QED
    BY <1>4, FlattenIs DEF DevicesOf
<1>6. IsList(D)
  BY <1>5, ListOfSequence
<1>7. N = [k \in DOMAIN D |-> D[k].name]
  BY DEF DeviceNames
<1>8. DOMAIN D = 1..Len(D) /\ Len(D) \in Nat
  BY <1>5
<1>9. N \in Seq(ToSet(N)) /\ ToSet(N) = {d.name : d \in ToSet(D)}
  <2> HIDE DEF D, N
  <2>1. N = [k \in 1..Len(D) |-> D[k].name]
    BY <1>7, <1>8
  <2>2. N = [k \in 1..Len(D) |-> N[k]]
    BY <2>1
  <2>3. N \in Seq(ToSet(N))
    BY <1>8, <2>2, FunctionIsSequence
  <2>4. ToSet(N) = {d.name : d \in ToSet(D)}
    BY <2>1, <1>8 DEF ToSet
  <2> QED
    BY <2>3, <2>4
<1> QED
  BY <1>1, <1>6, <1>9 DEF IsList

(* The host of a name.                                                     *)
LEMMA HostNamedIs ==
  ASSUME scenario \in Scenarios, NEW h \in Hosts
  PROVE  HostNamed(h.hostname) = h
<1> DEFINE hosts == scenario.hosts
           I == {j \in 1..Len(hosts) : hosts[j].hostname = h.hostname}
<1>1. hosts \in Seq(Hosts) /\ \A f, g \in Hosts : f.hostname = g.hostname => f = g
  BY ScenariosAssumption DEF IsScenario, Hosts
<1>2. DOMAIN hosts = 1..Len(hosts) /\ Len(hosts) \in Nat
  BY <1>1
<1>3. PICK k \in DOMAIN hosts : hosts[k] = h
  BY DEF Hosts, ToSet
<1>4. SelectInSeq(hosts, LAMBDA g : g.hostname = h.hostname) = IF I # {} THEN Min(I) ELSE 0
  BY DEF SelectInSeq
<1>5. I \in SUBSET Nat /\ I # {}
  BY <1>2, <1>3
<1>6. Min(I) \in I
  <2> HIDE DEF I
  <2> QED
    BY <1>5, LeastNumber
<1>7. hosts[Min(I)].hostname = h.hostname /\ hosts[Min(I)] \in Hosts
  BY <1>2, <1>6 DEF Hosts, ToSet
<1> QED
  BY <1>1, <1>4, <1>5, <1>7 DEF HostNamed

(* The path of the objects is the provider's, and none other writes there. *)
LEMMA ObjectsPath ==
  ASSUME NEW p
  PROVE  /\ SceptrePath(p, "objects.txt") \notin ElkPaths
         /\ \A l \in StartLoops : \A h : SceptrePath(p, "objects.txt") \notin Output(l, h)
<1>1. SceptrePath(p, "objects.txt")[1] = "sceptre" /\ \A path \in ElkPaths : path[1] = "elk"
  BY DEF SceptrePath, ElkPaths
<1>2. "none" \notin StartLoops
  BY DEF StartLoops
<1> QED
  BY <1>1, <1>2, WhereWritten DEF OnlyAt

(* The objects of the field devices that had their turn are collected, and *)
(* written after the last of them.                                         *)
Collected(h) ==
  Handled("fd-servers", h) /\ FeedsPower(HostNamed(h.provider)) => ToSet(DeviceNames(h)) \subseteq ToSet(local.objects)

(* Every step keeps the names collected so far, and the file they are      *)
(* written to.                                                             *)
LEMMA ObjectsInvNext ==
  ASSUME Places, TopologyInv, LocalInv, ObjectsInv, [Next]_vars
  PROVE  ObjectsInv'
<1>1. scenario \in Scenarios /\ scenario' = scenario
  BY ScenarioIsKept DEF Places
<1>2. /\ \A type : OfType(type)' = OfType(type)
      /\ \A loop : LoopHosts(loop)' = LoopHosts(loop)
  BY <1>1, ScenarioStays
<1>3. \A h : HostNamed(h.provider)' = HostNamed(h.provider)
  BY <1>1 DEF HostNamed, SelectInSeq
<1>4. /\ \A p, path, hil : IsObjectsOf(p, path, hil)' = IsObjectsOf(p, path, hil)
      /\ \A h : DeviceNames(h)' = DeviceNames(h)
      /\ \A p : FeedsPower(p)' = FeedsPower(p)
  BY DEF IsObjectsOf, DeviceNames, FeedsPower
<1> SUFFICES ASSUME InStart'
             PROVE  /\ IsList(local'.objects)
                    /\ local'.objectsAt # None => \E p \in ToSet(OfType("provider")) : IsObjectsOf(p, local'.objectsAt, local'.hil)
                    /\ \A h \in ToSet(LoopHosts("fd-servers")) : Collected(h)'
                    /\ Rank(step'.loop) > 2 /\ local'.objectsAt # None =>
                         local'.objectsAt \in DOMAIN files' /\ files'[local'.objectsAt] = Objects(local'.objects, local'.hil)
  BY <1>2, <1>4 DEF ObjectsInv, Collected
<1>5. ASSUME NEW h, ToSet(local.objects) \subseteq ToSet(local'.objects), InStart,
             h \in ToSet(LoopHosts("fd-servers")), Handled("fd-servers", h)' => Handled("fd-servers", h)
      PROVE  Collected(h)'
  <2>1. Collected(h)
    BY <1>5 DEF ObjectsInv, Collected
  <2> QED
    BY <1>3, <1>4, <1>5, <2>1 DEF Collected
<1>6. "fd-servers" \in StartLoops /\ "providers" \in StartLoops
  BY DEF StartLoops
<1>7. ASSUME InStart
      PROVE  /\ IsList(local.objects)
             /\ local.objectsAt # None => \E p \in ToSet(OfType("provider")) : IsObjectsOf(p, local.objectsAt, local.hil)
             /\ Rank(step.loop) > 2 /\ local.objectsAt # None =>
                  local.objectsAt \in DOMAIN files /\ files[local.objectsAt] = Objects(local.objects, local.hil)
             /\ local.objectsAt # None =>
                  /\ local.objectsAt \notin ElkPaths
                  /\ \A l \in StartLoops : \A h : local.objectsAt \notin Output(l, h)
  BY <1>7, ObjectsPath DEF ObjectsInv, IsObjectsOf
<1>8. CASE StartExperiment
  <2>1. \A h : ~Handled("fd-servers", h)'
    BY <1>1, <1>6, <1>8, NoneHandledAtFirst DEF StartExperiment, Launch, GoTo
  <2>2. step'.loop = "providers"
    BY <1>8 DEF StartExperiment, Launch, GoTo
  <2>3. local' = NoLocals
    BY <1>8, LocalEnds DEF LocalInv, StartExperiment, Idle, InStart
  <2>4. IsList(local'.objects) /\ local'.objectsAt = None
    BY <2>3, ShortLists DEF NoLocals
  <2> QED
    BY <2>1, <2>2, <2>4, RankIs DEF Collected
<1>9. CASE InStart /\ Turning
  <2>1. PICK loop \in StartLoops \ {"feps"} : \E h \in ToSet(LoopHosts(loop)) : TurnAt(loop, h) /\ Wrote(loop, h)
    BY <1>9, TurnIs
  <2>2. PICK h \in ToSet(LoopHosts(loop)) : TurnAt(loop, h) /\ Wrote(loop, h)
    BY <2>1
  <2>3. step.loop = loop /\ step'.loop = loop
    BY <2>2 DEF TurnAt, Places
  <2>4. \A g : ~(loop = "fd-servers" /\ g = h) => (Handled("fd-servers", g)' => Handled("fd-servers", g))
    BY <1>6, <2>2, HandledAfterTurn
  <2>5. CASE Provider
    <3>1. loop = "providers" /\ h = OfType("provider")[step.i] /\ h \in ToSet(OfType("provider"))
      BY <2>2, <2>5, TurnsAre DEF TurnAt, LoopHosts
    <3>2. local'.objects = local.objects
      BY <2>5, LocalTurns
    <3>3. IF IsPowerWorld(h) THEN local'.objectsAt = SceptrePath(h, "objects.txt") /\ local'.hil = h.hil
          ELSE local'.objectsAt = local.objectsAt /\ local'.hil = local.hil
      BY <2>5, <3>1, LocalTurns
    <3>4. local'.objectsAt # None => \E p \in ToSet(OfType("provider")) : IsObjectsOf(p, local'.objectsAt, local'.hil)
      <4>1. CASE IsPowerWorld(h)
        BY <3>1, <3>3, <4>1 DEF IsObjectsOf
      <4>2. CASE ~IsPowerWorld(h)
        BY <1>7, <1>9, <3>3, <4>2
      <4> QED
        BY <4>1, <4>2
    <3>5. \A g \in ToSet(LoopHosts("fd-servers")) : Collected(g)'
      BY <1>5, <1>9, <2>4, <3>1, <3>2
    <3> QED
      BY <1>7, <1>9, <2>3, <3>1, <3>2, <3>4, <3>5, RankIs
  <2>6. CASE FieldDeviceServer
    <3>1. loop = "fd-servers" /\ h = OfType("fd-server")[step.i] /\ h \in ToSet(OfType("fd-server"))
      BY <2>2, <2>6, TurnsAre DEF TurnAt, LoopHosts
    <3>2. local'.objectsAt = local.objectsAt /\ local'.hil = local.hil
      BY <2>6, LocalTurns
    <3> DEFINE new == If(FeedsPower(HostNamed(h.provider)), DeviceNames(h))
    <3>3. local'.objects = local.objects \o new
      BY <2>6, <3>1, LocalTurns
    <3>4. h \in Hosts
      BY <1>1, <3>1, HostsAreListed
    <3>5. IsList(new) /\ (FeedsPower(HostNamed(h.provider)) => ToSet(new) = ToSet(DeviceNames(h)))
      BY <1>1, <3>4, DeviceNamesAre, ShortLists DEF If
    <3> HIDE DEF new
    <3>6. IsList(local'.objects) /\ ToSet(local'.objects) = ToSet(local.objects) \cup ToSet(new)
      BY <1>7, <1>9, <3>3, <3>5, ListOfConcat
    <3>7. ASSUME NEW g \in ToSet(LoopHosts("fd-servers"))
          PROVE  Collected(g)'
      <4>1. CASE g = h
        BY <1>3, <1>4, <3>5, <3>6, <4>1 DEF Collected
      <4>2. CASE g # h
        BY <1>5, <1>9, <2>4, <3>6, <4>2, <3>7
      <4> QED
        BY <4>1, <4>2
    <3> QED
      BY <1>7, <1>9, <2>3, <3>1, <3>2, <3>6, <3>7, RankIs
  <2>7. CASE ~Provider /\ ~FieldDeviceServer
    <3>1. Rank(loop) >= 3
      <4>1. TurnAt("federates", h) \/ TurnAt("clients", h) \/ TurnAt("opcs", h) \/ TurnAt("scadas", h) \/ TurnAt("hmis", h)
              \/ TurnAt("engineers", h) \/ TurnAt("historians", h)
        <5>1. \A l, g : TurnAt(l, g) => l = loop /\ (l = loop => g = h)
          BY <2>2 DEF TurnAt
        <5> QED
          BY <1>9, <2>7, <5>1, TurnsAre DEF Turning
      <4>2. loop \in {"federates", "clients", "opcs", "scadas", "hmis", "engineers", "historians"}
        BY <2>3, <4>1 DEF TurnAt
      <4> QED
        BY <4>2, RankIs
    <3>2. local'.objects = local.objects /\ local'.objectsAt = local.objectsAt /\ local'.hil = local.hil
      BY <1>9, <2>2, <3>1, LateTurns
    <3>3. loop # "fd-servers" /\ Rank(loop) \in Nat
      BY <3>1, RankIs
    <3>4. \A g \in ToSet(LoopHosts("fd-servers")) : Collected(g)'
      BY <1>5, <1>9, <2>4, <3>2, <3>3
    <3>5. local.objectsAt # None =>
            local.objectsAt \in DOMAIN files' /\ files'[local.objectsAt] = Objects(local.objects, local.hil)
      <4>1. Rank(step.loop) > 2
        BY <2>3, <3>1, <3>3
      <4>2. local.objectsAt # None => Kept(local.objectsAt)
        BY <1>7, <1>9, <2>2 DEF Wrote
      <4> QED
        BY <1>7, <1>9, <4>1, <4>2 DEF Kept
    <3> QED
      BY <1>7, <1>9, <3>2, <3>4, <3>5
  <2> QED
    BY <2>5, <2>6, <2>7
<1>10. CASE InStart /\ Proceeding
  <2>1. PICK loop, next \in StartLoops :
           /\ EndOf(loop, next) /\ Rank(next) = Rank(loop) + 1
           /\ loop = "fd-servers" <=> ServersDone
           /\ loop = "feps" <=> FepsDone
    BY <1>10, EndIs
  <2>2. step.loop = loop /\ step'.loop = next
    BY <2>1 DEF EndOf
  <2>3. local' = local
    BY <1>10, LocalEnds
  <2>4. \A g \in ToSet(LoopHosts("fd-servers")) : Collected(g)'
    BY <1>5, <1>6, <1>10, <2>1, <2>3, HandledAfterEnd
  <2>5. Rank(next) > 2 /\ local.objectsAt # None =>
          local.objectsAt \in DOMAIN files' /\ files'[local.objectsAt] = Objects(local.objects, local.hil)
    <3>1. CASE ServersDone
      <4> DEFINE new == File(local.objectsAt, Objects(local.objects, local.hil))
      <4>1. local.objectsAt # None => WriteAll(new)
        BY <3>1 DEF ServersDone
      <4>2. local.objectsAt \in DOMAIN new /\ new[local.objectsAt] = Objects(local.objects, local.hil)
        BY DEF File
      <4> HIDE DEF new
      <4> QED
        BY <4>1, <4>2, WriteAllIs
    <3>2. CASE ~ServersDone
      <4>1. Rank(loop) \in Nat /\ Rank(loop) # 2
        BY <2>1, <3>2, RankIs
      <4>2. Rank(next) > 2 => Rank(loop) > 2
        BY <2>1, <4>1
      <4>3. local.objectsAt # None => Kept(local.objectsAt)
        BY <1>7, <1>10, <3>2, EndsWrite
      <4> QED
        BY <1>7, <1>10, <2>2, <4>2, <4>3 DEF Kept
    <3> QED
      BY <3>1, <3>2
  <2> QED
    BY <1>7, <1>10, <2>2, <2>3, <2>4, <2>5
<1>11. CASE InStart /\ UNCHANGED vars
  <2>1. step' = step /\ local' = local /\ files' = files
    BY <1>11 DEF vars, processVars, sceptreVars
  <2>2. \A g : Handled("fd-servers", g)' => Handled("fd-servers", g)
    BY <1>2, <2>1 DEF Handled
  <2>3. \A g \in ToSet(LoopHosts("fd-servers")) : Collected(g)'
    BY <1>5, <1>11, <2>1, <2>2
  <2> QED
    BY <1>7, <1>11, <2>1, <2>3
<1> QED
  BY <1>8, <1>9, <1>10, <1>11, StepsOfStart

(* At the end of a start the objects file has what was collected.          *)
LEMMA ObjectsAtTheEnd ==
  ASSUME Places, ObjectsInv
  PROVE  ObjectsAreListed
<1> SUFFICES ASSUME Done, local.objectsAt # None, NEW p \in ToSet(OfType("provider")),
                    SceptrePath(p, "objects.txt") = local.objectsAt
             PROVE  /\ ToSet(p.hil) \subseteq files[local.objectsAt]
                    /\ \A h \in ToSet(OfType("fd-server")) :
                         h.provider = p.hostname => {d.name : d \in ToSet(DevicesOf(h))} \subseteq files[local.objectsAt]
  BY DEF ObjectsAreListed
<1>1. InStart /\ step.loop = "historians" /\ scenario \in Scenarios
  BY DoneIsEnd DEF Places
<1>2. PICK q \in ToSet(OfType("provider")) : IsObjectsOf(q, local.objectsAt, local.hil)
  BY <1>1 DEF ObjectsInv
<1>3. p \in Hosts /\ q \in Hosts
  BY <1>1, HostsAreListed
<1>4. p = q
  <2>1. p.hostname = q.hostname
    BY <1>2 DEF IsObjectsOf, SceptrePath
  <2> QED
    BY <1>1, <1>3, <2>1, ScenariosAssumption DEF IsScenario, Hosts
<1>5. IsPowerWorld(p) /\ local.hil = p.hil /\ IsList(local.objects)
  BY <1>1, <1>2, <1>4 DEF IsObjectsOf, ObjectsInv
<1>6. files[local.objectsAt] = Objects(local.objects, local.hil)
  BY <1>1, RankIs DEF ObjectsInv
<1>7. files[local.objectsAt] = ToSet(local.objects) \cup ToSet(p.hil)
  <2>1. IsList(p.hil)
    BY <1>1, <1>3, ScenariosAssumption DEF IsScenario, Hosts, IsList
  <2> QED
    BY <1>5, <1>6, <2>1, ListOfConcat DEF Objects
<1>8. ASSUME NEW h \in ToSet(OfType("fd-server")), h.provider = p.hostname
      PROVE  {d.name : d \in ToSet(DevicesOf(h))} \subseteq ToSet(local.objects)
  <2>1. "fd-servers" \in StartLoops /\ LoopHosts("fd-servers") = OfType("fd-server")
    BY DEF StartLoops, LoopHosts
  <2>2. Handled("fd-servers", h)
    BY <1>8, <2>1, AllHandledAtLast
  <2>3. HostNamed(h.provider) = p
    BY <1>1, <1>3, <1>8, HostNamedIs
  <2>4. FeedsPower(HostNamed(h.provider))
    BY <1>5, <2>3 DEF FeedsPower
  <2>5. ToSet(DeviceNames(h)) \subseteq ToSet(local.objects)
    BY <1>1, <1>8, <2>1, <2>2, <2>4 DEF ObjectsInv
  <2>6. h \in Hosts
    BY <1>1, <1>8, HostsAreListed
  <2> QED
    BY <1>1, <2>5, <2>6, DeviceNamesAre
<1> QED
  BY <1>7, <1>8

-----------------------------------------------------------------------------
(* Setting an entry of a dict: the others stay.                            *)
LEMMA SetOpcIs ==
  ASSUME NEW opcs, IsOpcs(opcs), NEW ip, NEW config, NEW ms, ms = SetOpc(opcs, ip, config)
  PROVE  /\ IsOpcs(ms)
         /\ \A o \in ToSet(ms) : o = [ip |-> ip, config |-> config] \/ (o \in ToSet(opcs) /\ o.ip # ip)
<1> DEFINE n == Len(opcs)
           I == {j \in 1..n : opcs[j].ip = ip}
           k == SelectInSeq(opcs, LAMBDA o : o.ip = ip)
           new == [ip |-> ip, config |-> config]
<1>1. n \in Nat /\ DOMAIN opcs = 1..n /\ opcs = [j \in 1..n |-> opcs[j]] /\ \A j \in 1..n : opcs[j] \in ToSet(opcs)
  <2>1. opcs \in Seq(ToSet(opcs))
    BY DEF IsOpcs, IsList
  <2> QED
    BY <2>1
<1>2. k = IF I # {} THEN Min(I) ELSE 0
  BY DEF SelectInSeq
<1>3. I \subseteq Nat /\ (I # {} => Min(I) \in I)
  <2>1. I \in SUBSET Nat
    BY <1>1
  <2> HIDE DEF I
  <2> QED
    BY <2>1, LeastNumber
<1>4. \/ k = 0 /\ (\A j \in 1..n : opcs[j].ip # ip)
      \/ k \in 1..n /\ opcs[k].ip = ip
  BY <1>2, <1>3
<1>5. ms = IF k = 0 THEN Append(opcs, new) ELSE [opcs EXCEPT ![k].config = config]
  BY DEF SetOpc
<1>6. \A j \in 1..n : opcs[j] = [ip |-> opcs[j].ip, config |-> opcs[j].config]
  BY <1>1 DEF IsOpcs
<1> HIDE DEF k, I, n
<1>7. CASE k = 0
  <2>1. ms = Append(opcs, new)
    BY <1>5, <1>7
  <2> HIDE DEF new
  <2>2. IsList(ms) /\ ToSet(ms) = ToSet(opcs) \cup {new}
    BY <2>1, ListOfAppend DEF IsOpcs
  <2>3. DOMAIN ms = 1..(n + 1) /\ ms[n + 1] = new /\ \A j \in 1..n : ms[j] = opcs[j]
    <3> DEFINE W == ToSet(opcs) \cup {new}
    <3>1. \A j \in 1..n : opcs[j] \in W
      BY <1>1
    <3>2. new \in W
      OBVIOUS
    <3> HIDE DEF W
    <3>3. opcs \in Seq(W) /\ Len(opcs) = n
      BY <1>1, <3>1 DEF n
    <3> QED
      BY <1>1, <2>1, <3>2, <3>3
  <2>4. new.ip = ip /\ new = [ip |-> new.ip, config |-> new.config]
    BY DEF new
  <2>5. \A j, l \in DOMAIN ms : ms[j].ip = ms[l].ip => j = l
    <3>1. \A j, l \in 1..n : opcs[j].ip = opcs[l].ip => j = l
      BY <1>1 DEF IsOpcs
    <3>2. \A j \in 1..n : opcs[j].ip # ip
      BY <1>1, <1>4, <1>7
    <3>3. \A j \in DOMAIN ms : j \in 1..n \/ j = n + 1
      BY <1>1, <2>3
    <3> QED
      BY <2>3, <2>4, <3>1, <3>2, <3>3
  <2>6. \A o \in ToSet(opcs) : o.ip # ip
    BY <1>1, <1>4, <1>7 DEF ToSet
  <2>7. \A o \in ToSet(ms) : o = [ip |-> o.ip, config |-> o.config]
    BY <2>2, <2>4 DEF IsOpcs
  <2>8. IsOpcs(ms)
    BY <2>2, <2>5, <2>7 DEF IsOpcs
  <2>9. \A o \in ToSet(ms) : o = new \/ (o \in ToSet(opcs) /\ o.ip # ip)
    BY <2>2, <2>6
  <2> QED
    BY <2>8, <2>9 DEF new
<1>8. CASE k # 0
  <2>1. k \in 1..n /\ opcs[k].ip = ip /\ ms = [opcs EXCEPT ![k].config = config]
    BY <1>4, <1>5, <1>8
  <2>2. opcs[k] = [ip |-> ip, config |-> opcs[k].config]
    BY <1>6, <2>1
  <2>3. [opcs[k] EXCEPT !.config = config] = new
    BY <2>2
  <2>4. ms = [j \in 1..n |-> IF j = k THEN new ELSE opcs[j]]
    BY <1>1, <2>1, <2>3
  <2> HIDE DEF new
  <2>5. ms = [j \in 1..n |-> ms[j]]
    BY <2>4
  <2>6. IsList(ms) /\ DOMAIN ms = 1..n
    BY <1>1, <2>5, FunctionIsSequence DEF IsList
  <2>7. \A j, l \in 1..n : opcs[j].ip = opcs[l].ip => j = l
    BY <1>1 DEF IsOpcs
  <2>8. new.ip = ip /\ new = [ip |-> new.ip, config |-> new.config]
    BY DEF new
  <2>9. \A j \in 1..n : ms[j].ip = opcs[j].ip /\ ms[j] = [ip |-> ms[j].ip, config |-> ms[j].config]
    BY <1>6, <2>1, <2>4, <2>8
  <2>10. \A j \in 1..n : ms[j] = new \/ (ms[j] \in ToSet(opcs) /\ ms[j].ip # ip)
    BY <1>1, <2>1, <2>4, <2>7
  <2>11. \A o \in ToSet(ms) : \E j \in 1..n : o = ms[j]
    BY <2>6 DEF ToSet
  <2>12. IsOpcs(ms)
    BY <2>6, <2>7, <2>9, <2>11 DEF IsOpcs
  <2>13. \A o \in ToSet(ms) : o = new \/ (o \in ToSet(opcs) /\ o.ip # ip)
    BY <2>10, <2>11
  <2> QED
    BY <2>12, <2>13 DEF new
<1> QED
  BY <1>7, <1>8

(* The interfaces of a node are those of the scenario's topology.          *)
LEMMA InterfacesStay ==
  ASSUME scenario \in Scenarios, scenario' = scenario, NodesAre(nodes), NodesAre(nodes)', NEW h \in Hosts
  PROVE  Offered(h)' = Offered(h) /\ OfferedIp(h)' = OfferedIp(h)
<1>1. ASSUME NEW ns, NodesAre(ns)
      PROVE  ExtractNode(ns, h.hostname).ifaces = ExtractNode(scenario.topology, h.hostname).ifaces
  <2> DEFINE i == NodeIndex(ns, h.hostname)
  <2>1. i = NodeIndex(scenario.topology, h.hostname) /\ i \in DOMAIN ns
    BY <1>1, HostsHaveNodes
  <2>2. DOMAIN ns = DOMAIN scenario.topology /\ SameBut(scenario.topology, ns)
    BY <1>1 DEF NodesAre, SameBut
  <2>3. "ifaces" \in DOMAIN scenario.topology[i]
    BY <2>1, <2>2, ScenariosAssumption DEF IsScenario
  <2> HIDE DEF i
  <2>4. ns[i].ifaces = scenario.topology[i].ifaces
    BY <2>1, <2>2, <2>3 DEF SameBut
  <2> QED
    BY <2>1, <2>4 DEF ExtractNode, i
<1>2. NodesAre(nodes')
  BY DEF NodesAre
<1>3. NodeOf(h)'.ifaces = NodeOf(h).ifaces
  BY <1>1, <1>2 DEF NodeOf
<1>4. Offered(h)' = Offered(h)
  BY <1>3 DEF Offered
<1> QED
  BY <1>4 DEF OfferedIp

(* The primary OPC servers of the dict poll what their files say.          *)
LEMMA OpcsInvNext ==
  ASSUME Places, TopologyInv, LocalInv, ObjectsInv, OpcsInv, TopologyInv', [Next]_vars
  PROVE  OpcsInv'
<1>1. scenario \in Scenarios /\ scenario' = scenario /\ \A type : OfType(type)' = OfType(type)
  BY ScenarioIsKept, ScenarioStays DEF Places
<1> SUFFICES ASSUME InStart'
             PROVE  IsOpcs(local'.opcs) /\ \A o \in ToSet(local'.opcs) : \E h \in ToSet(OfType("opc")) : IsPolled(o, h)'
  BY <1>1 DEF OpcsInv
<1>2. ASSUME InStart
      PROVE  IsOpcs(local.opcs) /\ \A o \in ToSet(local.opcs) : \E h \in ToSet(OfType("opc")) : IsPolled(o, h)
  BY <1>2 DEF OpcsInv
<1>3. \A h \in ToSet(OfType("opc")) : h \in Hosts
  BY <1>1, HostsAreListed
<1>4. ASSUME InStart, NEW h \in ToSet(OfType("opc")), NEW o, IsPolled(o, h), Kept(SceptrePath(h, "opc.xml"))
      PROVE  IsPolled(o, h)'
  <2>1. OfferedIp(h)' = OfferedIp(h)
    BY <1>1, <1>3, <1>4, InterfacesStay DEF TopologyInv, InStart
  <2>2. SceptrePath(h, "opc.xml")' = SceptrePath(h, "opc.xml")
    BY DEF SceptrePath
  <2> QED
    BY <1>4, <2>1, <2>2 DEF IsPolled, Kept
<1>5. ASSUME NEW h
      PROVE  /\ SceptrePath(h, "opc.xml") \notin ElkPaths
             /\ \A p : SceptrePath(h, "opc.xml") # SceptrePath(p, "objects.txt")
  <2>1. SceptrePath(h, "opc.xml")[1] = "sceptre" /\ \A path \in ElkPaths : path[1] = "elk"
    BY DEF SceptrePath, ElkPaths
  <2> QED
    BY <2>1 DEF SceptrePath
<1>6. CASE StartExperiment
  <2>1. local' = NoLocals
    BY <1>6, LocalEnds DEF LocalInv, StartExperiment, Idle, InStart
  <2>2. local'.opcs = << >>
    BY <2>1 DEF NoLocals
  <2> QED
    BY <2>2, ShortLists DEF IsOpcs
<1>7. CASE InStart /\ Turning
  <2>1. PICK loop \in StartLoops \ {"feps"} : \E h \in ToSet(LoopHosts(loop)) : TurnAt(loop, h) /\ Wrote(loop, h)
    BY <1>7, TurnIs
  <2>2. PICK g \in ToSet(LoopHosts(loop)) : TurnAt(loop, g) /\ Wrote(loop, g)
    BY <2>1
  <2>3. ASSUME NEW h \in ToSet(OfType("opc")), ~(loop = "opcs" /\ h = g)
        PROVE  Kept(SceptrePath(h, "opc.xml"))
    <3>1. SceptrePath(h, "opc.xml") \notin Output(loop, g)
      <4>1. loop = "opcs" => g \in Hosts
        BY <1>3 DEF LoopHosts
      <4>2. loop = "opcs" /\ g.hostname = h.hostname => g = h
        BY <1>1, <1>3, <4>1, ScenariosAssumption DEF IsScenario, Hosts
      <4> QED
        BY <2>3, <4>2, WhereWritten DEF OnlyAt
    <3> QED
      BY <2>2, <3>1 DEF Wrote
  <2>4. CASE Opc
    <3>1. loop = "opcs" /\ g = OfType("opc")[step.i]
      BY <2>2, <2>4, TurnsAre DEF TurnAt
    <3>2. g \in ToSet(OfType("opc"))
      BY <3>1 DEF LoopHosts
    <3>3. PICK config : /\ WriteAll(OpcWrites(g, config))
                        /\ local'.opcs = IF g.backup THEN local.opcs ELSE SetOpc(local.opcs, OfferedIp(g), config)
      BY <2>4, <3>1, LocalTurns
    <3>4. CASE g.backup
      <4>1. ASSUME NEW o \in ToSet(local.opcs)
            PROVE  \E h \in ToSet(OfType("opc")) : IsPolled(o, h)'
        <5>1. PICK h \in ToSet(OfType("opc")) : IsPolled(o, h)
          BY <1>2, <1>7, <4>1
        <5>2. h # g
          BY <3>4, <5>1 DEF IsPolled
        <5> QED
          BY <1>4, <1>7, <2>3, <5>1, <5>2
      <4> QED
        BY <1>2, <1>7, <3>3, <3>4, <4>1
    <3>5. CASE ~g.backup
      <4> DEFINE ms == local'.opcs
      <4>0. PICK new : new = [ip |-> OfferedIp(g), config |-> config]
        OBVIOUS
      <4>1. IsOpcs(ms) /\ \A o \in ToSet(ms) : o = new \/ (o \in ToSet(local.opcs) /\ o.ip # OfferedIp(g))
        <5>1. ms = SetOpc(local.opcs, OfferedIp(g), config)
          BY <3>3, <3>5
        <5> QED
          BY <1>2, <1>7, <4>0, <5>1, SetOpcIs
      <4>2. IsPolled(new, g)'
        <5>1. OfferedIp(g)' = OfferedIp(g)
          BY <1>1, <1>3, <1>7, <3>2, InterfacesStay DEF TopologyInv, InStart
        <5>2. SceptrePath(g, "opc.xml") \in DOMAIN OpcWrites(g, config) /\ OpcWrites(g, config)[SceptrePath(g, "opc.xml")] = config
          BY DEF OpcWrites, Overlay, File
        <5>3. SceptrePath(g, "opc.xml") \in DOMAIN files' /\ files'[SceptrePath(g, "opc.xml")] = config
          BY <3>3, <5>2, WriteAllIs
        <5>4. SceptrePath(g, "opc.xml")' = SceptrePath(g, "opc.xml")
          BY DEF SceptrePath
        <5>5. new.ip = OfferedIp(g) /\ new.config = config
          BY <4>0
        <5> QED
          BY <3>5, <5>1, <5>3, <5>4, <5>5 DEF IsPolled
      <4>3. ASSUME NEW o \in ToSet(local.opcs), o.ip # OfferedIp(g)
            PROVE  \E h \in ToSet(OfType("opc")) : IsPolled(o, h)'
        <5>1. PICK h \in ToSet(OfType("opc")) : IsPolled(o, h)
          BY <1>2, <1>7, <4>3
        <5>2. h # g
          BY <4>3, <5>1 DEF IsPolled
        <5> QED
          BY <1>4, <1>7, <2>3, <5>1, <5>2
      <4> QED
        BY <3>2, <4>1, <4>2, <4>3
    <3> QED
      BY <3>4, <3>5
  <2>5. CASE ~Opc
    <3>1. local'.opcs = local.opcs
      BY <1>7, <2>5, LocalTurns DEF Turning
    <3>2. loop # "opcs"
      <4>1. \A l, h : TurnAt(l, h) => l = loop
        BY <2>2 DEF TurnAt
      <4> QED
        BY <1>7, <2>5, <4>1, TurnsAre DEF Turning
    <3> QED
      BY <1>2, <1>4, <1>7, <2>3, <3>1, <3>2
  <2> QED
    BY <2>4, <2>5
<1>8. CASE InStart /\ Proceeding
  <2>1. local' = local
    BY <1>8, LocalEnds
  <2>2. ASSUME NEW h
        PROVE  Kept(SceptrePath(h, "opc.xml"))
    <3>1. local.objectsAt # None => SceptrePath(h, "opc.xml") # local.objectsAt
      BY <1>5, <1>8 DEF ObjectsInv, IsObjectsOf
    <3> QED
      BY <1>5, <1>8, <3>1, EndsWrite
  <2> QED
    BY <1>2, <1>4, <1>8, <2>1, <2>2
<1>9. CASE InStart /\ UNCHANGED vars
  <2>1. local' = local /\ files' = files
    BY <1>9 DEF vars, processVars, sceptreVars
  <2> QED
    BY <1>2, <1>4, <1>9, <2>1 DEF Kept
<1> QED
  BY <1>6, <1>7, <1>8, <1>9, StepsOfStart

-----------------------------------------------------------------------------
(* What the loops after those of the OPC servers look up stays.            *)
LEMMA OpcForLasts ==
  ASSUME Places, TopologyInv, InStart, NEW loop, Rank(loop) > 6, Lasts(loop), NEW h \in Hosts
  PROVE  /\ OfferedIp(h)' = OfferedIp(h) /\ OpcFor(OfferedIp(h))' = OpcFor(OfferedIp(h))
         /\ \A file : HistorianSays(h, file) => HistorianSays(h, file)'
<1>1. /\ scenario' = scenario /\ nodes' = nodes /\ local'.opcs = local.opcs /\ local'.backups = local.backups
      /\ scenario \in Scenarios
  BY DEF Lasts, Places
<1>2. \A g \in Hosts : OfferedIp(g)' = OfferedIp(g)
  <2> TAKE g \in Hosts
  <2>1. NodesAre(nodes) /\ NodesAre(nodes)'
    BY <1>1 DEF TopologyInv, InStart, NodesAre
  <2> QED
    BY <1>1, <2>1, InterfacesStay
<1>3. OpcFor(OfferedIp(h))' = OpcFor(OfferedIp(h))
  <2> DEFINE On(opcs, ip) == {i \in 1..Len(opcs) : Subnet(opcs[i].ip) = Subnet(ip)}
  <2>1. \A opcs, ip : OnSubnet(opcs, ip) = IF On(opcs, ip) # {} THEN Min(On(opcs, ip)) ELSE 0
    BY DEF OnSubnet, SelectInSeq
  <2>2. /\ OnSubnet(local.opcs, OfferedIp(h))' = OnSubnet(local.opcs, OfferedIp(h))
        /\ OnSubnet(local.backups, OfferedIp(h))' = OnSubnet(local.backups, OfferedIp(h))
    BY <1>1, <1>2, <2>1
  <2> QED
    BY <1>1, <2>2 DEF OpcFor
<1>4. OnSubnet(local.opcs, OfferedIp(h))' = OnSubnet(local.opcs, OfferedIp(h))
  BY <1>1, <1>2 DEF OnSubnet, SelectInSeq
<1>5. Secondaries(h.hostname)' = Secondaries(h.hostname)
  <2>1. OfType("historian")' = OfType("historian") /\ \A s \in ToSet(OfType("historian")) : s \in Hosts
    BY <1>1, ScenarioStays, HostsAreListed
  <2> QED
    BY <1>2, <2>1 DEF Secondaries
<1>6. \A file : HistorianSays(h, file) => HistorianSays(h, file)'
  BY <1>1, <1>4, <1>5 DEF HistorianSays
<1> QED
  BY <1>2, <1>3, <1>6

(* Every step keeps the files of the SCADA servers.                        *)
LEMMA ScadasInvNext ==
  ASSUME Places, TopologyInv, LocalInv, ScadasInv, [Next]_vars
  PROVE  ScadasInv'
<1> SUFFICES ASSUME InStart', NEW s \in ToSet(LoopHosts("scadas")), Handled("scadas", s)', ~s.project
             PROVE  /\ SceptrePath(s, "autoproject") \in DOMAIN files'
                    /\ files'[SceptrePath(s, "autoproject")] = OpcFor(OfferedIp(s))'
  <2>1. LoopHosts("scadas")' = LoopHosts("scadas")
    BY ScenarioIsKept, ScenarioStays
  <2> QED
    BY <2>1 DEF ScadasInv, SceptrePath
<1>1. LoopHosts("scadas") = OfType("scada-server") /\ "scadas" \in StartLoops
  BY DEF LoopHosts, StartLoops
<1>2. s \in Hosts
  BY <1>1, HostsAreListed DEF Places
<1>3. \/ Turning /\ TurnAt("scadas", s)
      \/ InStart /\ Handled("scadas", s) /\ Kept(SceptrePath(s, "autoproject")) /\ Lasts("scadas")
  BY <1>1, HandledStays, WhereWritten, RankIs
<1>4. CASE Turning /\ TurnAt("scadas", s)
  <2>1. Scada /\ s = OfType("scada-server")[step.i]
    BY <1>1, <1>4, TurnsAre DEF Turning, TurnAt
  <2>2. WriteAll(ScadaWrites(s)) /\ InStart
    BY <1>4, <2>1 DEF Scada, TurnAt
  <2>3. /\ SceptrePath(s, "autoproject") \in DOMAIN ScadaWrites(s)
        /\ ScadaWrites(s)[SceptrePath(s, "autoproject")] = OpcFor(OfferedIp(s))
    BY DEF ScadaWrites, Overlay, File
  <2>4. SceptrePath(s, "autoproject") \in DOMAIN files' /\ files'[SceptrePath(s, "autoproject")] = OpcFor(OfferedIp(s))
    BY <2>2, <2>3, WriteAllIs
  <2>5. Lasts("scadas")
    BY <1>1, <1>4, RankIs, LateTurns, ScenarioIsKept DEF Lasts
  <2> QED
    BY <1>2, <2>2, <2>4, <2>5, OpcForLasts, RankIs
<1>5. CASE InStart /\ Handled("scadas", s) /\ Kept(SceptrePath(s, "autoproject")) /\ Lasts("scadas")
  <2>1. SceptrePath(s, "autoproject") \in DOMAIN files /\ files[SceptrePath(s, "autoproject")] = OpcFor(OfferedIp(s))
    BY <1>5 DEF ScadasInv
  <2> QED
    BY <1>2, <1>5, <2>1, OpcForLasts, RankIs DEF Kept
<1> QED
  BY <1>3, <1>4, <1>5

(* Every step keeps the files of the historians.                           *)
LEMMA HistoriansInvNext ==
  ASSUME Places, TopologyInv, LocalInv, HistoriansInv, [Next]_vars
  PROVE  HistoriansInv'
<1> SUFFICES ASSUME InStart', NEW h \in ToSet(LoopHosts("historians")), Handled("historians", h)'
             PROVE  /\ SceptrePath(h, "historian_config.txt") \in DOMAIN files'
                    /\ HistorianSays(h, HistorianFile(h))'
  <2>1. LoopHosts("historians")' = LoopHosts("historians")
    BY ScenarioIsKept, ScenarioStays
  <2> QED
    BY <2>1 DEF HistoriansInv, SceptrePath
<1>1. LoopHosts("historians") = OfType("historian") /\ "historians" \in StartLoops
  BY DEF LoopHosts, StartLoops
<1>2. h \in Hosts
  BY <1>1, HostsAreListed DEF Places
<1>3. HistorianFile(h)' = files'[SceptrePath(h, "historian_config.txt")]
  BY DEF HistorianFile, SceptrePath
<1>4. ASSUME NEW file, file = HistorianFile(h)', HistorianSays(h, file)'
      PROVE  HistorianSays(h, HistorianFile(h))'
  BY <1>4 DEF HistorianSays
<1>5. \/ Turning /\ TurnAt("historians", h)
      \/ InStart /\ Handled("historians", h) /\ Kept(SceptrePath(h, "historian_config.txt")) /\ Lasts("historians")
  BY <1>1, HandledStays, WhereWritten, RankIs
<1>6. CASE Turning /\ TurnAt("historians", h)
  <2>1. Historian /\ h = OfType("historian")[step.i]
    BY <1>1, <1>6, TurnsAre DEF Turning, TurnAt
  <2> DEFINE new == [path \in {SceptrePath(h, "historian_config.txt"), SceptrePath(h, "historian.ps1")} |-> HistorianConfig(h)]
  <2>2. WriteAll(new) /\ InStart
    BY <1>6, <2>1 DEF Historian, TurnAt
  <2>3. /\ SceptrePath(h, "historian_config.txt") \in DOMAIN new
        /\ new[SceptrePath(h, "historian_config.txt")] = HistorianConfig(h)
    OBVIOUS
  <2> HIDE DEF new
  <2>4. /\ SceptrePath(h, "historian_config.txt") \in DOMAIN files'
        /\ files'[SceptrePath(h, "historian_config.txt")] = HistorianConfig(h)
    BY <2>2, <2>3, WriteAllIs
  <2>5. HistorianSays(h, HistorianConfig(h))
    <3>1. CASE h.backup
      BY <3>1 DEF HistorianSays
    <3>2. CASE ~h.backup /\ h.connectToScada
      BY <3>2 DEF HistorianSays, HistorianConfig, NoHistorianConfig
    <3>3. CASE ~h.backup /\ ~h.connectToScada
      BY <3>3 DEF HistorianSays, HistorianConfig, OpcConfigFor
    <3> QED
      BY <3>1, <3>2, <3>3
  <2>6. Lasts("historians")
    BY <1>1, <1>6, RankIs, LateTurns, ScenarioIsKept DEF Lasts
  <2>7. \A file : HistorianSays(h, file) => HistorianSays(h, file)'
    BY <1>2, <2>2, <2>6, OpcForLasts, RankIs
  <2>8. PICK file : file = HistorianConfig(h)
    OBVIOUS
  <2> QED
    BY <1>3, <1>4, <2>4, <2>5, <2>7, <2>8
<1>7. CASE InStart /\ Handled("historians", h) /\ Kept(SceptrePath(h, "historian_config.txt")) /\ Lasts("historians")
  <2>1. SceptrePath(h, "historian_config.txt") \in DOMAIN files /\ HistorianSays(h, HistorianFile(h))
    BY <1>7 DEF HistoriansInv
  <2>2. PICK file : file = HistorianFile(h)
    OBVIOUS
  <2>3. SceptrePath(h, "historian_config.txt") \in DOMAIN files' /\ HistorianFile(h)' = file
    BY <1>3, <1>7, <2>1, <2>2 DEF Kept, HistorianFile
  <2>4. HistorianSays(h, file)'
    BY <1>2, <1>7, <2>1, <2>2, OpcForLasts, RankIs
  <2> QED
    BY <1>4, <2>3, <2>4
<1> QED
  BY <1>5, <1>6, <1>7

(* With the files of the OPC servers, SCADA servers and historians there,  *)
(* a subnet has one OPC server.                                            *)
LEMMA OpcsAtTheEnd ==
  ASSUME Places, OpcsInv, ScadasInv, HistoriansInv
  PROVE  OneOpcPerSubnet
<1> SUFFICES ASSUME Done, NEW h \in ToSet(OfType("historian"))
             PROVE  /\ HasOwnOpc(h) =>
                         /\ \A s \in ToSet(OfType("scada-server")) :
                              ~s.project /\ Subnet(OfferedIp(s)) = Subnet(OfferedIp(h)) =>
                                files[SceptrePath(s, "autoproject")].ip = HistorianFile(h).opc
                         /\ \E o \in ToSet(OfType("opc")) :
                              /\ OfferedIp(o) = HistorianFile(h).opc
                              /\ HistorianFile(h).tags \subseteq files[SceptrePath(o, "opc.xml")]
                    /\ ~h.backup =>
                         \A s \in ToSet(OfType("historian")) :
                           s.primary = h.hostname => OfferedIp(s) \in HistorianFile(h).replicas
  BY DEF OneOpcPerSubnet
<1> DEFINE file == HistorianFile(h)
           k == OnSubnet(local.opcs, OfferedIp(h))
           On(ip) == {i \in 1..Len(local.opcs) : Subnet(local.opcs[i].ip) = Subnet(ip)}
<1>1. /\ {"historians", "scadas"} \subseteq StartLoops
      /\ LoopHosts("historians") = OfType("historian") /\ LoopHosts("scadas") = OfType("scada-server")
  BY DEF StartLoops, LoopHosts
<1>2. InStart
  BY DoneIsEnd
<1>3. HistorianSays(h, file)
  <2>1. Handled("historians", h)
    BY <1>1, AllHandledAtLast
  <2> QED
    BY <1>1, <1>2, <2>1 DEF HistoriansInv
<1>4. /\ ~h.backup => file.replicas = Secondaries(h.hostname)
      /\ ~h.backup /\ file.opc # None => k # 0 /\ file.opc = local.opcs[k].ip /\ file.tags \subseteq local.opcs[k].config
  BY <1>3 DEF HistorianSays
<1>5. \A ip : OnSubnet(local.opcs, ip) = IF On(ip) # {} THEN Min(On(ip)) ELSE 0
  BY DEF OnSubnet, SelectInSeq
<1>6. DOMAIN local.opcs = 1..Len(local.opcs) /\ Len(local.opcs) \in Nat
  <2>1. IsList(local.opcs)
    BY <1>2 DEF OpcsInv, IsOpcs
  <2> QED
    BY <2>1 DEF IsList
<1>7. k # 0 => k \in DOMAIN local.opcs
  <2>1. On(OfferedIp(h)) \in SUBSET Nat /\ On(OfferedIp(h)) \subseteq 1..Len(local.opcs)
    BY <1>6
  <2>2. On(OfferedIp(h)) # {} => Min(On(OfferedIp(h))) \in On(OfferedIp(h))
    <3> HIDE DEF On
    <3> QED
      BY <2>1, LeastNumber
  <2> HIDE DEF On
  <2> QED
    BY <1>5, <1>6, <2>1, <2>2
<1>8. ASSUME HasOwnOpc(h)
      PROVE  k # 0 /\ file.opc = local.opcs[k].ip /\ file.tags \subseteq local.opcs[k].config
  BY <1>4, <1>8 DEF HasOwnOpc
<1>9. ASSUME HasOwnOpc(h), NEW s \in ToSet(OfType("scada-server")), ~s.project, Subnet(OfferedIp(s)) = Subnet(OfferedIp(h))
      PROVE  files[SceptrePath(s, "autoproject")].ip = file.opc
  <2>1. Handled("scadas", s)
    BY <1>1, AllHandledAtLast
  <2>2. files[SceptrePath(s, "autoproject")] = OpcFor(OfferedIp(s))
    BY <1>1, <1>2, <1>9, <2>1 DEF ScadasInv
  <2>3. OnSubnet(local.opcs, OfferedIp(s)) = k
    BY <1>5, <1>9
  <2> HIDE DEF k, file
  <2> QED
    BY <1>8, <1>9, <2>2, <2>3 DEF OpcFor
<1>10. ASSUME HasOwnOpc(h)
       PROVE  \E o \in ToSet(OfType("opc")) : OfferedIp(o) = file.opc /\ file.tags \subseteq files[SceptrePath(o, "opc.xml")]
  <2>1. local.opcs[k] \in ToSet(local.opcs)
    BY <1>7, <1>8, <1>10 DEF ToSet
  <2>2. PICK o \in ToSet(OfType("opc")) : IsPolled(local.opcs[k], o)
    BY <1>2, <2>1 DEF OpcsInv
  <2> HIDE DEF k, file
  <2> QED
    BY <1>8, <1>10, <2>2 DEF IsPolled
<1>11. ASSUME ~h.backup, NEW s \in ToSet(OfType("historian")), s.primary = h.hostname
       PROVE  OfferedIp(s) \in file.replicas
  <2> HIDE DEF file
  <2> QED
    BY <1>4, <1>11 DEF Secondaries
<1> QED
  BY <1>9, <1>10, <1>11

-----------------------------------------------------------------------------
(* How registers are numbered.  The function by which Numbered folds over  *)
(* the numbers of the fields.                                              *)
Making(g, base, fields, n) ==
  g = [s \in SUBSET (1..n) |->
        IF s = {} THEN base ELSE MakeRegister(g[s \ {Max(s)}], fields[Max(s)])]

(* There is one for every number of fields.                                *)
LEMMA MakingExists ==
  ASSUME NEW base, NEW fields
  PROVE  \A n \in Nat : \E g : Making(g, base, fields, n)
<1> DEFINE S == {n \in Nat : \E g : Making(g, base, fields, n)}
<1>1. 0 \in S
  <2> DEFINE g == [s \in SUBSET (1..0) |-> base]
  <2>1. \A s \in SUBSET (1..0) : s = {}
    OBVIOUS
  <2>2. Making(g, base, fields, 0)
    BY <2>1 DEF Making
  <2> QED
    BY <2>2
<1>2. \A n \in Nat : n \in S => n + 1 \in S
  <2> SUFFICES ASSUME NEW n \in Nat, NEW f, Making(f, base, fields, n)
               PROVE  \E g : Making(g, base, fields, n + 1)
    OBVIOUS
  <2> DEFINE g == [s \in SUBSET (1..(n + 1)) |->
                    IF n + 1 \in s THEN MakeRegister(f[s \ {n + 1}], fields[n + 1]) ELSE f[s]]
  <2>1. \A s \in SUBSET (1..(n + 1)) : s \ {n + 1} \in SUBSET (1..n) /\ (n + 1 \notin s => s \in SUBSET (1..n))
    OBVIOUS
  <2>2. ASSUME NEW s \in SUBSET (1..(n + 1))
        PROVE  g[s] = IF s = {} THEN base ELSE MakeRegister(g[s \ {Max(s)}], fields[Max(s)])
    <3>1. CASE n + 1 \in s
      <4>1. Max(s) = n + 1 /\ s # {}
        BY <3>1, MaxIsLast
      <4>2. g[s \ {n + 1}] = f[s \ {n + 1}]
        OBVIOUS
      <4> QED
        BY <3>1, <4>1, <4>2
    <3>2. CASE n + 1 \notin s
      <4>1. s \in SUBSET (1..n) /\ g[s] = f[s]
        BY <2>1, <3>2
      <4>2. g[s \ {Max(s)}] = f[s \ {Max(s)}]
        BY <3>2
      <4> HIDE DEF g
      <4> QED
        BY <4>1, <4>2 DEF Making
    <3> QED
      BY <3>1, <3>2
  <2>3. g = [s \in SUBSET (1..(n + 1)) |-> g[s]]
    OBVIOUS
  <2>4. Making(g, base, fields, n + 1)
    <3> HIDE DEF g
    <3> QED
      BY <2>2, <2>3 DEF Making
  <2> QED
    BY <2>4
<1>3. Nat \subseteq S
  <2> HIDE DEF S
  <2> QED
    BY <1>1, <1>2, NaturalInduction
<1> QED
  BY <1>3

(* Numbered makes one register after the other.                            *)
LEMMA MakingSteps ==
  ASSUME NEW T, NEW fields \in Seq(T), NEW addresses
  PROVE  \E f : /\ f[0] = [regs |-> << >>, addresses |-> addresses]
                /\ \A k \in 1..Len(fields) : f[k] = MakeRegister(f[k - 1], fields[k])
                /\ Numbered(fields, addresses) = f[Len(fields)]
<1> DEFINE n == Len(fields)
           base == [regs |-> << >>, addresses |-> addresses]
           g == CHOOSE g : Making(g, base, fields, n)
           f == [k \in 0..n |-> g[1..k]]
<1>1. DOMAIN fields = 1..n /\ n \in Nat
  OBVIOUS
<1>2. Making(g, base, fields, n)
  <2> HIDE DEF base
  <2> QED
    BY <1>1, MakingExists, Zenon
<1>3. Numbered(fields, addresses) = g[1..n]
  BY <1>1 DEF Numbered, FoldLeft, MapThenFoldSet, Making
<1> HIDE DEF g, base
<1>4. f[0] = base
  BY <1>1, <1>2 DEF Making
<1>5. ASSUME NEW k \in 1..n
      PROVE  f[k] = MakeRegister(f[k - 1], fields[k])
  <2>1. k - 1 \in Nat /\ (k - 1) + 1 = k /\ k \in 1..k /\ 1..k \in SUBSET (1..n)
    BY <1>1
  <2>2. Max(1..k) = k
    BY <2>1, MaxIsLast
  <2>3. (1..k) \ {k} = 1..(k - 1)
    BY <2>1
  <2>4. g[1..k] = MakeRegister(g[1..(k - 1)], fields[k])
    BY <1>2, <2>1, <2>2, <2>3 DEF Making
  <2> QED
    BY <1>1, <2>1, <2>4
<1>6. Numbered(fields, addresses) = f[n]
  BY <1>1, <1>3
<1> QED
  <2> HIDE DEF f
  <2> QED
    BY <1>4, <1>5, <1>6 DEF base

CounterOf(f) == Counter(f.proto, f.regtype)

(* The fields before k that take their addresses from a counter.           *)
Before(fields, c, k) == {j \in 1..(k - 1) : CounterOf(fields[j]) = c}

(* How many fields of a counter are before a place, and before the next.   *)
LEMMA BeforeIs ==
  ASSUME NEW fields, NEW c, NEW k \in Nat \ {0}
  PROVE  /\ IsFiniteSet(Before(fields, c, k)) /\ Cardinality(Before(fields, c, k)) \in Nat
         /\ Cardinality(Before(fields, c, k)) <= k - 1
         /\ Cardinality(Before(fields, c, k + 1)) =
              Cardinality(Before(fields, c, k)) + (IF CounterOf(fields[k]) = c THEN 1 ELSE 0)
<1>1. IsFiniteSet(1..(k - 1)) /\ Cardinality(1..(k - 1)) = k - 1
  BY FS_Interval
<1>2. Before(fields, c, k) \in SUBSET (1..(k - 1))
  BY DEF Before
<1>3. /\ IsFiniteSet(Before(fields, c, k)) /\ Cardinality(Before(fields, c, k)) \in Nat
      /\ Cardinality(Before(fields, c, k)) <= k - 1
  BY <1>1, <1>2, FS_Subset, FS_CardinalityType
<1>4. k \notin Before(fields, c, k)
  BY <1>2
<1>5. Before(fields, c, k + 1) = IF CounterOf(fields[k]) = c THEN Before(fields, c, k) \cup {k} ELSE Before(fields, c, k)
  BY DEF Before
<1> QED
  BY <1>3, <1>4, <1>5, FS_AddElement

(* The first addresses, number by number.                                  *)
LEMMA FirstAddressesAre ==
  /\ \A c \in DOMAIN FirstAddresses : FirstAddresses[c] \in Nat
  /\ DOMAIN FirstAddresses = {"dnp3", "dnp3-serial", "bacnet", "iec60870-5-104",
                              "input-register", "holding-register", "discrete-input", "coil"}
  /\ FirstAddresses["discrete-input"] = 10000 /\ FirstAddresses["input-register"] = 30000
  /\ FirstAddresses["holding-register"] = 40000 /\ FirstAddresses["coil"] = 0
<1>1. ToSet(ModbusTypes) = {"input-register", "holding-register", "discrete-input", "coil"}
  BY ShortLists DEF ModbusTypes
<1> QED
  BY <1>1 DEF FirstAddresses

(* The address of a register: the counter's first, and one for each field  *)
(* before it that takes its address from the counter.                      *)
AddressOf(fields, k) ==
  FirstAddresses[CounterOf(fields[k])] + Cardinality(Before(fields, CounterOf(fields[k]), k))

(* Every register takes the first address of its counter and those before  *)
(* it on from there.                                                       *)
LEMMA NumberedIs ==
  ASSUME NEW T, NEW fields \in Seq(T), \A k \in DOMAIN fields : CounterOf(fields[k]) \in DOMAIN FirstAddresses,
         NEW regs, regs = Numbered(fields, FirstAddresses).regs
  PROVE  /\ IsList(regs) /\ DOMAIN regs = 1..Len(fields)
         /\ \A k \in 1..Len(fields) : regs[k] = RegisterAt(fields[k], AddressOf(fields, k))
<1> DEFINE n == Len(fields)
           Reg(k) == RegisterAt(fields[k], AddressOf(fields, k))
           Good(acc, m) ==
             /\ DOMAIN acc = {"regs", "addresses"}
             /\ acc.regs = [k \in 1..m |-> Reg(k)]
             /\ acc.addresses = [c \in DOMAIN FirstAddresses |-> FirstAddresses[c] + Cardinality(Before(fields, c, m + 1))]
<1>1. n \in Nat /\ DOMAIN fields = 1..n
  OBVIOUS
<1>2. PICK f : /\ f[0] = [regs |-> << >>, addresses |-> FirstAddresses]
               /\ \A k \in 1..n : f[k] = MakeRegister(f[k - 1], fields[k])
               /\ Numbered(fields, FirstAddresses) = f[n]
  BY MakingSteps
<1> DEFINE E == {m \in Nat : m <= n => Good(f[m], m)}
<1>3. 0 \in E
  <2>1. \A c : Before(fields, c, 1) = {}
    BY DEF Before
  <2>2. \A c \in DOMAIN FirstAddresses : FirstAddresses[c] = FirstAddresses[c] + Cardinality(Before(fields, c, 1))
    <3>1. \A c : Cardinality(Before(fields, c, 1)) = 0
      BY <2>1, FS_EmptySet
    <3>2. \A c \in DOMAIN FirstAddresses : FirstAddresses[c] \in Nat
      BY FirstAddressesAre
    <3> QED
      BY <3>1, <3>2
  <2>3. FirstAddresses = [c \in DOMAIN FirstAddresses |-> FirstAddresses[c]]
    BY DEF FirstAddresses
  <2>4. FirstAddresses = [c \in DOMAIN FirstAddresses |-> FirstAddresses[c] + Cardinality(Before(fields, c, 1))]
    BY <2>2, <2>3
  <2>5. << >> = [k \in 1..0 |-> Reg(k)]
    <3> HIDE DEF Reg
    <3> QED
      OBVIOUS
  <2>6. Good(f[0], 0)
    <3> HIDE DEF Reg
    <3>1. f[0].regs = << >> /\ f[0].addresses = FirstAddresses /\ DOMAIN f[0] = {"regs", "addresses"} /\ 0 + 1 = 1
      BY <1>2
    <3> QED
      BY <2>4, <2>5, <3>1
  <2> QED
    BY <2>6
<1>4. ASSUME NEW m \in Nat, m \in E
      PROVE  m + 1 \in E
  <2> SUFFICES ASSUME m + 1 <= n
               PROVE  Good(f[m + 1], m + 1)
    OBVIOUS
  <2>1. m + 1 \in 1..n /\ (m + 1) - 1 = m /\ Good(f[m], m)
    BY <1>1, <1>4
  <2> DEFINE field == fields[m + 1]
             c0 == CounterOf(field)
  <2>2. c0 \in DOMAIN FirstAddresses
    BY <1>1, <2>1
  <2>3. f[m + 1] = [regs |-> Append(f[m].regs, RegisterAt(field, f[m].addresses[c0])),
                    addresses |-> [f[m].addresses EXCEPT ![c0] = @ + 1]]
    BY <1>2, <2>1 DEF MakeRegister, CounterOf
  <2>4. RegisterAt(field, f[m].addresses[c0]) = Reg(m + 1)
    BY <2>1, <2>2 DEF AddressOf
  <2>5. f[m + 1].regs = [k \in 1..(m + 1) |-> Reg(k)]
    <3> HIDE DEF Reg
    <3>1. f[m].regs = [k \in 1..m |-> Reg(k)]
      BY <2>1
    <3>2. f[m + 1].regs = Append(f[m].regs, Reg(m + 1))
      BY <2>3, <2>4
    <3>3. Append([k \in 1..m |-> Reg(k)], Reg(m + 1)) = [k \in 1..(m + 1) |-> Reg(k)]
      <4> DEFINE R == {Reg(k) : k \in 1..(m + 1)}
      <4>1. \A k \in 1..(m + 1) : Reg(k) \in R
        OBVIOUS
      <4> HIDE DEF R
      <4>2. [k \in 1..m |-> Reg(k)] \in Seq(R)
        BY <4>1
      <4> QED
        BY <4>1, <4>2
    <3> QED
      BY <3>1, <3>2, <3>3
  <2>6. f[m + 1].addresses =
          [c \in DOMAIN FirstAddresses |-> FirstAddresses[c] + Cardinality(Before(fields, c, (m + 1) + 1))]
    <3>1. f[m].addresses = [c \in DOMAIN FirstAddresses |-> FirstAddresses[c] + Cardinality(Before(fields, c, m + 1))]
      BY <2>1
    <3>2. f[m + 1].addresses = [f[m].addresses EXCEPT ![c0] = @ + 1]
      BY <2>3
    <3>3. \A c \in DOMAIN FirstAddresses :
            /\ FirstAddresses[c] \in Nat
            /\ Cardinality(Before(fields, c, m + 1)) \in Nat
            /\ Cardinality(Before(fields, c, (m + 1) + 1)) = Cardinality(Before(fields, c, m + 1)) + (IF c0 = c THEN 1 ELSE 0)
      <4>1. \A c \in DOMAIN FirstAddresses : FirstAddresses[c] \in Nat
        BY FirstAddressesAre
      <4> DEFINE k == m + 1
      <4>2. k \in Nat \ {0}
        OBVIOUS
      <4> HIDE DEF k
      <4>3. \A c : /\ Cardinality(Before(fields, c, k)) \in Nat
                   /\ Cardinality(Before(fields, c, k + 1)) =
                        Cardinality(Before(fields, c, k)) + (IF CounterOf(fields[k]) = c THEN 1 ELSE 0)
        BY <4>2, BeforeIs
      <4> QED
        BY <4>1, <4>3 DEF k
    <3> DEFINE D == DOMAIN FirstAddresses
               Was(c) == FirstAddresses[c] + Cardinality(Before(fields, c, m + 1))
               Is(c) == FirstAddresses[c] + Cardinality(Before(fields, c, (m + 1) + 1))
    <3>4. \A c \in D : Is(c) = IF c = c0 THEN Was(c) + 1 ELSE Was(c)
      BY <3>3
    <3>5. f[m].addresses = [c \in D |-> Was(c)]
      BY <3>1
    <3> HIDE DEF c0, field, Reg, D, Was, Is
    <3>6. f[m + 1].addresses = [c \in D |-> IF c = c0 THEN Was(c) + 1 ELSE Was(c)]
      BY <3>2, <3>5
    <3>7. f[m + 1].addresses = [c \in D |-> Is(c)]
      BY <3>4, <3>6
    <3> QED
      BY <3>7 DEF D, Is
  <2>7. DOMAIN f[m + 1] = {"regs", "addresses"}
    BY <2>3
  <2> QED
    BY <2>5, <2>6, <2>7
<1>5. n \in E
  <2> HIDE DEF E
  <2> QED
    BY <1>1, <1>3, <1>4, NaturalInduction
<1>6. regs = [k \in 1..n |-> Reg(k)]
  <2> HIDE DEF Reg
  <2> QED
    BY <1>1, <1>2, <1>5
<1>7. IsList(regs) /\ DOMAIN regs = 1..n
  <2> HIDE DEF Reg
  <2>1. regs = [k \in 1..n |-> regs[k]]
    BY <1>6
  <2> QED
    BY <1>1, <2>1, FunctionIsSequence DEF IsList
<1> QED
  BY <1>6, <1>7

-----------------------------------------------------------------------------
(* The fields of a field device.                                           *)
LEMMA FlattenLists ==
  ASSUME NEW n \in Nat, NEW seqs, seqs = [k \in 1..n |-> seqs[k]], \A k \in 1..n : IsList(seqs[k])
  PROVE  IsList(FlattenSeq(seqs)) /\ ToSet(FlattenSeq(seqs)) = UNION {ToSet(seqs[k]) : k \in 1..n}
<1> DEFINE T == UNION {ToSet(seqs[k]) : k \in 1..n}
<1>1. \A k \in 1..n : seqs[k] \in Seq(T)
  <2> TAKE k \in 1..n
  <2>1. seqs[k] \in Seq(ToSet(seqs[k])) /\ ToSet(seqs[k]) \subseteq T
    BY DEF IsList
  <2> HIDE DEF T
  <2> QED
    BY <2>1
<1> HIDE DEF T
<1>2. seqs \in Seq(Seq(T)) /\ DOMAIN seqs = 1..n
  BY <1>1
<1>3. /\ FlattenSeq(seqs) \in Seq(T)
      /\ ToSet(FlattenSeq(seqs)) = UNION {ToSet(seqs[k]) : k \in DOMAIN seqs}
  BY <1>2, FlattenIs
<1> QED
  BY <1>2, <1>3, ListOfSequence

IsField(f) ==
  /\ f.proto \in ToSet(ParserProtocols) \ {"sunspec"}
  /\ \E k \in 1..4 : f.regtype = RegType(f.proto, k)

(* The fields of a device over a protocol have a counter.                  *)
LEMMA DeviceFieldsAre ==
  ASSUME NEW infra \in DOMAIN Types, NEW device, device.type \in DOMAIN Types[infra], NEW proto \in ToSet(ParserProtocols)
  PROVE  IsList(DeviceFields(infra, device, proto)) /\ \A f \in ToSet(DeviceFields(infra, device, proto)) : IsField(f)
<1>1. CASE proto = "sunspec"
  BY <1>1, ShortLists DEF DeviceFields
<1>2. CASE proto # "sunspec"
  <2> DEFINE fields(k) == Types[infra][device.type][k]
             of(k) == [j \in DOMAIN fields(k) |->
                        [dev |-> device.name, field |-> fields(k)[j], kind |-> Kinds[k], proto |-> proto,
                         regtype |-> RegType(proto, k)]]
  <2>1. DeviceFields(infra, device, proto) = of(1) \o of(2) \o of(3) \o of(4)
    BY <1>2 DEF DeviceFields
  <2>2. ASSUME NEW k \in 1..4
        PROVE  IsList(of(k)) /\ \A f \in ToSet(of(k)) : IsField(f)
    <3>1. fields(k) \in Seq(STRING)
      BY FieldsAreLists
    <3>2. DOMAIN fields(k) = 1..Len(fields(k)) /\ Len(fields(k)) \in Nat
      <4> HIDE DEF fields
      <4> QED
        BY <3>1
    <3>3. of(k) = [j \in 1..Len(fields(k)) |-> of(k)[j]]
      <4> HIDE DEF fields
      <4> QED
        BY <3>2
    <3>4. IsList(of(k))
      <4> HIDE DEF of, fields
      <4> QED
        BY <3>2, <3>3, FunctionIsSequence DEF IsList
    <3>5. \A f \in ToSet(of(k)) : f.proto = proto /\ f.regtype = RegType(proto, k)
      <4> HIDE DEF fields
      <4> QED
        BY DEF ToSet
    <3> HIDE DEF of, fields
    <3> QED
      BY <1>2, <3>4, <3>5 DEF IsField
  <2>3. /\ IsList(of(1)) /\ IsList(of(2)) /\ IsList(of(3)) /\ IsList(of(4))
        /\ \A k \in 1..4 : \A f \in ToSet(of(k)) : IsField(f)
    <3> HIDE DEF of
    <3> QED
      BY <2>2
  <2> HIDE DEF of
  <2>4. IsList(of(1) \o of(2)) /\ ToSet(of(1) \o of(2)) = ToSet(of(1)) \cup ToSet(of(2))
    BY <2>3, ListOfConcat
  <2>5. /\ IsList(of(1) \o of(2) \o of(3))
        /\ ToSet(of(1) \o of(2) \o of(3)) = ToSet(of(1)) \cup ToSet(of(2)) \cup ToSet(of(3))
    BY <2>3, <2>4, ListOfConcat
  <2>6. /\ IsList(of(1) \o of(2) \o of(3) \o of(4))
        /\ ToSet(of(1) \o of(2) \o of(3) \o of(4)) = ToSet(of(1)) \cup ToSet(of(2)) \cup ToSet(of(3)) \cup ToSet(of(4))
    BY <2>3, <2>5, ListOfConcat
  <2> QED
    BY <2>1, <2>3, <2>6
<1> QED
  BY <1>1, <1>2

(* So have all fields of a field device.                                   *)
LEMMA FieldsAre ==
  ASSUME scenario \in Scenarios, NEW h \in Hosts, TypesKnown(h)
  PROVE  IsList(FieldsOf(h)) /\ \A f \in ToSet(FieldsOf(h)) : IsField(f)
<1> DEFINE P == Parsed(h)
           seqs == [k \in DOMAIN P |-> h.devices[P[k]]]
           fields == [k \in DOMAIN P |-> ProtocolFields(h, P[k])]
<1>1. P \in Seq(ToSet(ParserProtocols)) /\ ToSet(P) \subseteq DOMAIN h.devices
  BY DeviceNamesAre
<1>2. DOMAIN P = 1..Len(P) /\ Len(P) \in Nat /\ \A k \in DOMAIN P : P[k] \in DOMAIN h.devices /\ P[k] \in ToSet(ParserProtocols)
  <2>1. DOMAIN P = 1..Len(P) /\ Len(P) \in Nat /\ \A k \in DOMAIN P : P[k] \in ToSet(ParserProtocols)
    BY <1>1
  <2>2. \A k \in DOMAIN P : P[k] \in ToSet(P)
    BY DEF ToSet
  <2> QED
    BY <1>1, <2>1, <2>2
<1>3. \A p \in DOMAIN h.devices : IsList(h.devices[p])
  BY ScenariosAssumption DEF IsScenario, Hosts, IsList
<1>4. ToSet(DevicesOf(h)) = UNION {ToSet(h.devices[P[k]]) : k \in DOMAIN P}
  <2> HIDE DEF P
  <2>1. DevicesOf(h) = FlattenSeq(seqs)
    BY DEF DevicesOf, P
  <2>2. seqs = [k \in 1..Len(P) |-> seqs[k]] /\ \A k \in 1..Len(P) : seqs[k] = h.devices[P[k]] /\ IsList(seqs[k])
    BY <1>2, <1>3
  <2> HIDE DEF seqs
  <2>3. ToSet(FlattenSeq(seqs)) = UNION {ToSet(seqs[k]) : k \in 1..Len(P)}
    BY <1>2, <2>2, FlattenLists
  <2> QED
    BY <1>2, <2>1, <2>2, <2>3
<1>5. \A d \in ToSet(DevicesOf(h)) : d.type \in DOMAIN Types[h.infra]
  BY DEF TypesKnown, ToSet
<1>6. ASSUME NEW k \in DOMAIN P
      PROVE  IsList(ProtocolFields(h, P[k])) /\ \A f \in ToSet(ProtocolFields(h, P[k])) : IsField(f)
  <2>1. PICK p \in ToSet(ParserProtocols) : p = P[k] /\ p \in DOMAIN h.devices
    BY <1>2, <1>6
  <2> DEFINE devices == h.devices[p]
             parts == [j \in DOMAIN devices |-> DeviceFields(h.infra, devices[j], p)]
  <2>2. DOMAIN devices = 1..Len(devices) /\ Len(devices) \in Nat
    <3>1. IsList(devices)
      BY <1>3, <2>1
    <3> QED
      BY <3>1 DEF IsList
  <2>3. \A j \in DOMAIN devices : devices[j].type \in DOMAIN Types[h.infra]
    <3>1. \A j \in DOMAIN devices : devices[j] \in ToSet(h.devices[P[k]])
      BY <2>1 DEF ToSet
    <3> QED
      BY <1>4, <1>5, <1>6, <3>1
  <2>4. \A j \in DOMAIN devices : IsList(parts[j]) /\ \A f \in ToSet(parts[j]) : IsField(f)
    <3> HIDE DEF devices
    <3> QED
      BY <2>1, <2>3, DeviceFieldsAre DEF TypesKnown
  <2>5. parts = [j \in 1..Len(devices) |-> parts[j]]
    <3> HIDE DEF devices
    <3> QED
      BY <2>2
  <2>6. ProtocolFields(h, p) = FlattenSeq(parts)
    BY DEF ProtocolFields
  <2> HIDE DEF parts, devices
  <2>7. IsList(FlattenSeq(parts)) /\ ToSet(FlattenSeq(parts)) = UNION {ToSet(parts[j]) : j \in 1..Len(devices)}
    BY <2>2, <2>4, <2>5, FlattenLists
  <2> QED
    BY <2>1, <2>2, <2>4, <2>6, <2>7
<1>7. FieldsOf(h) = FlattenSeq(fields)
  BY DEF FieldsOf
<1> HIDE DEF P
<1>8. fields = [k \in 1..Len(P) |-> fields[k]] /\ \A k \in 1..Len(P) : fields[k] = ProtocolFields(h, P[k]) /\ IsList(fields[k])
  BY <1>2, <1>6
<1> HIDE DEF fields
<1>9. IsList(FlattenSeq(fields)) /\ ToSet(FlattenSeq(fields)) = UNION {ToSet(fields[k]) : k \in 1..Len(P)}
  BY <1>2, <1>8, FlattenLists
<1> QED
  BY <1>2, <1>6, <1>7, <1>8, <1>9

(* The counter of a field, by which its registers are counted.             *)
LEMMA CounterIs ==
  ASSUME NEW f, IsField(f)
  PROVE  /\ CounterOf(f) \in DOMAIN FirstAddresses
         /\ \A c \in DOMAIN FirstAddresses : (f.proto = c \/ f.regtype = c) <=> CounterOf(f) = c
         /\ IF f.proto = "modbus" THEN CounterOf(f) = f.regtype /\ f.regtype \in ToSet(ModbusTypes) ELSE CounterOf(f) = f.proto
<1>2. ToSet(ParserProtocols) = {"bacnet", "dnp3", "dnp3-serial", "modbus", "sunspec", "iec60870-5-104"}
  <2>1. DOMAIN ParserProtocols = 1..6
    BY DEF ParserProtocols
  <2> QED
    BY <2>1 DEF ParserProtocols, ToSet
<1>3. ToSet(ModbusTypes) = {"input-register", "holding-register", "discrete-input", "coil"}
  BY ShortLists DEF ModbusTypes
<1>4. f.proto \in {"bacnet", "dnp3", "dnp3-serial", "modbus", "iec60870-5-104"}
  BY <1>2 DEF IsField
<1>5. f.regtype \in IF f.proto = "modbus" THEN ToSet(ModbusTypes)
                    ELSE {"analog-input", "analog-output", "binary-input", "binary-output"}
  <2>1. PICK k \in 1..4 : f.regtype = RegType(f.proto, k)
    BY DEF IsField
  <2>2. k \in {1, 2, 3, 4}
    BY <2>1
  <2> QED
    BY <1>3, <2>1, <2>2 DEF RegType, ModbusTypes, PointTypes
<1>6. CounterOf(f) = IF f.proto = "modbus" THEN f.regtype ELSE f.proto
  BY DEF CounterOf, Counter
<1> QED
  BY <1>3, <1>4, <1>5, <1>6, FirstAddressesAre

-----------------------------------------------------------------------------
(* Every config has the registers of a field device, numbered from the     *)
(* first addresses.                                                        *)
IsConfigOf(config, h) == TypesKnown(h) /\ config.regs = Numbered(FieldsOf(h), FirstAddresses).regs

ConfigsInv ==
  InStart =>
    /\ IsList(local.configs)
    /\ \A config \in ToSet(local.configs) : \E h \in ToSet(OfType("fd-server")) : IsConfigOf(config, h)

(* Every step keeps the configurations as their hosts number them.         *)
LEMMA ConfigsInvNext ==
  ASSUME Places, LocalInv, ConfigsInv, [Next]_vars
  PROVE  ConfigsInv'
<1>1. OfType("fd-server")' = OfType("fd-server")
  BY ScenarioIsKept, ScenarioStays
<1> SUFFICES ASSUME InStart'
             PROVE  /\ IsList(local'.configs)
                    /\ \A config \in ToSet(local'.configs) : \E h \in ToSet(OfType("fd-server")) : IsConfigOf(config, h)
  BY <1>1 DEF ConfigsInv, IsConfigOf, TypesKnown
<1>2. CASE StartExperiment
  <2>1. local' = NoLocals
    BY <1>2, LocalEnds DEF LocalInv, StartExperiment, Idle, InStart
  <2>2. local'.configs = << >>
    BY <2>1 DEF NoLocals
  <2> QED
    BY <2>2, ShortLists
<1>3. CASE InStart /\ FieldDeviceServer
  <2>1. PICK h, config : /\ h = OfType("fd-server")[step.i] /\ ServerWorks(h)
                         /\ config = FieldDeviceConfig(h, Numbered(FieldsOf(h), FirstAddresses).regs)
                         /\ local'.configs = Append(local.configs, config)
    BY <1>3, LocalTurns
  <2>2. h \in ToSet(OfType("fd-server"))
    <3>1. TurnAt("fd-servers", h)
      BY <1>3, <2>1, TurnsAre
    <3> QED
      BY <2>1, <3>1 DEF TurnAt, LoopHosts, ToSet
  <2>3. IsConfigOf(config, h)
    BY <2>1 DEF IsConfigOf, FieldDeviceConfig, ServerWorks, TypesKnown
  <2>4. IsList(local'.configs) /\ ToSet(local'.configs) = ToSet(local.configs) \cup {config}
    BY <1>3, <2>1, ListOfAppend DEF ConfigsInv
  <2> QED
    BY <1>3, <2>2, <2>3, <2>4 DEF ConfigsInv
<1>4. CASE InStart /\ ~FieldDeviceServer /\ (Turning \/ Proceeding \/ UNCHANGED vars)
  <2>1. local'.configs = local.configs
    BY <1>4, LocalTurns, LocalEnds DEF Turning
  <2> QED
    BY <1>4, <2>1 DEF ConfigsInv
<1> QED
  BY <1>2, <1>3, <1>4, StepsOfStart

(* The registers of a field device whose fields are all known.             *)
LEMMA RegistersAre ==
  ASSUME NEW fields, IsList(fields), \A f \in ToSet(fields) : IsField(f),
         NEW regs, regs = Numbered(fields, FirstAddresses).regs
  PROVE  /\ DOMAIN regs = 1..Len(fields) /\ Len(fields) \in Nat
         /\ \A k \in 1..Len(fields) :
              /\ IsField(fields[k]) /\ regs[k].proto = fields[k].proto /\ regs[k].regtype = fields[k].regtype
              /\ regs[k].addr = AddressOf(fields, k)
<1>1. fields \in Seq(ToSet(fields))
  BY DEF IsList
<1>2. DOMAIN fields = 1..Len(fields) /\ Len(fields) \in Nat
  BY <1>1
<1>3. \A k \in 1..Len(fields) : IsField(fields[k])
  BY <1>2 DEF ToSet
<1>4. \A k \in DOMAIN fields : CounterOf(fields[k]) \in DOMAIN FirstAddresses
  BY <1>2, <1>3, CounterIs
<1>5. DOMAIN regs = 1..Len(fields) /\ \A k \in 1..Len(fields) : regs[k] = RegisterAt(fields[k], AddressOf(fields, k))
  BY <1>1, <1>4, NumberedIs
<1>6. \A f, a : RegisterAt(f, a).proto = f.proto /\ RegisterAt(f, a).regtype = f.regtype /\ RegisterAt(f, a).addr = a
  BY DEF RegisterAt
<1> QED
  BY <1>2, <1>3, <1>5, <1>6

(* They are counted by their counters.                                     *)
LEMMA RegistersAreCounted ==
  ASSUME NEW fields, IsList(fields), \A f \in ToSet(fields) : IsField(f),
         NEW regs, regs = Numbered(fields, FirstAddresses).regs, NEW c \in DOMAIN FirstAddresses, NEW k \in Counted(regs, c)
  PROVE  regs[k].addr = FirstAddresses[c] + Cardinality({j \in Counted(regs, c) : j < k})
<1> DEFINE n == Len(fields)
<1>1. /\ DOMAIN regs = 1..n /\ n \in Nat
      /\ \A j \in 1..n :
           /\ IsField(fields[j]) /\ regs[j].proto = fields[j].proto /\ regs[j].regtype = fields[j].regtype
           /\ regs[j].addr = AddressOf(fields, j)
  BY RegistersAre
<1> HIDE DEF n
<1>2. \A j \in 1..n : (regs[j].proto = c \/ regs[j].regtype = c) <=> CounterOf(fields[j]) = c
  BY <1>1, CounterIs
<1>3. Counted(regs, c) = {j \in 1..n : CounterOf(fields[j]) = c}
  BY <1>1, <1>2 DEF Counted
<1>4. k \in 1..n /\ CounterOf(fields[k]) = c
  BY <1>3
<1>5. {j \in Counted(regs, c) : j < k} = Before(fields, c, k)
  <2>1. \A j \in 1..n : j < k <=> j \in 1..(k - 1)
    BY <1>1, <1>4
  <2>2. \A j \in 1..(k - 1) : j \in 1..n
    BY <1>1, <1>4
  <2> QED
    BY <1>3, <2>1, <2>2 DEF Before
<1> QED
  BY <1>1, <1>4, <1>5 DEF AddressOf

(* Two fields with one counter have different addresses.                   *)
LEMMA AddressesDiffer ==
  ASSUME NEW fields, NEW j \in Nat \ {0}, NEW k \in Nat \ {0}, j < k, CounterOf(fields[j]) = CounterOf(fields[k]),
         CounterOf(fields[k]) \in DOMAIN FirstAddresses
  PROVE  AddressOf(fields, j) # AddressOf(fields, k)
<1> DEFINE c == CounterOf(fields[k])
<1>1. Before(fields, c, j + 1) \subseteq Before(fields, c, k)
  BY DEF Before
<1>2. /\ Cardinality(Before(fields, c, j)) \in Nat /\ Cardinality(Before(fields, c, k)) \in Nat
      /\ Cardinality(Before(fields, c, j + 1)) = Cardinality(Before(fields, c, j)) + 1
      /\ IsFiniteSet(Before(fields, c, k))
  BY BeforeIs
<1>3. Cardinality(Before(fields, c, j + 1)) <= Cardinality(Before(fields, c, k))
  <2>1. Before(fields, c, j + 1) \in SUBSET Before(fields, c, k)
    BY <1>1
  <2> HIDE DEF c
  <2> QED
    BY <1>2, <2>1, FS_Subset
<1>4. FirstAddresses[c] \in Nat
  BY FirstAddressesAre
<1>5. AddressOf(fields, j) = FirstAddresses[c] + Cardinality(Before(fields, c, j))
  BY DEF AddressOf
<1>6. AddressOf(fields, k) = FirstAddresses[c] + Cardinality(Before(fields, c, k))
  BY DEF AddressOf
<1> HIDE DEF c
<1> QED
  BY <1>2, <1>3, <1>4, <1>5, <1>6

(* The ranges of the Modbus types do not meet.                             *)
LEMMA RangesAreApart ==
  ASSUME NEW u \in ToSet(ModbusTypes), NEW v \in ToSet(ModbusTypes), u \in InputTypes <=> v \in InputTypes, u # v,
         NEW a \in Nat, NEW b \in Nat, a < MostRegisters, b < MostRegisters
  PROVE  FirstAddresses[u] + a # FirstAddresses[v] + b
<1>1. ToSet(ModbusTypes) = {"input-register", "holding-register", "discrete-input", "coil"}
  BY ShortLists DEF ModbusTypes
<1>2. \/ u = "input-register" /\ v = "discrete-input"
      \/ u = "discrete-input" /\ v = "input-register"
      \/ u = "holding-register" /\ v = "coil"
      \/ u = "coil" /\ v = "holding-register"
  BY <1>1 DEF InputTypes
<1>3. /\ FirstAddresses["discrete-input"] = 10000 /\ FirstAddresses["input-register"] = 30000
      /\ FirstAddresses["holding-register"] = 40000 /\ FirstAddresses["coil"] = 0
  BY FirstAddressesAre
<1> QED
  BY <1>2, <1>3 DEF MostRegisters

(* So two registers of a device differ in type or address.                 *)
LEMMA ModbusAddressesDiffer ==
  ASSUME NEW fields, NEW n \in Nat, n <= MostRegisters, NEW j \in 1..n, NEW k \in 1..n,
         IsField(fields[j]), IsField(fields[k]), fields[j].proto = "modbus", fields[k].proto = "modbus",
         NEW u, u = fields[j].regtype, NEW v, v = fields[k].regtype, u \in InputTypes <=> v \in InputTypes, u # v
  PROVE  AddressOf(fields, j) # AddressOf(fields, k)
<1>1. CounterOf(fields[j]) = u /\ CounterOf(fields[k]) = v /\ u \in ToSet(ModbusTypes) /\ v \in ToSet(ModbusTypes)
  BY CounterIs
<1>2. PICK a : a = Cardinality(Before(fields, u, j))
  OBVIOUS
<1>3. PICK b : b = Cardinality(Before(fields, v, k))
  OBVIOUS
<1>4. a \in Nat /\ a <= j - 1
  <2>1. j \in Nat \ {0}
    OBVIOUS
  <2> QED
    BY <1>2, <2>1, BeforeIs
<1>5. b \in Nat /\ b <= k - 1
  <2>1. k \in Nat \ {0}
    OBVIOUS
  <2> QED
    BY <1>3, <2>1, BeforeIs
<1>6. a < MostRegisters /\ b < MostRegisters
  BY <1>4, <1>5 DEF MostRegisters
<1>7. AddressOf(fields, j) = FirstAddresses[u] + a /\ AddressOf(fields, k) = FirstAddresses[v] + b
  BY <1>1, <1>2, <1>3 DEF AddressOf
<1> QED
  BY <1>1, <1>4, <1>5, <1>6, <1>7, RangesAreApart

(* One name of a register in the config of a field device that speaks one  *)
(* protocol stands for one register.                                       *)
LEMMA NamesAreUnique ==
  ASSUME NEW fields, IsList(fields), Len(fields) <= MostRegisters, \A f \in ToSet(fields) : IsField(f),
         NEW regs, regs = Numbered(fields, FirstAddresses).regs,
         NEW p, \A r \in ToSet(regs) : r.proto = p,
         NEW j \in DOMAIN regs, NEW k \in DOMAIN regs, IoName(regs[j]) = IoName(regs[k])
  PROVE  j = k
<1> DEFINE n == Len(fields)
<1>1. /\ DOMAIN regs = 1..n /\ n \in Nat
      /\ \A i \in 1..n :
           /\ IsField(fields[i]) /\ regs[i].proto = fields[i].proto /\ regs[i].regtype = fields[i].regtype
           /\ regs[i].addr = AddressOf(fields, i)
  BY RegistersAre
<1>2. AddressOf(fields, j) = AddressOf(fields, k) /\ (fields[j].regtype \in InputTypes <=> fields[k].regtype \in InputTypes)
  <2>1. regs[j].addr = regs[k].addr /\ (regs[j].regtype \in InputTypes) = (regs[k].regtype \in InputTypes)
    BY DEF IoName
  <2> QED
    BY <1>1, <2>1
<1>3. fields[j].proto = p /\ fields[k].proto = p
  BY <1>1 DEF ToSet
<1>4. CounterOf(fields[j]) = CounterOf(fields[k]) /\ CounterOf(fields[k]) \in DOMAIN FirstAddresses
  <2>1. CASE p = "modbus"
    <3>1. fields[j].regtype = fields[k].regtype
      BY <1>1, <1>2, <1>3, <2>1, ModbusAddressesDiffer
    <3> QED
      BY <1>1, <1>3, <2>1, <3>1, CounterIs
  <2>2. CASE p # "modbus"
    BY <1>1, <1>3, <2>2, CounterIs
  <2> QED
    BY <2>1, <2>2
<1>5. j \in Nat \ {0} /\ k \in Nat \ {0}
  BY <1>1
<1>6. ~(j < k) /\ ~(k < j)
  BY <1>2, <1>4, <1>5, AddressesDiffer
<1> QED
  BY <1>5, <1>6

(* Configurations that their hosts number have their points numbered.      *)
LEMMA PointsOfConfigs ==
  ASSUME FewRegisters, Places, LocalInv, ConfigsInv
  PROVE  PointsAreNumbered
<1> SUFFICES ASSUME NEW config \in ToSet(local.configs)
             PROVE  /\ \A c \in DOMAIN FirstAddresses :
                         \A k \in Counted(config.regs, c) :
                           config.regs[k].addr = FirstAddresses[c] + Cardinality({j \in Counted(config.regs, c) : j < k})
                    /\ Cardinality({r.proto : r \in ToSet(config.regs)}) = 1 =>
                         \A j, k \in DOMAIN config.regs : IoName(config.regs[j]) = IoName(config.regs[k]) => j = k
  BY DEF PointsAreNumbered
<1>1. InStart
  <2>1. NoLocals.configs = << >>
    BY DEF NoLocals
  <2> QED
    BY <2>1, ShortLists DEF LocalInv
<1>2. PICK h \in ToSet(OfType("fd-server")) : IsConfigOf(config, h)
  BY <1>1 DEF ConfigsInv
<1>3. scenario \in Scenarios /\ h \in Hosts /\ h.type = "fd-server"
  BY HostsAreListed DEF Places
<1> DEFINE regs == config.regs
           fields == FieldsOf(h)
<1>4. IsList(fields) /\ (\A f \in ToSet(fields) : IsField(f)) /\ regs = Numbered(fields, FirstAddresses).regs
  BY <1>2, <1>3, FieldsAre DEF IsConfigOf
<1>5. Len(fields) <= MostRegisters
  BY <1>2, <1>3 DEF FewRegisters, IsConfigOf, Hosts
<1> HIDE DEF regs, fields
<1>6. \A c \in DOMAIN FirstAddresses : \A k \in Counted(regs, c) :
        regs[k].addr = FirstAddresses[c] + Cardinality({j \in Counted(regs, c) : j < k})
  BY <1>4, RegistersAreCounted
<1>7. ASSUME Cardinality({r.proto : r \in ToSet(regs)}) = 1
      PROVE  \A j, k \in DOMAIN regs : IoName(regs[j]) = IoName(regs[k]) => j = k
  <2> DEFINE S == {r.proto : r \in ToSet(regs)}
  <2>1. IsFiniteSet(S)
    <3>1. DOMAIN regs = 1..Len(fields) /\ Len(fields) \in Nat
      BY <1>4, RegistersAre
    <3>2. IsFiniteSet(1..Len(fields))
      BY <3>1, FS_Interval
    <3> DEFINE f == [k \in 1..Len(fields) |-> regs[k].proto]
    <3>3. S = {f[k] : k \in 1..Len(fields)}
      BY <3>1 DEF ToSet
    <3>4. f \in Surjection(1..Len(fields), S)
      <4>1. f \in [1..Len(fields) -> S]
        BY <3>1 DEF ToSet
      <4> HIDE DEF f, S
      <4> QED
        BY <3>3, <4>1 DEF Surjection
    <3> HIDE DEF f, S
    <3> QED
      BY <3>2, <3>4, FS_Surjection
  <2>2. PICK p : S = {p}
    <3> HIDE DEF S
    <3>1. Cardinality(S) = 1
      BY <1>7 DEF S
    <3> QED
      BY <2>1, <3>1, FS_Singleton
  <2>3. \A r \in ToSet(regs) : r.proto = p
    BY <2>2
  <2> SUFFICES ASSUME NEW j \in DOMAIN regs, NEW k \in DOMAIN regs, IoName(regs[j]) = IoName(regs[k])
               PROVE  j = k
    OBVIOUS
  <2> HIDE DEF S
  <2>4. PICK fs, rs : fs = fields /\ rs = regs
    OBVIOUS
  <2>5. /\ IsList(fs) /\ Len(fs) <= MostRegisters /\ (\A f \in ToSet(fs) : IsField(f)) /\ rs = Numbered(fs, FirstAddresses).regs
        /\ \A r \in ToSet(rs) : r.proto = p
        /\ j \in DOMAIN rs /\ k \in DOMAIN rs /\ IoName(rs[j]) = IoName(rs[k])
    BY <1>4, <1>5, <2>3, <2>4
  <2> QED
    BY <2>5, NamesAreUnique
<1> QED
  BY <1>6, <1>7 DEF regs

-----------------------------------------------------------------------------
(* The inductive invariant.                                                *)
SceptreInv ==
  /\ Places /\ TopologyInv /\ LocalInv /\ OutputsInv /\ RepeatInv
  /\ FederatesInv /\ ObjectsInv /\ OpcsInv /\ ScadasInv /\ HistoriansInv /\ ConfigsInv

(* It holds in the beginning, when no process runs.                        *)
LEMMA SceptreInvInit ==
  ASSUME Init
  PROVE  SceptreInv
<1>1. ~InStart
  BY DEF Init, ProcessInit, InStart
<1>2. Places /\ TopologyInv /\ LocalInv /\ RepeatInv
  BY InitPlaces, TopologyInvInit, LocalInvInit, RepeatInvInit
<1>3. OutputsInv /\ FederatesInv /\ ObjectsInv /\ OpcsInv /\ ScadasInv /\ HistoriansInv /\ ConfigsInv
  BY <1>1 DEF OutputsInv, FederatesInv, ObjectsInv, OpcsInv, ScadasInv, HistoriansInv, ConfigsInv
<1> QED
  BY <1>2, <1>3 DEF SceptreInv

(* Every step keeps it.                                                    *)
LEMMA SceptreInvNext ==
  ASSUME SceptreInv, [Next]_vars
  PROVE  SceptreInv'
<1>1. Places' /\ TopologyInv' /\ LocalInv'
  BY NextPlaces, TopologyInvNext, LocalInvNext DEF SceptreInv
<1>2. OutputsInv' /\ RepeatInv' /\ FederatesInv'
  BY OutputsInvNext, RepeatInvNext, FederatesInvNext DEF SceptreInv
<1>3. ObjectsInv' /\ OpcsInv'
  BY <1>1, ObjectsInvNext, OpcsInvNext DEF SceptreInv
<1>4. ScadasInv' /\ HistoriansInv' /\ ConfigsInv'
  BY ScadasInvNext, HistoriansInvNext, ConfigsInvNext DEF SceptreInv
<1> QED
  BY <1>1, <1>2, <1>3, <1>4 DEF SceptreInv

(* So it always holds.                                                     *)
LEMMA SceptreInvAlways == Spec => []SceptreInv
<1>1. Init => SceptreInv
  BY SceptreInvInit
<1>2. SceptreInv /\ [Next]_vars => SceptreInv'
  BY SceptreInvNext
<1> QED
  BY <1>1, <1>2, PTL DEF Spec

(* When a start succeeds, every file of the app that the topology gives to *)
(* a node exists, but for the start script of a field device under Windows *)
(* and the objects of a PowerWorld provider that is not the last.          *)
THEOREM InjectsWritten == Spec => []InjectsAreWritten
<1>1. SceptreInv => InjectsAreWritten
  BY InjectsAtTheEnd DEF SceptreInv
<1> QED
  BY <1>1, SceptreInvAlways, PTL

(* A start after the first leaves the experiment's topology as it is.      *)
THEOREM StartsRepeat == Spec => StartAgainChangesNothing
<1>1. SceptreInv /\ [Next]_vars => [clean => doc' = doc]_vars
  BY CleanSteps DEF SceptreInv
<1> QED
  BY <1>1, SceptreInvAlways, PTL DEF Spec, StartAgainChangesNothing

(* What the HELICS simulator subscribes to of a provider, and where it     *)
(* sends commands to it, is what the provider's federate publishes and     *)
(* where it has endpoints.                                                 *)
THEOREM FederatesMeet == Spec => []ReadersMeetPublishers
<1>1. SceptreInv => ReadersMeetPublishers
  BY ReadersAtTheEnd DEF SceptreInv
<1> QED
  BY <1>1, SceptreInvAlways, PTL

(* The PowerWorld provider whose objects are written is given the names of *)
(* all devices it feeds.                                                   *)
THEOREM ObjectsListed == Spec => []ObjectsAreListed
<1>1. SceptreInv => ObjectsAreListed
  BY ObjectsAtTheEnd DEF SceptreInv
<1> QED
  BY <1>1, SceptreInvAlways, PTL

(* The historians and SCADA servers of a subnet use the same OPC server,   *)
(* and ask it for what it polls.                                           *)
THEOREM SubnetsAgree == Spec => []OneOpcPerSubnet
<1>1. SceptreInv => OneOpcPerSubnet
  BY OpcsAtTheEnd DEF SceptreInv
<1> QED
  BY <1>1, SceptreInvAlways, PTL

(* Every field device numbers its registers from the first addresses,      *)
(* whatever devices came before it; their names are unique in a device of  *)
(* one protocol that has no more registers than the Modbus types have room *)
(* for.                                                                    *)
THEOREM PointsNumbered ==
  ASSUME FewRegisters
  PROVE  Spec => []PointsAreNumbered
<1>1. SceptreInv => PointsAreNumbered
  BY FewRegisters, PointsOfConfigs DEF SceptreInv
<1> QED
  BY <1>1, SceptreInvAlways, PTL
=============================================================================
