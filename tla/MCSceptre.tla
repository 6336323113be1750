------------------------------ MODULE MCSceptre ------------------------------
(* Scenarios for Sceptre: the control ones vary field devices, providers   *)
(* and federates, the network ones who is on whose subnet.                 *)
EXTENDS Sceptre

Iface(net, n, vlan, serial) == [name |-> vlan, address |-> <<net, n>>, vlan |-> vlan, serial |-> serial]

NodeWith(hostname, os, ifaces) ==
  [hostname |-> hostname, boots |-> TRUE, os |-> os, ifaces |-> ifaces,
   labels |-> << >>, federate |-> None, injects |-> << >>]

Ot(n) == Iface("ot", n, "ot", FALSE)
It(n) == Iface("it", n, "it", FALSE)
Mgmt(n) == Iface("mgmt", n, "mgmt", FALSE)
Serial(n) == Iface("serial", n, None, TRUE)

NoHelics == [name |-> None, broker |-> None, publications |-> {}, subscriptions |-> {}]

Host(hostname, type) ==
  [hostname |-> hostname, type |-> type, labels |-> {}, simulator |-> "", configFile |-> FALSE,
   gt |-> FALSE, hil |-> << >>, provider |-> None, infra |-> "hvac", devices |-> << >>, server |-> None,
   rtus |-> None, scadas |-> None, project |-> FALSE, automation |-> FALSE, interval |-> FALSE,
   backup |-> FALSE, primary |-> None, connectToScada |-> FALSE, fields |-> {}, helics |-> NoHelics]

ProviderHost(hostname, simulator) ==
  [Host(hostname, "provider") EXCEPT !.simulator = simulator, !.labels = {"helics-federate", "elk"},
                                     !.gt = TRUE, !.hil = <<"hil-" \o hostname>>]

FdHost(hostname, provider, infra, devices) ==
  [Host(hostname, "fd-server") EXCEPT !.provider = provider, !.infra = infra, !.devices = devices]

Dev(name, type) == [name |-> name, type |-> type, extra |-> FALSE]

Fans == <<Dev("fan-1", "fan"), Dev("heater-1", "heater")>>

(* What the first field device serves: one protocol, several, ones that    *)
(* need a serial interface, and metadata the stage refuses.                *)
DeviceChoices ==
  {<<"hvac", "dnp3" :> Fans>>,
   <<"hvac", ("modbus" :> Fans) @@ ("bacnet" :> <<Dev("room-1", "room")>>)>>,
   <<"hvac", ("modbus" :> Fans) @@ ("dnp3-serial" :> Fans)>>,
   <<"generic", ("modbus" :> <<Dev("a", "analog-read"), Dev("b", "binary-read"), Dev("c", "binary-read-write"),
                               Dev("d", "binary-read")>>)>>,
   <<"power-distribution", ("iec60870-5-104" :> <<Dev("bus-1", "bus"), Dev("bus-2", "bus")>>)>>,
   <<"power-transmission", ("sunspec" :> <<Dev("bus-1", "bus")>>) @@ ("modbus" :> <<Dev("bus-1", "bus")>>)>>,
   <<"power-distribution", ("sunspec" :> <<Dev("inv-1", "inverter")>>)>>,
   <<"power-transmission", ("modbus" :> <<Dev("inv-1", "inverter")>>)>>,
   <<"hvac", ("dnp3" :> <<[Dev("fan-1", "fan") EXCEPT !.extra = TRUE]>>)>>,
   <<"nuclear", ("dnp3" :> Fans)>>}

Simulators == {"PyPower", "PowerWorld", "PowerWorldDynamics", "RTDS", "Siren", "Simulink", "GenericPython", ""}

Fd1Ifaces == {<<Mgmt(3), Ot(3)>>, <<Iface("mgmt", 3, "MGMT", FALSE), Serial(3)>>}

ClientIfaces == {<<Mgmt(5), Ot(5)>>, <<Mgmt(5), Serial(5)>>, <<Mgmt(5)>>}

ControlTopology(os, fd1, client) ==
  <<NodeWith("p1", os, <<Mgmt(1)>>), NodeWith("p2", "linux", <<Mgmt(2)>>),
    NodeWith("fd1", os, fd1), NodeWith("fd2", "linux", <<Ot(4), Mgmt(4)>>),
    NodeWith("client", "linux", client), NodeWith("reader", "linux", <<Mgmt(6)>>),
    NodeWith("box", "linux", <<Mgmt(7)>>), NodeWith("box2", "linux", <<Mgmt(8)>>),
    NodeWith("fep", "linux", <<Ot(9), Mgmt(9)>>)>>

Reader(broker) ==
  [Host("reader", "simulator") EXCEPT !.simulator = "Helics", !.labels = {"helics-federate", "helics-broker"},
                                      !.helics.broker = broker]

ControlHosts(sim1, sim2, name1, choice, provider2, server, broker, feps, elks) ==
  <<[ProviderHost("p1", sim1) EXCEPT !.helics.name = name1], ProviderHost("p2", sim2),
    [FdHost("fd1", "p1", choice[1], choice[2]) EXCEPT !.server = server],
    FdHost("fd2", provider2, "hvac", "modbus" :> <<Dev("fan-2", "fan"), Dev("cooler-2", "cooler")>>),
    [Host("client", "fd-client") EXCEPT !.rtus = <<"fd2", "nobody">>],
    Reader(broker)>> \o feps \o elks

Scenario(topology, hosts, overrides) == [topology |-> topology, hosts |-> hosts, overrides |-> overrides]

Box == Host("box", "elk")

DeviceScenarios ==
  {Scenario(ControlTopology("linux", fd1, <<Mgmt(5), Ot(5)>>),
            ControlHosts("PyPower", sim2, None, choice, "p2", None, "reader", << >>, <<Box>>),
            {<<"fd1", "config.xml">>}) :
     fd1 \in Fd1Ifaces, choice \in DeviceChoices, sim2 \in {"PowerWorldHelics", "OPALRT"}}

ProviderScenarios ==
  {Scenario(ControlTopology(os, <<Mgmt(3), Ot(3)>>, client),
            ControlHosts(sim1, sim2, name1, <<"hvac", "dnp3" :> Fans>>, "p2", None, None, << >>, << >>), {}) :
     os \in {"linux", "windows"}, client \in ClientIfaces, sim1 \in Simulators, sim2 \in {"PowerWorld", "Siren"},
     name1 \in {None, "grid"}}

Fep == [Host("fep", "fep") EXCEPT !.provider = "p1", !.devices = "dnp3" :> Fans, !.rtus = <<"fd2">>]

FailingScenarios ==
  {Scenario(ControlTopology("linux", <<Mgmt(3), Ot(3)>>, <<Mgmt(5), Ot(5)>>),
            ControlHosts("PyPower", "RTDS", None, <<"hvac", "dnp3" :> Fans>>, p2, server, broker, << >>, elks), {}) :
     p2 \in {"p2", "p3"}, server \in {None, "box", "nobody"}, broker \in {None, "nobody"},
     elks \in {<<Box>>, <<Box, Host("box2", "elk")>>}}
  \cup {Scenario(ControlTopology("linux", <<Mgmt(3), Ot(3)>>, <<Mgmt(5)>>), <<Reader(None)>>, {})}

FepScenarios ==
  {Scenario(ControlTopology("linux", <<Mgmt(3), Ot(3)>>, <<Mgmt(5), Ot(5)>>),
            ControlHosts("PyPower", "RTDS", None, <<"hvac", "dnp3" :> Fans>>, "p2", None, None, <<Fep>>, << >>), {})}

(* Two OPC servers, a backup, two SCADA servers, two historians and their  *)
(* secondaries, on two subnets.                                            *)
NetworkTopology(opc1, opc2, bak, scada, hist, hist2) ==
  <<NodeWith("p1", "linux", <<Mgmt(1)>>), NodeWith("fd1", "linux", <<Ot(3), Mgmt(3)>>),
    NodeWith("fd2", "linux", <<Ot(4), Mgmt(4)>>),
    NodeWith("opc1", "windows", opc1), NodeWith("opc2", "windows", opc2), NodeWith("opc-bak", "windows", bak),
    NodeWith("scada", "windows", scada), NodeWith("hist", "windows", hist), NodeWith("hist2", "windows", hist2),
    NodeWith("hist-secondary", "windows", <<Ot(20)>>), NodeWith("hist-bak", "windows", <<It(21)>>),
    NodeWith("hmi", "windows", <<Ot(22)>>), NodeWith("eng", "windows", <<Ot(23)>>)>>

NetworkHosts(opcs, project, scadas, direct, fields) ==
  <<ProviderHost("p1", "PyPower"), FdHost("fd1", "p1", "hvac", "dnp3" :> Fans),
    FdHost("fd2", "p1", "hvac", ("modbus" :> <<Dev("fan-2", "fan")>>) @@ ("bacnet" :> <<Dev("fan-3", "fan")>>))>>
  \o opcs \o
  <<[Host("scada", "scada-server") EXCEPT !.project = project, !.automation = TRUE],
    [Host("hist", "historian") EXCEPT !.fields = fields],
    [Host("hist2", "historian") EXCEPT !.connectToScada = direct],
    [Host("hist-secondary", "historian") EXCEPT !.backup = TRUE, !.primary = "hist"],
    [Host("hist-bak", "historian") EXCEPT !.backup = TRUE, !.primary = "hist"],
    [Host("hmi", "hmi") EXCEPT !.scadas = scadas],
    [Host("eng", "engineer-workstation") EXCEPT !.interval = project, !.rtus = IF direct THEN <<"fd1">> ELSE None]>>

Opc1 == [Host("opc1", "opc") EXCEPT !.rtus = <<"fd1", "nobody">>]
Opc2 == [Host("opc2", "opc") EXCEPT !.rtus = <<"fd2">>]
OpcBak == [Host("opc-bak", "opc") EXCEPT !.backup = TRUE]

NetworkScenarios ==
  {Scenario(NetworkTopology(<<Mgmt(10), Ot(10)>>, opc2, <<It(12)>>, scada, hist, <<It(15), Mgmt(15)>>),
            NetworkHosts(opcs, project, scadas, direct, fields), {<<"hist", "historian.ps1">>}) :
     opc2 \in {<<Ot(11)>>, <<It(11)>>}, scada \in {<<Ot(13), It(13)>>, <<It(13)>>, <<Mgmt(13)>>},
     hist \in {<<Mgmt(14), Ot(14)>>, <<It(14)>>},
     opcs \in {<<Opc1, Opc2>>, <<Opc1, OpcBak>>, <<OpcBak>>, << >>}, project \in BOOLEAN,
     scadas \in {None, <<"scada">>}, direct \in BOOLEAN, fields \in {{}, {"speed"}}}
  \cup {Scenario(NetworkTopology(<<Mgmt(10)>>, <<It(11)>>, <<It(12)>>, <<It(13)>>, <<It(14)>>, <<It(15)>>),
                 NetworkHosts(<<Opc1>>, FALSE, None, TRUE, {}), {}),
        Scenario(NetworkTopology(<<Ot(10)>>, <<It(11)>>, <<It(12)>>, <<It(13)>>, <<Mgmt(14)>>, <<It(15)>>),
                 NetworkHosts(<<Opc1>>, TRUE, None, TRUE, {}), {})}

MCScenarios == DeviceScenarios \cup ProviderScenarios \cup FailingScenarios \cup FepScenarios \cup NetworkScenarios

(* What the theorem about registers supposes holds of all of them.         *)
ASSUME RegistersAssumption == FewRegisters
=============================================================================
