----------------------------- MODULE MCWindFarm -----------------------------
(* Scenarios for WindFarm: profiles of every kind, alone and two of them,  *)
(* and turbines of the standalone app.                                     *)
EXTENDS WindFarm

NoTemplate == [vcpus |-> None, memory |-> None, image |-> None, ifaces |-> << >>]

Base == [name |-> None, plugin |-> "builtin", version |-> None, count |-> 1, containers |-> 0, perNode |-> 0,
         prefix |-> "node", scripts |-> << >>, template |-> NoTemplate, networks |-> << >>, gateway |-> None,
         extNet |-> None, helics |-> None, topic |-> FALSE, columns |-> << >>, replay |-> FALSE]

Net(name, network) == [name |-> <<name>>, network |-> network, start |-> None, gateway |-> None]

AddressGateway == [ip |-> 254, vlan |-> None]
VlanGateway(name) == [ip |-> None, vlan |-> <<name>>]

Nested(containers, perNode) == [Base EXCEPT !.containers = containers, !.perNode = perNode]

Connected(p, networks, gateway) == [p EXCEPT !.networks = networks, !.gateway = gateway]

NetworkChoices ==
  {<<Net("mgmt", 0)>>, <<Net("gone", 1), Net("mgmt", 4), Net("ot", 1)>>, <<Net("gone", None)>>, <<Net("ot", None)>>}

Builtins ==
  {Nested(c, n) : c \in 0..5, n \in 0..3}
  \cup {[Base EXCEPT !.count = 0], [Base EXCEPT !.count = 3, !.scripts = <<<<"a.sh">>, <<"b.sh">>>>],
        [Base EXCEPT !.plugin = None], [Base EXCEPT !.plugin = "other"], [Base EXCEPT !.version = <<3, 0, 0>>],
        [Base EXCEPT !.version = <<1, 0, 0>>, !.template = [vcpus |-> 4, memory |-> 8, image |-> "i", ifaces |-> <<Trunk, Trunk>>]]}
  \cup {Connected(Nested(3, 2), networks, gateway) :
          networks \in NetworkChoices, gateway \in {None, AddressGateway, VlanGateway("mgmt"), VlanGateway("ot")}}

Columns3 == <<"speed.high", "dir.high", "pressure">>

ExtNet == [name |-> <<"ot">>, network |-> 0, start |-> None, gateway |-> AddressGateway]

Farm(count, perNode) ==
  [Base EXCEPT !.name = "farm", !.plugin = "wind_turbine", !.count = count, !.perNode = perNode, !.extNet = ExtNet,
               !.columns = Columns3, !.replay = TRUE]

ByHost(host, iface, base) == [host |-> <<host>>, iface |-> iface, ip |-> None, base |-> base]
ByAddress == [host |-> None, iface |-> None, ip |-> <<"it", 9>>, base |-> None]
NoBroker == [host |-> None, iface |-> None, ip |-> None, base |-> None]

Brokers == {ByHost("broker", None, 2), ByHost("broker", "IF1", 0), ByHost("broker", "IF9", 2),
            ByHost("broker", None, None), ByHost("nobody", None, 2), ByAddress, NoBroker}

FarmSizes == {Farm(1, 0), Farm(1, 1), Farm(1, 4), Farm(1, 6), Farm(1, 7), Farm(2, 5), Farm(2, 6), Farm(2, 8),
              Farm(2, 12), Farm(3, 4), Farm(3, 12), Farm(3, 18)}

Farms ==
  FarmSizes
  \cup {[Farm(2, n) EXCEPT !.helics = b] : n \in {3, 4, 6, 12}, b \in Brokers}
  \cup {[Farm(1, 6) EXCEPT !.topic = TRUE], [Farm(1, 6) EXCEPT !.replay = FALSE], [Farm(1, 6) EXCEPT !.extNet = None],
        [Farm(0, 6) EXCEPT !.replay = FALSE], [Farm(2, 6) EXCEPT !.name = None]}
  \cup {[Farm(2, 6) EXCEPT !.extNet = [ExtNet EXCEPT !.start = s, !.network = n, !.name = <<name>>]] :
          s \in {None, 10}, n \in {None, 0, 3}, name \in {"ot", "gone"}}

Second(p) == [p EXCEPT !.name = "second", !.prefix = "second"]

Pairs ==
  {<<Nested(3, 2), Farm(1, 4)>>, <<Farm(1, 4), Second(Farm(1, 6))>>, <<Nested(3, 2), Nested(2, 1)>>,
   <<Nested(3, 2), Second(Nested(2, 1))>>, <<Farm(1, 6), [Second(Farm(1, 6)) EXCEPT !.helics = ByHost("broker", None, 1)]>>,
   <<Connected(Nested(2, 1), <<Net("mgmt", 0)>>, None), Second(Connected(Nested(2, 1), <<Net("mgmt", 8)>>, None))>>}

NodeWith(hostname, addresses) ==
  [hostname |-> hostname, boots |-> TRUE, labels |-> << >>, federate |-> None, injects |-> << >>,
   ifaces |-> [k \in DOMAIN addresses |-> [name |-> <<"IF0", "IF1">>[k], address |-> addresses[k]]],
   vcpus |-> 1, memory |-> 1, image |-> "i"]

BrokerNode == NodeWith(<<"broker">>, <<<<"it", 1>>, <<"ot", 1>>>>)

Scenario(name, topology) ==
  [app |-> name, profiles |-> << >>, root |-> FALSE, topology |-> topology, vlans |-> {<<"mgmt">>, <<"ot">>},
   taps |-> <<"mgmt">> :> 7, hosts |-> << >>, columns |-> Columns3, replay |-> <<"weather.csv">>, broker |-> NoBroker]

OfScale(profiles) == [Scenario("scale", <<BrokerNode>>) EXCEPT !.profiles = profiles]

ScaleScenarios ==
  {OfScale(<<p>>) : p \in Builtins \cup Farms} \cup {OfScale(ps) : ps \in Pairs}
  \cup {[OfScale(<<p>>) EXCEPT !.root = TRUE] : p \in {Nested(3, 2), [Base EXCEPT !.plugin = None]}}

(* Turbines of nodes; the second may lack a device.                        *)
Turbine(t) ==
  [main |-> <<t, "main">>, anemo |-> <<t, "anemo">>, yaw |-> <<t, "yaw">>,
   blades |-> <<<<t, "blade", 1>>, <<t, "blade", 2>>>>]

TurbineNodes(t, n) ==
  <<NodeWith(<<t, "main">>, <<<<"it", n>>>>), NodeWith(<<t, "anemo">>, <<<<"it", n + 1>>>>),
    NodeWith(<<t, "yaw">>, <<<<"it", n + 2>>>>), NodeWith(<<t, "blade", 1>>, <<<<"it", n + 3>>>>),
    NodeWith(<<t, "blade", 2>>, <<<<"it", n + 4>>>>)>>

Host0 == [hostname |-> None, type |-> "main-controller", wild |-> FALSE, turbines |-> << >>, topic |-> FALSE,
          columns |-> None, replay |-> None, injects |-> << >>]

Wild(ts) == [Host0 EXCEPT !.hostname = <<"pattern">>, !.wild = TRUE, !.turbines = [k \in DOMAIN ts |-> Turbine(ts[k])],
                          !.topic = TRUE, !.injects = <<[src |-> <<"flow">>, dst |-> "flow"]>>]

Single(t, topic) == [Host0 EXCEPT !.hostname = <<t, "main">>, !.turbines = <<Turbine(t)>>, !.topic = topic]

Helper(t, type, columns) ==
  [Host0 EXCEPT !.hostname = <<t, type>>, !.type = IF type = "anemo" THEN "anemometer" ELSE "yaw-controller",
                !.columns = columns]

Verbose(t, topic, columns) == <<Single(t, topic), Helper(t, "anemo", columns), Helper(t, "yaw", None)>>

OfTurbines(hosts, broker, topology) ==
  [Scenario("wind-turbine", <<BrokerNode>> \o topology) EXCEPT !.hosts = hosts, !.broker = broker]

TwoTurbines == TurbineNodes("t1", 10) \o TurbineNodes("t2", 20)

HostChoices ==
  {<<Wild(<<"t1", "t2">>)>>, Verbose("t1", TRUE, <<"speed.high", "dir.low">>),
   Verbose("t1", FALSE, None) \o Verbose("t2", TRUE, <<"pressure">>), Verbose("t1", TRUE, None) \o <<Wild(<<"t2">>)>>,
   <<Single("t1", FALSE)>>, <<Single("t1", FALSE), Helper("t1", "anemo", None)>>,
   <<Single("t1", FALSE), [Helper("t1", "anemo", None) EXCEPT !.type = "other"], Helper("t1", "yaw", None)>>,
   <<Single("t1", FALSE), Helper("t1", "anemo", None), [Helper("t1", "yaw", None) EXCEPT !.type = "other"]>>}

TurbineScenarios ==
  {OfTurbines(hosts, broker, topology) :
     hosts \in HostChoices, broker \in {ByHost("broker", None, 2), ByHost("broker", "IF9", 2), ByAddress, NoBroker},
     topology \in {TwoTurbines, TurbineNodes("t1", 10), RemoveAt(TwoTurbines, 8)}}

MCScenarios == ScaleScenarios \cup TurbineScenarios

(* What the theorems suppose holds of all of them.                         *)
ASSUME NetworksAssumption == ScenariosKeepNetworksApart
ASSUME DevicesAssumption == ScenariosKeepDevicesApart
=============================================================================
