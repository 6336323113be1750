---------------------------- MODULE MCExperiment ----------------------------
(* Scenarios for Experiment: those about devices vary what is served and   *)
(* who connects to whom, those about brokers where the federates connect.  *)
EXTENDS Experiment

Var(var, type) == [var |-> var, type |-> type]

MCInfrastructures ==
  [power |-> [bus     |-> <<Var("voltage", "analog-read"), Var("status", "binary-read")>>,
              breaker |-> <<Var("status", "binary-read"), Var("current", "analog-read"),
                            Var("controls", "binary-read-write")>>],
   three |-> [bus     |-> <<Var("Va-mag", "analog-read")>>]]

Iface(name, address) == [name |-> name, address |-> address]

NodeOf(hostname, ifaces, federate) ==
  [hostname |-> hostname, boots |-> TRUE, ifaces |-> ifaces, labels |-> << >>,
   federate |-> federate, injects |-> << >>]

TopologyWith(federate) ==
  <<NodeOf("root", <<Iface("MGMT", None), Iface("IF0", "ip-root"), Iface("IF1", "ip-root-1")>>, None),
    NodeOf("sub", <<Iface("IF0", "ip-sub")>>, None),
    NodeOf("s1", <<Iface("IF0", "ip-s1")>>, None),
    NodeOf("s2", <<Iface("IF0", "ip-s2")>>, None),
    NodeOf("f1", <<Iface("IF0", "ip-f1")>>, None),
    NodeOf("f2", <<Iface("IF0", "ip-f2")>>, None),
    NodeOf("c1", <<Iface("IF0", "ip-c1")>>, None),
    NodeOf("guest", <<Iface("IF0", "ip-guest")>>, federate)>>

Device(hostname) ==
  [hostname |-> hostname, dnp3 |-> None, modbus |-> None, infra |-> None, broker |-> None,
   upstream |-> << >>, downstream |-> {}, injects |-> << >>]

ServerDevice(hostname, dnp3, modbus, broker) ==
  [Device(hostname) EXCEPT !.dnp3 = dnp3, !.modbus = modbus, !.broker = broker]

FepDevice(hostname, upstream, downstream) ==
  [Device(hostname) EXCEPT !.upstream = upstream, !.downstream = downstream,
                           !.injects = <<[src |-> <<"api.key">>, dst |-> "certs"]>>]

ClientDevice(hostname, upstream) == [Device(hostname) EXCEPT !.upstream = upstream]

Points1 == <<[name |-> "bus-1", type |-> "bus"], [name |-> "brk-1", type |-> "breaker"]>>
Points2 == <<[name |-> "brk-2", type |-> "breaker"], [name |-> "bus-2", type |-> "bus"]>>
Clash == <<[name |-> "bus-1", type |-> "breaker"]>>

Broker(at, base) == [at |-> at, base |-> base]
Elsewhere == Broker(IpRef("broker.other.net", None), None)

Scenario(topology, servers, feps, clients, helicsMd, broker, root, infrastructure) ==
  [topology |-> topology, servers |-> servers, feps |-> feps, clients |-> clients,
   helicsMd |-> helicsMd, broker |-> broker, root |-> root, infrastructure |-> infrastructure]

DeviceScenario(s1, s2, feps, clients, helicsMd) ==
  Scenario(TopologyWith(None), <<s1, s2>>, feps, clients, helicsMd,
           IF helicsMd THEN Elsewhere ELSE None, None, "power")

S1Choices == {ServerDevice("s1", Points1, None, Elsewhere), ServerDevice("s1", None, Points1, Elsewhere),
              ServerDevice("s1", Points1, Points1, Elsewhere), ServerDevice("s1", Points1, Clash, Elsewhere)}
S2Choices == {ServerDevice("s2", Points2, None, Elsewhere), ServerDevice("s2", None, Points2, Elsewhere)}

Downstreams == {{}, {"modbus"}, {"dnp3", "modbus"}}
F1Upstreams == {<<"s1">>, <<"f2">>, <<"s2", "s1">>, <<"f2", "s2">>, <<"nobody">>}
F2Upstreams == {<<"s2">>, <<"s2", "s1">>, <<"f1">>}

DeviceScenarios ==
  {DeviceScenario(s1, s2, <<FepDevice("f1", u1, d1), FepDevice("f2", u2, d2)>>,
                  clients, md) :
     s1 \in S1Choices, s2 \in S2Choices, u1 \in F1Upstreams, d1 \in Downstreams,
     u2 \in F2Upstreams, d2 \in {{}, {"modbus"}}, md \in BOOLEAN,
     clients \in {<< >>, <<ClientDevice("c1", <<"f1">>)>>, <<ClientDevice("c1", <<"s1", "f2">>)>>}}

Config(broker, count, wait) == [broker |-> broker, count |-> count, wait |-> wait]

Guests ==
  {None, << >>,
   <<Config(IpRef("ip-root", None), 2, FALSE)>>,
   <<Config(IpRef("ip-sub", 24000), 3, TRUE), Config(IpRef("ip-root", 24000), 1, TRUE)>>,
   <<Config(IpRef("ip-sub", 24001), 1, TRUE)>>,
   <<Config(IpRef("ip-sub", None), 1, TRUE)>>,
   <<Config(HostRef("root", "IF0"), 2, TRUE)>>,
   <<Config(HostRef("sub", "IF0"), 1, TRUE)>>,
   <<Config(IpRef("127.0.0.1", None), 1, TRUE)>>}

Roots == {None, HostRef("root", "IF0"), HostRef("root", "MGMT"), IpRef("ip-root", 24000), IpRef("ip-nowhere", None)}

AppBrokers ==
  {None, Elsewhere, Broker(HostRef("root", "IF0"), None), Broker(HostRef("root", "IF0"), 2),
   Broker(HostRef("sub", None), None), Broker(HostRef("root", None), None)}

BrokerScenarios ==
  {Scenario(TopologyWith(guest),
            <<ServerDevice("s1", None, Points1, None), ServerDevice("s2", None, Points2, b2)>>,
            << >>, << >>, b # None, b, root, "power") :
     guest \in Guests, root \in Roots, b \in AppBrokers,
     b2 \in {None, Broker(HostRef("sub", "IF0"), 0)}}

MCScenarios == DeviceScenarios \cup BrokerScenarios

(* The second run's: the app's infrastructure is not the default one.      *)
InfrastructureScenarios ==
  {Scenario(TopologyWith(None),
            <<ServerDevice("s1", None, <<[name |-> "bus-1", type |-> "bus"]>>, Elsewhere)>>,
            << >>, << >>, FALSE, None, None, i) : i \in {"power", "three"}}
=============================================================================
