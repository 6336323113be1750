-------------------------------- MODULE OtSim --------------------------------
(***************************************************************************)
(* The pre-start of the ot-sim app (apps/otsim): it writes the config of   *)
(* every OT device of the scenario.  Field device servers serve registers  *)
(* over DNP3 and Modbus and feed them from the HELICS federate their I/O   *)
(* module is; front-end processors (FEPs) are clients of what is upstream  *)
(* of them and serve it again; field device clients read from either.  The *)
(* address of a register is never stated: both ends count it out for       *)
(* themselves.                                                             *)
(*                                                                         *)
(* A device is a record                                                    *)
(*   hostname    its node                                                  *)
(*   dnp3, modbus  the field devices it serves over the protocol, records  *)
(*               of a name and a type, or None (servers only)              *)
(*   infra       its infrastructure, or None                               *)
(*   broker      its HELICS broker, or None: [at, base], a reference and   *)
(*               the base-fed-count or None                                *)
(*   upstream    who it connects to (FEPs and clients)                     *)
(*   downstream  the protocols it serves (FEPs only)                       *)
(*   injects     the certificates and flows its metadata names             *)
(* A reference to an address is "hostname|iface" or "ip[:port]".           *)
(***************************************************************************)
EXTENDS AppProcess, OtRegisters

CONSTANTS
  Infrastructures,      \* for each name a function from types of device to their variables
  DefaultInfrastructure \* "power-distribution"

Protocols == {"modbus", "dnp3"}

(* What the metadata of a scenario are: every device is a node of its own, *)
(* and lists where the code loops over lists.                              *)
Distinct(devices) == \A j, k \in DOMAIN devices : devices[j].hostname = devices[k].hostname => j = k

Names(devices) == {devices[k].hostname : k \in DOMAIN devices}

DevicesOf(s) == ToSet(s.servers) \cup ToSet(s.feps) \cup ToSet(s.clients)

IsDevice(d, topology) ==
  /\ d.upstream \in Seq(ToSet(d.upstream)) /\ d.downstream \subseteq Protocols
  /\ d.dnp3 # None => d.dnp3 \in Seq(ToSet(d.dnp3))
  /\ d.modbus # None => d.modbus \in Seq(ToSet(d.modbus))
  /\ InTopology(topology, d.hostname)
  /\ d.injects \in Seq(ToSet(d.injects))

IsScenario(s) ==
  /\ IsTopology(s.topology)
  /\ \A n \in ToSet(s.topology) :
       /\ {"boots", "ifaces", "labels"} \subseteq DOMAIN n
       /\ n.injects \in Seq(ToSet(n.injects))
       /\ n.federate # None => n.federate \in Seq(ToSet(n.federate))
  /\ s.servers \in Seq(ToSet(s.servers)) /\ s.feps \in Seq(ToSet(s.feps)) /\ s.clients \in Seq(ToSet(s.clients))
  /\ Distinct(s.servers) /\ Distinct(s.feps) /\ Distinct(s.clients)
  /\ Names(s.servers) \cap Names(s.feps) = {} /\ Names(s.clients) \cap (Names(s.servers) \cup Names(s.feps)) = {}
  /\ \A d \in DevicesOf(s) : IsDevice(d, s.topology)

ASSUME ScenariosAssumption == \A s \in Scenarios : IsScenario(s)

(* What the apps call the files they put into nodes.  No file the user     *)
(* puts into a node, in the topology or in a device's metadata, takes the  *)
(* place of another or of one of the apps: nothing in the code ensures it. *)
OwnPlaces == {"ot-sim-config", "wait-broker", "helics-broker"}

KeepsPlaces(s) ==
  /\ \A n \in ToSet(s.topology) :
       /\ \A i, j \in DOMAIN n.injects : n.injects[i].dst = n.injects[j].dst => i = j
       /\ \A i \in ToSet(n.injects) : i.dst \notin OwnPlaces
  /\ \A d \in DevicesOf(s) :
       /\ LET given == ToSet(d.injects) \cup ToSet(ExtractNode(s.topology, d.hostname).injects)
          IN  \A i, j \in given : i.dst = j.dst => i = j
       /\ \A i \in ToSet(d.injects) : i.dst \notin OwnPlaces

ASSUME PlacesAssumption == \A s \in Scenarios : KeepsPlaces(s)

ASSUME InfrastructuresAssumption ==
  \A infra \in DOMAIN Infrastructures : \A type \in DOMAIN Infrastructures[infra] :
    Infrastructures[infra][type] \in Seq(ToSet(Infrastructures[infra][type]))

VARIABLES
  registers,     \* what each known device gives access to; a FEP has nothing until it is processed
  processed,     \* the devices whose processing has ended
  calls,         \* the calls of FEP.process under way, the innermost last
  brokers,       \* federates of the brokers the app is to start
  waits          \* the addresses there is a wait script for

otVars == <<registers, processed, calls, brokers, waits>>

HostRef(hostname, iface) == [host |-> hostname, iface |-> iface, ip |-> None, port |-> None]
IpRef(ip, port) == [host |-> None, iface |-> None, ip |-> ip, port |-> port]

(* Where a sub broker listens when nothing else is said. *)
SubBrokerPort == 24000

(* The IP a reference stands for, its port left out. *)
IpOf(ref) == IF ref.host # None THEN ExtractNodeInterfaceIp(nodes, ref.host, ref.iface) ELSE ref.ip

UsesHelics == scenario.root # None

ConfigInject(hostname) == [src |-> <<"ot-sim", hostname>>, dst |-> "ot-sim-config"]
WaitInject(src) == [src |-> src, dst |-> "wait-broker"]
BrokerInject(src) == [src |-> src, dst |-> "helics-broker"]

OtInit == registers = << >> /\ processed = {} /\ calls = << >> /\ brokers = << >> /\ waits = << >>

OtReset == registers' = << >> /\ processed' = {} /\ calls' = << >> /\ brokers' = << >> /\ waits' = << >>

StartOtSim == Launch("ot-sim", "servers") /\ nodes' = doc

-----------------------------------------------------------------------------
(* Registers: the variables of a list of field devices, in order; those of *)
(* a device by protocol, in the order of the Python dict.                  *)
Mapping(infra) == IF infra \in DOMAIN Infrastructures THEN Infrastructures[infra] ELSE << >>

VariablesOf(d, mapping) ==
  [v \in DOMAIN mapping[d.type] |->
    [tag |-> <<d.name, mapping[d.type][v].var>>, type |-> mapping[d.type][v].type]]

Registers(devices, mapping) == FlattenSeq([k \in DOMAIN devices |-> VariablesOf(devices[k], mapping)])

Group(proto, regs) == [proto |-> proto, regs |-> regs]

HasProto(groups, proto) == \E k \in DOMAIN groups : groups[k].proto = proto

RegsOf(groups, proto) == groups[SelectInSeq(groups, LAMBDA g : g.proto = proto)].regs

(* What one upstream device adds to the registers of a FEP. *)
AddGroup(groups, g) ==
  LET k == SelectInSeq(groups, LAMBDA h : h.proto = g.proto)
  IN  IF k = 0 THEN Append(groups, g) ELSE [groups EXCEPT ![k] = Group(g.proto, @.regs \o g.regs)]

\* Mutant: the protocols of a FEP are served in the opposite order.
AllRegsReversed(groups) == FlattenSeq([k \in DOMAIN groups |-> groups[Len(groups) + 1 - k].regs])

AllRegs(groups) == FlattenSeq([k \in DOMAIN groups |-> groups[k].regs])

(* The client sections for a list of devices, Modbus before DNP3.          *)
SectionsFor(u) ==
  LET protos == Select(<<"modbus", "dnp3">>, {p \in Protocols : HasProto(registers[u], p)})
  IN  [k \in DOMAIN protos |-> Section("client", protos[k], u, RegsOf(registers[u], protos[k]))]

ClientSections(upstream) == FlattenSeq([k \in DOMAIN upstream |-> SectionsFor(upstream[k])])

(* A DNP3 client has no master to hang its registers on without a scan rate. *)
NeedsMaster(upstream) == \E k \in DOMAIN upstream : HasProto(registers[upstream[k]], "dnp3")

-----------------------------------------------------------------------------
(* Field device servers. *)
Served(s) == (IF s.dnp3 # None THEN s.dnp3 ELSE << >>) \o (IF s.modbus # None THEN s.modbus ELSE << >>)

HasIo(s) == Served(s) # << >>

(* FieldDeviceServer hands the app's default infrastructure to the wrong   *)
(* parameter of Device, so its registers do not see it; the I/O module does. *)
RegisterMapping(s) == Mapping(IF s.infra # None THEN s.infra ELSE DefaultInfrastructure)
IoMapping(s) == Mapping(IF s.infra # None THEN s.infra ELSE scenario.infrastructure)

Groups(s) ==
  (IF s.dnp3 # None THEN <<Group("dnp3", Registers(s.dnp3, RegisterMapping(s)))>> ELSE << >>)
  \o (IF s.modbus # None THEN <<Group("modbus", Registers(s.modbus, RegisterMapping(s)))>> ELSE << >>)

BrokerOf(s) == IF s.broker # None THEN s.broker ELSE scenario.broker

(* __process_helics_broker_metadata: with the helics app, a broker that is *)
(* not its root gets the port of a sub broker.                             *)
BrokerAddress(broker) ==
  LET ip == IpOf(broker.at)
  IN  IF broker.at.host = None THEN broker.at
      ELSE IpRef(ip, IF UsesHelics /\ ip # IpOf(scenario.root) THEN SubBrokerPort ELSE None)

CountBroker(broker) ==
  IF broker.at.host = None \/ broker.base = None THEN brokers
  ELSE LET feds == IF broker.at.host \in DOMAIN brokers THEN brokers[broker.at.host] ELSE broker.base
       IN  Overlay([h \in {broker.at.host} |-> feds + 1], brokers)

ServerRaises(s) ==
  LET served == Served(s)
  IN  \/ \E k \in DOMAIN served : served[k].type \notin DOMAIN RegisterMapping(s)
      \/ \E j, k \in DOMAIN served : served[j].name = served[k].name /\ served[j] # served[k]
      \/ HasIo(s) /\ \/ BrokerOf(s) = None
                     \/ BrokerOf(s) # None /\ IpOf(BrokerOf(s).at) = None
                     \/ \E k \in DOMAIN served : served[k].type \notin DOMAIN IoMapping(s)

\* Mutant: the wait script is added whether or not the helics app adds its own.
NeedsWaitAlways(addr) == addr.port # SubBrokerPort

NeedsWait(addr) == ~UsesHelics /\ addr.port # SubBrokerPort

WaitFile(addr) ==
  LET k == SelectInSeq(waits, LAMBDA a : a = addr)
  IN  <<"ot-sim-wait", IF k = 0 THEN Len(waits) + 1 ELSE k>>

ServerConfig(s) ==
  [sections |-> [k \in DOMAIN Groups(s) |->
                  Section("server", Groups(s)[k].proto, s.hostname, Groups(s)[k].regs)],
   io |-> IF HasIo(s) THEN {r.tag : r \in ToSet(Registers(Served(s), IoMapping(s)))} ELSE {}]

(* Without devices the server has no I/O module and is no federate. *)
ServerInjects(s, addr) ==
  s.injects \o (IF HasIo(s) /\ NeedsWait(addr) THEN <<WaitInject(WaitFile(addr))>> ELSE << >>)
            \o <<ConfigInject(s.hostname)>>

AnnotateServer(s, addr) ==
  IF HasIo(s)
  THEN AddAnnotation(nodes, s.hostname, <<[broker |-> addr, count |-> 1, wait |-> TRUE]>>)
  ELSE nodes

(* A device becomes known, or what is known of it changes. *)
Known(hostname, groups) == Overlay([h \in {hostname} |-> groups], registers)

Server ==
  /\ app = "ot-sim" /\ At("servers") /\ step.i <= Len(scenario.servers)
  /\ LET s == scenario.servers[step.i]
         addr == IF HasIo(s) THEN BrokerAddress(BrokerOf(s)) ELSE None
         waiting == HasIo(s) /\ NeedsWait(addr) /\ ~Contains(waits, addr)
     IN  /\ ~ServerRaises(s)
         /\ registers' = Known(s.hostname, Groups(s))
         /\ processed' = processed \cup {s.hostname}
         /\ brokers' = IF HasIo(s) THEN CountBroker(BrokerOf(s)) ELSE brokers
         /\ waits' = IF waiting THEN Append(waits, addr) ELSE waits
         /\ nodes' = AddInjects(AnnotateServer(s, addr), s.hostname, ServerInjects(s, addr))
         /\ WriteAll(Overlay(File(<<"ot-sim", s.hostname>>, ServerConfig(s)),
                             IF waiting THEN File(WaitFile(addr), addr.ip) ELSE NoFiles))
  /\ Again
  /\ UNCHANGED <<scenario, doc, starts, app, calls>>

ServerFails ==
  /\ app = "ot-sim" /\ At("servers") /\ step.i <= Len(scenario.servers)
  /\ ServerRaises(scenario.servers[step.i])
  /\ Raise /\ OtReset
  /\ UNCHANGED <<scenario, starts>>

(* All FEPs are known before the first is processed. *)
ServersDone ==
  /\ app = "ot-sim" /\ At("servers") /\ step.i > Len(scenario.servers)
  /\ registers' = Overlay([h \in {f.hostname : f \in ToSet(scenario.feps)} |-> << >>], registers)
  /\ GoTo("feps")
  /\ UNCHANGED <<scenario, doc, files, starts, app, nodes, processed, calls, brokers, waits>>

-----------------------------------------------------------------------------
(* Front-end processors.  Processing one first processes those upstream of *)
(* it; a FEP is marked as processed only when its own processing ends.     *)
FepNamed(hostname) == CHOOSE f \in ToSet(scenario.feps) : f.hostname = hostname

InFeps == app = "ot-sim" /\ At("feps") /\ step.i <= Len(scenario.feps)

ThisFep == scenario.feps[step.i]

\* Mutant: a device that is known is taken as it is, processed or not.
NextUnknown(f) == SelectInSeq(f.upstream, LAMBDA u : u \notin DOMAIN registers)

NextUpstream(f) == SelectInSeq(f.upstream, LAMBDA u : u \notin processed)

CallProcess ==
  /\ InFeps /\ calls = << >> /\ ThisFep.hostname \notin processed
  /\ calls' = <<ThisFep.hostname>>
  /\ UNCHANGED <<processVars, registers, processed, brokers, waits>>

CallUpstream ==
  /\ InFeps /\ calls # << >>
  /\ LET f == FepNamed(Last(calls))
         u == f.upstream[NextUpstream(f)]
     IN  /\ NextUpstream(f) # 0
         /\ u \in DOMAIN registers /\ ~Contains(calls, u)
         /\ calls' = Append(calls, u)
  /\ UNCHANGED <<processVars, registers, processed, brokers, waits>>

(* A name that is no device, or FEPs that are upstream of each other: a    *)
(* KeyError, and the call without end that Python cuts off.                *)
CallFails ==
  /\ InFeps /\ calls # << >>
  /\ LET f == FepNamed(Last(calls))
         u == f.upstream[NextUpstream(f)]
     IN  NextUpstream(f) # 0 /\ (u \notin DOMAIN registers \/ Contains(calls, u))
  /\ Raise /\ OtReset
  /\ UNCHANGED <<scenario, starts>>

UpstreamGroups(f) ==
  FoldLeft(AddGroup, << >>, FlattenSeq([k \in DOMAIN f.upstream |-> registers[f.upstream[k]]]))

ReturnProcess ==
  /\ InFeps /\ calls # << >>
  /\ LET f == FepNamed(Last(calls))
     IN  /\ NextUpstream(f) = 0
         /\ registers' = Known(f.hostname, UpstreamGroups(f))
         /\ processed' = processed \cup {f.hostname}
  /\ calls' = Front(calls)
  /\ UNCHANGED <<processVars, brokers, waits>>

(* DNP3 is served when nothing is said. *)
Serves(f, proto) == proto \in f.downstream \/ (f.downstream = {} /\ proto = "dnp3")

ServerSections(f) ==
  LET protos == Select(<<"dnp3", "modbus">>, {p \in Protocols : Serves(f, p)})
  IN  [k \in DOMAIN protos |-> Section("server", protos[k], f.hostname, AllRegs(registers[f.hostname]))]

FepConfig(f) == [sections |-> ClientSections(f.upstream) \o ServerSections(f), io |-> {}]

FepRaises(f) == NeedsMaster(f.upstream) /\ ~scenario.helicsMd

ConfigureFep ==
  /\ InFeps /\ calls = << >> /\ ThisFep.hostname \in processed
  /\ ~FepRaises(ThisFep)
  /\ Write(<<"ot-sim", ThisFep.hostname>>, FepConfig(ThisFep))
  /\ nodes' = AddInjects(nodes, ThisFep.hostname,
                         Append(ThisFep.injects, ConfigInject(ThisFep.hostname)))
  /\ Again
  /\ UNCHANGED <<scenario, doc, starts, app, otVars>>

FepFails ==
  /\ InFeps /\ calls = << >> /\ ThisFep.hostname \in processed
  /\ FepRaises(ThisFep)
  /\ Raise /\ OtReset
  /\ UNCHANGED <<scenario, starts>>

FepsDone ==
  /\ app = "ot-sim" /\ At("feps") /\ step.i > Len(scenario.feps)
  /\ GoTo("clients")
  /\ UNCHANGED <<scenario, doc, files, starts, app, nodes, otVars>>

-----------------------------------------------------------------------------
(* Field device clients, which are never given a scan rate. *)
InClients == app = "ot-sim" /\ At("clients") /\ step.i <= Len(scenario.clients)

ThisClient == scenario.clients[step.i]

ClientRaises(c) == NextUpstream(c) # 0 \/ (NextUpstream(c) = 0 /\ NeedsMaster(c.upstream))

Client ==
  /\ InClients /\ ~ClientRaises(ThisClient)
  /\ registers' = Known(ThisClient.hostname, << >>)
  /\ processed' = processed \cup {ThisClient.hostname}
  /\ Write(<<"ot-sim", ThisClient.hostname>>, [sections |-> ClientSections(ThisClient.upstream), io |-> {}])
  /\ nodes' = AddInjects(nodes, ThisClient.hostname,
                         Append(ThisClient.injects, ConfigInject(ThisClient.hostname)))
  /\ Again
  /\ UNCHANGED <<scenario, doc, starts, app, calls, brokers, waits>>

ClientFails ==
  /\ InClients /\ ClientRaises(ThisClient)
  /\ Raise /\ OtReset
  /\ UNCHANGED <<scenario, starts>>

(* The last loop: start scripts for the brokers the app is to start. *)
OtBrokerFile(hostname) == <<"ot-sim-broker", hostname>>

BrokerScripts == [p \in {OtBrokerFile(h) : h \in DOMAIN brokers} |-> brokers[p[2]]]

BrokerNodes == InjectInto(nodes, [h \in DOMAIN brokers |-> BrokerInject(OtBrokerFile(h))])

ClientsDone ==
  /\ app = "ot-sim" /\ At("clients") /\ step.i > Len(scenario.clients)
  /\ WriteAll(BrokerScripts)
  /\ nodes' = BrokerNodes
  /\ GoTo("done")
  /\ UNCHANGED <<scenario, doc, starts, app, otVars>>

OtSimNext ==
  \/ Server \/ ServerFails \/ ServersDone
  \/ CallProcess \/ CallUpstream \/ CallFails \/ ReturnProcess
  \/ ConfigureFep \/ FepFails \/ FepsDone
  \/ Client \/ ClientFails \/ ClientsDone
=============================================================================
