------------------------------- MODULE Sceptre -------------------------------
(***************************************************************************)
(* The sceptre app (apps/sceptre): its configure stage puts the files of   *)
(* every SCEPTRE host into the topology, before they exist; its pre-start, *)
(* run at every start of the experiment, writes them.  The stages agree on *)
(* nothing but the paths.  One step is one turn of a loop of a stage; what *)
(* pre_start keeps in Python variables from one loop to the next, some of  *)
(* it by accident, is in local.                                            *)
(*                                                                         *)
(* A host of the scenario is a record                                      *)
(*   hostname, type, labels, simulator, configFile, gt, hil                *)
(*   provider, infra, devices  (field devices) devices is a function from  *)
(*               protocols to sequences of devices, records of a name, a   *)
(*               type and whether they have other keys                     *)
(*   server      the host its values come from, None for the provider      *)
(*   rtus, scadas  the hosts it connects to, None for all                  *)
(*   project, automation, interval   SCADA servers, workstations           *)
(*   backup      its name has "secondary" or "bak" in it                   *)
(*   primary, connectToScada, fields   historians                          *)
(*   helics      its HELICS metadata                                       *)
(* and its node has an os and interfaces with an address, a pair of a      *)
(* network and a number, a vlan or None, and whether they are serial.      *)
(***************************************************************************)
EXTENDS AppProcess, Infrastructures

(* What the metadata of a scenario are: hosts of different names that are  *)
(* in the topology, which has none of the app's files yet, lists where the *)
(* schema has lists, and None for no path.                                 *)
OwnFiles == {"sceptre", "startup", "elk"}

IsScenario(s) ==
  /\ IsTopology(s.topology)
  /\ \A j \in DOMAIN s.topology :
       /\ {"os", "ifaces"} \subseteq DOMAIN s.topology[j]
       /\ s.topology[j].injects \in Seq(ToSet(s.topology[j].injects))
       /\ \A inject \in ToSet(s.topology[j].injects) : inject.src[1] \notin OwnFiles
  /\ s.hosts \in Seq(ToSet(s.hosts))
  /\ \A g, h \in ToSet(s.hosts) : g.hostname = h.hostname => g = h
  /\ \A h \in ToSet(s.hosts) :
       /\ InTopology(s.topology, h.hostname)
       /\ <<"sceptre", h.hostname, "objects.txt">> # None
       /\ h.hil \in Seq(ToSet(h.hil))
       /\ \A p \in DOMAIN h.devices : h.devices[p] \in Seq(ToSet(h.devices[p]))

ASSUME ScenariosAssumption == \A s \in Scenarios : IsScenario(s)

VARIABLES
  local,         \* the variables of pre_start
  configured,    \* the configure stage has succeeded
  clean          \* history: started before

sceptreVars == <<local, configured, clean>>

vars == <<processVars, sceptreVars>>

NoLocals ==
  [addresses |-> FirstAddresses,  \* Register.addresses, of the class
   configs   |-> << >>,           \* fd_server_configs, in the order of the dict
   objects   |-> << >>,           \* power_object_list
   objectsAt |-> None,            \* objects_file_path
   hil       |-> << >>,           \* hil_object_list
   fdlist    |-> << >>,
   clientIp  |-> None,            \* fd_ip, None while it is unbound
   opcs      |-> << >>,           \* opc_configs and opc_bak_configs
   backups   |-> << >>,
   opcConfig |-> None]            \* opc_config, None while it is unbound

Init ==
  /\ ProcessInit
  /\ local = NoLocals
  /\ configured = FALSE
  /\ clean = FALSE

Hosts == ToSet(scenario.hosts)

OfType(type) == Select(scenario.hosts, {h \in Hosts : h.type = type})

WithLabel(label) == Select(scenario.hosts, {h \in Hosts : label \in h.labels})

NodeOf(h) == ExtractNode(nodes, h.hostname)

IsWindows(h) == NodeOf(h).os = "windows"

IsLinux(h) == NodeOf(h).os = "linux"

In(loop, hosts) == app = "sceptre" /\ At(loop) /\ step.i <= Len(hosts)

After(loop, hosts) == app = "sceptre" /\ At(loop) /\ step.i > Len(hosts)

-----------------------------------------------------------------------------
(* Configure: what is put where.  A file of the user's override directory  *)
(* takes the place of one the pre-start is to write.                       *)
SceptrePath(h, file) == <<"sceptre", h.hostname, file>>

StartupPath(h, file) == <<"startup", h.hostname, file>>

Inject(h, override, path, dst) ==
  [src |-> IF <<h.hostname, override>> \in scenario.overrides
           THEN <<"override", h.hostname, override>> ELSE path,
   dst |-> dst]

Made(h, file) == Inject(h, file, SceptrePath(h, file), file)

User(h, file) == [src |-> <<"user", h.hostname, file>>, dst |-> file]

WindowsStartup ==
  <<[src |-> <<"startup", "scheduler">>, dst |-> "startup-scheduler"],
    [src |-> <<"startup", "sceptre-startup">>, dst |-> "sceptre-startup"]>>

If(condition, injects) == IF condition THEN injects ELSE << >>

OpcInjects(h) == <<Made(h, "opc.xml"), Made(h, "topserver.ps1")>> \o WindowsStartup

StartExtension(h) == IF IsWindows(h) THEN "start.ps1" ELSE "start.sh"

(* Whatever the operating system of the field device, unlike a provider.   *)
FieldDeviceInjects(h) ==
  <<Inject(h, "sceptre-start.sh", StartupPath(h, "start.sh"), "sceptre-start"), Made(h, "config.xml")>>

HmiInjects(h) == <<Made(h, "hmi.ps1")>> \o WindowsStartup

ScadaInjects(h) ==
  If(h.project, <<User(h, "project")>> \o If(h.automation, <<User(h, "automation")>>) \o <<Made(h, "scada.ps1")>>)
  \o If(~h.project, <<[src |-> SceptrePath(h, "autoproject"), dst |-> "autoproject"],
                      Made(h, "scada_autoproject.ps1")>>)
  \o WindowsStartup

EngineerInjects(h) ==
  <<Made(h, "putty.ps1")>> \o If(h.interval, <<Made(h, "auto_winscp.ps1")>>) \o WindowsStartup

HistorianInjects(h) == <<Made(h, "historian_config.txt"), Made(h, "historian.ps1")>> \o WindowsStartup

ProviderFiles(h) ==
  CASE h.simulator \in {"PowerWorld", "PowerWorldHelics"} ->
         <<Made(h, "config.ini"), Made(h, "objects.txt"), User(h, "case"), User(h, "oneline")>>
    [] h.simulator = "PowerWorldDynamics" -> <<Made(h, "config.ini"), Made(h, "objects.txt")>>
    [] h.simulator = "Simulink" ->
         <<User(h, "solver"), User(h, "publish_points")>>
         \o If(h.gt, <<User(h, "gt"), User(h, "gt_template")>>)
    [] h.simulator = "PyPower" -> <<Made(h, "config.ini"), User(h, "case")>>
    [] h.simulator = "GenericPython" -> <<Made(h, "config.ini"), User(h, "simulation_file")>>
    [] OTHER -> <<Made(h, "config.ini")>>

\* Mutant: the start script of a provider is always looked for as a shell script.
ProviderInjectsShell(h) ==
  Append(ProviderFiles(h), Inject(h, "start.sh", StartupPath(h, "start.sh"), "sceptre-start"))

ProviderInjects(h) ==
  Append(ProviderFiles(h),
         Inject(h, "sceptre-" \o StartExtension(h), StartupPath(h, StartExtension(h)), "sceptre-start"))

FederateInjects(h) == <<Made(h, "helics.json")>>

BrokerInjects(h) == <<Inject(h, "helics.sh", StartupPath(h, "helics.sh"), "helics-broker-start")>>

ElkVmInjects(h) == <<Inject(h, "elk-start.sh", StartupPath(h, "elk-start.sh"), "elk-start")>>

ElkFiles == <<"fdlist.json", "reg_addrs.json", "sceptre_provider_restart.py">>

ElkInjects(h) == [k \in DOMAIN ElkFiles |-> Inject(h, ElkFiles[k], <<"elk", ElkFiles[k]>>, ElkFiles[k])]

(* The loops of configure, in order: the hosts of each.                    *)
ConfigureLoops ==
  <<"opc", "field-device", "hmi", "scada-server", "engineer-workstation", "historian",
    "provider", "helics-federate", "helics-broker", "elk-vm", "elk", "configured">>

ConfigureHosts(loop) ==
  CASE loop = "field-device" -> OfType("fd-server") \o OfType("fd-client") \o OfType("fep")
    [] loop = "helics-federate" -> WithLabel(loop)
    [] loop = "helics-broker" -> Select(WithLabel(loop), {h \in Hosts : IsLinux(h)})
    [] loop = "elk-vm" -> Select(WithLabel("elk"), {h \in Hosts : IsLinux(h)})
    [] OTHER -> OfType(loop)

ConfigureInjects(loop, h) ==
  CASE loop = "opc" -> OpcInjects(h)
    [] loop = "field-device" -> FieldDeviceInjects(h)
    [] loop = "hmi" -> HmiInjects(h)
    [] loop = "scada-server" -> ScadaInjects(h)
    [] loop = "engineer-workstation" -> EngineerInjects(h)
    [] loop = "historian" -> HistorianInjects(h)
    [] loop = "provider" -> ProviderInjects(h)
    [] loop = "helics-federate" -> FederateInjects(h)
    [] loop = "helics-broker" -> BrokerInjects(h)
    [] loop = "elk-vm" -> ElkVmInjects(h)
    [] OTHER -> ElkInjects(h)

(* Two start scripts are written by configure itself.  A broker is told to *)
(* wait for all federates, whichever broker they name.                     *)
ConfigureWrites(loop, h) ==
  CASE loop = "helics-broker" -> File(StartupPath(h, "helics.sh"), Len(WithLabel("helics-federate")))
    [] loop = "elk-vm" -> File(StartupPath(h, "elk-start.sh"), "filebeat")
    [] OTHER -> NoFiles

(* No provider and more than one ELK box are errors.                       *)
ConfigureRaises ==
  \/ At("provider") /\ OfType("provider") = << >>
  \/ At("elk") /\ Len(OfType("elk")) > 1

InConfigure(loop) == app = "sceptre" /\ At(loop) /\ loop # "configured" /\ ~ConfigureRaises

ConfigureHost ==
  \E loop \in ToSet(ConfigureLoops) :
    /\ InConfigure(loop) /\ step.i <= Len(ConfigureHosts(loop))
    /\ LET h == ConfigureHosts(loop)[step.i]
       IN  /\ nodes' = AddInjects(nodes, h.hostname, ConfigureInjects(loop, h))
           /\ WriteAll(ConfigureWrites(loop, h))
    /\ Again
    /\ UNCHANGED <<scenario, doc, starts, app, sceptreVars>>

ConfigureNext ==
  \E k \in 1..(Len(ConfigureLoops) - 1) :
    /\ InConfigure(ConfigureLoops[k]) /\ step.i > Len(ConfigureHosts(ConfigureLoops[k]))
    /\ GoTo(ConfigureLoops[k + 1])
    /\ UNCHANGED <<scenario, doc, files, starts, app, nodes, sceptreVars>>

ConfigureFails ==
  /\ app = "sceptre" /\ ConfigureRaises
  /\ Raise
  /\ UNCHANGED <<scenario, starts, sceptreVars>>

BeginConfigure ==
  /\ app = "none" /\ ~configured
  /\ Launch("sceptre", "opc")
  /\ nodes' = doc
  /\ UNCHANGED <<scenario, doc, files, starts, sceptreVars>>

Configured ==
  /\ app = "sceptre" /\ At("configured")
  /\ Finish("none")
  /\ configured' = TRUE
  /\ UNCHANGED <<scenario, files, starts, local, clean>>

-----------------------------------------------------------------------------
(* Pre-start: the shared Windows scripts first.                            *)
Idle == app \in {"none", "started", "failed"}

StartExperiment ==
  /\ Idle /\ configured /\ starts < MaxStarts
  /\ starts' = starts + 1
  /\ Launch("sceptre", "providers")
  /\ nodes' = doc
  /\ WriteAll(Overlay(File(<<"startup", "scheduler">>, "cmd"), File(<<"startup", "sceptre-startup">>, "ps1")))
  /\ UNCHANGED <<scenario, doc, sceptreVars>>

(* A turn that raises ends the process; so does the end of the last loop.  *)
Fail == Raise /\ local' = NoLocals /\ UNCHANGED <<scenario, starts, configured, clean>>

Turn == Again /\ UNCHANGED <<scenario, doc, starts, app, configured, clean>>

Proceed(loop) == GoTo(loop) /\ UNCHANGED <<scenario, doc, starts, app, nodes, configured, clean>>

StartScript(h) == File(StartupPath(h, StartExtension(h)), "start")

FirstAddress(h) == NodeOf(h).ifaces[1].address

(* Providers.  The variables of the last PowerWorld provider stay.         *)
IsPowerWorld(h) == h.simulator \in {"PowerWorld", "PowerWorldHelics", "PowerWorldDynamics"}

HasYaml(h) == h.simulator \in {"RTDS", "OPALRT", "Siren"} /\ ~h.configFile

YamlInject(h) == [src |-> SceptrePath(h, "config.yaml"), dst |-> "config.yaml"]

ProviderWrites(h) ==
  Overlay(File(SceptrePath(h, "config.ini"), FirstAddress(h)),
          Overlay(StartScript(h), IF HasYaml(h) THEN File(SceptrePath(h, "config.yaml"), FirstAddress(h)) ELSE NoFiles))

Provider ==
  /\ In("providers", OfType("provider"))
  /\ LET h == OfType("provider")[step.i]
     IN  /\ WriteAll(ProviderWrites(h))
         /\ nodes' = IF HasYaml(h) THEN AddInject(nodes, h.hostname, YamlInject(h)) ELSE nodes
         /\ local' = IF IsPowerWorld(h)
                     THEN [local EXCEPT !.objectsAt = SceptrePath(h, "objects.txt"), !.hil = h.hil]
                     ELSE local
  /\ Turn

ProvidersDone ==
  /\ After("providers", OfType("provider"))
  /\ Proceed("fd-servers") /\ UNCHANGED <<files, local>>

-----------------------------------------------------------------------------
(* Field device servers.                                                   *)
ParserProtocols == <<"bacnet", "dnp3", "dnp3-serial", "modbus", "sunspec", "iec60870-5-104">>

Parsed(h) == Select(ParserProtocols, DOMAIN h.devices)

DevicesOf(h) == FlattenSeq([k \in DOMAIN Parsed(h) |-> h.devices[Parsed(h)[k]]])

ProtocolFields(h, p) == FlattenSeq([k \in DOMAIN h.devices[p] |-> DeviceFields(h.infra, h.devices[p][k], p)])

FieldsOf(h) == FlattenSeq([k \in DOMAIN Parsed(h) |-> ProtocolFields(h, Parsed(h)[k])])

(* The types of its devices are types of its infrastructure.               *)
TypesKnown(h) ==
  /\ h.infra \in DOMAIN Types
  /\ \A k \in DOMAIN DevicesOf(h) : DevicesOf(h)[k].type \in DOMAIN Types[h.infra]

(* No field device has so many registers that the ranges of the types that *)
(* Modbus reads, which start at 10000 and 30000, meet.                     *)
MostRegisters == 20000

FewRegisters ==
  \A s \in Scenarios : \A h \in ToSet(s.hosts) : h.type = "fd-server" /\ TypesKnown(h) => Len(FieldsOf(h)) <= MostRegisters

InLower(vlan) == IF vlan = "MGMT" THEN "mgmt" ELSE vlan

IsExperiment(iface) == ~iface.serial /\ iface.vlan # None /\ InLower(iface.vlan) # "mgmt"

(* The first interface that will do: a serial one if there are just two,   *)
(* any for a Siren provider.                                               *)
TcpAddress(ifaces, siren) ==
  LET i == SelectInSeq(ifaces, LAMBDA f : \/ IsExperiment(f)
                                          \/ Len(ifaces) = 2 /\ f.serial
                                          \/ siren /\ ~f.serial)
  IN  IF i = 0 THEN None ELSE ifaces[i].address

(* Where the provider's values are received: None stays "*".               *)
PublishAddress(ifaces) ==
  LET i == SelectInSeq(ifaces, LAMBDA f : f.vlan # None /\ InLower(f.vlan) = "mgmt")
  IN  IF i = 0 THEN None ELSE ifaces[i].address

HostNamed(hostname) == scenario.hosts[SelectInSeq(scenario.hosts, LAMBDA h : h.hostname = hostname)]

IsProvider(hostname) == \E k \in DOMAIN OfType("provider") : OfType("provider")[k].hostname = hostname

(* Deleting the other keys of a device while going through them raises.    *)
ParserWorks(h) == \A k \in DOMAIN DevicesOf(h) : ~DevicesOf(h)[k].extra

(* The registers of an inverter are looked up under infrastructure names   *)
(* that no infrastructure has, and the config of a SunSpec device is that  *)
(* of the first register of the first protocol.                            *)
SunspecWorks(h) ==
  "sunspec" \in DOMAIN h.devices =>
    LET first == h.devices[Parsed(h)[1]]
    IN  /\ \A k \in DOMAIN h.devices["sunspec"] : h.devices["sunspec"][k].type # "inverter"
        /\ first # << >>
        /\ DeviceFields(h.infra, first[1], Parsed(h)[1]) # << >>

ServerWorks(h) ==
  /\ IsProvider(h.provider) /\ ParserWorks(h)
  /\ h.server # None => InTopology(nodes, h.server)
  /\ h.infra \in DOMAIN Types
  /\ \A k \in DOMAIN DevicesOf(h) : DevicesOf(h)[k].type \in DOMAIN Types[h.infra]
  /\ "dnp3-serial" \in DOMAIN h.devices => \E k \in DOMAIN NodeOf(h).ifaces : NodeOf(h).ifaces[k].serial
  /\ SunspecWorks(h)

FieldDeviceConfig(h, regs) ==
  [name |-> h.hostname, provider |-> h.provider, regs |-> regs,
   ip |-> TcpAddress(NodeOf(h).ifaces, HostNamed(h.provider).simulator = "Siren"),
   publish |-> PublishAddress(NodeOf(h).ifaces),
   server |-> (IF h.server = None THEN NodeOf(HostNamed(h.provider)) ELSE ExtractNode(nodes, h.server)).ifaces[1].address,
   counter |-> step.i]

ConfigFile(h, config) ==
  IF "sunspec" \in DOMAIN h.devices
  THEN [config EXCEPT !.regs = SelectSeq(@, LAMBDA r : r.dev = h.devices[Parsed(h)[1]][1].name)]
  ELSE config

Ports ==
  [p \in {"dnp3", "dnp3-serial"} |-> "20000-local"] @@
  [p \in {"modbus", "modbus-serial", "sunspec"} |-> "502-local"] @@
  ("bacnet" :> "47808-local") @@ ("iec60870-5-104" :> "2404-local") @@ ("goose" :> "61850")

FdListEntry(h) ==
  LET ports == {Ports[p] : p \in DOMAIN h.devices \cap DOMAIN Ports}
  IN  [p \in ports |-> 1] @@ ("9990-remote" :> Cardinality(ports))
      @@ [p \in {"20000-local", "502-local", "47808-local", "2404-local"} |-> 0]

FeedsPower(h) == h.simulator = "PyPower" \/ IsPowerWorld(h)

\* Mutant: the counters of the class are left where this device took them.
CountersAfterKept(addresses) == addresses

(* infra.Register.reset_addresses, at the end of every field device.       *)
CountersAfter(addresses) == FirstAddresses

DeviceNames(h) == [k \in DOMAIN DevicesOf(h) |-> DevicesOf(h)[k].name]

FieldDeviceServer ==
  /\ In("fd-servers", OfType("fd-server"))
  /\ LET h == OfType("fd-server")[step.i]
         numbered == Numbered(FieldsOf(h), local.addresses)
         config == FieldDeviceConfig(h, numbered.regs)
     IN  /\ ServerWorks(h)
         /\ WriteAll(Overlay(File(SceptrePath(h, "config.xml"), ConfigFile(h, config)), StartScript(h)))
         /\ local' = [local EXCEPT !.configs = Append(@, config),
                                   !.addresses = CountersAfter(numbered.addresses),
                                   !.objects = @ \o If(FeedsPower(HostNamed(h.provider)), DeviceNames(h)),
                                   !.fdlist = (h.hostname :> FdListEntry(h)) @@ @]
  /\ Turn /\ UNCHANGED nodes

ServerFails ==
  /\ In("fd-servers", OfType("fd-server"))
  /\ ~ServerWorks(OfType("fd-server")[step.i])
  /\ Fail

\* Mutant: the objects of the hardware in the loop take the place of the others.
ObjectsOfHil(objects, hil) == ToSet(hil)

Objects(objects, hil) == ToSet(objects \o hil)

(* One list of objects, for the last PowerWorld provider only.             *)
ServersDone ==
  /\ After("fd-servers", OfType("fd-server"))
  /\ WriteAll(IF local.objectsAt = None THEN NoFiles
              ELSE File(local.objectsAt, Objects(local.objects, local.hil)))
  /\ Proceed("federates") /\ UNCHANGED local

-----------------------------------------------------------------------------
(* HELICS federates: the simulator "Helics" reads the inputs of all field  *)
(* devices from their providers and may write to any; a provider publishes *)
(* what the field devices that name it have.                               *)
RegsIn(configs) == UNION {{[device |-> c, reg |-> r] : r \in ToSet(c.regs)} : c \in ToSet(configs)}

DeviceRegs == RegsIn(local.configs)

RegsOf(provider) == {x.reg : x \in {x \in DeviceRegs : x.device.provider = provider}}

Subscription(c, r) == [provider |-> c.provider, tag |-> Tag(r), bool |-> Binary(r)]

Publication(r) == [tag |-> Tag(r), bool |-> Binary(r)]

FederateName(h) == IF h.helics.name # None THEN h.helics.name ELSE h.hostname

BrokerHost(h) == IF h.helics.broker # None THEN h.helics.broker ELSE h.hostname

Inputs == {x \in DeviceRegs : x.reg.regtype \in InputTypes}

\* Mutant: what a field device writes is not published by its provider.
PublishedInputs(h) ==
  {Publication(r) : r \in {r \in RegsOf(FederateName(h)) : r.regtype \in InputTypes /\ ~Binary(r)}}

Published(h) == {Publication(r) : r \in RegsOf(FederateName(h))}

FederateConfig(h) ==
  LET reader == h.simulator = "Helics"
  IN  [name |-> FederateName(h),
       broker |-> ExtractNode(nodes, BrokerHost(h)).ifaces[1].address,
       subs |-> h.helics.subscriptions \cup
                (IF reader THEN {Subscription(x.device, x.reg) : x \in Inputs} ELSE {}),
       pubs |-> h.helics.publications \cup (IF reader THEN {} ELSE Published(h)),
       ends |-> IF reader THEN {<<Tag(x.reg), x.device.provider>> : x \in DeviceRegs}
                ELSE {<<Tag(r), None>> : r \in RegsOf(FederateName(h))}]

Federate ==
  /\ In("federates", WithLabel("helics-federate"))
  /\ LET h == WithLabel("helics-federate")[step.i]
     IN  /\ InTopology(nodes, BrokerHost(h))
         /\ Write(SceptrePath(h, "helics.json"), FederateConfig(h))
  /\ Turn /\ UNCHANGED <<nodes, local>>

FederateFails ==
  /\ In("federates", WithLabel("helics-federate"))
  /\ ~InTopology(nodes, BrokerHost(WithLabel("helics-federate")[step.i]))
  /\ Fail

FederatesDone ==
  /\ After("federates", WithLabel("helics-federate"))
  /\ Proceed("clients") /\ UNCHANGED <<files, local>>

-----------------------------------------------------------------------------
(* Field device clients.  One without a suitable interface is given the    *)
(* address of the client before it.                                        *)
ClientAddress(ifaces) ==
  LET i == SelectInSeq(ifaces, IsExperiment)
      serials == SelectSeq(ifaces, LAMBDA f : f.serial)
  IN  IF i # 0 THEN ifaces[i].address
      ELSE IF Len(ifaces) = 2 /\ serials # << >> THEN Last(serials).address ELSE local.clientIp

ConfigOf(hostname) == local.configs[SelectInSeq(local.configs, LAMBDA c : c.name = hostname)]

(* Names that are no field device server are left out.                     *)
Connected(rtus) ==
  LET known == SelectSeq(rtus, LAMBDA u : \E k \in DOMAIN local.configs : local.configs[k].name = u)
  IN  [k \in DOMAIN known |-> ConfigOf(known[k])]

ClientConfig(h, ip) == [command |-> ip, servers |-> Connected(IF h.rtus = None THEN << >> ELSE h.rtus)]

Client ==
  /\ In("clients", OfType("fd-client"))
  /\ LET h == OfType("fd-client")[step.i]
         ip == ClientAddress(NodeOf(h).ifaces)
     IN  /\ ip # None
         /\ local' = [local EXCEPT !.clientIp = ip]
         /\ WriteAll(Overlay(File(SceptrePath(h, "config.xml"), ClientConfig(h, ip)), StartScript(h)))
  /\ Turn /\ UNCHANGED nodes

ClientFails ==
  /\ In("clients", OfType("fd-client"))
  /\ ClientAddress(NodeOf(OfType("fd-client")[step.i]).ifaces) = None
  /\ Fail

ClientsDone ==
  /\ After("clients", OfType("fd-client"))
  /\ Proceed("feps") /\ UNCHANGED <<files, local>>

(* A front-end processor: it is to serve what its field devices serve, but *)
(* FieldDeviceConfig is called without its device_subtype, a TypeError.    *)
FepFails ==
  /\ In("feps", OfType("fep"))
  /\ Fail

(* The files of the ELK box, whether or not there is one: the last         *)
(* provider is the one it restarts.                                        *)
GroundTruth ==
  {<<x.device.ip, x.reg.regtype, x.reg.addr, Tag(x.reg)>> : x \in {x \in DeviceRegs : x.reg.proto = "modbus"}}

ElkWrites ==
  Overlay(File(<<"elk", "fdlist.json">>, local.fdlist),
          Overlay(File(<<"elk", "reg_addrs.json">>, GroundTruth),
                  File(<<"elk", "sceptre_provider_restart.py">>, FirstAddress(Last(OfType("provider"))))))

FepsDone ==
  /\ After("feps", OfType("fep"))
  /\ WriteAll(ElkWrites)
  /\ Proceed("opcs") /\ UNCHANGED local

-----------------------------------------------------------------------------
(* OPC servers.  Here a management network is one named "mgmt" in lower    *)
(* case.                                                                   *)
Offered(h) == Select(NodeOf(h).ifaces, {f \in ToSet(NodeOf(h).ifaces) : f.vlan # "mgmt"})

OfferedIp(h) == Offered(h)[1].address

AllOffered(type) ==
  FlattenSeq([k \in DOMAIN OfType(type) |-> LET f == Offered(OfType(type)[k]) IN [j \in DOMAIN f |-> f[j].address]])

(* What the OPC server polls: a topic for each protocol of a device.       *)
OpcConfig(configs) ==
  {[topic |-> <<x.reg.proto, x.device.name>>, at |-> x.device.ip, tag |-> Tag(x.reg), type |-> x.reg.regtype,
    addr |-> x.reg.addr] : x \in RegsIn(configs)}

(* An entry of a dict of OPC configs, by the address of the server.        *)
SetOpc(opcs, ip, config) ==
  LET k == SelectInSeq(opcs, LAMBDA o : o.ip = ip)
  IN  IF k = 0 THEN Append(opcs, [ip |-> ip, config |-> config]) ELSE [opcs EXCEPT ![k].config = config]

OpcWrites(h, config) ==
  Overlay(File(SceptrePath(h, "opc.xml"), config),
          File(SceptrePath(h, "topserver.ps1"),
               [opc |-> OfferedIp(h), scadas |-> AllOffered("scada-server"),
                historians |-> AllOffered("historian"), primary |-> ~h.backup]))

Opc ==
  /\ In("opcs", OfType("opc"))
  /\ LET h == OfType("opc")[step.i]
         config == OpcConfig(IF h.rtus = None THEN local.configs ELSE Connected(h.rtus))
         ip == OfferedIp(h)
     IN  /\ Offered(h) # << >>
         /\ local' = [local EXCEPT !.opcConfig = config,
                                   !.opcs = IF h.backup THEN @ ELSE SetOpc(@, ip, config),
                                   !.backups = IF h.backup THEN SetOpc(@, ip, config) ELSE @]
         /\ WriteAll(OpcWrites(h, config))
  /\ Turn /\ UNCHANGED nodes

OpcFails ==
  /\ In("opcs", OfType("opc")) /\ Offered(OfType("opc")[step.i]) = << >>
  /\ Fail

OpcsDone ==
  /\ After("opcs", OfType("opc"))
  /\ Proceed("scadas") /\ UNCHANGED <<files, local>>

-----------------------------------------------------------------------------
(* SCADA servers: the OPC server of their subnet, a primary one if there   *)
(* is one, or the first primary of all.                                    *)
Subnet(address) == address[1]

OnSubnet(opcs, ip) == SelectInSeq(opcs, LAMBDA o : Subnet(o.ip) = Subnet(ip))

OpcFor(ip) ==
  IF OnSubnet(local.opcs, ip) # 0 THEN local.opcs[OnSubnet(local.opcs, ip)]
  ELSE IF OnSubnet(local.backups, ip) # 0 THEN local.backups[OnSubnet(local.backups, ip)]
  ELSE local.opcs[1]

ScadaRaises(h) ==
  /\ ~h.project
  /\ \/ Offered(h) = << >>
     \/ Offered(h) # << >> /\ local.opcs = << >> /\ OnSubnet(local.backups, OfferedIp(h)) = 0

ScadaWrites(h) ==
  IF h.project THEN File(SceptrePath(h, "scada.ps1"), "scada")
  ELSE Overlay(File(SceptrePath(h, "autoproject"), OpcFor(OfferedIp(h))),
               File(SceptrePath(h, "scada_autoproject.ps1"), "scada"))

Scada ==
  /\ In("scadas", OfType("scada-server"))
  /\ LET h == OfType("scada-server")[step.i]
     IN  /\ ~ScadaRaises(h)
         /\ local' = IF h.project THEN local ELSE [local EXCEPT !.opcConfig = OpcFor(OfferedIp(h)).config]
         /\ WriteAll(ScadaWrites(h))
  /\ Turn /\ UNCHANGED nodes

ScadaFails ==
  /\ In("scadas", OfType("scada-server")) /\ ScadaRaises(OfType("scada-server")[step.i])
  /\ Fail

ScadasDone ==
  /\ After("scadas", OfType("scada-server"))
  /\ Proceed("hmis") /\ UNCHANGED <<files, local>>

(* HMIs: the first address of the named servers, or the offered addresses  *)
(* of their subnet, or the only one there is.                              *)
ScadasOf(h) ==
  LET all == AllOffered("scada-server")
      named == {s \in ToSet(OfType("scada-server")) : Contains(h.scadas, s.hostname)}
  IN  IF h.scadas # None THEN {FirstAddress(s) : s \in named}
      ELSE {ip \in ToSet(all) : Len(all) = 1 \/ Subnet(ip) = Subnet(FirstAddress(h))}

Hmi ==
  /\ In("hmis", OfType("hmi"))
  /\ LET h == OfType("hmi")[step.i] IN Write(SceptrePath(h, "hmi.ps1"), ScadasOf(h))
  /\ Turn /\ UNCHANGED <<nodes, local>>

HmisDone ==
  /\ After("hmis", OfType("hmi"))
  /\ Proceed("engineers") /\ UNCHANGED <<files, local>>

EngineerDevices(h) ==
  {r.hostname : r \in {r \in ToSet(OfType("fd-server")) : h.rtus = None \/ Contains(h.rtus, r.hostname)}}

EngineerWrites(h) ==
  Overlay(File(SceptrePath(h, "putty.ps1"), EngineerDevices(h)),
          IF h.interval THEN File(SceptrePath(h, "auto_winscp.ps1"), EngineerDevices(h)) ELSE NoFiles)

Engineer ==
  /\ In("engineers", OfType("engineer-workstation"))
  /\ WriteAll(EngineerWrites(OfType("engineer-workstation")[step.i]))
  /\ Turn /\ UNCHANGED <<nodes, local>>

(* The first loop over the historians: it raises for one that has nothing  *)
(* but a management interface.                                             *)
EngineersDone ==
  /\ After("engineers", OfType("engineer-workstation"))
  /\ \A h \in ToSet(OfType("historian")) : Offered(h) # << >>
  /\ Proceed("historians") /\ UNCHANGED <<files, local>>

EngineersFail ==
  /\ After("engineers", OfType("engineer-workstation"))
  /\ \E h \in ToSet(OfType("historian")) : Offered(h) = << >>
  /\ Fail

\* Mutant: a later secondary of a historian takes the place of the one before it.
LastSecondary(hostname) ==
  LET of == SelectSeq(OfType("historian"), LAMBDA s : s.primary = hostname)
  IN  IF of = << >> THEN {} ELSE {OfferedIp(Last(of))}

Secondaries(hostname) == {OfferedIp(s) : s \in {s \in ToSet(OfType("historian")) : s.primary = hostname}}

NoHistorianConfig == [opc |-> None, tags |-> {}, replicas |-> {}, scada |-> FALSE]

(* opc_config keeps its last value when no OPC server is on the subnet:    *)
(* that of the last OPC or SCADA server or of the historian before.        *)
OpcConfigFor(h) ==
  LET k == OnSubnet(local.opcs, OfferedIp(h))
  IN  IF k = 0 THEN local.opcConfig ELSE local.opcs[k].config

HistorianConfig(h) ==
  LET k == OnSubnet(local.opcs, OfferedIp(h))
  IN  IF h.backup THEN NoHistorianConfig
      ELSE IF h.connectToScada
      THEN [NoHistorianConfig EXCEPT !.scada = TRUE, !.replicas = Secondaries(h.hostname)]
      ELSE [opc |-> IF k = 0 THEN None ELSE local.opcs[k].ip,
            tags |-> {t \in OpcConfigFor(h) : h.fields = {} \/ t.tag[2] \in h.fields},
            replicas |-> Secondaries(h.hostname), scada |-> FALSE]

HistorianRaises(h) == ~h.backup /\ ~h.connectToScada /\ OpcConfigFor(h) = None

Historian ==
  /\ In("historians", OfType("historian"))
  /\ LET h == OfType("historian")[step.i]
     IN  /\ ~HistorianRaises(h)
         /\ local' = [local EXCEPT !.opcConfig = OpcConfigFor(h)]
         /\ WriteAll([path \in {SceptrePath(h, "historian_config.txt"), SceptrePath(h, "historian.ps1")} |->
                        HistorianConfig(h)])
  /\ Turn /\ UNCHANGED nodes

HistorianFails ==
  /\ In("historians", OfType("historian")) /\ HistorianRaises(OfType("historian")[step.i])
  /\ Fail

Done == After("historians", OfType("historian"))

Started ==
  /\ Done
  /\ Finish("started")
  /\ local' = NoLocals /\ clean' = TRUE
  /\ UNCHANGED <<scenario, files, starts, configured>>

Configuring == BeginConfigure \/ ConfigureHost \/ ConfigureNext \/ ConfigureFails \/ Configured

Starting ==
  \/ StartExperiment
  \/ Provider \/ ProvidersDone
  \/ FieldDeviceServer \/ ServerFails \/ ServersDone
  \/ Federate \/ FederateFails \/ FederatesDone
  \/ Client \/ ClientFails \/ ClientsDone
  \/ FepFails \/ FepsDone
  \/ Opc \/ OpcFails \/ OpcsDone
  \/ Scada \/ ScadaFails \/ ScadasDone
  \/ Hmi \/ HmisDone
  \/ Engineer \/ EngineersDone \/ EngineersFail
  \/ Historian \/ HistorianFails \/ Started

Next == Configuring \/ Starting

Spec == Init /\ [][Next]_vars

-----------------------------------------------------------------------------
(* The configure stage names files that the pre-start, which runs later    *)
(* and may be in another order, has to write: when a start succeeds, every *)
(* file of the app that a node is given exists.  Two are forgotten: the    *)
(* start script of a field device under Windows, which is written under    *)
(* another name, and the objects of all PowerWorld providers but one.      *)
Forgotten(path) ==
  \E h \in ToSet(scenario.hosts) :
    \/ h.type \in {"fd-server", "fd-client"} /\ IsWindows(h) /\ path = StartupPath(h, "start.sh")
    \/ IsPowerWorld(h) /\ path = SceptrePath(h, "objects.txt") /\ path # local.objectsAt

InjectsAreWritten ==
  Done =>
    \A k \in DOMAIN nodes : \A inject \in ToSet(nodes[k].injects) :
      inject.src[1] \in OwnFiles =>
        inject.src \in DOMAIN files \/ Forgotten(inject.src)

(* The counters of the registers belong to a class and outlive a device:   *)
(* still every field device numbers its registers from the protocol's      *)
(* first address, without a gap, whatever devices were made before it; and *)
(* if it speaks one protocol only, the name its config makes of direction  *)
(* and address stands for one register.                                    *)
Counted(regs, c) == {k \in DOMAIN regs : regs[k].proto = c \/ regs[k].regtype = c}

IoName(r) == <<r.regtype \in InputTypes, r.addr>>

PointsAreNumbered ==
  \A config \in ToSet(local.configs) :
    /\ \A c \in DOMAIN FirstAddresses :
         \A k \in Counted(config.regs, c) :
           config.regs[k].addr = FirstAddresses[c] + Cardinality({j \in Counted(config.regs, c) : j < k})
    /\ Cardinality({r.proto : r \in ToSet(config.regs)}) = 1 =>
         \A j, k \in DOMAIN config.regs : IoName(config.regs[j]) = IoName(config.regs[k]) => j = k

(* What the HELICS simulator subscribes to is published, under that name   *)
(* and with that type, by the federate of the provider it names, and where *)
(* it sends commands to that federate has an endpoint; unless the metadata *)
(* gives the federate a name of its own, by which nobody knows it.         *)
Readers == {h \in ToSet(WithLabel("helics-federate")) : h.simulator = "Helics"}

Publishers == {h \in ToSet(WithLabel("helics-federate")) : h.simulator # "Helics" /\ h.helics.name = None}

FederateFile(h) == files[SceptrePath(h, "helics.json")]

ReadersMeetPublishers ==
  Done =>
    \A h \in Readers, g \in Publishers :
      /\ \A s \in FederateFile(h).subs \ h.helics.subscriptions :
           s.provider = g.hostname => [tag |-> s.tag, bool |-> s.bool] \in FederateFile(g).pubs
      /\ \A e \in FederateFile(h).ends :
           e[2] = g.hostname => <<e[1], None>> \in FederateFile(g).ends

(* The PowerWorld provider whose objects are written is given the name of  *)
(* every device of every field device it feeds, and its hardware's.        *)
ObjectsAreListed ==
  Done /\ local.objectsAt # None =>
    \A p \in ToSet(OfType("provider")) :
      SceptrePath(p, "objects.txt") = local.objectsAt =>
        /\ ToSet(p.hil) \subseteq files[local.objectsAt]
        /\ \A h \in ToSet(OfType("fd-server")) :
             h.provider = p.hostname => {d.name : d \in ToSet(DevicesOf(h))} \subseteq files[local.objectsAt]

(* Loops that search by themselves agree: a historian and a SCADA server   *)
(* of one subnet use the same OPC server when the subnet has one, the      *)
(* historian asks it for tags it polls, and replicates to every historian  *)
(* that names it as its primary.                                           *)
HistorianFile(h) == files[SceptrePath(h, "historian_config.txt")]

HasOwnOpc(h) == ~h.backup /\ HistorianFile(h).opc # None

OneOpcPerSubnet ==
  Done =>
    \A h \in ToSet(OfType("historian")) :
      /\ HasOwnOpc(h) =>
           /\ \A s \in ToSet(OfType("scada-server")) :
                ~s.project /\ Subnet(OfferedIp(s)) = Subnet(OfferedIp(h)) =>
                  files[SceptrePath(s, "autoproject")].ip = HistorianFile(h).opc
           /\ \E o \in ToSet(OfType("opc")) :
                /\ OfferedIp(o) = HistorianFile(h).opc
                /\ HistorianFile(h).tags \subseteq files[SceptrePath(o, "opc.xml")]
      /\ ~h.backup =>
           \A s \in ToSet(OfType("historian")) :
             s.primary = h.hostname => OfferedIp(s) \in HistorianFile(h).replicas

(* An experiment may be started many times (add_inject): once it was, its  *)
(* topology does not change any more.                                      *)
StartAgainChangesNothing == [][clean => doc' = doc]_vars

-----------------------------------------------------------------------------
(* "each historian is configured to use only the OPC on its subnet"        *)
(* (app.py:1297): one without such a server has no tags of another.        *)
HistorianUsesOnlyItsOpc ==
  Done =>
    \A h \in ToSet(OfType("historian")) :
      HistorianFile(h).opc = None => HistorianFile(h).tags = {}

(* "Write fep config file injection" (app.py:1229): where all else is in  *)
(* order, a front-end processor does not keep the experiment from starting. *)
FepIsConfigured == OfType("fep") # << >> => app # "failed"
=============================================================================
