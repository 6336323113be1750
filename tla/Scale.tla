-------------------------------- MODULE Scale --------------------------------
(***************************************************************************)
(* The scale app (apps/scale/app.py).  Its configure stage adds the VMs    *)
(* the profiles ask for to the topology, with a script that makes a VM     *)
(* wait for its minimega file; its post-start stage, a process of its own, *)
(* works out the profiles anew, writes that file for every VM and sends it *)
(* over minimega, which may fail.                                          *)
(***************************************************************************)
EXTENDS ScalePlugins

VARIABLES
  vm,            \* the VM of the profile that is next, 0 before the first
  addrs,         \* post-start: the networks of the profile, each with its next address
  sent           \* the files that each VM was sent since the experiment was started

scaleVars == <<vm, addrs, sent>>

ScaleInit == vm = 0 /\ addrs = << >> /\ sent = << >>

(* Metadata without profiles is one profile called "default"; a profile    *)
(* without a name is called by its plugin.                                 *)
NameOf(s, p) == IF s.root THEN "default" ELSE Or(p.name, PluginName(p))

Profiles ==
  [k \in DOMAIN scenario.profiles |->
    [scenario.profiles[k] EXCEPT !.name = NameOf(scenario, scenario.profiles[k])]]

ThisProfile == Profiles[step.i]

InProfiles(stage) == app = stage /\ At("profiles") /\ step.i <= Len(Profiles)

Outside(stage) == InProfiles(stage) /\ vm = 0

InVms(stage) == InProfiles(stage) /\ vm \in 1..NodeCount(ThisProfile)

VmsDone(stage) == InProfiles(stage) /\ vm > NodeCount(ThisProfile)

ThisHost == Hostname(ThisProfile, vm)

NextVm == vm' = vm + 1

EndProfile(stage) ==
  /\ VmsDone(stage)
  /\ Again /\ vm' = 0
  /\ UNCHANGED <<scenario, doc, files, starts, app, nodes, addrs, sent>>

FailStage ==
  /\ app' = "failed" /\ nodes' = NoNodes
  /\ step' = [loop |-> "none", i |-> 1]
  /\ vm' = 0 /\ addrs' = << >>

-----------------------------------------------------------------------------
(* The configure stage.                                                    *)
StartupFile(hostname) == <<"startup", hostname>>
ConfigFile(hostname, k) == <<"scale", hostname, k>>
Tarball == <<"wind-configs">>

BeginProfile ==
  /\ Outside("configure")
  /\ ~GetPluginRaises(ThisProfile) /\ ~ProfileInvalid(ThisProfile) /\ ~ConfigInvalid(ThisProfile)
  /\ vm' = 1
  /\ UNCHANGED <<processVars, addrs, sent>>

ProfileFails ==
  /\ Outside("configure")
  /\ ~(~GetPluginRaises(ThisProfile) /\ ~ProfileInvalid(ThisProfile) /\ ~ConfigInvalid(ThisProfile))
  /\ FailStage
  /\ UNCHANGED <<scenario, doc, files, starts, sent>>

(* A VM that is there already stays as it is.                              *)
AddNode(ns, node) == IF InTopology(ns, node.hostname) THEN ns ELSE Append(ns, node)

StartInject(hostname) == [src |-> StartupFile(hostname), dst |-> <<"startup", 999>>]

CommonInjects(p, hostname) ==
  <<StartInject(hostname)>>
  \o [k \in DOMAIN p.scripts |-> [src |-> p.scripts[k], dst |-> <<"startup", 500 + k>>]]

FarmInjects(p) ==
  (IF p.replay THEN <<[src |-> <<"replay-data">>, dst |-> <<"weather">>]>> ELSE << >>)
  \o <<[src |-> Tarball, dst |-> <<"wind-configs">>]>>

(* Where the federates of a main controller find their broker; the code    *)
(* asserts that there is an address.                                       *)
BrokerAddress(ns, broker) ==
  IF broker = None THEN None
  ELSE IF broker.host # None THEN ExtractNodeInterfaceIp(ns, broker.host, broker.iface)
  ELSE broker.ip

FarmRaises(p, i) ==
  /\ MainControllers(p, i) # {}
  /\ UsesHelics(p) /\ BrokerAddress(nodes, p.helics) = None

(* The count starts over with every VM, and working out the broker's       *)
(* address for the annotation counts once more.                            *)
CountsFederates(p, i) ==
  /\ UsesHelics(p) /\ MainControllers(p, i) # {}
  /\ p.helics # None /\ p.helics.host # None /\ p.helics.base # None

FederateCount(p, i) == p.helics.base + Cardinality(MainControllers(p, i)) + 1

Annotated(ns, p, i) ==
  IF ~CountsFederates(p, i) THEN ns
  ELSE AddAnnotation(ns, p.helics.host,
                     <<[broker |-> BrokerAddress(ns, p.helics), count |-> FederateCount(p, i)]>>)

FarmConfigs(p, i, upTo) ==
  [path \in {ConfigFile(Hostname(p, i), k) : k \in 1..upTo} |-> ContainerConfig(p, FarmContainers(p, i)[path[3]])]

(* The tarball is made anew for every VM, under one name, of the whole     *)
(* directory of the app.                                                   *)
\* Mutant: it is made of the VM's own configurations.
InTarballOwn(fs, hostname) == {path \in DOMAIN fs : Len(path) = 3 /\ path[1] = "scale" /\ path[2] = hostname}

InTarball(fs, hostname) == {path \in DOMAIN fs : Len(path) = 3 /\ path[1] = "scale"}

WithTarball(fs, hostname) ==
  Overlay(File(Tarball, [path \in InTarball(fs, hostname) |-> fs[path]]), fs)

WithStartup == Overlay(File(StartupFile(ThisHost), "startup"), files)

ConfigureVm ==
  /\ InVms("configure")
  /\ LET p == ThisProfile
         common == AddInjects(AddNode(nodes, NodeSpec(p, vm)), ThisHost, CommonInjects(p, ThisHost))
     IN  IF ~IsFarm(p)
         THEN nodes' = common /\ files' = WithStartup
         ELSE /\ ~FarmRaises(p, vm)
              /\ nodes' = Annotated(AddInjects(common, ThisHost, FarmInjects(p)), p, vm)
              /\ files' = WithTarball(Overlay(FarmConfigs(p, vm, ContainerCount(p, vm)), WithStartup), ThisHost)
  /\ NextVm
  /\ UNCHANGED <<scenario, doc, starts, app, step, addrs, sent>>

(* What was written before the first main controller stays.                *)
ConfigureVmFails ==
  /\ InVms("configure") /\ IsFarm(ThisProfile) /\ FarmRaises(ThisProfile, vm)
  /\ LET first == CHOOSE k \in MainControllers(ThisProfile, vm) : \A j \in MainControllers(ThisProfile, vm) : k <= j
     IN  files' = Overlay(FarmConfigs(ThisProfile, vm, first - 1), WithStartup)
  /\ FailStage
  /\ UNCHANGED <<scenario, doc, starts, sent>>

ConfigureDone ==
  /\ app = "configure" /\ At("profiles") /\ step.i > Len(Profiles)
  /\ Finish("configured")
  /\ UNCHANGED <<scenario, files, starts, scaleVars>>

-----------------------------------------------------------------------------
(* The post-start stage.                                                   *)
MinimegaFile(hostname) == <<"mm", hostname>>

(* A network whose VLAN the experiment does not have is left out, with a   *)
(* warning; of the others the network must be given.                       *)
Keep(known, net, vlans) == IF net.name \in vlans THEN Append(known, net) ELSE known

Known(networks, vlans) == FoldLeft(LAMBDA known, net : Keep(known, net, vlans), << >>, networks)

WithAddresses(networks) == Known(networks, scenario.vlans)

NetworksRaise(networks) ==
  \E k \in DOMAIN networks : networks[k].name \in scenario.vlans /\ networks[k].network = None

\* Mutant: a network that is left out of the addresses is still an interface.
NetNamesAll(networks) == [k \in DOMAIN networks |-> networks[k].name]

NetNames(networks) == [k \in DOMAIN WithAddresses(networks) |-> WithAddresses(networks)[k].name]

(* An address, or the address of the tap on a VLAN.                        *)
Gateway(gateway) ==
  IF gateway = None \/ gateway.ip # None THEN gateway
  ELSE IF gateway.vlan \in scenario.vlans \cap DOMAIN scenario.taps
       THEN [ip |-> scenario.taps[gateway.vlan], vlan |-> None] ELSE None

BeginNetworks ==
  /\ Outside("post-start") /\ ~NetworksRaise(ThisProfile.networks)
  /\ addrs' = [k \in DOMAIN WithAddresses(ThisProfile.networks) |->
                LET net == WithAddresses(ThisProfile.networks)[k]
                IN  [net |-> net.name, n |-> net.network]]
  /\ vm' = 1
  /\ UNCHANGED <<processVars, sent>>

NetworksFail ==
  /\ Outside("post-start") /\ NetworksRaise(ThisProfile.networks)
  /\ FailStage
  /\ UNCHANGED <<scenario, doc, files, starts, sent>>

(* The containers a file launches: their names, networks, addresses (the   *)
(* first belongs to the first network and so on) and gateway, and for a    *)
(* farm the directory of the VM they have their configuration from.  The   *)
(* template counts the containers of a VM from 1.                          *)
BuiltinContainers(p, i) ==
  [k \in 1..ContainerCount(p, i) |->
    [name |-> <<"container", k>>, nets |-> NetNames(p.networks),
     ips |-> [j \in DOMAIN addrs |-> [addrs[j] EXCEPT !.n = @ + k]],
     gateway |-> Gateway(p.gateway), volume |-> None]]

ExtNets(p) == IF p.extNet.name \in scenario.vlans THEN <<p.extNet.name>> ELSE << >>

FarmLaunch(p, i) ==
  [k \in 1..ContainerCount(p, i) |->
    LET c == FarmContainers(p, i)[k]
        main == c.type = "main-controller"
    IN  [name |-> ContainerName(c),
         nets |-> (IF main THEN ExtNets(p) ELSE << >>) \o <<TurbineNet(c.turbine)>>,
         ips  |-> (IF main THEN <<ExtIp(p, c.turbine)>> ELSE << >>) \o <<PrivateIp(c.turbine, c.type)>>,
         gateway |-> IF main THEN Gateway(p.extNet.gateway) ELSE PrivateIp(c.turbine, "main-controller"),
         volume |-> ConfigFile(Hostname(p, i), k)]]

Launched(p, i) == IF IsFarm(p) THEN FarmLaunch(p, i) ELSE BuiltinContainers(p, i)

LaunchRaises(p, i) ==
  IsFarm(p) /\ ContainerCount(p, i) # 0 /\ NetworksRaise(<<p.extNet>>)

(* The command goes to whom the filter of the call before it names.        *)
\* Mutant: the filter is not set.
RecipientsAll(hostname) == {doc[k].hostname : k \in DOMAIN doc}

Recipients(hostname) == {hostname} \cap {doc[k].hostname : k \in DOMAIN doc}

Received(hostname) == IF hostname \in DOMAIN sent THEN sent[hostname] ELSE {}

\* Mutant: the next VM's containers start at the same address.
AdvanceNot(nets, containers) == nets

Advance(nets, containers) == [k \in DOMAIN nets |-> [nets[k] EXCEPT !.n = @ + containers]]

StartVm ==
  /\ InVms("post-start") /\ ~LaunchRaises(ThisProfile, vm)
  /\ Write(MinimegaFile(ThisHost), Launched(ThisProfile, vm))
  /\ sent' = Overlay([h \in Recipients(ThisHost) |-> Received(h) \cup {MinimegaFile(ThisHost)}], sent)
  /\ addrs' = Advance(addrs, ContainerCount(ThisProfile, vm))
  /\ NextVm
  /\ UNCHANGED <<scenario, doc, starts, app, nodes, step>>

StartVmFails ==
  /\ InVms("post-start") /\ LaunchRaises(ThisProfile, vm)
  /\ FailStage
  /\ UNCHANGED <<scenario, doc, files, starts, sent>>

(* The connection to minimega, the filter or the command.                  *)
ConnectFails ==
  /\ app = "post-start" /\ At("profiles") /\ step.i = 1 /\ vm = 0
  /\ FailStage
  /\ UNCHANGED <<scenario, doc, files, starts, sent>>

SendFails ==
  /\ InVms("post-start") /\ ~LaunchRaises(ThisProfile, vm)
  /\ Write(MinimegaFile(ThisHost), Launched(ThisProfile, vm))
  /\ FailStage
  /\ UNCHANGED <<scenario, doc, starts, sent>>

PostStartDone ==
  /\ app = "post-start" /\ At("profiles") /\ step.i > Len(Profiles)
  /\ Finish("started")
  /\ addrs' = << >>
  /\ UNCHANGED <<scenario, files, starts, vm, sent>>

ScaleNext ==
  \/ BeginProfile \/ ProfileFails \/ ConfigureVm \/ ConfigureVmFails
  \/ EndProfile("configure") \/ ConfigureDone
  \/ BeginNetworks \/ NetworksFail \/ StartVm \/ StartVmFails
  \/ ConnectFails \/ SendFails
  \/ EndProfile("post-start") \/ PostStartDone
=============================================================================
