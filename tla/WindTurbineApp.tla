--------------------------- MODULE WindTurbineApp ---------------------------
(***************************************************************************)
(* The pre-start of the standalone wind-turbine app                        *)
(* (apps/wind_turbine/app.py), deprecated in favour of the plugin of the   *)
(* scale app: each device of a turbine is a node of the topology.  A host  *)
(* of type main-controller names the other devices; its name is a regular  *)
(* expression, and with groups in it one host stands for many turbines.    *)
(* Here a host has                                                         *)
(*   hostname, type                                                        *)
(*   wild      whether its expression has groups                           *)
(*   turbines  for each node that matches, in order, the hostnames of main *)
(*             controller, anemometer, yaw controller and blades           *)
(*   topic     whether its turbine has a helicsTopic                       *)
(*   columns   the weather columns of its own metadata, None without       *)
(*   replay    the data its anemometer replays, None for the default       *)
(*   injects   what its Node-RED module needs                              *)
(***************************************************************************)
EXTENDS AppProcess, TurbineDevices

VARIABLES
  device,        \* the device of the turbine that is next: 1 its main controller, 4 its first blade
  brokers        \* federates counted for the brokers the metadata names by host

turbineVars == <<device, brokers>>

TurbineInit == device = 1 /\ brokers = << >>

TurbineReset == device' = 1 /\ brokers' = << >>

Hosts == scenario.hosts

(* The turbines in the order of the loops over hosts and matching nodes.   *)
TurbinesOf(hosts) ==
  LET mains == Select(hosts, {h \in ToSet(hosts) : h.type = "main-controller"})
      of(h) == [k \in DOMAIN h.turbines |-> Overlay([host |-> h], h.turbines[k])]
  IN  FlattenSeq([k \in DOMAIN mains |-> of(mains[k])])

Turbines == TurbinesOf(Hosts)

ThisTurbine == Turbines[step.i]

InTurbine(d) == app = "wind-turbine" /\ At("turbines") /\ step.i <= Len(Turbines) /\ device = d

AppHost(hosts, hostname) == SelectInSeq(hosts, LAMBDA h : h.hostname = hostname)

(* Without groups the anemometer and the yaw controller must be hosts of   *)
(* the scenario themselves, and of the right type.                         *)
IsHost(t, hostname) == IF t.host.wild THEN TRUE ELSE AppHost(Hosts, hostname) # 0

IsOfType(t, hostname, type) == IF t.host.wild THEN TRUE ELSE Hosts[AppHost(Hosts, hostname)].type = type

Address(hostname) == ExtractNodeInterfaceIp(nodes, hostname, None)

(* The weather columns: the anemometer host's own or those of the          *)
(* template.  The main controller and the anemometer each look them up.    *)
ColumnsOf(s, t) ==
  IF t.host.wild \/ s.hosts[AppHost(s.hosts, t.anemo)].columns = None THEN s.columns
  ELSE s.hosts[AppHost(s.hosts, t.anemo)].columns

\* Mutant: the main controller looks at the template only.
MainColumnsOfTemplate(t) == scenario.columns

MainColumns(t) == ColumnsOf(scenario, t)

AppConfigFile(hostname) == <<"ot-sim", hostname>>

AppConfigInject(hostname) == [src |-> AppConfigFile(hostname), dst |-> "ot-sim-config"]

WithConfig(hostname, injects, config) ==
  /\ Write(AppConfigFile(hostname), config)
  /\ nodes' = AddInjects(nodes, hostname, Append(injects, AppConfigInject(hostname)))
  /\ UNCHANGED <<scenario, doc, starts, app>>

NextDevice == device' = device + 1 /\ UNCHANGED step

Broker == scenario.broker

AppBrokerAddress ==
  IF Broker = None THEN None
  ELSE IF Broker.host # None THEN ExtractNodeInterfaceIp(nodes, Broker.host, Broker.iface) ELSE Broker.ip

(* The brokers the app counts for, which nothing uses.                     *)
CountFederate ==
  IF Broker.host = None \/ Broker.base = None THEN brokers
  ELSE (Broker.host :> (IF Broker.host \in DOMAIN brokers THEN brokers[Broker.host] ELSE Broker.base) + 1) @@ brokers

MainWorks(t) ==
  /\ t.host.topic => AppBrokerAddress # None
  /\ IsHost(t, t.anemo) /\ IsHost(t, t.yaw)
  /\ \A h \in {t.main, t.anemo, t.yaw} \cup ToSet(t.blades) : Address(h) # None

AddFederate(ns, t) ==
  IF t.host.topic THEN AddAnnotation(ns, t.main, <<[broker |-> AppBrokerAddress, count |-> 1]>>) ELSE ns

MainControllerConfigured ==
  /\ InTurbine(1) /\ MainWorks(ThisTurbine)
  /\ LET t == ThisTurbine
     IN  /\ Write(AppConfigFile(t.main),
                  MainController(Address(t.main), Address(t.anemo), Address(t.yaw),
                                 [k \in DOMAIN t.blades |-> Address(t.blades[k])], MainColumns(t), t.host.topic))
         /\ nodes' = AddInjects(AddFederate(nodes, t), t.main, Append(t.host.injects, AppConfigInject(t.main)))
         /\ brokers' = IF t.host.topic THEN CountFederate ELSE brokers
  /\ NextDevice
  /\ UNCHANGED <<scenario, doc, starts, app>>

Replay(t) ==
  IF t.host.wild \/ Hosts[AppHost(Hosts, t.anemo)].replay = None THEN scenario.replay
  ELSE Hosts[AppHost(Hosts, t.anemo)].replay

AnemometerConfigured ==
  /\ InTurbine(2) /\ IsOfType(ThisTurbine, ThisTurbine.anemo, "anemometer")
  /\ WithConfig(ThisTurbine.anemo, <<[src |-> Replay(ThisTurbine), dst |-> "weather"]>>,
                Anemometer(Address(ThisTurbine.anemo), ColumnsOf(scenario, ThisTurbine), TRUE))
  /\ NextDevice /\ UNCHANGED brokers

YawConfigured ==
  /\ InTurbine(3) /\ IsOfType(ThisTurbine, ThisTurbine.yaw, "yaw-controller")
  /\ WithConfig(ThisTurbine.yaw, << >>, YawController(Address(ThisTurbine.yaw)))
  /\ NextDevice /\ UNCHANGED brokers

BladeConfigured ==
  /\ InTurbine(device) /\ device >= 4 /\ device - 3 <= Len(ThisTurbine.blades)
  /\ LET blade == ThisTurbine.blades[device - 3]
     IN  WithConfig(blade, << >>, BladeController(Address(blade)))
  /\ NextDevice /\ UNCHANGED brokers

NextTurbine ==
  /\ InTurbine(device) /\ device - 3 > Len(ThisTurbine.blades)
  /\ Again /\ device' = 1
  /\ UNCHANGED <<scenario, doc, files, starts, app, nodes, brokers>>

TurbineFails ==
  /\ \/ InTurbine(1) /\ ~MainWorks(ThisTurbine)
     \/ InTurbine(2) /\ ~IsOfType(ThisTurbine, ThisTurbine.anemo, "anemometer")
     \/ InTurbine(3) /\ ~IsOfType(ThisTurbine, ThisTurbine.yaw, "yaw-controller")
  /\ Raise /\ TurbineReset
  /\ UNCHANGED <<scenario, starts>>

(* The loop ends and the stage with it: no broker is started.              *)
TurbinesDone ==
  /\ app = "wind-turbine" /\ At("turbines") /\ step.i > Len(Turbines)
  /\ Finish("started") /\ TurbineReset
  /\ UNCHANGED <<scenario, files, starts>>

TurbineNext ==
  \/ MainControllerConfigured \/ AnemometerConfigured \/ YawConfigured \/ BladeConfigured
  \/ NextTurbine \/ TurbineFails \/ TurbinesDone
=============================================================================
