---------------------------- MODULE ScalePlugins ----------------------------
(***************************************************************************)
(* The plugins of the scale app (apps/scale/registry.py, interface.py and  *)
(* plugins): how many VMs a profile asks for, how they are called and      *)
(* which containers each of them runs.  A stage of the app is a process of *)
(* its own, so whatever the stages must agree on is computed twice.        *)
(*                                                                         *)
(* A profile is a record, None standing for a field that is not given:     *)
(*   name, plugin, version                                                 *)
(*   count, containers, perNode   perNode is containers_per_node           *)
(*   prefix, scripts                hostname_prefix and start_scripts      *)
(*   template   node_template: vcpus, memory, image and interfaces         *)
(*   networks, gateway              of container_template                  *)
(*   extNet     its external_network: a name, a network, a start_ip and a  *)
(*              gateway                                                    *)
(*   helics     None or its broker, a record of a host (and an interface)  *)
(*              or an address, and the base-fed-count                      *)
(*   topic      whether the main controller's template has a helicsTopic   *)
(*   columns, replay                the weather data of the anemometer     *)
(* An address is its number in a network; network 0 is the network itself. *)
(***************************************************************************)
EXTENDS AppProcess, TurbineDevices

Registry ==
  ("builtin" :> {<<1, 0, 0>>, <<2, 0, 0>>}) @@ ("wind_turbine" :> {<<1, 0, 0>>})

(* Versions are compared number by number.                                 *)
Later(v, w) == \E k \in DOMAIN v : v[k] > w[k] /\ \A j \in 1..(k - 1) : v[j] = w[j]

Latest(versions) == CHOOSE v \in versions : \A w \in versions \ {v} : Later(v, w)

PluginName(p) == IF p.plugin = None THEN "builtin" ELSE p.plugin

Version(p) == IF p.version = None THEN Latest(Registry[PluginName(p)]) ELSE p.version

(* Without a plugin the builtin one is looked up, and then refused.        *)
GetPluginRaises(p) ==
  ~(/\ PluginName(p) \in DOMAIN Registry
    /\ p.version = None \/ p.version \in Registry[PluginName(p)])

ProfileInvalid(p) == p.plugin = None

IsFarm(p) == PluginName(p) = "wind_turbine"

ConfigInvalid(p) == ~(p.count >= 1 /\ (IsFarm(p) => p.extNet # None))

CeilDiv(n, m) == (n + m - 1) \div m

(* A wind turbine is six containers.                                       *)
Components == <<"main-controller", "signal-converter", "yaw-controller", "blade-1", "blade-2", "blade-3">>

PrivateNumber ==
  [c \in ToSet(Components) |->
    CASE c = "main-controller" -> 254 [] c = "signal-converter" -> 21 [] c = "yaw-controller" -> 11
      [] c = "blade-1" -> 31 [] c = "blade-2" -> 32 [] c = "blade-3" -> 33]

TurbineNet(turbine) == <<"wtg", turbine>>

PrivateIp(turbine, component) == [net |-> TurbineNet(turbine), n |-> PrivateNumber[component]]

-----------------------------------------------------------------------------
(* How many VMs, how they are called, how many containers each runs.       *)
Containers(p) == IF IsFarm(p) THEN 6 * p.count ELSE p.containers

Nests(p) == Containers(p) > 0 /\ p.perNode > 0

NodeCount(p) == IF Nests(p) THEN CeilDiv(Containers(p), p.perNode) ELSE p.count

\* Mutant: every VM runs the full number of containers, the last one too.
BuiltinCountFull(p, i) == IF Nests(p) THEN p.perNode ELSE 0

BuiltinCount(p, i) ==
  IF ~Nests(p) THEN 0
  ELSE IF i = NodeCount(p) THEN p.containers - (i - 1) * p.perNode ELSE p.perNode

FarmCount(p, i) ==
  IF i * p.perNode <= Containers(p) THEN p.perNode
  ELSE IF i = CeilDiv(Containers(p), p.perNode) THEN Containers(p) % p.perNode ELSE 0

ContainerCount(p, i) == IF IsFarm(p) THEN FarmCount(p, i) ELSE BuiltinCount(p, i)

Hostname(p, i) ==
  IF IsFarm(p) THEN <<p.name, i>>
  ELSE IF Version(p) = <<2, 0, 0>> THEN <<"v2", p.prefix, i>> ELSE <<p.prefix, i>>

(* The VM a profile asks for, the defaults of the app filled in.  With no  *)
(* interface in the template it gets one that trunks every VLAN.           *)
Trunk == [name |-> "ens1", address |-> None]

Or(value, default) == IF value = None THEN default ELSE value

NodeSpec(p, i) ==
  [hostname |-> Hostname(p, i), boots |-> TRUE, federate |-> None, injects |-> << >>,
   labels |-> IF IsFarm(p) THEN "infra" :> "wind" ELSE << >>,
   ifaces |-> IF p.template.ifaces = << >> THEN <<Trunk>> ELSE p.template.ifaces,
   vcpus  |-> Or(p.template.vcpus, IF IsFarm(p) THEN 8 ELSE 1),
   memory |-> Or(p.template.memory, IF IsFarm(p) THEN 16384 ELSE 512),
   image  |-> Or(p.template.image, "minimeta.qc2")]

(* The containers of a farm are numbered through: VM i runs those from     *)
(* perNode * (i - 1) on.                                                   *)
FarmContainers(p, i) ==
  [k \in 1..ContainerCount(p, i) |->
    LET n == (i - 1) * p.perNode + k - 1
    IN  [turbine |-> (n \div 6) + 1, type |-> Components[(n % 6) + 1]]]

ContainerName(c) == <<"wtg", c.turbine, c.type>>

(* The first main controller's address: the network's first one when only  *)
(* a network is given, and .1 of a fixed one without either.               *)
ExtStart(net) ==
  IF net.start # None THEN net.start
  ELSE IF net.network \in {None, 0} THEN 1 ELSE net.network

ExtIp(p, turbine) == [net |-> p.extNet.name, n |-> ExtStart(p.extNet) + turbine - 1]

(* The address ot-sim is configured with: a main controller's external one.*)
TopologyIp(p, c) ==
  IF c.type = "main-controller" THEN ExtIp(p, c.turbine) ELSE PrivateIp(c.turbine, c.type)

UsesHelics(p) == p.helics # None \/ p.topic

(* The configuration of one container of a farm.                           *)
ContainerConfig(p, c) ==
  LET ip(type) == PrivateIp(c.turbine, type)
      at == TopologyIp(p, c)
  IN  CASE c.type = "main-controller" ->
             MainController(at, ip("signal-converter"), ip("yaw-controller"),
                            <<ip("blade-1"), ip("blade-2"), ip("blade-3")>>, p.columns, UsesHelics(p))
        [] c.type = "signal-converter" -> Anemometer(at, p.columns, p.replay)
        [] c.type = "yaw-controller" -> YawController(at)
        [] OTHER -> BladeController(at)

MainControllers(p, i) == {k \in 1..ContainerCount(p, i) : FarmContainers(p, i)[k].type = "main-controller"}
=============================================================================
