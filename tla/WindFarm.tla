------------------------------- MODULE WindFarm -------------------------------
(***************************************************************************)
(* An experiment with the scale app, whose profiles may be wind farms, or  *)
(* with the standalone wind-turbine app the farms came from.  phenix runs  *)
(* the configure stage when the experiment is made, possibly again, and    *)
(* post-start after every start; of the standalone app it runs the         *)
(* pre-start at every start.                                               *)
(***************************************************************************)
EXTENDS Scale, WindTurbineApp

(* A VM waits at boot for its minimega file until it is there.             *)
Waits(node) == Contains(node.injects, StartInject(node.hostname))

(* The fields of a profile have the types the plugins demand of them; a    *)
(* number below 0 is either refused or the same as 0.                      *)
IsProfile(p) ==
  /\ p = [field \in DOMAIN p |-> p[field]]
  /\ {"name", "plugin", "count", "containers", "perNode", "scripts"} \subseteq DOMAIN p
  /\ {p.count, p.containers, p.perNode} \subseteq Nat
  /\ p.scripts \in Seq(ToSet(p.scripts))

(* A node of the experiment lists its interfaces and injects.              *)
IsMachine(n) == "ifaces" \in DOMAIN n /\ n.injects \in Seq(ToSet(n.injects))

(* A host of the standalone app lists its turbines and injects.            *)
IsHostOfTurbines(h) ==
  /\ h.injects \in Seq(ToSet(h.injects)) /\ h.turbines \in Seq(ToSet(h.turbines))
  /\ \A k \in DOMAIN h.turbines :
       LET t == h.turbines[k]
       IN  {"main", "anemo", "yaw", "blades"} \subseteq DOMAIN t /\ t.blades \in Seq(ToSet(t.blades))

(* The script a VM waits with is in the directory of the app, which wrote  *)
(* nothing before it is configured for the first time.                     *)
ASSUME ScenarioAssumption ==
  \A s \in Scenarios :
    /\ IsTopology(s.topology) /\ \A j \in DOMAIN s.topology : IsMachine(s.topology[j])
    /\ s.app = "scale" =>
         /\ \A j \in DOMAIN s.topology : ~Waits(s.topology[j])
         /\ s.profiles \in Seq(ToSet(s.profiles))
         /\ \A k \in DOMAIN s.profiles : IsProfile(s.profiles[k])
    /\ s.app # "scale" =>
         /\ s.hosts \in Seq(ToSet(s.hosts))
         /\ \A k \in DOMAIN s.hosts : IsHostOfTurbines(s.hosts[k])

VARIABLES
  configures,    \* how often the experiment was configured
  clean          \* history: the stage that is to change nothing again has succeeded before

vars == <<processVars, scaleVars, turbineVars, configures, clean>>

Init == ProcessInit /\ ScaleInit /\ TurbineInit /\ configures = 0 /\ clean = FALSE

Idle == app \in {"none", "configured", "started", "failed"}

IsScale == scenario.app = "scale"

Configure ==
  /\ Idle /\ IsScale /\ configures < MaxStarts
  /\ configures' = configures + 1
  /\ Launch("configure", "profiles")
  /\ nodes' = doc
  /\ UNCHANGED <<scenario, doc, files, starts, scaleVars, turbineVars, clean>>

(* Only what was configured is started; what minimega had is gone.         *)
Start ==
  /\ Idle /\ starts < MaxStarts
  /\ IsScale => clean
  /\ starts' = starts + 1
  /\ IF IsScale THEN Launch("post-start", "profiles") ELSE Launch("wind-turbine", "turbines")
  /\ nodes' = doc
  /\ sent' = << >>
  /\ UNCHANGED <<scenario, doc, files, vm, addrs, turbineVars, configures, clean>>

Succeeded == app' \in {"configured", "started"} /\ app' # app

Stages ==
  /\ \/ ScaleNext /\ UNCHANGED turbineVars
     \/ TurbineNext /\ UNCHANGED scaleVars
  /\ clean' = (clean \/ Succeeded)
  /\ UNCHANGED configures

Next == Configure \/ Start \/ Stages

Spec == Init /\ [][Next]_vars

-----------------------------------------------------------------------------
Started == IsScale /\ app = "started"

ProfileVms == UNION {{<<k, i>> : i \in 1..NodeCount(Profiles[k])} : k \in DOMAIN Profiles}

Host(v) == Hostname(Profiles[v[1]], v[2])

Vms(k) == {v \in ProfileVms : v[1] = k}

(* The documentation wants names of profiles unique; the VMs of a profile  *)
(* are its own when no other profile gives them the same hostnames.        *)
IsOwn(k) == \A v \in Vms(k), w \in ProfileVms : Host(v) = Host(w) => v = w

OwnProfiles == {k \in DOMAIN Profiles : IsOwn(k)}

Runs(v) == files[MinimegaFile(Host(v))]

(* The containers of a profile add up to what it asks for, and its VMs are *)
(* as many as needed: none is empty, none has more than containers_per_node. *)
ContainersAddUp ==
  Started =>
    \A k \in OwnProfiles : Nests(Profiles[k]) =>
      /\ MapThenSumSet(LAMBDA v : Len(Runs(v)), Vms(k)) = Containers(Profiles[k])
      /\ \A v \in Vms(k) : Len(Runs(v)) \in 1..Profiles[k].perNode

(* However the containers are spread over VMs, every turbine of a farm has *)
(* each of its six components exactly once, and the directory a container  *)
(* mounts (the tarball, which one stage wrote, unpacked by the VM, under   *)
(* the number another stage gave the container) configures that component  *)
(* of that turbine.                                                        *)
TurbinesAreWhole ==
  Started =>
    \A k \in OwnProfiles : IsFarm(Profiles[k]) /\ Nests(Profiles[k]) =>
      \A t \in 1..Profiles[k].count, j \in DOMAIN Components :
        LET c == [turbine |-> t, type |-> Components[j]]
            at == {a \in Vms(k) \X (1..Profiles[k].perNode) :
                     a[2] \in DOMAIN Runs(a[1]) /\ Runs(a[1])[a[2]].name = ContainerName(c)}
        IN  /\ Cardinality(at) = 1
            /\ \A a \in at :
                 LET volume == Runs(a[1])[a[2]].volume
                 IN  /\ volume \in DOMAIN files[Tarball]
                     /\ files[Tarball][volume] = ContainerConfig(Profiles[k], c)

(* The addresses of a profile's containers are distinct in each network.   *)
(* The private networks of turbines are the plugin's; they count too.      *)
AddressesOf(v) == UNION {{<<n, j>> : j \in DOMAIN Runs(v)[n].ips} : n \in DOMAIN Runs(v)}

AddressesAreDistinct ==
  Started =>
    \A k \in OwnProfiles : \A v, w \in Vms(k) : \A a \in AddressesOf(v), b \in AddressesOf(w) :
      Runs(v)[a[1]].ips[a[2]] = Runs(w)[b[1]].ips[b[2]] => v = w /\ a = b

(* What keeps the networks of a profile apart: each is given once, and the *)
(* external network of a farm is none of its turbines' own.  No code sees  *)
(* to that, whoever writes the scenario does.                              *)
NetworksAreApart(p) ==
  /\ {"plugin", "networks", "extNet"} \subseteq DOMAIN p
  /\ p.networks \in Seq(ToSet(p.networks))
  /\ \A j \in DOMAIN p.networks : p.networks[j].network \in Nat \cup {None}
  /\ \A i, j \in DOMAIN p.networks : p.networks[i].name = p.networks[j].name => i = j
  /\ IsFarm(p) /\ p.extNet # None =>
       /\ {p.extNet.network, p.extNet.start} \subseteq Nat \cup {None}
       /\ \A t \in 1..p.count : p.extNet.name # TurbineNet(t)

ScenariosKeepNetworksApart ==
  \A s \in Scenarios : s.app = "scale" => \A k \in DOMAIN s.profiles : NetworksAreApart(s.profiles[k])

(* Addresses are put on interfaces by position: the interfaces are made    *)
(* from the list of networks, the addresses from another list.  A network  *)
(* that the experiment does not know drops out of both.  A farm has an     *)
(* address for its external network even then, so it must be known.        *)
AddressesMeetInterfaces ==
  Started =>
    \A k \in OwnProfiles :
      (IsFarm(Profiles[k]) => Profiles[k].extNet.name \in scenario.vlans) =>
        \A v \in Vms(k) : \A n \in DOMAIN Runs(v) :
          LET c == Runs(v)[n]
          IN  DOMAIN c.ips = DOMAIN c.nets /\ \A j \in DOMAIN c.ips : c.ips[j].net = c.nets[j]

(* When post-start has succeeded every VM that waits at boot for its file  *)
(* was sent it, and no other.                                              *)
EveryVmGetsItsFile ==
  Started =>
    \A j \in DOMAIN doc : Waits(doc[j]) => Received(doc[j].hostname) = {MinimegaFile(doc[j].hostname)}

(* A client section of a main controller asks a device of the same turbine *)
(* for registers it serves under the same addresses.  The anemometer of a  *)
(* farm without data to replay serves nothing.                             *)
Configs == {path \in DOMAIN files : path[1] \in {"ot-sim", "scale"}}

SectionsOf(path, mode) == {s \in ToSet(files[path].sections) : s.mode = mode /\ s.proto = "modbus"}

SameFarm(f, g) == IsScale => f[2][1] = g[2][1]

Replays(f) == IsScale => \E k \in DOMAIN Profiles : Profiles[k].name = f[2][1] /\ Profiles[k].replay

IsAnemometer(at) == IsScale /\ at.n = PrivateNumber["signal-converter"]

ClientsFindServers ==
  app \in {"configured", "started"} =>
    \A f \in Configs : \A c \in SectionsOf(f, "client") :
      (IsAnemometer(c.at) => Replays(f)) =>
        \E g \in Configs : SameFarm(f, g) /\ \E s \in SectionsOf(g, "server") :
          s.at = c.at /\ ToSet(c.points) \subseteq ToSet(s.points)

(* What keeps the devices of turbines apart, which no code sees to either: *)
(* a farm has its name to itself, as the documentation wants it, and a     *)
(* host of the standalone app is a device of one kind, an anemometer with  *)
(* one list of columns.                                                    *)
FarmsAreApart(s) ==
  \A k, l \in DOMAIN s.profiles :
    IsFarm(s.profiles[k]) /\ NameOf(s, s.profiles[k]) = NameOf(s, s.profiles[l]) => k = l

TurbinesAreApart(s) ==
  \A t, u \in ToSet(TurbinesOf(s.hosts)) :
    /\ {t.main, t.anemo, t.yaw} \cap ToSet(u.blades) = {}
    /\ t.main \notin {u.anemo, u.yaw} /\ t.anemo # u.yaw
    /\ t # u /\ t.anemo = u.anemo => ColumnsOf(s, t) = ColumnsOf(s, u)

ScenariosKeepDevicesApart ==
  \A s \in Scenarios : IF s.app = "scale" THEN FarmsAreApart(s) ELSE TurbinesAreApart(s)

(* Neither another configure nor another start changes an experiment that  *)
(* is as the same stage has left it.                                       *)
StageAgainChangesNothing == [][clean => doc' = doc]_vars

-----------------------------------------------------------------------------
(* The README of the wind-turbine app: the broker is started "with the     *)
(* given number of federates plus however many devices with I/O modules    *)
(* are configured"; the plugin announces that number to the helics app.    *)
FarmFederatesAreCounted ==
  app = "configured" =>
    \A k \in DOMAIN Profiles :
      LET p == Profiles[k]
      IN  IsFarm(p) /\ Nests(p) /\ UsesHelics(p) /\ p.helics.host # None /\ p.helics.base # None =>
            ExtractNode(doc, p.helics.host).federate[1].count = p.helics.base + p.count
=============================================================================
