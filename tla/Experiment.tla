----------------------------- MODULE Experiment -----------------------------
(***************************************************************************)
(* An experiment whose scenario has the ot-sim app and, after it as its    *)
(* documentation asks, possibly the helics app.  Every start runs the      *)
(* pre-start of both.  Between starts the user may mark a node do_not_boot *)
(* or take the mark away.                                                  *)
(***************************************************************************)
EXTENDS Helics

CONSTANTS
  MaxToggles     \* bound: such changes

VARIABLES
  toggles,       \* changes so far
  clean          \* history: started before, and not changed by the user since

vars == <<processVars, otVars, helicsVars, toggles, clean>>

Init == ProcessInit /\ OtInit /\ HelicsInit /\ toggles = 0 /\ clean = FALSE

Idle == app \in {"none", "started", "failed"}

StartExperiment ==
  /\ Idle /\ starts < MaxStarts
  /\ starts' = starts + 1
  /\ StartOtSim
  /\ UNCHANGED <<scenario, doc, files, otVars, helicsVars, toggles, clean>>

(* The first app is done: the second reads what the first has printed.     *)
HandOver ==
  /\ app = "ot-sim" /\ At("done") /\ UsesHelics
  /\ doc' = nodes
  /\ Launch("helics", "root")
  /\ OtReset
  /\ UNCHANGED <<scenario, files, starts, nodes, helicsVars, toggles, clean>>

Started ==
  /\ At("done") /\ (app = "helics" \/ ~UsesHelics)
  /\ Finish("started")
  /\ OtReset
  /\ clean' = TRUE
  /\ UNCHANGED <<scenario, files, starts, helicsVars, toggles>>

Toggle ==
  /\ Idle /\ toggles < MaxToggles
  /\ \E k \in DOMAIN doc : doc' = [doc EXCEPT ![k].boots = ~@]
  /\ toggles' = toggles + 1
  /\ clean' = FALSE
  /\ UNCHANGED <<scenario, files, starts, app, nodes, step, otVars, helicsVars>>

Apps ==
  \/ OtSimNext /\ UNCHANGED <<helicsVars, toggles, clean>>
  \/ HelicsNext /\ UNCHANGED <<toggles, clean>>

Next == StartExperiment \/ Apps \/ HandOver \/ Started \/ Toggle

Spec == Init /\ [][Next]_vars

-----------------------------------------------------------------------------
OtSimDone == app = "ot-sim" /\ At("done")
HelicsDone == app = "helics" /\ At("done")

DeviceNames == {d.hostname : d \in DevicesOf(scenario)}

Sections(hostname, mode) ==
  {s \in ToSet(files[<<"ot-sim", hostname>>].sections) : s.mode = mode}

(* What a device lists first it also numbers first.                        *)
ServedFirst(hostname, proto) == registers[hostname] # << >> /\ registers[hostname][1].proto = proto

(* Both ends of a connection count out the addresses of the registers by   *)
(* themselves (Points), a FEP over what it has collected by recursion: a   *)
(* client asks a device, over a protocol the device serves, for a register *)
(* by the type and address under which the device has that very tag.  It   *)
(* does not hold for the second protocol a FEP collects, which its clients *)
(* number from the base and the FEP after the first (see the README).      *)
AddressesAgree ==
  OtSimDone =>
    \A h \in DeviceNames : \A c \in Sections(h, "client") :
      \A s \in Sections(c.at, "server") :
        s.proto = c.proto /\ ServedFirst(c.at, c.proto) => ToSet(c.points) \subseteq ToSet(s.points)

(* "All registers available upstream are made available downstream"        *)
(* (device.py): in whatever order the FEPs are listed, each serves every   *)
(* tag that the devices upstream of it serve.                              *)
Tags(sections) == {p.tag : p \in UNION {ToSet(s.points) : s \in sections}}

NothingUpstreamIsHidden ==
  OtSimDone =>
    \A f \in ToSet(scenario.feps) : \A u \in ToSet(f.upstream) :
      Tags(Sections(u, "server")) \subseteq Tags(Sections(f.hostname, "server"))

(* The entries of all nodes that boot, in the order of the nodes.          *)
EntriesOf(node) == IF node.boots /\ node.federate # None THEN node.federate ELSE << >>

Announced == FlattenSeq([k \in DOMAIN nodes |-> EntriesOf(nodes[k])])

(* How many federates those of the entries that are in S stand for.        *)
CountOf(entries, S) == FoldLeft(LAMBDA n, e : IF e \in S THEN n + e.count ELSE n, 0, entries)

RootAddress == IpOf(scenario.root)

Direct(e) == IpOf(e.broker) = RootAddress /\ e.broker.port = None

Naming(endpoint) == {e \in ToSet(Announced) : ~Direct(e) /\ Endpoint(e.broker) = endpoint}

BrokersAt(hostname) ==
  IF Contains(ExtractNode(nodes, hostname).injects, BrokerInject(BrokerFile(hostname)))
  THEN files[BrokerFile(hostname)] ELSE {}

(* A broker waits for as many federates as it was told, so the counts must *)
(* be right: when both apps are done, the root broker expects all          *)
(* federates that will boot, the ot-sim devices included, and every one of *)
(* them that names another broker finds a start script on that broker's    *)
(* host which expects exactly the federates that name it.                  *)
FederatesAreCounted ==
  HelicsDone =>
    /\ \E b \in BrokersAt(ExtractNodeHostnameForIp(nodes, RootAddress)) :
         b.parent = None /\ b.feds = CountOf(Announced, ToSet(Announced))
    /\ \A e \in ToSet(Announced) : Direct(e) \/
         \E b \in BrokersAt(ExtractNodeHostnameForIp(nodes, IpOf(e.broker))) :
           /\ b.parent = RootAddress
           /\ b.endpoint = Endpoint(e.broker)
           /\ b.feds = CountOf(Announced, Naming(b.endpoint))

(* "This would occur, for example, if an experiment gets started multiple  *)
(* times" (add_inject): to start an experiment again leaves it as it is,   *)
(* after each of its apps.                                                 *)
RestartChangesNothing == [][clean => doc' = doc \/ ~clean']_vars

(* What is put into a node has a place of its own: the wait script comes   *)
(* from one of the two apps only, whichever loop adds it.  Two brokers are *)
(* started on a node only if the metadata of both apps ask for it.         *)
AsksTwice ==
  UsesHelics /\ \E b \in {scenario.broker} \cup {s.broker : s \in ToSet(scenario.servers)} :
                  b # None /\ b.base # None

OneInjectPerPlace ==
  \A k \in DOMAIN doc : \A i, j \in DOMAIN doc[k].injects :
    doc[k].injects[i].dst = doc[k].injects[j].dst =>
      i = j \/ (AsksTwice /\ doc[k].injects[i].dst = "helics-broker")

-----------------------------------------------------------------------------
(* README of the helics app, rule 3: a federate broker that is not the     *)
(* root and has no port gets a sub broker on port 24000.  So one that is   *)
(* the address of a node never makes the stage fail.                       *)
DefaultPortAssumed ==
  InFederates /\ ThisFederate.boots /\ Len(ThisFederate.federate) = 1 =>
    LET broker == ThisFederate.federate[1].broker
    IN  broker.port = None /\ ExtractNodeHostnameForIp(nodes, IpOf(broker)) # None
          => ~FederateTurn(ThisFederate).raised

(* README of the ot-sim app: a host's infrastructure defaults to the app's. *)
(* So the registers of a server are those its I/O module has values for.   *)
RegistersAreFed ==
  OtSimDone =>
    \A s \in ToSet(scenario.servers) :
      HasIo(s) => Tags(Sections(s.hostname, "server")) \subseteq files[<<"ot-sim", s.hostname>>].io
=============================================================================
