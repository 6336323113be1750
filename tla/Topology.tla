------------------------------ MODULE Topology ------------------------------
(***************************************************************************)
(* What AppBase (apps/__init__.py) does to the topology of an experiment:  *)
(* the operators the user apps are built from.  A topology is a sequence   *)
(* of nodes, in the order of the experiment's JSON, each a record          *)
(*   hostname  its name                                                    *)
(*   boots     FALSE when it is marked do_not_boot                         *)
(*   ifaces    its interfaces, records of a name and an address or None    *)
(*   labels    a function from the labels it has to their values           *)
(*   federate  its "helics/federate" annotation, None without one          *)
(*   injects   the files phenix puts into it when it boots, records of a   *)
(*             source and a destination                                    *)
(***************************************************************************)
EXTENDS Naturals, Sequences, SequencesExt

CONSTANT None

(* The members of a sequence that are in S, in order: SelectSeq, which no  *)
(* prover can open.                                                        *)
Select(seq, S) ==
  LET upTo[n \in 0..Len(seq)] ==
        IF n = 0 THEN << >> ELSE IF seq[n] \in S THEN Append(upTo[n - 1], seq[n]) ELSE upTo[n - 1]
  IN  upTo[Len(seq)]

(* What the apps rely on in a topology.                                    *)
IsNode(n) ==
  n = [field \in DOMAIN n |-> n[field]] /\ {"hostname", "federate", "injects"} \subseteq DOMAIN n

IsTopology(nodes) == nodes \in Seq(ToSet(nodes)) /\ \A j \in DOMAIN nodes : IsNode(nodes[j])

(* The place of the first node of that name, 0 when there is none. *)
NodeIndex(nodes, hostname) ==
  SelectInSeq(nodes, LAMBDA n : n.hostname = hostname)

InTopology(nodes, hostname) == NodeIndex(nodes, hostname) # 0

ExtractNode(nodes, hostname) == nodes[NodeIndex(nodes, hostname)]

(* The address of the named interface, of the first one when no name is    *)
(* given.  A host that is not in the topology has none: the code raises    *)
(* there, and each of its callers raises when there is no address.         *)
ExtractNodeInterfaceIp(nodes, hostname, iface) ==
  LET ifaces == IF InTopology(nodes, hostname) THEN ExtractNode(nodes, hostname).ifaces ELSE << >>
      i == SelectInSeq(ifaces, LAMBDA f : iface = None \/ (f.name = iface /\ f.address # None))
  IN  IF i = 0 THEN None ELSE ifaces[i].address

(* The first node with that address; a port has been cut off. *)
ExtractNodeHostnameForIp(nodes, ip) ==
  LET i == SelectInSeq(nodes, LAMBDA n : \E k \in DOMAIN n.ifaces : n.ifaces[k].address \in {ip} \ {None})
  IN  IF i = 0 THEN None ELSE nodes[i].hostname

AnnotatedNodes(nodes) == Select(nodes, {n \in ToSet(nodes) : n.federate # None})

IsBooting(nodes, hostname) == ExtractNode(nodes, hostname).boots

(* An annotation and a label replace what was there under the same key. *)
AddAnnotation(nodes, hostname, value) ==
  [nodes EXCEPT ![NodeIndex(nodes, hostname)].federate = value]

AddLabel(nodes, hostname, key, value) ==
  [nodes EXCEPT ![NodeIndex(nodes, hostname)].labels = (key :> value) @@ @]

\* Mutant: an inject is added without looking whether it is there.
AddInjectAgain(nodes, hostname, inject) ==
  [nodes EXCEPT ![NodeIndex(nodes, hostname)].injects = Append(@, inject)]

(* An inject that is there already is not added again: an experiment may   *)
(* be started many times.                                                  *)
AddInject(nodes, hostname, inject) ==
  [nodes EXCEPT ![NodeIndex(nodes, hostname)].injects =
     IF Contains(@, inject) THEN @ ELSE Append(@, inject)]

AddInjects(nodes, hostname, injects) ==
  FoldLeft(LAMBDA ns, inject : AddInject(ns, hostname, inject), nodes, injects)

(* A loop over all nodes, which gives each the inject there is for it.     *)
InjectInto(nodes, injects) ==
  FoldLeft(LAMBDA ns, n : IF n.hostname \in DOMAIN injects THEN AddInject(ns, n.hostname, injects[n.hostname]) ELSE ns,
           nodes, nodes)
=============================================================================
