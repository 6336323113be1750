------------------------------- MODULE Helics -------------------------------
(***************************************************************************)
(* The pre-start of the helics app (apps/helics/app.py).  It counts the    *)
(* federates that the annotations of the nodes announce, those other apps  *)
(* have just added included, and writes the start scripts of the root      *)
(* broker and of the sub brokers, which must know how many to wait for.    *)
(* An entry of an annotation is a record of a reference to its broker, the *)
(* number of federates and whether to wait for the broker.                 *)
(***************************************************************************)
EXTENDS OtSim

VARIABLES
  rootIp,        \* the address of the root broker
  total,         \* federates counted so far
  subs           \* for each host of sub brokers, the federates of each endpoint

helicsVars == <<rootIp, total, subs>>

HelicsInit == rootIp = None /\ total = 0 /\ subs = << >>

HelicsReset == rootIp' = None /\ total' = 0 /\ subs' = << >>

WaitFileOfHelics == <<"helics-wait">>
BrokerFile(hostname) == <<"helics-broker", hostname>>

LabelAs(ns, hostname, role) ==
  AddLabel(AddLabel(ns, hostname, "group", "helics"), hostname, "helics", role)

RootHost == ExtractNodeHostnameForIp(nodes, IpOf(scenario.root))

RootRaises == IpOf(scenario.root) = None \/ RootHost = None

ResolveRoot ==
  /\ app = "helics" /\ At("root") /\ ~RootRaises
  /\ rootIp' = IpOf(scenario.root)
  /\ nodes' = LabelAs(nodes, RootHost, "broker")
  /\ Write(WaitFileOfHelics, IpOf(scenario.root))
  /\ GoTo("federates")
  /\ UNCHANGED <<scenario, doc, starts, app, otVars, total, subs>>

RootFails ==
  /\ app = "helics" /\ At("root") /\ RootRaises
  /\ Raise
  /\ UNCHANGED <<scenario, starts, otVars, helicsVars>>

-----------------------------------------------------------------------------
(* One turn of the loop over the annotated nodes, with the loop over the   *)
(* entries of the annotation in it: its result is a record of the          *)
(* topology, the counts and whether an exception was raised.               *)
Federates == AnnotatedNodes(nodes)

(* The broker's "ip:port"; sub brokers listen on 24000 when no port is     *)
(* given.                                                                  *)
Endpoint(ref) == [ip |-> IpOf(ref), port |-> IF ref.port = None THEN SubBrokerPort ELSE ref.port]

(* Whether the reference names the root broker: it is compared as text, so *)
(* a port makes it another one.                                            *)
NamesRoot(ref) == IpOf(ref) = rootIp /\ ref.port = None

(* The entry of a host is made under the endpoint and looked up under the  *)
(* reference as it was written: only a reference that already is an        *)
(* endpoint is found.                                                      *)
Found(ref, entry) == ref.host = None /\ ref.port # None /\ Endpoint(ref) \in DOMAIN entry

NoneOf(endpoint) == [e \in {endpoint} |-> 0]

\* Mutant: every entry of an annotation starts the count of its broker anew.
SubBrokerAnew(acc, config) ==
  LET endpoint == Endpoint(config.broker)
      hostname == ExtractNodeHostnameForIp(acc.nodes, endpoint.ip)
  IN  IF hostname = None \/ ~Found(config.broker, NoneOf(endpoint)) THEN [acc EXCEPT !.raised = TRUE]
      ELSE [acc EXCEPT !.nodes = LabelAs(@, hostname, "broker"),
                       !.subs = Overlay([h \in {hostname} |-> [e \in {endpoint} |-> config.count]], @)]

SubBroker(acc, config) ==
  LET endpoint == Endpoint(config.broker)
      hostname == ExtractNodeHostnameForIp(acc.nodes, endpoint.ip)
      entry == IF hostname \in DOMAIN acc.subs THEN acc.subs[hostname] ELSE NoneOf(endpoint)
  IN  IF hostname = None \/ ~Found(config.broker, entry) THEN [acc EXCEPT !.raised = TRUE]
      ELSE [acc EXCEPT !.nodes = LabelAs(@, hostname, "broker"),
                       !.subs = Overlay([h \in {hostname} |-> [entry EXCEPT ![endpoint] = @ + config.count]], @)]

Configured(acc, config) ==
  IF acc.raised THEN acc
  ELSE LET counted == [acc EXCEPT !.total = @ + config.count]
       IN  IF IpOf(config.broker) = None THEN [acc EXCEPT !.raised = TRUE]
           ELSE IF NamesRoot(config.broker) THEN counted
           ELSE SubBroker(counted, config)

Waits(configs) == configs # << >> /\ configs[1].wait

FederateTurn(fed) ==
  LET labelled == LabelAs(nodes, fed.hostname, "federate")
      waiting == IF Waits(fed.federate)
                 THEN AddInject(labelled, fed.hostname, WaitInject(WaitFileOfHelics))
                 ELSE labelled
  IN  FoldLeft(Configured, [nodes |-> waiting, total |-> total, subs |-> subs, raised |-> FALSE],
               fed.federate)

InFederates == app = "helics" /\ At("federates") /\ step.i <= Len(Federates)

ThisFederate == Federates[step.i]

SkipFederate ==
  /\ InFederates /\ ~ThisFederate.boots
  /\ Again
  /\ UNCHANGED <<scenario, doc, files, starts, app, nodes, otVars, helicsVars>>

Federate ==
  /\ InFederates /\ ThisFederate.boots
  /\ LET turn == FederateTurn(ThisFederate)
     IN  /\ ~turn.raised
         /\ nodes' = turn.nodes /\ total' = turn.total /\ subs' = turn.subs
  /\ Again
  /\ UNCHANGED <<scenario, doc, files, starts, app, otVars, rootIp>>

FederateFails ==
  /\ InFederates /\ ThisFederate.boots
  /\ FederateTurn(ThisFederate).raised
  /\ Raise /\ HelicsReset
  /\ UNCHANGED <<scenario, starts, otVars>>

-----------------------------------------------------------------------------
(* The start scripts: the root broker and the sub brokers of each host.    *)
BrokerHosts == DOMAIN subs \cup {ExtractNodeHostnameForIp(nodes, rootIp)}

RootConfig ==
  [endpoint |-> [ip |-> rootIp, port |-> None], parent |-> None, feds |-> total,
   subs |-> Cardinality(UNION {{<<h, e>> : e \in DOMAIN subs[h]} : h \in DOMAIN subs})]

SubConfigs(hostname) ==
  IF hostname \notin DOMAIN subs THEN {}
  ELSE {[endpoint |-> e, parent |-> rootIp, feds |-> subs[hostname][e], subs |-> 0] : e \in DOMAIN subs[hostname]}

BrokerConfigs(hostname) ==
  (IF hostname = ExtractNodeHostnameForIp(nodes, rootIp) THEN {RootConfig} ELSE {}) \cup SubConfigs(hostname)

WriteBrokers ==
  /\ app = "helics" /\ At("federates") /\ step.i > Len(Federates)
  /\ WriteAll([p \in {BrokerFile(h) : h \in BrokerHosts} |-> BrokerConfigs(p[2])])
  /\ nodes' = InjectInto(nodes, [h \in BrokerHosts |-> BrokerInject(BrokerFile(h))])
  /\ GoTo("done")
  /\ HelicsReset
  /\ UNCHANGED <<scenario, doc, starts, app, otVars>>

HelicsNext ==
  \/ ResolveRoot \/ RootFails
  \/ SkipFederate \/ Federate \/ FederateFails
  \/ WriteBrokers
=============================================================================
