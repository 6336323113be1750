----------------------------- MODULE AppProcess -----------------------------
(***************************************************************************)
(* The process phenix runs for the pre-start of one user app               *)
(* (AppBase.main and execute_stage): it reads the experiment's JSON,       *)
(* changes its copy and prints it only when the stage has succeeded.  An   *)
(* exception ends it with exit code 1 and nothing printed; what it wrote   *)
(* to files stays.  phenix runs the apps of the scenario one after the     *)
(* other, and the experiment may be started again and again.               *)
(***************************************************************************)
EXTENDS Topology

CONSTANTS
  Scenarios,     \* the scenarios an experiment may have (see OtSim and Helics)
  MaxStarts      \* bound: starts of the experiment

VARIABLES
  scenario,      \* the scenario, which no app changes
  doc,           \* the topology as phenix has it
  files,         \* what the apps have written, by path
  starts,        \* how often the experiment was started
  app,           \* the app whose process runs; "none", "started" or "failed" between them
  nodes,         \* the process's copy of the topology
  step           \* where it is: its loop and the index in it

processVars == <<scenario, doc, files, starts, app, nodes, step>>

NoNodes == << >>

At(loop) == app # "none" /\ step.loop = loop

GoTo(loop) == step' = [loop |-> loop, i |-> 1]

Again == step' = [step EXCEPT !.i = @ + 1]

ProcessInit ==
  /\ scenario \in Scenarios
  /\ doc = scenario.topology
  /\ files = << >>
  /\ starts = 0
  /\ app = "none"
  /\ nodes = NoNodes
  /\ step = [loop |-> "none", i |-> 1]

(* The process of an app starts with what phenix has. *)
Launch(name, loop) ==
  /\ app' = name
  /\ GoTo(loop)

(* The stage returned: the experiment is printed and phenix takes it. *)
Finish(next) ==
  /\ doc' = nodes
  /\ nodes' = NoNodes
  /\ app' = next
  /\ step' = [loop |-> "none", i |-> 1]

(* The stage raised: exit(1), and the start of the experiment fails. *)
Raise ==
  /\ app' = "failed"
  /\ nodes' = NoNodes
  /\ step' = [loop |-> "none", i |-> 1]
  /\ UNCHANGED <<doc, files>>

(* What f has goes before what g has; TLC's @@, which no prover can open.  *)
Overlay(f, g) == [x \in DOMAIN f \cup DOMAIN g |-> IF x \in DOMAIN f THEN f[x] ELSE g[x]]

File(path, content) == [x \in {path} |-> content]

NoFiles == << >>

Write(path, content) == files' = Overlay(File(path, content), files)

WriteAll(new) == files' = Overlay(new, files)
=============================================================================
