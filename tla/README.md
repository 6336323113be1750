# A verification model of the phenix apps

This directory holds TLA+ modules that model the phenix user apps and Scorch
components of this repository, the TLC runs that model-check them, and TLAPS
proofs about them. `PROJECT.json` lists the parts of the system, the runs, the
source lines behind each definition, the mutations each property is sensitive
to, and the hazards the properties were written for.

## The system

phenix runs an *app* as a process per stage of an experiment (configure,
pre-start, post-start, running, cleanup): the experiment comes in as JSON on
stdin and goes out, changed, on stdout. Scorch, one of those apps, runs
*components* the same way: a process for each of the stages configure, start,
stop and cleanup, over and over in runs and loops, foreground components one at
a time and background components beside the others until phenix sends them
SIGTERM. What a process leaves behind is in the experiment's JSON, in files, in
minimega and on the cluster hosts. So the interesting state of this system is
mostly *outside* the programs, shared, and changed in several steps.

| part | state | operations | what is hard | what makes it correct |
|---|---|---|---|---|
| minimega cc helpers (`common/utils.py`) | the namespace's one filter, one command queue, responses, exit codes (in minimega) | mm_exec_wait, mm_wait_for_cmd, mm_cc_exitcode_wait, mm_send, mm_recv, mm_wait_for_prefix | several calls per operation, everything shared by all components; agents that come and go | a program runs only where it was sent; the caller gets its own answer; waits end |
| cc component | commands and files under way | exec, exec and wait, background, send, recv, reset | reset deletes what others wait for | as above |
| ComponentBase (`scorch/app.py`) | the stage process, its status file | constructor, execute_stage | which ways of ending are caught | an ended stage has a status file that agrees with its exit code |
| hoststats | buffer, file, a sampler thread | start | two threads flush one buffer; the signal may be early | no sample lost or repeated; the stage ends when told |
| kafka, kafka listener | pid file, a detached process, the topics subscribed | configure, cleanup | pid file and process out of step; pids used again | every listener can be found and stopped |
| mirror app (Go) | taps, tunnels and mirrors on the hosts, the app status in the experiment | configure, pre-start, post-start, cleanup | rollback after a partial failure; a stage that dies; names saved only at the end | nothing stays on the hosts out of reach; a success is complete |
| AppBase (`apps/__init__.py`) | the topology in the experiment | add_node, add_inject, add_label, add_annotation, the lookups | every start runs the apps on what the last one printed | a second start changes nothing |
| scale with its plugins (builtin, wind_turbine) | VMs added to the topology, containers in them, addresses, a tarball of configurations | configure, post-start | two processes number the same containers, each by its own divisions; minimega may fail | every container once, with its own address and configuration; every VM gets its file |
| wind_turbine app | the injects of the nodes that make up a turbine | pre-start | devices are found in two ways; registers are only counted | a client asks for the registers its server has |
| helics, otsim | brokers, federate counts, registers | pre_start | one app counts what the other announced; both ends of a connection number registers by themselves; front-end processors (FEPs) upstream of each other | the counts agree with the federates; a client reads the register it means |
| sceptre | injects that name files, the files, what one loop keeps for the next | configure, pre-start | configure and pre-start agree on nothing but paths; Python variables outlive their loop; counters belong to a class | every file named is written; registers are numbered without gaps; what is subscribed is published |
| disruption, collector | start and stop times | start, stop | clock arithmetic, remaining time | the collected window lies within the run |
| rtds, providerdata, iperf, vmstats, qos, pcap, mm, ssh, erspan, ... | processes, captures and files in VMs and on hosts | the four stages | cleanup after a stage that failed | nothing is left running |
| schedulers | the schedule | schedule | | every VM has a host |

They interact through minimega (every component uses the same namespace, hence
the same cc filter, queue, prefix and mounts), through the experiment's JSON
(AppBase, the scheduler, the mirror app's status), through files (one
component's output is the collector's input) and through signals.

## Modules

| module | models | source |
|---|---|---|
| `RemoteExec` | abstract: programs asked for, run and answered | what a caller of mm_exec_wait expects |
| `MinimegaCC` | the cc queue, the helpers, the cc component's operations, the agents | `common/utils.py`, `scorch/cc/cc.py`, parts of iperf and tcpdump |
| `MCMinimegaCC` | the operations of each run | |
| `MinimegaCCProofs` | theorems about `MinimegaCC` with components beside each other, and one at a time; the refinement of `RemoteExec` | |
| `StageProcess` | abstract: how a stage process ends | `scorch/app.py` |
| `HostStats` | both threads of hoststats | `scorch/hoststats/hoststats.py` |
| `HostStatsProofs` | theorems about `HostStats`; the refinement of `StageProcess` | |
| `KafkaComponent` | the kafka component's stages and its listener | `scorch/kafka/kafka_component.py` |
| `KafkaProofs` | theorems about `KafkaComponent` | |
| `MirrorApp` | the mirror app over the starts and stops of an experiment | `cmd/phenix-app-mirror/main.go` |
| `MCMirrorApp` | the targets and hosts of the run | |
| `MirrorAppProofs` | theorems about `MirrorApp` | |
| `Topology` | operators: what AppBase reads from and changes in the topology | `apps/__init__.py` |
| `TopologyProofs` | lemmas about `Topology`, and about lists: filtered, flattened and put together | |
| `AppProcess` | the process of a user app's stage: experiment in, experiment out or nothing | `apps/__init__.py` |
| `OtSim` | the pre-start of the ot-sim app | `apps/otsim/` |
| `Helics` | the pre-start of the helics app | `apps/helics/app.py` |
| `OtRegisters` | operators: registers and sections of an ot-sim configuration | `apps/otsim/protocols/` |
| `Experiment` | ot-sim and helics, over the starts of an experiment; their properties | |
| `MCExperiment` | the scenarios of its run | |
| `ExperimentProofs` | theorems about `Experiment` | |
| `Infrastructures` | operators: the fields of each type of device, the numbering of registers | `apps/sceptre/configs/` |
| `Sceptre` | the configure and the pre-start of the sceptre app, and their properties | `apps/sceptre/app.py` |
| `MCSceptre` | the scenarios of its runs | |
| `SceptreProofs` | theorems about `Sceptre` | |
| `TurbineDevices` | operators: the ot-sim devices of a wind turbine, for both ways to deploy one | `apps/scale/plugins/wind_turbine/`, `apps/wind_turbine/` |
| `ScalePlugins` | operators: the registry, and what a plugin computes from a profile | `apps/scale/registry.py`, `apps/scale/plugins/` |
| `Scale` | the configure and the post-start of the scale app | `apps/scale/app.py` |
| `WindTurbineApp` | the pre-start of the standalone wind-turbine app | `apps/wind_turbine/app.py` |
| `WindFarm` | an experiment with either, over configures and starts; their properties | |
| `WindFarmProofs` | theorems about `WindFarm` | |
| `MCWindFarm` | the scenarios of its runs | |

### MinimegaCC

State: minimega's `filter`, `commands`, `nextId`, `responses` and `codes`; the
agents' `active`, `taken`, `working` (programs under way) and `exiting`; for every component the next minimega
call it will make (`pc`), the operation in hand (`job`) and its local variables
(`cmdId`, `ticks`, `uuidFound`, `result`). One action is one minimega call or one
turn of a polling loop, because calls of other components can come between any
two. `Begin` starts an operation; its `kind` says which calls follow:

| kind | calls | code |
|---|---|---|
| execWait | client, filter, issue, poll..., uuid, exitcode, output | mm_exec_wait |
| sendFile | filter, issue, poll..., clear | CC.__send_cmd_as_file |
| exec | filter, issue | exec without wait |
| background | filter, issue, clear | background |
| unfiltered | issue | stage-level exec without filter; tcpdump's rm |
| reset | filter cleared, commands and responses deleted and cleared | CC.__reset_cc |
| clearQueue | commands and responses cleared | the end of Iperf.configure |

minimega and the agents are modelled from how the code uses them: ids agree
across hosts; a command keeps the filter of the moment it was created; deleting
the commands keeps the counter and clearing them may start it over (both are
allowed); a command that is not "once" is sent again to an agent that reconnects. An agent takes a
command (`TakeCommand`), ends its program (`FinishCommand`, the response is counted) and has its exit
code recorded (`RecordExit`), with any time between the three; a connection lost in between may lose the
work (`Disconnect`). minimega matches what an agent sends by nothing but the command's id, so an answer that
comes after a reset passes for that of whatever command has the id by then; when no queued command has
it, the answer may be dropped or kept, and reset's last two calls may leave some behind, as the warning at the
end of `__reset_cc` has it. A program that never ends is not modelled.
The grace periods (CC_CLIENT_GRACE, CC_EXITCODE_GRACE) have no clock: they may be
over at any poll that does not find what it looks for. The `timeout` of
mm_wait_for_cmd is counted in turns of its loop, as in the code.

`begun`, `asked`, `mine`, `disturbed`, `stale` and `runs` are history, for the properties: `stale` says that a
component's command was given an id under which a program, a response or an exit code of an earlier
command was still there. The number of the operation in a command and in a run (`op`) is history too; no action looks at it.

### StageProcess and HostStats

`StageProcess` says how the process of a stage may end; `HostStats` is shown to
implement it. In `HostStats` the main thread goes through construction, the start
of the sampler, `signal.pause()`, the join and the last flush; the sampler tests
`monitor`, polls, flushes and sleeps. A flush is one action per record, so that
every interleaving with the stop, with a refused write and with the process's
death is seen. The handler installed by ComponentBase does nothing, so `Terminate`
only moves a main thread that is in `pause`. `file` is what has been written to
host_stats.jsonl, what Python still buffers for it included.

### KafkaComponent

One action per step of configure and cleanup that another process could see:
testing, opening, writing, reading and removing the pid file, starting and killing
the listener. The host may end a listener and give a free pid to another program.
`strays` is history: listeners that run and whose pid could not be recorded, which the code logs
and gives up. A pid file that cannot be read makes cleanup end well, as if there were no listener; the
file stays, and `unread` (history) has the pid in it until the next stage begins.

### MirrorApp

`taps`, `ports` and `mirrors` are what is on the hosts, labelled with the start that
made them (the code draws random names for each start). `pc` walks through the loops of
pre-start, post-start, its deferred rollback and cleanup, one action per host. The
order in which a loop visits the hosts is free: they are the keys of a Go map. A
creation that fails may or may not have had its effect. `main` returns 0 whatever
happened, so the experiment goes on after every error; `Die` is a process killed in
the middle, `Panic` the one in netaddr.MustParseIP, `TargetRefused` metadata that cannot be decoded. Every start
may be a dry run (`dryrun`): pre-start then returns before its deletions, nothing is made, rolled back or
cleaned up, but names are drawn and saved. `astray` is history, the starts of which something may be left that nothing
names: a deletion of theirs failed, a stage other than cleanup was cut short, or a dry run passed over them. It is
kept per start, so that the properties say what happens to all others. How the mirror subnet is chosen, by
reading the other experiments' state from phenix, is left out, and so is what two experiments configured at the same time
make of it.

### Topology, AppProcess, OtSim, Helics and Experiment

`Experiment` composes the two apps by extension: `AppProcess` declares what is common to
them (`doc`, the topology as phenix has it; `nodes`, the copy of the process at work;
`files`; `step`, the loop the process is in and the index in it), `OtSim` and `Helics`
add their own variables and actions. `doc` changes only when a process prints its result
(`HandOver`, `Started`), so a stage that raises leaves it alone, while what it wrote to
`files` stays. That phenix runs ot-sim before helics, starts an experiment again and
lets its user mark a node do_not_boot (`Toggle`) is outside this repository and modelled
from how the apps use it.

One action is one turn of a loop of pre_start: `Server`, `ConfigureFep` and `Client` in
ot-sim, `Federate` in helics; the loops over the start scripts of brokers are one action
each. A turn that raises is an action of its own (`ServerFails`, `CallFails`, ...): all of it is
lost but its files, and of those only the ones of the device at hand, which the model
leaves out. `FEP.process` is recursive; `calls` is its stack, one action per call
and return, so that FEPs upstream of each other and devices that do not exist are seen.
`registers` has what `process` leaves in each device, in the order of the Python dict; a FEP
is there, empty, before it is processed, as in the code, and `processed` is what keeps it
from being used.

| source | model |
|---|---|
| a host of the scenario with its metadata | a record, described at the head of `OtSim` |
| "host\|iface", "ip", "ip:port" | a record with `host` and `iface`, or `ip` and `port`; `IpOf` resolves it |
| a register's address in the XML | its ordinal among those of its type in its section (`Points` of `OtRegisters`): every protocol module counts from a fixed base |
| a config file | its sections with their points, and the tags of its I/O module |
| a broker's start script | a record of endpoint, parent and count |

Left out of ot-sim: endpoints, scaling, scan rates other than whether there is one, logic
modules, Node-RED, log settings, the TLS details of the API. None changes a register, a
count or an inject's place.

Four things seen in the model, which the properties step around and which nothing written
contradicts:

- a FEP that collects registers of two protocols serves the second after the first, while
  its clients count each protocol from the base; so `AddressesAgree` speaks of the protocol the
  device lists first;
- a client of a DNP3 device never has a scan rate, so its pre-start raises;
- when the last federate of a sub broker is marked do_not_boot, the next start leaves the
  sub broker's inject and labels where they are;
- when both apps are asked for a broker on one host, it gets two injects with one destination.

### Infrastructures and Sceptre

The stages of the sceptre app are one process each, and `Sceptre` composes them over the
starts of an experiment: `BeginConfigure`, `ConfigureHost`... `Configured`, then
`StartExperiment`... `Started` as often as `MaxStarts` allows. A host of the
scenario is a record, described at the head of the module. One action is one turn of one of the loops
of the stage (`Provider`, `FieldDeviceServer`, `Federate`, `Client`, `Opc`, `Scada`, `Hmi`,
`Engineer`, `Historian`); what the code does after a loop is in the action that ends
it (`ServersDone` writes the objects, `FepsDone` the files of the ELK box, `OpcsDone` ...); a turn that raises is
an action of its own. The variable `local` holds the Python variables of pre_start that one loop leaves to the next,
the accidental ones included:

| code | `local` |
|---|---|
| Register.addresses, a counter of the class | `addresses` |
| fd_server_configs, fdlist | `configs`, `fdlist` |
| power_object_list, hil_object_list, objects_file_path | `objects`, `hil`, `objectsAt` |
| fd_ip, opc_config (whatever an earlier loop left in them) | `clientIp`, `opcConfig` |
| opc_configs, opc_bak_configs | `opcs`, `backups` |

`files` maps a path to what is in it as far as another part of the app relies on it: the tags of an OPC
server, the subscriptions and publications of a federate, the OPC server, tags and
replicas of a historian. That a file rendered from a template exists is modelled, its text is not.
`Infrastructures` has the fields of the types of devices of all infrastructures (the longest
table of the app), because the order and number of the fields decide every address.

### ScalePlugins, TurbineDevices, Scale, WindTurbineApp and WindFarm

`WindFarm` runs the configure stage of the scale app, possibly again, and its post-start after
every start, or the pre-start of the standalone app. `ScalePlugins` has what the stages compute from a profile without
state: versions, numbers of VMs and containers, hostnames, which container is which part of
which turbine. `Scale` walks over the profiles (`step.i`) and their VMs (`vm`):

| source | model |
|---|---|
| a turn of configure's loop over profiles, of the loop over VMs | `BeginProfile`, `ConfigureVm` |
| the plugin's pre_configure, on_node_configured, additional injects | in `ConfigureVm` |
| a turn of post-start's loops | `BeginNetworks`, `StartVm` |
| the minimega file of a VM, rendered from a template | the sequence of its containers: networks, addresses, gateway, volume |
| the address of a container | a network and a number in it; `addrs` is what the code carries from VM to VM |
| the tarball of a farm | under one name, what is in it by directory; made anew for every VM |
| cc_filter, then cc_send or cc_exec | `Recipients`, `sent` |

`ConnectFails` and `SendFails` are minimega's errors, `ProfileFails`, `ConfigureVmFails`,
`NetworksFail` and `StartVmFails` those of a profile. A stage that raises prints nothing, so the topology stays, but
the files it wrote stay too. `WindTurbineApp` walks over the turbines its hosts' expressions match and the
devices of each (`device`). The configurations of the devices are those of `TurbineDevices`, with registers as in
`OtRegisters`. Weather values, turbine logic and Node-RED settings are left out.

## Runs

| run | question | instance |
|---|---|---|
| `cc_shared` | what is still true when background components share the queue, and one clears it: does a wait end with the caller's own program run, and with its exit code? | two components, two VMs, three operations: mm_exec_wait, a file, an exec and the clearing |
| `cc_foreground` | what holds of stages that run one at a time, also after a reset, when ids start over, and does every operation end? | one component, two VMs, three operations of all kinds on one of them, an agent lost once |
| `cc_wrong_vm` | does mm_exec_wait keep its command on its VM beside another one? no | two components, two VMs |
| `hoststats` | are samples kept over stop, failure and death, and does the stage end? | a flush every second poll, four samples, one fault |
| `hoststats_lost_signal` | does the process stop whenever it is told? no | no fault |
| `kafka` | can every listener be found and stopped? | five stages, three pids, one fault |
| `mirror` | is everything on the hosts within reach of somebody, is a launch clean, does a dry run forget anything that no fault has left, is a success complete? | two hosts, two targets (one mirrored from both hosts, one from one; one of them without address in the topology), three starts, real or dry, one failed creation, one fault |
| `experiment` | do both ends of each connection, and broker and federates, agree, whatever the order of the devices; does a second start change nothing? | 2 servers, 2 FEPs, up to 1 client over both protocols; 8 nodes, 9 annotations by other apps, 5 roots, 6 brokers; 2 starts, 1 change of do_not_boot |
| `sceptre` | is every file written that a node is given, are registers numbered without gaps, do federates, historians, SCADA and OPC servers agree, does a second start change nothing? | 1028 scenarios in five families, two starts |
| `sceptre_historian` | does a historian use only the OPC server on its subnet, as the comment says? no | the family of the subnets |
| `scale` | is every container there once, with its own address, interface and configuration, does every VM get its file, do turbines' clients find their servers, does a second configure or start change nothing? | 1 or 2 profiles, up to 8 VMs of up to 18 containers; 1 or 2 standalone turbines; 206 scenarios, two configures, two starts |
| `scale_federates` | is the broker of a farm told of all its federates? no | the same |

The bounds are named in the modules (`MaxOps`, `MaxReboots`, `MaxSamples`, `MaxFaults`,
`MaxStages`, `MaxStarts`, `MaxErrors`, `MaxToggles`). Two components and two VMs are enough for one
to disturb another and for a command to reach the wrong VM; three operations let one
component's queue be cleared between an answer and its reading, and let a command be followed by a
reset and by one that gets its id (`cc_foreground`). There one component stands for all: they run one at
a time, and what one leaves to the next is in minimega. Its operations are about one VM; the other is there to
be taken for it. Four samples are two
flushes, the second after a failed first one. Two starts let what the first one
left meet the second (three in `mirror`, for a dry run between two real ones), and in `experiment` the second start runs on what the first printed.
Two FEPs can be listed before or after what is upstream of them, have a device in common
or be upstream of each other; two entries of an annotation can name one broker or two. The
scenarios of `experiment` are two families: in one the devices vary and no helics app runs, in the
other the brokers and annotations vary and the devices are fixed. In `sceptre` one family varies the
protocols and types of devices of two field devices (one protocol, several, serial ones, all
infrastructures whose fields differ in kind, and metadata the stage refuses), one the simulators of two providers
and the clients' interfaces, one what is missing, one has a FEP, and one puts two OPC servers, a backup, a SCADA server and
two historians with secondaries on two subnets in all ways: two of each are enough for one to be
taken for the other, and for a variable of the first to be left to the second. In `scale` 3 turbines are 18
containers, so that VMs of 1 to 18 containers divide them evenly and unevenly, across turbines and within one.

Fairness: in `cc_foreground` a component with a call to make makes it, because its
process is scheduled and minimega answers every call, and an agent that is connected works off its queue, as
miniccc does. Nothing says that an agent that is away comes back, so `EveryOperationEnds` does not promise an end for
every wait: an operation ends, or it is left (`Forsaken`) in a wait without timeout for agents that are gone or have
taken the command and lost it, which is where mm_wait_for_cmd really stays for ever. In `hoststats` both threads
are scheduled. Nothing is assumed fair about faults, signals or stages. The user apps
(`Experiment`, `Sceptre`, `WindFarm`) are programs on one thread whose every step is enabled until they end;
their properties are safety, and they need no fairness.

The four violation runs are disagreements between the code and what is written of it;
each names its property and PROJECT.json quotes the text.

### Disagreements without a standing run

Seven more are stated as properties, and each can be seen violated with a cfg of a few lines. They are kept out
of the runs because each shows a single line of code, or, the first and the third, because a run has the
property that says what remains true (`AnswerIsOwn`, `DryRunIsHarmless`).

| property | what is written | where the code differs | how to see it |
|---|---|---|---|
| `MinimegaCC!CompletedWhenAnswered` | `common/utils.py:498` "The command has completed (mm_wait_for_cmd saw a response)" | the wait is for any response under the command's id (line 573); when `clear cc commands` (`scorch/cc/cc.py:270`) has started the ids over, one left of the command that had the id before ends it, before the new program has run. `cc.py:273-278` warns of responses that a reset leaves | `MCMinimegaCC` with one component, one VM, `Jobs <- ResetJobs`, `ExitCodes = {0}`, `Concurrent = FALSE`, `MaxOps = 3`, `MaxReboots = 0` |
| `MinimegaCC!FallsBackToName` | `common/utils.py:500` "Fall back to the VM name if the UUID lookup comes back empty" | the exit code is looked up by the name, but the output is still searched for the UUID: `None in resp`, a TypeError (line 537) | `MCMinimegaCC` with one component, one VM, `Jobs <- ExecWaitJobs`, `ExitCodes = {0}`, `Concurrent = FALSE`, `MaxOps = 1`, `MaxReboots = 0` |
| `MirrorApp!DryRunForgetsNothing` | `cmd/phenix-app-mirror/main.go:262` "no need to try to clean up previous experiments if this is a dry run" | pre-start of a dry run returns before it deletes what the saved status names, but post-start saves its own names over them (line 353); after a cleanup that was cut short nothing names that start's taps and mirrors any more | `mirror.cfg` with `MaxStarts = 2`, `MaxErrors = 0` |
| `KafkaComponent!EndedHasStatus` | `scorch/app.py:27-28` "Raise exceptions ... instead of calling `sys.exit()`", so that the status file is written | the component itself calls sys.exit | `KafkaComponent` with two pids, `MaxStages = 3`, `MaxFaults = 0` |
| `Experiment!DefaultPortAssumed` | `helics/README.md:46-48` "assume port 24000 for sub broker" | the lookup is by the broker as written, the entry by address and port | `experiment.cfg` with `Scenarios <- BrokerScenarios`, `MaxStarts = 1`, `MaxToggles = 0` |
| `Experiment!RegistersAreFed` | `otsim/README.md:123` "will default to infrastructure in app metadata if not provided" | it is passed as another parameter | the same with `Scenarios <- InfrastructureScenarios` |
| `Sceptre!FepIsConfigured` | `sceptre/app.py:1229` "Write fep config file injection" | the constructor before it lacks an argument and raises | `sceptre.cfg` with `Scenarios <- FepScenarios` |

Others were met while modelling and follow from single lines; the models behave as the code does:

- sceptre: another key of a device than its type and name is deleted while the keys are gone through, which raises
  (`ServerFails`); the start script of a field device under Windows is written under another name than
  configure gave it, and of several PowerWorld providers only the last gets its objects (`Forgotten`, exceptions of
  `InjectsAreWritten`); a federate with a name of its own publishes nothing, because what it publishes is chosen by that
  name; an inverter over SunSpec, and one of power-transmission, end the start; a client without an address takes that
  of the client before; a management interface called "MGMT" is not recognised everywhere; a HELICS broker is
  started for all federates, whichever broker they name;
- scale: a container template's networks are checked for an address only at post-start; nothing checks that addresses
  stay within their network; a main controller whose external VLAN is unknown has an address more than interfaces;
  a farm with no containers per node has VMs without containers; two builtin profiles with the default prefix share their VMs;
  a profile without a plugin is looked up as builtin and then refused; `latest` is resolved again at post-start, and is
  2.0.0 (with other hostnames) where the builtin plugin's README speaks of 1.0.0; the summary of the configure stage
  shows a range of addresses that starts one below the first container's;
- wind_turbine: the standalone app counts the federates of a broker and never makes the inject its README promises;
- kafka: a pid file that cannot be read makes cleanup say that there is no pid and end well, with the listener running
  (`ReadPidFile`, an exception of `CleanupLeavesNoListener`);
- helics: the start script of a sub broker stays injected when its last federate is gone;
- single-node scheduler: it stores the host under the key `hostname`, not under the VM's name.

## Proofs

The theorems hold for every value of the constants, under the assumptions the modules name.
Each safety property is proved from an inductive invariant: the property itself is not
inductive in any of these modules.

### MinimegaCC, components beside each other (`MinimegaCCProofs`)

`TypeCorrect`, `OwnResult` (`ResultIsOwn`), `AnswersAreOwn` (`AnswerIsOwn`) and `CommandStaysQueued` (`CommandKept`), for any sets of
components, VMs and jobs and any bounds. The only assumptions are `ConstantsAssumption` and
`JobsAssumption` (the jobs are operations the components have). The invariant `OwnInv` adds:

- `UniqueIds`: two commands in the queue never have the same id, and all ids are below
  `nextId`; without it the command a component waits for could be another's;
- `AnswersMatch`: the programs running, and the exit codes on their way or recorded, under the id a
  component waits for are those of its own operation, when the id had nothing under it
  (`stale`) and no reset overlaps; nothing in minimega ensures more;
- `CodesRan`: a recorded or pending exit code is that of an execution by that VM;
- `QuietReset`: while some component is resetting, everyone else's operation is marked
  disturbed;
- `CallsOfJob`: a component only makes the calls its kind of operation makes;
- `ResultRead`: the result in hand, past the exit code, is of the component's own
  operation and of the VM it was meant for.

`AnswersAreOwn` adds `ResponsesMatch`: under the id a component waits for, a response is there only when its own program has
been run. It rests on `AnswersMatch` (what ends under that id is the component's) and `CodesRan` (what ends has run).

### MinimegaCC, components one at a time

`RunsOnTarget` (`RunsOnlyOnTarget`) and `ImplementsRemote` (the refinement of `RemoteExec`), for
`Concurrent = FALSE`. Scorch runs foreground components one after the other, and the property is
false beside another component (run `cc_wrong_vm`), so the hypothesis is what the code needs.
`ForegroundInv` extends `OwnInv`: only one component has a call under way and no reset overlaps it (`OneAtATime`); until
its command is created, and from an mm_exec_wait to the component's next operation, the filter selects no other VMs than it means
(`FilterHolds`, which tcpdump's unfiltered rm relies on); a command in the queue goes to the VMs of the operation it was asked for
and is its only one (`CommandsAsked`); before its command is created nothing is queued for an operation and nothing has run
(`NotYetIssued`); a "once" command that has run is taken, so that an agent that reconnects does not run it again (`OnceIsTaken`).
Programs of commands a reset has deleted may still run and answer all the while. `RemoteExec` numbers operations in the
order they are asked for and answers a caller with its latest one only; the refinement maps what was read under an id with something of an
earlier command left to no answer, which is the case `CompletedWhenAnswered` shows.

### HostStats (`HostStatsProofs`)

`FileFollowsSamples`, `SuccessKeepsAll`, `BufferStaysBounded` and `ImplementsStage` (every step is one of
`StageProcess` or a stutter). `SampleInv` adds that the threads take turns with the buffer: the main thread flushes only
when the sampler has ended, and a flush that did not end as it should was refused (`TurnsTaken`); the records a flush has counted
are in the file (`CountedAreInFile`); whatever the disk refuses, a sample is in the file or in the buffer (`SamplesAreKept`), and the
buffer is empty after the last flush (`FlushedAtTheEnd`). `PollsBuffered` ties the length of the buffer to the polls since the last flush.

### KafkaComponent (`KafkaProofs`)

`ListenersAreFound` and `CleanupCleansUp`, an action property. `FoundInv` adds what the pid file says at each step of a
stage (`FileFollowsStage`), what cleanup is about to end with (`CleanedUp`), and that a stray is a listener that still runs. The last was not so in an earlier model, which counted a pid as a stray although its listener had already ended,
and so excused another program that got the pid later; `Lose` counts listeners only. A cleanup that could not read the file ends
well too; what it may leave is exactly the listener the file names (`unread`), and `ListenersAreFound` says that the next cleanup still finds it there.

### MirrorApp (`MirrorAppProofs`)

`NothingGetsLost` and `LaunchesAreClean` rest on `ReachInv`, which is about what is on the hosts without what the starts in `astray` have left
(`KeptTaps`, `Pieces`): from the launch to the end of post-start it is all of
this start, and nothing under a dry run, and a rollback has still to visit what is left of it (`OfThisStart`); at any other time the saved status names it, and pre-start
has still to visit what is left (`OfTheStatus`). A stage that is cut short, a dry run and a panic each give up one start, and by the invariant there is nothing of another that they could take with it (`AllAstray`). `DryRunsAreHarmless` (`DryRunIsHarmless`) rests on `CleanedUp`, which is about what the saved
status names, as long as there was no fault: there is some only while the experiment runs for real, and cleanup's loops have still to visit all of it.
That what post-start saves names all it has made is `ReachInv` again, because a start is not astray while it is being made. `SuccessIsComplete` rests on `MadeInv`: for the targets and hosts the loops have passed, tunnel and mirror are there. The hosts of a loop are a set without order, so no
induction over a list is needed.

### WindFarm (`WindFarmProofs`, `TopologyProofs`)

| theorem | property | from |
|---|---|---|
| `EveryFileIsSent` | `EveryVmGetsItsFile` | `SentInv` |
| `InterfacesGetTheirAddresses` | `AddressesMeetInterfaces` | `FilesInv` |
| `FarmsAddUp` | `ContainersAddUp` | `FilesInv`, the lemmas about divisions and sums |
| `FarmsAreWhole` | `TurbinesAreWhole` | `FilesInv`, the lemmas about divisions |
| `AddressesDiffer` | `AddressesAreDistinct` | `AddressInv`, the lemmas about divisions |
| `ClientsMeetServers` | `ClientsFindServers` | `FilesInv`, `ContainerInv`, `TurbineInv`, the lemmas about divisions |
| `StagesRepeat` | `StageAgainChangesNothing` | `ScaleAgain`, `TurbineAgain`, the lemmas about injects and annotations made again |

They hold for any number of profiles, turbines, containers and containers per VM and any topology; the last two also of the standalone app, with any hosts.
`ScenarioAssumption` is what the plugins validate (numbers are natural, lists are lists), and that no node of the
topology waits for its file before the app has been configured: the script a VM waits with is written by the
app. Every node lists its interfaces and injects (`IsMachine`), a host of the standalone app its turbines and injects. TLC evaluates the assumption on every scenario of its runs.

`SentInv` says which VMs configure has passed and which of them post-start has sent their file. `FilesInv` says what is in the files:
the tarball has the configurations of every VM configured so far, and what a VM runs is what was computed for it from
its own profile, also when a later profile has a VM of the same name (the properties speak of
profiles whose VMs are their own). TLC checked `FilesInv` on the 12691 states of the instance of `scale` before it was proved.

The arithmetic is in lemmas of its own. VM `i` of a farm has containers_per_node containers, or the remainder when it is
the last; `TurbineHasPlace` and `ContainerOfPlace` say that device `j` of turbine `t` is container `n` of VM `i` for one
pair of `i` and `n` only, because quotient and remainder are unique (`DivisionIsUnique`). `SumOfAllButOne` adds up a sum over a set in which
every summand but the last is the same.

`AddressesDiffer` (`AddressesAreDistinct`) rests on `AddressInv`: the addresses post-start carries
from VM to VM are the number of the network plus (i - 1) times containers_per_node (`AddressesCounted`), the
file of a VM has the addresses that follow (`FilesNumbered`), and only profiles the plugins have validated are started
(`ProfilesValidated`). The counting is right only because the one VM with fewer containers is the last. In a farm the pair of network and
number tells turbine and component (`AddressTellsComponent`), and these the container. The theorem has a hypothesis that nothing in the code
ensures, `ScenariosKeepNetworksApart`: a profile that names a network twice gives each container the same address
twice, and so does an external network named like a turbine's private one. `MCWindFarm` assumes it of its scenarios, and TLC evaluates it there.

`ClientsMeetServers` (`ClientsFindServers`) is proved for either app by itself. In the scale app `ContainerInv` is the converse of `ConfigFiles`: every
configuration in the app's directory is that of a container of a farm, whatever stage has failed in between. The client of a container is then one for each other
device of its turbine (`ClientsOfFarm`), that device has a place among the VMs (`TurbineHasPlace`), and its configuration is there and serves what
is asked (`ServersOfFarm`). In the standalone app `TurbineInv` says which devices of which turbines the stage has had its turn with (`HadTurn`),
that their configurations are written and each is what its device needs (`IsDeviceConfig`), and that injects and annotations leave hostnames and addresses as the
scenario has them (`TurbineTopology`), so that a main controller configured first and a blade configured last mean one address. Both need a hypothesis
that only whoever writes the scenario can ensure, `ScenariosKeepDevicesApart`: a farm has its name to itself, which the
documentation asks for, and a host of the standalone app is a device of one kind, an anemometer with one list of columns. `MCWindFarm` assumes it of its scenarios.

`StagesRepeat` (`StageAgainChangesNothing`) says that a stage which has succeeded before prints the experiment as it read it. That is not so of
each of its steps. VMs of several farms, or of one, may announce their federates on the node of one broker, and each overwrites what the one before it wrote: the
copy of a second configure differs from what phenix has until the last of them has had its turn. `ScaleAgain` therefore has two
parts. A topology *reflects* a set of VMs (`Reflects`) when each of them is a node with its injects, and a VM after which no other of the set
announces on the node of its broker has its announcement there; phenix's topology reflects all VMs once a stage has succeeded, the copy at
work those that had their turn. And the copy of a stage that has succeeded before is *nearly* what phenix has (`Nearly`): it differs only in the
announcements of VMs still to come, so in nothing when the loops are through. The announcement has an address in it, which is found again
because no turn changes interfaces or moves a node (`Grows`). In the standalone app a main controller always announces
the same one federate, so that a repeated stage changes nothing at any step (`TurbineAgain`). Both were checked by TLC on the states of `scale` first.

The prover cannot instantiate the library's induction over an operator, so
`NaturalInduction` of `TopologyProofs` is induction over a *set* of numbers, from the existence of a least
element (`WFMin`). It is what makes folds provable: `AddInjects` and `Known`, the networks an experiment knows, are unfolded step by step by it, and so is the sum of
`MapThenSumSet`.

### Sceptre (`SceptreProofs`, `TopologyProofs`)

| theorem | property | from |
|---|---|---|
| `InjectsWritten` | `InjectsAreWritten` | `TopologyInv`, `OutputsInv` |
| `StartsRepeat` | `StartAgainChangesNothing` | `RepeatInv` |
| `FederatesMeet` | `ReadersMeetPublishers` | `FederatesInv` |
| `ObjectsListed` | `ObjectsAreListed` | `ObjectsInv` |
| `SubnetsAgree` | `OneOpcPerSubnet` | `OpcsInv`, `ScadasInv`, `HistoriansInv` |
| `PointsNumbered` | `PointsAreNumbered` | `ConfigsInv`, the lemmas about counters |

They hold for any scenarios that are what `ScenariosAssumption` says: the hosts of the metadata have different names and are
in the topology, what the schema calls a list is one, and no inject of the topology is yet one of the app's. `MaxStarts` is any number. `FieldsAreLists`
says of the table of `Infrastructures` that its fields are lists. TLC evaluates both on every run, and it has checked `SceptreInv`, the conjunction
of the invariants, on the 65531 states of the instance of `sceptre`.

The loops of a start follow each other in a fixed order (`Rank`), so a host of a loop is `Handled` when
the process is in a later loop or further on in that one. All the invariants say what there is for each
host that has been handled; at `Done` that is every host, and the property follows:

- `Places` is where the processes are: a configured experiment is in a loop of the start, any other in one of configure.
- `TopologyInv`: no step changes more of the topology than the injects (`NodesAre`), and each inject of the app is of a path that is
  promised by the loop of a host (`Mentioned`), or is written already (`Given`). Configure knows nothing of pre-start, so the link between them is `Promised`, which says what may be injected for a host, and
  `Output`, what pre-start writes for it; a promise is in the output or in `Forgotten`.
- `OutputsInv`: the output of every host handled is there, and stays.
- `RepeatInv`: after a start that succeeded the topology has the YAML configuration of every provider that gets one in pre-start,
  the only inject made there; the next start adds it again and finds it.
- `FederatesInv`: the files of the federates handled are what `FederateConfig` makes of the configurations of the field devices, which no later loop changes. What is subscribed
  is then published because both are made from the same set of registers by the same names.
- `ObjectsInv`: the names collected so far have the devices of every field device handled whose provider is a power simulator; the file has
  them all once the loop is over. Later loops write other files only (`WhereWritten`).
- `OpcsInv`, `ScadasInv`, `HistoriansInv`: an entry of the dictionary of OPC servers is what the file of a server with that
  address polls, no address has two, and what the files of SCADA servers and historians name is what `OpcFor` and `OpcConfigFor` found. Because no entry changes after its loop, two later
  loops that search for themselves find the same.
- `ConfigsInv`: the registers of a field device's configuration are its fields, numbered from the first addresses; this needs that every device
  leaves the counters of the class as it found them. `NumberedIs` says that register `k` has the first address of its counter plus the number of fields before `k` with
  that counter, by induction over the fold; `AddressesDiffer` that this number tells registers of a counter apart.

`PointsNumbered` has a hypothesis, `FewRegisters`: no field device has more than 20000 registers. Nothing in the code ensures
it, and beyond it the discrete inputs, counted from 10000, run into the input registers, counted from 30000, under one name each. `MCSceptre` assumes it of its scenarios, and TLC evaluates it there.

Several definitions of the model were given names, or a form the provers can open, for these proofs: `Select` filters by a set (the library's
`SelectSeq` is opaque to them), `WriteAll` lays new files over the old, and each loop's files are an operator (`OpcWrites`, `ScadaWrites`, ...).
None changes what the model does: the run has the same states as before.

### Experiment (`ExperimentProofs`, `TopologyProofs`)

| theorem | property | from |
|---|---|---|
| `AddressesMeet` | `AddressesAgree` | `OtInv` |
| `NothingIsHidden` | `NothingUpstreamIsHidden` | `OtInv` |
| `InjectsDoNotCollide` | `OneInjectPerPlace` | `OtInv`, `PlaceInv` |
| `BrokersWaitForAll` | `FederatesAreCounted` | `OtInv`, `PlaceInv`, `CountInv` |

They hold for any scenarios, devices and infrastructures and any numbers of starts and changes by the user. `ScenariosAssumption` is
what the apps rely on: every device is a node of its own, and what is looped over is a list. `PlacesAssumption` says of the user's files
that none takes the place of another or of one of the apps; nothing in the code ensures that, and only `InjectsDoNotCollide` needs it.
`InfrastructuresAssumption` says that the variables of a type are a list. TLC evaluates all three on the scenarios of its run.

`OtInv` describes the recursion over FEPs: the stack has every FEP once and none that is processed (`CallsInv`); what is processed is
a server, FEP or client whose turn has come, or a FEP some other one has called for (`ProcessedInv`); a processed FEP has collected what those
upstream of it offer, and all of those are processed (`CollectedInv`); the file of a device whose turn has passed is what would be made
of what is known now (`ServersInv`, `FepsInv`, `ClientsInv`). What keeps it is that the registers of a processed device never change
again (`Stays`), because a device is processed at most once. All FEPs are known, without registers, before the first of them is processed;
only `CallsInv` and `CollectedInv` together exclude that one is read while it is still empty.

Of the registers themselves: `AllRegs` of a FEP begins with those of the protocol listed first (`AllRegsAre`), and a list that begins another one is numbered alike
(`PointsOfBeginning`), which is why `AddressesAgree` holds of that protocol only. A FEP's groups together have exactly the registers of
all upstream groups (`CollectedIs`, by induction over the fold).

`PlaceInv` says of the topology phenix has, and of the copy of the process at work, that it is the scenario's with other injects, labels and annotations only (`Placed`): each
inject is there once, and is one of those `Possible` for its node, a set that depends on the scenario alone. That two possible injects
with one destination are one inject is then a lemma about scenarios (`PlacesDiffer`). The wait scripts make it hard: they are
numbered in the order in which broker addresses are first seen, so that a start that saw them in another order would name the script of a node otherwise and
inject it twice. `WaitsAfter` is the list of addresses after each server, computed from the scenario's topology, and `WaitsInv` that every
start has this list; it needs that no app changes a node's addresses (`SameHosts`).

`CountInv` says what the loop over the annotated nodes of the helics app has counted so far (`Counts`): in all, what the entries gone through
stand for, and for each endpoint, under the host that has its address, what those of them stand for that name it without naming the root
broker. The entries gone through are those of the first nodes of `Federates` put one after the other (`Entries`), and the count is the one fold `CountOf`, by
which the property says what is right; `NamedCounts` and `DirectCounts` are about one entry more, `FederateTurnCounts` about one node
more, by induction over its annotation. Three facts carry the count from the loop to the brokers: labels and wait scripts change neither the
nodes that are gone through nor what they announce (`AnnouncedStay`), the annotated nodes have all entries that there are
(`AnnotatedHaveAll`), and the loop that hands out the start scripts reaches every host that has an address (`InjectIntoGives`).
Between two loops nothing is counted, also after a stage that has raised (`CleanCounts`).

### Only model-checked

- Liveness (`EveryOperationEnds`, `StopEnds`): out of the prover's reach.
- `RestartChangesNothing` of `Experiment`, about labels that one start overwrites more than once.
- The violation runs' properties, which are false.

No module declares a RECURSIVE operator.

## What is left

The modelling follows its plan to the end. What remains is to prove `RestartChangesNothing`, for which the labels that one start of the
helics app writes over each other need what `Reflects` and `Nearly` are for the announcements of `Scale`.
