------------------------------ MODULE MirrorApp ------------------------------
(***************************************************************************)
(* The mirror app (Go): the taps, tunnels and mirrors it makes on the      *)
(* cluster hosts of one experiment, over the experiment's starts and       *)
(* stops.  post-start makes a tap on every cluster host, then for every    *)
(* target VM and every host a tunnel and, when a VM of that host has       *)
(* traffic to mirror, a mirror; an error undoes what was made, and only    *)
(* success saves the names in the experiment's status.  cleanup, and the   *)
(* next pre-start, delete what the saved status names.  Every stage is a   *)
(* process of its own: one that dies leaves the hosts as they are, and     *)
(* the experiment goes on, as it does when a stage only logs its error.    *)
(* Under a dry run nothing is made or deleted, but post-start chooses and  *)
(* saves names all the same.                                               *)
(***************************************************************************)
EXTENDS Integers, FiniteSets

CONSTANTS
    Hosts,        \* cluster hosts
    NumTargets,   \* VMs that receive mirrored traffic, the app's hosts, in their order
    Seen,         \* <<target, host>>: VMs on host have taps to mirror to target
    Topology,     \* what the topology says of a target's interface
    MaxStarts,    \* bound: starts of the experiment
    MaxErrors,    \* bound: creations that fail
    MaxFaults     \* bound: deletions that fail, processes that die, stages that give up

Targets == 1 .. NumTargets

ASSUME MirrorAssumption ==
    /\ NumTargets \in Nat
    /\ Seen \subseteq Targets \X Hosts
    /\ Topology \in [Targets -> {"absent", "noAddress", "address"}]
    /\ MaxStarts \in Nat /\ MaxErrors \in Nat /\ MaxFaults \in Nat

VARIABLES
    \* the cluster (external)
    taps,        \* <<host, start>>: the tap of that start
    ports,       \* <<host, start, target>>: tunnel ports
    mirrors,     \* <<host, start, target>>
    \* the experiment (external)
    schedule,    \* hosts with VMs of the experiment: the keys of cluster(exp)
    starts,      \* starts so far; stands for the random names of a start
    status,      \* the saved app status: [tap, mirrors], tap = 0 when there is none
    configured,  \* the first targets, those that configure gave an address
    dryrun,      \* the experiment was started, and is stopped, as a dry run
    \* the stage under way
    pc,
    todo,        \* hosts a loop over cluster has still to visit
    doomed,      \* <<host, target>>: mirrors a deleting loop has still to visit
    target,      \* loop index of setupMirrors
    recorded,    \* targets in post-start's status.Mirrors
    \* history
    made,        \* the last post-start succeeded and was no dry run
    astray,      \* starts of which something may be left: a deletion failed, a process
                 \* other than cleanup was cut short, or a dry run passed over it
    errors, faults

world == <<taps, ports, mirrors>>
experiment == <<schedule, starts, status, configured, dryrun>>
stage == <<todo, doomed, target, recorded>>
history == <<made, astray, errors, faults>>

vars == <<world, experiment, pc, stage, history>>

NoStatus == [tap |-> 0, mirrors |-> {}]

PreStartAt  == {"pre", "preMirrors", "preTap"}
PostStartAt == {"begin", "tap", "pick", "tunnel", "mirror"}
RollbackAt  == {"undoTaps", "undoMirrors"}
CleanUpAt   == {"cleanMirrors", "cleanTap"}

Init ==
    /\ taps = {} /\ ports = {} /\ mirrors = {}
    /\ schedule = {} /\ starts = 0 /\ status = NoStatus /\ configured = 0 /\ dryrun = FALSE
    /\ pc = "stopped" /\ todo = {} /\ doomed = {} /\ target = 1 /\ recorded = {}
    /\ made = FALSE /\ astray = {} /\ errors = 0 /\ faults = 0

Fault == faults < MaxFaults /\ faults' = faults + 1
Stray(n) == astray' = astray \cup {n}
Fails == errors < MaxErrors /\ errors' = errors + 1

(***************************************************************************)
(* configure: the targets get addresses in turn; the first that cannot be  *)
(* served (no interface named, no such node, no free subnet) ends the      *)
(* stage, the targets after it keep what the topology says.                *)
(***************************************************************************)
Configure ==
    /\ pc = "stopped"
    /\ configured' \in configured .. NumTargets
    /\ UNCHANGED <<world, schedule, starts, status, dryrun, pc, stage, history>>

(***************************************************************************)
(* Deleting: every mirror on every host, and the tap on every host; errors *)
(* are collected and the loops go on.  The maps have no order.             *)
(***************************************************************************)
\* deleteMirrorFromHost: the mirror, then its port, whatever became of the mirror.
DeleteMirrorFromHost(x) ==
    \/ /\ mirrors' = mirrors \ {x} /\ ports' = ports \ {x}
       /\ UNCHANGED <<astray, faults>>
    \/ /\ Fault /\ Stray(x[2])
       /\ mirrors' \in {mirrors, mirrors \ {x}} /\ ports' \in {ports, ports \ {x}}

\* The loop of deleteMirror over the mirrors of start n.
DeleteMirrors(here, n) ==
    /\ pc = here
    /\ \E x \in doomed :
        /\ DeleteMirrorFromHost(<<x[1], n, x[2]>>)
        /\ doomed' = doomed \ {x}
    /\ UNCHANGED <<taps, experiment, pc, todo, target, recorded, made, errors>>

\* The loop of deleteTap.
DeleteTaps(here, n) ==
    /\ pc = here
    /\ \E h \in todo :
        /\ \/ taps' = taps \ {<<h, n>>} /\ UNCHANGED <<astray, faults>>
           \/ Fault /\ Stray(n) /\ UNCHANGED taps
        /\ todo' = todo \ {h}
    /\ UNCHANGED <<ports, mirrors, experiment, pc, doomed, target, recorded, made, errors>>

MirrorsDeleted(here, next) ==
    /\ pc = here /\ doomed = {}
    /\ pc' = next
    /\ UNCHANGED <<world, experiment, stage, history>>

TapsDeleted(here, next) ==
    /\ pc = here /\ todo = {}
    /\ pc' = next
    /\ UNCHANGED <<world, experiment, stage, history>>

(***************************************************************************)
(* A start: pre-start deletes what the status names, phenix launches the   *)
(* VMs, then post-start.                                                   *)
(***************************************************************************)
Start ==
    /\ pc = "stopped" /\ starts < MaxStarts
    /\ dryrun' \in BOOLEAN
    /\ pc' = "pre"
    /\ UNCHANGED <<world, schedule, starts, status, configured, stage, history>>

\* Mutant: pre-start leaves the deleting to cleanup.
PreStartTrusting ==
    /\ pc = "pre"
    /\ pc' = "launch"
    /\ UNCHANGED <<world, experiment, stage, history>>

\* A dry run ends before the deletions, and so does a target whose metadata cannot be decoded
\* or, to be set up with OVS, is not in the topology.  No status: nothing to delete.
PreStart ==
    /\ pc = "pre"
    /\ \/ /\ ~dryrun /\ status = NoStatus
          /\ pc' = "launch" /\ UNCHANGED <<todo, doomed, astray, faults>>
       \/ /\ ~dryrun /\ status # NoStatus
          /\ pc' = "preMirrors" /\ todo' = schedule /\ doomed' = schedule \X status.mirrors
          /\ UNCHANGED <<astray, faults>>
       \/ /\ (dryrun /\ UNCHANGED faults) \/ Fault
          /\ Stray(status.tap)
          /\ pc' = "launch" /\ UNCHANGED <<todo, doomed>>
    /\ UNCHANGED <<world, experiment, target, recorded, made, errors>>

PreStartDeletes ==
    \/ DeleteMirrors("preMirrors", status.tap) \/ MirrorsDeleted("preMirrors", "preTap")
    \/ DeleteTaps("preTap", status.tap) \/ TapsDeleted("preTap", "launch")

\* The scheduler places the VMs anew.
Launch ==
    /\ pc = "launch"
    /\ schedule' \in SUBSET Hosts \ {{}}
    /\ starts' = starts + 1
    /\ pc' = "begin"
    /\ UNCHANGED <<world, status, configured, dryrun, stage, history>>

(***************************************************************************)
(* post-start.                                                             *)
(***************************************************************************)
\* The names, the status to save and the deferred function; without a mirror network the
\* stage ends before them.
BeginPostStart ==
    /\ pc = "begin"
    /\ \/ pc' = "tap" /\ UNCHANGED errors
       \/ pc' = "running" /\ Fails
    /\ todo' = schedule /\ doomed' = {} /\ target' = 1 /\ recorded' = {}
    /\ UNCHANGED <<world, experiment, made, astray, faults>>

\* The deferred function: the taps, then the mirrors recorded so far, on every host; under
\* a dry run it does nothing.
RollBack ==
    IF dryrun THEN pc' = "running" /\ UNCHANGED todo
    ELSE pc' = "undoTaps" /\ todo' = schedule

\* What is made on the hosts, nothing under a dry run.
Make(x) == IF dryrun THEN {} ELSE {x}

\* createMirrorTaps: the next host; a tap whose creation fails may be there or not.
CreateTap ==
    /\ pc = "tap"
    /\ \E h \in todo :
        \/ /\ taps' = taps \cup Make(<<h, starts>>) /\ todo' = todo \ {h}
           /\ UNCHANGED <<pc, errors>>
        \/ /\ ~dryrun /\ Fails
           /\ taps' \in {taps, taps \cup {<<h, starts>>}}
           /\ RollBack
    /\ UNCHANGED <<ports, mirrors, experiment, doomed, target, recorded, made, astray, faults>>

TapsCreated ==
    /\ pc = "tap" /\ todo = {}
    /\ pc' = "pick"
    /\ UNCHANGED <<world, experiment, stage, history>>

Addressed(t) == t <= configured \/ Topology[t] = "address"

\* The target's metadata cannot be decoded: the stage ends with an error.
TargetRefused ==
    /\ pc = "pick" /\ target \in Targets
    /\ Fails /\ RollBack
    /\ UNCHANGED <<world, experiment, doomed, target, recorded, made, astray, faults>>

\* Mutant: a target enters status.Mirrors when it has been set up, not before.
PickTargetUnrecorded ==
    /\ pc = "pick" /\ target \in Targets
    /\ \/ /\ Addressed(target)
          /\ todo' = schedule /\ pc' = "tunnel" /\ UNCHANGED <<target, recorded>>
       \/ /\ ~Addressed(target) /\ Topology[target] = "absent"
          /\ target' = target + 1 /\ UNCHANGED <<pc, todo, recorded>>
    /\ UNCHANGED <<world, experiment, doomed, history>>

\* setupMirrors: the next target enters status.Mirrors before anything is made for it;
\* one whose interface is not there is skipped.
PickTarget ==
    /\ pc = "pick" /\ target \in Targets
    /\ \/ /\ Addressed(target)
          /\ recorded' = recorded \cup {target}
          /\ todo' = schedule /\ pc' = "tunnel" /\ UNCHANGED target
       \/ /\ ~Addressed(target) /\ Topology[target] = "absent"
          /\ target' = target + 1 /\ UNCHANGED <<pc, todo, recorded>>
    /\ UNCHANGED <<world, experiment, doomed, history>>

\* getTargetIP: MustParseIP panics on an interface without address; the deferred function
\* finds no error and undoes nothing.
Panic ==
    /\ pc = "pick" /\ target \in Targets
    /\ ~Addressed(target) /\ Topology[target] = "noAddress"
    /\ pc' = "running" /\ Stray(starts)
    /\ UNCHANGED <<world, experiment, stage, made, errors, faults>>

\* Mutant: the first host without taps to mirror ends the loop over the hosts.
CreateTunnelReturns ==
    /\ pc = "tunnel"
    /\ \E h \in todo :
        \/ /\ ports' = ports \cup Make(<<h, starts, target>>)
           /\ IF ~dryrun /\ <<target, h>> \in Seen
              THEN pc' = "mirror" /\ todo' = todo
              ELSE pc' = pc /\ todo' = {}
           /\ UNCHANGED errors
        \/ /\ ~dryrun /\ Fails
           /\ ports' \in {ports, ports \cup {<<h, starts, target>>}}
           /\ RollBack
    /\ UNCHANGED <<taps, mirrors, experiment, doomed, target, recorded, made, astray, faults>>

\* createTunnel on one host of the loop in setupMirrors; buildMirrorCommand may then find
\* no taps to mirror there, and a dry run does not look.
CreateTunnel ==
    /\ pc = "tunnel"
    /\ \E h \in todo :
        \/ /\ ports' = ports \cup Make(<<h, starts, target>>)
           /\ IF ~dryrun /\ <<target, h>> \in Seen
              THEN pc' = "mirror" /\ todo' = todo
              ELSE pc' = pc /\ todo' = todo \ {h}
           /\ UNCHANGED errors
        \/ /\ ~dryrun /\ Fails
           /\ ports' \in {ports, ports \cup {<<h, starts, target>>}}
           /\ RollBack
    /\ UNCHANGED <<taps, mirrors, experiment, doomed, target, recorded, made, astray, faults>>

\* The mirror on the host whose tunnel was just made: the one with a port and no mirror.
CreateMirror ==
    /\ pc = "mirror"
    /\ \E h \in todo :
        LET x == <<h, starts, target>> IN
        /\ <<target, h>> \in Seen /\ x \in ports \ mirrors
        /\ \/ /\ mirrors' = mirrors \cup {x}
              /\ todo' = todo \ {h} /\ pc' = "tunnel" /\ UNCHANGED errors
           \/ /\ Fails
              /\ mirrors' \in {mirrors, mirrors \cup {x}}
              /\ RollBack
    /\ UNCHANGED <<taps, ports, experiment, doomed, target, recorded, made, astray, faults>>

TargetDone ==
    /\ pc = "tunnel" /\ todo = {}
    /\ pc' = "pick" /\ target' = target + 1
    /\ UNCHANGED <<world, experiment, todo, doomed, recorded, history>>

\* The names are saved, those of a dry run too.
SaveStatus ==
    /\ pc = "pick" /\ target > NumTargets
    /\ status' = [tap |-> starts, mirrors |-> recorded]
    /\ pc' = "running"
    /\ IF dryrun THEN UNCHANGED made ELSE made' = TRUE
    /\ UNCHANGED <<world, schedule, starts, configured, dryrun, stage, astray, errors, faults>>

\* The error is logged and the process ends as if nothing had happened.
RollbackDeletes ==
    \/ DeleteTaps("undoTaps", starts)
    \/ /\ pc = "undoTaps" /\ todo = {}
       /\ pc' = "undoMirrors" /\ doomed' = schedule \X recorded
       /\ UNCHANGED <<world, experiment, todo, target, recorded, history>>
    \/ DeleteMirrors("undoMirrors", starts) \/ MirrorsDeleted("undoMirrors", "running")

(***************************************************************************)
(* cleanup, when the experiment is stopped; without a status it fails and  *)
(* deletes nothing, and under a dry run it has nothing to do.              *)
(***************************************************************************)
CleanUp ==
    /\ pc = "running"
    /\ IF dryrun \/ status = NoStatus
       THEN pc' = "stopped" /\ UNCHANGED <<todo, doomed>>
       ELSE pc' = "cleanMirrors" /\ todo' = schedule /\ doomed' = schedule \X status.mirrors
    /\ made' = FALSE
    /\ UNCHANGED <<world, experiment, target, recorded, astray, errors, faults>>

\* Mutant: the taps are left to the next pre-start.
CleanUpDeletesNoTap ==
    DeleteMirrors("cleanMirrors", status.tap) \/ MirrorsDeleted("cleanMirrors", "stopped")

CleanUpDeletes ==
    \/ DeleteMirrors("cleanMirrors", status.tap) \/ MirrorsDeleted("cleanMirrors", "cleanTap")
    \/ DeleteTaps("cleanTap", status.tap) \/ TapsDeleted("cleanTap", "stopped")

\* The process of a stage is killed; the experiment has what it had before the stage.
Die ==
    /\ Fault
    /\ \/ pc \in CleanUpAt /\ pc' = "stopped" /\ UNCHANGED astray
       \/ pc \in PreStartAt /\ pc' = "launch" /\ Stray(status.tap)
       \/ pc \in PostStartAt \cup RollbackAt /\ pc' = "running" /\ Stray(starts)
    /\ UNCHANGED <<world, experiment, stage, made, errors>>

-----------------------------------------------------------------------------
PostStart ==
    \/ BeginPostStart \/ CreateTap \/ TapsCreated \/ TargetRefused \/ PickTarget \/ Panic
    \/ CreateTunnel \/ CreateMirror \/ TargetDone \/ SaveStatus \/ RollbackDeletes

Next ==
    \/ Configure
    \/ Start \/ PreStart \/ PreStartDeletes
    \/ Launch \/ PostStart
    \/ CleanUp \/ CleanUpDeletes
    \/ Die

Spec == Init /\ [][Next]_vars

-----------------------------------------------------------------------------
TypeOK ==
    /\ taps \subseteq Hosts \X (1 .. starts)
    /\ ports \subseteq Hosts \X (1 .. starts) \X Targets
    /\ mirrors \subseteq Hosts \X (1 .. starts) \X Targets
    /\ schedule \subseteq Hosts /\ starts \in Nat
    /\ status \in [tap : 0 .. starts, mirrors : SUBSET Targets]
    /\ configured \in 0 .. NumTargets /\ dryrun \in BOOLEAN
    /\ pc \in PreStartAt \cup PostStartAt \cup RollbackAt \cup CleanUpAt
               \cup {"stopped", "launch", "running"}
    /\ todo \subseteq Hosts /\ doomed \subseteq Hosts \X Targets
    /\ target \in 1 .. NumTargets + 1 /\ recorded \subseteq Targets
    /\ made \in BOOLEAN /\ astray \subseteq 0 .. starts /\ errors \in Nat /\ faults \in Nat

\* A post-start that can still undo what it made: the hosts and the targets it loops over.
Undoing(h, n) == n = starts /\ h \in schedule /\ pc \in PostStartAt \cup RollbackAt

\* What the saved status leads cleanup and pre-start to.
Named(h, n) == n = status.tap /\ h \in schedule

\* Everything on the cluster hosts is within reach, named in the saved status or of a
\* post-start that will save it or undo it, whatever creation failed, on whatever hosts
\* the VMs were scheduled and even when a cleanup was killed halfway.  What a failed deletion,
\* a killed stage or a dry run has left is that of one start: nothing else goes with it.
NothingIsLost ==
    /\ \A x \in taps : x[2] \in astray \/ Named(x[1], x[2]) \/ Undoing(x[1], x[2])
    /\ \A x \in ports \cup mirrors :
        \/ x[2] \in astray
        \/ Named(x[1], x[2]) /\ x[3] \in status.mirrors
        \/ Undoing(x[1], x[2]) /\ x[3] \in recorded

\* Nothing of an earlier start is on the hosts when the VMs are launched ("so we can avoid
\* any post-start errors arising from GRE taps and mirrors already existing"), also after
\* a cleanup that was killed halfway, but what went astray.
LaunchIsClean ==
    pc = "launch" => \A x \in taps \cup ports \cup mirrors : x[2] \in astray

\* "no need to try to clean up previous experiments if this is a dry run": the names that
\* a dry run is about to replace by its own stand for nothing that is still on the hosts.
DryRunForgetsNothing ==
    (dryrun /\ pc = "pick" /\ target > NumTargets) =>
        \A x \in taps \cup ports \cup mirrors : x[2] # status.tap

\* Without a failed deletion, a killed stage or a stage that gave up that is so: cleanup has
\* been through all that the names stand for, whatever starts came before the dry run.
DryRunIsHarmless == faults = 0 => DryRunForgetsNothing

\* A post-start that ends well has mirrored every host that has something to mirror to every
\* target it can address, and every mirror has the tunnel it sends to.
MadeIsComplete ==
    (pc = "running" /\ made) =>
        \A t \in Targets, h \in schedule :
            (Addressed(t) /\ <<t, h>> \in Seen) =>
                <<h, starts, t>> \in mirrors \cap ports
=============================================================================
