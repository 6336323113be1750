----------------------------- MODULE RemoteExec -----------------------------
(***************************************************************************)
(* What a Scorch component expects of running programs in VMs: a program   *)
(* runs only in the VMs it was meant for, one asked for "once" runs at     *)
(* most once in each, and a caller that waits is given the exit code of    *)
(* its own program.  MinimegaCC implements it when components run one at a *)
(* time.                                                                   *)
(***************************************************************************)
EXTENDS Integers

CONSTANTS Components, VMs, ExitCodes,
          Ops           \* numbers of operations, given in the order they are asked for

VARIABLES
    asked,    \* requests made: [op, by, vms, once]
    runs,     \* executions: [op, vm, code]
    answer    \* the execution each caller was told of: {} or {[op, vm, code]}

vars == <<asked, runs, answer>>

Init ==
    /\ asked = {} /\ runs = {}
    /\ answer = [c \in Components |-> {}]

\* A new operation of c; the answer of its previous one is gone.
Ask(c) ==
    /\ \E op \in Ops, ms \in SUBSET VMs, once \in BOOLEAN :
        /\ \A a \in asked : a.op < op
        /\ asked' = asked \cup {[op |-> op, by |-> c, vms |-> ms, once |-> once]}
    /\ answer' = [answer EXCEPT ![c] = {}]
    /\ UNCHANGED runs

Forget(c) ==
    /\ answer' = [answer EXCEPT ![c] = {}]
    /\ UNCHANGED <<asked, runs>>

Run(v) ==
    \E a \in asked, x \in ExitCodes :
        /\ v \in a.vms
        /\ a.once => ~\E r \in runs : r.op = a.op /\ r.vm = v
        /\ runs' = runs \cup {[op |-> a.op, vm |-> v, code |-> x]}
        /\ UNCHANGED <<asked, answer>>

\* A caller is told of an execution of the operation it asked for last.
Reply(c) ==
    \E r \in runs, a \in asked :
        /\ a.by = c /\ \A b \in asked : b.by = c => b.op <= a.op
        /\ r.op = a.op /\ r.vm \in a.vms
        /\ answer' = [answer EXCEPT ![c] = {r}]
        /\ UNCHANGED <<asked, runs>>

Next ==
    \/ \E c \in Components : Ask(c) \/ Forget(c) \/ Reply(c)
    \/ \E v \in VMs : Run(v)

Spec == Init /\ [][Next]_vars
=============================================================================
