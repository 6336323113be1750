--------------------------- MODULE MCMinimegaCC ---------------------------
(***************************************************************************)
(* MinimegaCC for TLC: the operations of the components of each run.       *)
(***************************************************************************)
EXTENDS MinimegaCC, TLC

\* Background components beside each other, one of them iperf's configure, which clears
\* the queue.
SharedJobs ==
    {ExecWait(v, TRUE, 0) : v \in VMs} \cup {SendFile(v) : v \in VMs}
    \cup {Exec({v}, TRUE) : v \in VMs} \cup {ClearQueue}

\* Foreground components: operations on one VM, of every kind (a command without filter
\* follows mm_exec_wait); the other VM is there to be mistaken for it.
TheVM == CHOOSE v \in VMs : TRUE

ForegroundJobs ==
    {ExecWait(TheVM, TRUE, 0), ExecWait(TheVM, TRUE, 1), SendFile(TheVM),
     Exec({TheVM}, TRUE), BackgroundExec({TheVM}, FALSE), Reset, ClearQueue}

\* Commands that are not awaited, a reset, and commands that are awaited.
ResetJobs == {Exec({v}, TRUE) : v \in VMs} \cup {Reset} \cup {ExecWait(v, TRUE, 0) : v \in VMs}

\* Nothing but mm_exec_wait, with and without a timeout.
ExecWaitJobs == {ExecWait(v, TRUE, t) : v \in VMs, t \in {0, 1}}

MCSymmetry == Permutations(Components) \cup Permutations(VMs)
=============================================================================
