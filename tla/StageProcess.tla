---------------------------- MODULE StageProcess ----------------------------
(***************************************************************************)
(* What ComponentBase promises of the process that runs one stage of a     *)
(* Scorch component: once inside execute_stage it ends by writing the      *)
(* stage's status file, with the error if there was one, and its exit code *)
(* says the same as the file.  Only a signal that kills it, a failure      *)
(* before execute_stage, or a disk that refuses the file ends it without.  *)
(***************************************************************************)
VARIABLES
    phase,     \* "boot" | "inStage" | "ended" | "killed"
    status,    \* what the status file says: "none" | "ok" | "error"
    exitOk     \* the process ended with exit code 0

stageVars == <<phase, status, exitOk>>

StageInit == phase = "boot" /\ status = "none" /\ exitOk = FALSE

Enter == /\ phase = "boot" /\ phase' = "inStage"
         /\ UNCHANGED <<status, exitOk>>

InitFails == /\ phase = "boot" /\ phase' = "ended" /\ exitOk' = FALSE
             /\ UNCHANGED status

Finish == /\ phase = "inStage" /\ phase' = "ended"
          /\ status' \in {"ok", "error"}
          /\ exitOk' = (status' = "ok")

StatusRefused == /\ phase = "inStage" /\ phase' = "ended" /\ exitOk' = FALSE
                 /\ UNCHANGED status

Killed == /\ phase \in {"boot", "inStage"} /\ phase' = "killed"
          /\ UNCHANGED <<status, exitOk>>

StageNext == Enter \/ InitFails \/ Finish \/ StatusRefused \/ Killed

StageSpec == StageInit /\ [][StageNext]_stageVars
=============================================================================
