------------------------- MODULE MCExecutionControl -------------------------
(* One run over two scenarios of the control plane: operations that may    *)
(* use every command of the bound, and fewer of them among ungated         *)
(* commands, where the engine neither pauses itself nor imports a          *)
(* checkpoint.  The scenario is chosen at the start.                       *)
EXTENDS ExecutionControl

CONSTANT MaxUngated   \* bound: commands sent in the ungated scenario

VARIABLE scenario

MCInit == ControlInit /\ scenario \in {"operations", "ungated"}

MCNext ==
  /\ ControlNext
  /\ scenario = "operations" => ~UngatedCommand
  /\ scenario = "ungated" =>
       Len(replies') <= MaxUngated /\ ~EnginePause /\ ~ImportCheckpoint
  /\ UNCHANGED scenario

(* The fairness of ControlFairSpec: the worker's steps send no command.    *)
MCFairSpec ==
  /\ MCInit /\ [][MCNext]_<<allVars, scenario>>
  /\ WF_allVars(Loop /\ UNCHANGED ctlVars)
====
