---------------------------- MODULE MCEvaluation ----------------------------
(* The parts of the offline evaluation, checked one at a time: `focus` names the
   one that moves. *)
EXTENDS Evaluation

VARIABLE focus

\* Three records, on two GPUs, or on one GPU with a parent that dies.
MCDriftTypes == <<"add_column", "rename_column", "add_column">>
OneGpu == INSTANCE EvaluationRun WITH Gpus <- 1, MaxDeaths <- 1
ASSUME OneGpuSound == OneGpu!RunAssumption

runVars == <<baseOnly, main, pc, index, attempt, completed, child, partial, tmp, result, published, deaths>>
loopVars == <<chunk, fallback, process, rows, checkpoint, episodes, turn, instances, report, stops>>
baselineVars == <<mode, reason, reactTurn, usage, final_sql, scored>>
vars == <<focus, runVars, loopVars, controllerVars, baselineVars>>

\* The parts that do not move start in one of their initial states.
Resting ==
  /\ focus \notin {"two gpus", "one gpu"} => baseOnly
  /\ focus # "loop" => chunk = 1 /\ fallback
  /\ focus # "controller" => contract = "complete"
  /\ focus # "baseline" => mode = "direct"

MCInit ==
  /\ focus \in {"two gpus", "one gpu", "loop", "controller", "baseline"}
  /\ IF focus = "two gpus" THEN Run!Init ELSE OneGpu!Init
  /\ Loop!Init /\ Init /\ Baseline!Init
  /\ Resting

MCNext ==
  \/ /\ focus = "two gpus" /\ Run!Next
     /\ UNCHANGED <<focus, loopVars, controllerVars, baselineVars>>
  \/ /\ focus = "one gpu" /\ OneGpu!Next
     /\ UNCHANGED <<focus, loopVars, controllerVars, baselineVars>>
  \/ /\ focus = "loop" /\ Loop!Next
     /\ UNCHANGED <<focus, runVars, controllerVars, baselineVars>>
  \/ /\ focus = "controller" /\ Next
     /\ UNCHANGED <<focus, runVars, loopVars, baselineVars>>
  \/ /\ focus = "baseline" /\ Baseline!Next
     /\ UNCHANGED <<focus, runVars, loopVars, controllerVars>>

\* The parent's threads go on; its processes need not.
ParentStep ==
  \/ /\ focus = "two gpus" /\ Run!ParentStep
     /\ UNCHANGED <<focus, loopVars, controllerVars, baselineVars>>
  \/ /\ focus = "one gpu" /\ OneGpu!ParentStep
     /\ UNCHANGED <<focus, loopVars, controllerVars, baselineVars>>

MCSpec == MCInit /\ [][MCNext]_vars /\ WF_vars(ParentStep)

\* See EvaluationRun.
EvaluationEnds ==
  focus \in {"two gpus", "one gpu"} /\ main = "running" ~> main \in {"published", "failed", "dead"}
=============================================================================
