--------------------------- MODULE PodmanExecutor ---------------------------
(***************************************************************************)
(* gitlab_runner/podman: manage.sh starts and stops the runner's container *)
(* and registers it, and the scripts of its custom executor give every job *)
(* a container of its own inside the runner's.  What the GitLab runner     *)
(* does with the scripts (one job at a time, cleanup.sh after every job,   *)
(* git clean in the project's directory) is external.                      *)
(***************************************************************************)
EXTENDS Naturals

CONSTANTS
  Jobs,             \* jobs GitLab has for the runner
  MaxRegistrations  \* bound: runners in config.toml

ExecutorAssumption == MaxRegistrations \in Nat

VARIABLES
  op,          \* what manage.sh does next: "idle", "run" or "unregister"
  runner,      \* whether the container gitlab_runner is running
  registered,  \* runners in config.toml, which lives outside the container
  job,         \* the job at hand, or {}, as a set
  stage,       \* its stage: "none", "prepare", "start", one of
               \* run.sh's, "cleanup" or "remove"
  containers,  \* jobs whose container runs
  dirs,        \* jobs whose directory is there
  gone,        \* history: jobs without a container when cleanup.sh came
  ended        \* jobs that are over

jobVars == <<job, stage, containers, dirs, gone, ended>>
executorVars == <<op, runner, registered, jobVars>>

(* The stages run.sh is called for, and what follows each. *)
Following == [
  prepare_script |-> "get_sources",
  get_sources |-> "build_script",
  build_script |-> "upload_artifacts_on_success",
  upload_artifacts_on_success |-> "cleanup_file_variables",
  cleanup_file_variables |-> "cleanup"]
-----------------------------------------------------------------------------
Init ==
  /\ op = "idle" /\ runner = FALSE /\ registered = 0
  /\ job = {} /\ stage = "none"
  /\ containers = {} /\ dirs = {} /\ gone = {} /\ ended = {}

(* --start, up to the registration.  It runs in a container of the name    *)
(* the runner has, and fails while that one runs; or if GitLab refuses.    *)
Register ==
  /\ op = "idle" /\ ~runner
  /\ registered < MaxRegistrations
  /\ op' = "run" /\ registered' = registered + 1
  /\ UNCHANGED <<runner, jobVars>>

Run ==
  /\ op = "run"
  /\ op' = "idle"
  /\ runner' \in {TRUE, FALSE}
  /\ UNCHANGED <<registered, jobVars>>

(* What is inside the runner's container ends with it: the containers of   *)
(* jobs, and their directories, which are on no volume.                    *)
RunnerEnds ==
  /\ runner
  /\ runner' = FALSE
  /\ ended' = ended \cup job
  /\ job' = {} /\ stage' = "none" /\ containers' = {} /\ dirs' = {}
  /\ UNCHANGED <<registered, gone>>

(* --stop: podman stop fails, and with it the script, if there is no such  *)
(* container.                                                              *)
Stop == op = "idle" /\ RunnerEnds /\ op' = "unregister"

RunnerDies == RunnerEnds /\ UNCHANGED op

Unregister ==
  /\ op = "unregister"
  /\ op' = "idle"
  /\ registered' \in {registered, registered - 1}
  /\ UNCHANGED <<runner, jobVars>>
-----------------------------------------------------------------------------
InStage(s) == runner /\ stage = s
JobOnly == UNCHANGED <<op, runner, registered>>

TakeJob ==
  /\ InStage("none") /\ registered > 0
  /\ \E j \in Jobs \ ended : job' = {j}
  /\ stage' = "prepare"
  /\ JobOnly /\ UNCHANGED <<containers, dirs, gone, ended>>

(* prepare.sh: the directory, then the container, whose image may be       *)
(* missing.  A script that fails leads to cleanup.sh.                      *)
PrepareDirectory ==
  /\ InStage("prepare")
  /\ dirs' = dirs \cup job
  /\ stage' = "start"
  /\ JobOnly /\ UNCHANGED <<job, containers, gone, ended>>

PrepareContainer ==
  /\ InStage("start")
  /\ \/ containers' = containers \cup job /\ stage' = "prepare_script"
     \/ stage' = "cleanup" /\ UNCHANGED containers
  /\ JobOnly /\ UNCHANGED <<job, dirs, gone, ended>>

(* run.sh, for one stage: in the job's container, which has to be there,   *)
(* or beside it.  git clean may remove the directories of jobs.            *)
RunStage ==
  /\ runner /\ stage \in DOMAIN Following
  /\ \/ /\ stage = "build_script" => job \subseteq containers
        /\ stage' = Following[stage]
     \/ stage' = "cleanup"
  /\ dirs' \in {dirs, IF stage = "get_sources" THEN {} ELSE dirs}
  /\ JobOnly /\ UNCHANGED <<job, containers, gone, ended>>

(* The container of the job ends by itself, and is removed. *)
ContainerDies ==
  /\ job \cap containers # {}
  /\ containers' = containers \ job
  /\ JobOnly /\ UNCHANGED <<job, stage, dirs, gone, ended>>

EndJob == job' = {} /\ stage' = "none" /\ ended' = ended \cup job

(* Mutant of CleanupStop: the container is left to itself. *)
CleanupNoStop ==
  /\ InStage("cleanup")
  /\ stage' = "remove"
  /\ JobOnly /\ UNCHANGED <<job, containers, dirs, gone, ended>>

(* cleanup.sh: podman stop, and rm -rf only if that succeeds. *)
CleanupStop ==
  /\ InStage("cleanup")
  /\ IF job \subseteq containers
     THEN containers' = containers \ job /\ stage' = "remove" /\ UNCHANGED <<job, gone, ended>>
     ELSE gone' = gone \cup job /\ EndJob /\ UNCHANGED containers
  /\ JobOnly /\ UNCHANGED dirs

CleanupRemove ==
  /\ InStage("remove")
  /\ dirs' = dirs \ job
  /\ EndJob
  /\ JobOnly /\ UNCHANGED <<containers, gone>>

Next ==
  \/ Register \/ Run \/ Stop \/ RunnerDies \/ Unregister
  \/ TakeJob \/ PrepareDirectory \/ PrepareContainer \/ RunStage
  \/ ContainerDies \/ CleanupStop \/ CleanupRemove

Spec == Init /\ [][Next]_executorVars
-----------------------------------------------------------------------------
(* A job that is over has no container, whichever of its stages failed or  *)
(* was cut off with the runner; and its directory is left behind only if   *)
(* podman stop found no container to stop.                                 *)
JobsLeaveNothing ==
  \A j \in ended : j \notin containers /\ (j \in dirs => j \in gone)
=============================================================================
