------------------------------- MODULE ClusterUp -------------------------------
(***************************************************************************)
(* vagrant/k8s: manage.sh on the host starts a load balancer and brings up *)
(* virtual machines one after another; the same script inside each machine *)
(* decides from its address what it is, and founds a Kubernetes cluster or *)
(* joins one.  The first control plane tells the others how to join by     *)
(* files in a folder that all machines, and all later runs, share.         *)
(*                                                                         *)
(* Any step may fail, and the user may bring up, destroy, start and stop   *)
(* the stack or single machines between runs.  Installing packages and     *)
(* what Kubernetes does inside are left out.                               *)
(***************************************************************************)
EXTENDS Integers

CONSTANTS
  Settings,           \* what settings.yml may say: whether control planes run
                      \* other pods, whether dashboard and LongHorn are wanted
  IP_START,           \* last octet of network.control_ip
  NUM_CONTROL_NODES,  \* nodes.control.count
  NUM_WORKER_NODES,   \* nodes.workers.count
  MaxClusters         \* bound: runs of kubeadm init

ASSUME ClusterAssumption ==
  /\ Settings \subseteq [schedule : BOOLEAN, dashboard : BOOLEAN, longhorn : BOOLEAN]
  /\ IP_START \in Nat
  /\ NUM_CONTROL_NODES \in Nat \ {0}
  /\ NUM_WORKER_NODES \in Nat
  /\ MaxClusters \in Nat

(* The machines of the Vagrantfile, by name, and the last octets it gives  *)
(* them.                                                                   *)
Control == {"control-plane"} \X (1 .. NUM_CONTROL_NODES)
Worker == {"worker"} \X (1 .. NUM_WORKER_NODES)
Node == Control \cup Worker
Octet(n) == IF n \in Control THEN IP_START - 1 + n[2]
                             ELSE IP_START - 1 + NUM_CONTROL_NODES + n[2]
First == <<"control-plane", 1>>

File == {"config", "join_worker", "join_control_plane"}
Missing == 0    \* no such file
Useless == -1   \* a script whose command cannot succeed
Nobody == <<"nobody", 0>>

VARIABLES
  settings,  \* settings.yml
  lb,        \* whether the load balancer's container runs
  todo,      \* machines the running vagrant command has still to bring up
  busy,      \* the machine that is being provisioned, or Nobody
  step,      \* the next step of its script
  machine,   \* what vagrant knows of each machine
  result,    \* how its provisioning ended
  cluster,   \* the cluster each machine is in, 0 if none; they are numbered
  kind,      \* as what it is in it
  kube,      \* the cluster its kubeconfig is of
  shared,    \* the cluster each shared file is of
  latest,    \* clusters founded so far
  tainted,   \* whether the control plane that founded it takes no other pods
  addons,    \* what is installed in the latest one
  replaced   \* history: whether the first control plane was destroyed while
             \* another machine was in its cluster

nodeVars == <<machine, result, cluster, kind, kube>>
vars == <<settings, lb, todo, busy, step, nodeVars, shared, latest, tainted, addons, replaced>>

Init ==
  /\ settings \in Settings
  /\ lb = FALSE /\ todo = {} /\ busy = Nobody /\ step = "none"
  /\ machine = [n \in Node |-> "absent"]
  /\ result = [n \in Node |-> "none"]
  /\ cluster = [n \in Node |-> 0]
  /\ kind = [n \in Node |-> "none"]
  /\ kube = [n \in Node |-> 0]
  /\ shared = [f \in File |-> Missing]
  /\ latest = 0 /\ tainted = FALSE /\ addons = {} /\ replaced = FALSE

Idle == todo = {} /\ busy = Nobody
-----------------------------------------------------------------------------
(* On the host.                                                            *)

(* --up and --start.  lb-start fails when there is a container of that     *)
(* name, and then nothing else is done.                                    *)
Up ==
  /\ Idle
  /\ ~lb
  /\ lb' = TRUE
  /\ todo' = Node
  /\ UNCHANGED <<settings, busy, step, nodeVars, shared, latest, tainted, addons, replaced>>

(* vagrant up for a single machine. *)
UpOne(n) ==
  /\ Idle
  /\ todo' = {n}
  /\ UNCHANGED <<settings, lb, busy, step, nodeVars, shared, latest, tainted, addons, replaced>>

(* The next machine, in the order of the Vagrantfile: created and          *)
(* provisioned, or only booted, or left as it is.                          *)
BringUp(n) ==
  /\ busy = Nobody
  /\ n \in todo
  /\ \A m \in todo : Octet(n) <= Octet(m)
  /\ todo' = todo \ {n}
  /\ machine' = [machine EXCEPT ![n] = "running"]
  /\ IF machine[n] = "absent" THEN busy' = n /\ step' = "common"
                              ELSE UNCHANGED <<busy, step>>
  /\ UNCHANGED <<settings, lb, result, cluster, kind, kube, shared, latest, tainted, addons,
                 replaced>>

(* vagrant destroy for some machines; everything on them is gone. *)
Destroy(S) ==
  /\ machine' = [n \in Node |-> IF n \in S THEN "absent" ELSE machine[n]]
  /\ result' = [n \in Node |-> IF n \in S THEN "none" ELSE result[n]]
  /\ cluster' = [n \in Node |-> IF n \in S THEN 0 ELSE cluster[n]]
  /\ kind' = [n \in Node |-> IF n \in S THEN "none" ELSE kind[n]]
  /\ kube' = [n \in Node |-> IF n \in S THEN 0 ELSE kube[n]]
  /\ replaced' = (replaced \/ (First \in S /\ \E n \in Node \ S : cluster[n] # 0))
  /\ UNCHANGED <<settings, todo, busy, step, shared, latest, tainted, addons>>

DestroyOne(n) == Idle /\ machine[n] # "absent" /\ Destroy({n}) /\ UNCHANGED lb

(* --down: if not all machines can be destroyed the load balancer stays;   *)
(* "|| true" hides it.  The shared folder stays as it is.                  *)
Down ==
  /\ Idle
  /\ \E S \in SUBSET {n \in Node : machine[n] # "absent"} :
       /\ Destroy(S)
       /\ lb' = (lb /\ \E n \in Node \ S : machine[n] # "absent")

(* --stop, with vagrant halt in the place of destroy.                      *)
Stop ==
  /\ Idle
  /\ \E S \in SUBSET {n \in Node : machine[n] = "running"} :
       /\ machine' = [n \in Node |-> IF n \in S THEN "halted" ELSE machine[n]]
       /\ lb' = (lb /\ \E n \in Node \ S : machine[n] = "running")
  /\ UNCHANGED <<settings, todo, busy, step, result, cluster, kind, kube, shared, latest,
                 tainted, addons, replaced>>

(* --lb-stop, or the container ends; it is not restarted. *)
LbStop ==
  /\ lb
  /\ lb' = FALSE
  /\ UNCHANGED <<settings, todo, busy, step, nodeVars, shared, latest, tainted, addons, replaced>>
-----------------------------------------------------------------------------
(* Inside a machine.                                                       *)
At(s) == busy # Nobody /\ step = s

Then(s) == step' = s /\ UNCHANGED <<busy, todo, machine, result>>

(* The script ends with exit code 0. *)
Done ==
  /\ result' = [result EXCEPT ![busy] = "ok"]
  /\ busy' = Nobody
  /\ step' = "none"
  /\ UNCHANGED <<todo, machine>>

(* A command fails: so does the script, and vagrant brings up no more. *)
Abort ==
  /\ result' = [result EXCEPT ![busy] = "failed"]
  /\ busy' = Nobody
  /\ step' = "none"
  /\ todo' = {}
  /\ UNCHANGED machine

(* Mutant of Roles: every control plane is the first one. *)
AllAreFirst(octet) ==
  LET cp_last == IP_START - 1 + NUM_CONTROL_NODES
  IN {r \in {"first", "worker"} :
        \/ r = "first" /\ IP_START <= octet /\ octet <= cp_last
        \/ r = "worker" /\ cp_last < octet}

(* The tests of config-generic-box: what a machine with this address is.   *)
Roles(octet) ==
  LET cp_last == IP_START - 1 + NUM_CONTROL_NODES
      wrk_first == IP_START + NUM_CONTROL_NODES
      wrk_last == IP_START - 1 + NUM_CONTROL_NODES + NUM_WORKER_NODES
  IN {r \in {"first", "subsequent", "worker"} :
        \/ r = "first" /\ octet = IP_START
        \/ r = "subsequent" /\ IP_START + 1 <= octet /\ octet <= cp_last
        \/ r = "worker" /\ wrk_first <= octet /\ octet <= wrk_last}

(* common-all-nodes, and the choice of a role; they exclude each other.  A *)
(* machine that finds none is done.                                        *)
Common ==
  /\ At("common")
  /\ IF Roles(Octet(busy)) = {} THEN Done ELSE \E r \in Roles(Octet(busy)) : Then(r)
  /\ UNCHANGED <<settings, lb, cluster, kind, kube, shared, latest, tainted, addons, replaced>>

(* The API of a cluster, which all machines reach by the load balancer. *)
Reachable(c) ==
  lb /\ \E n \in Node : machine[n] = "running" /\ cluster[n] = c /\ kind[n] = "control"

(* Mutant of KubeadmInit: the kubeconfig of this machine is forgotten. *)
KubeadmInitOnly ==
  /\ At("first")
  /\ lb
  /\ latest < MaxClusters
  /\ latest' = latest + 1
  /\ cluster' = [cluster EXCEPT ![busy] = latest']
  /\ kind' = [kind EXCEPT ![busy] = "control"]
  /\ tainted' = TRUE
  /\ addons' = {}
  /\ Then("clean")
  /\ UNCHANGED <<settings, lb, kube, shared, replaced>>

(* control-plane-first: kubeadm init and the kubeconfigs of this machine.  *)
KubeadmInit ==
  /\ At("first")
  /\ lb
  /\ latest < MaxClusters
  /\ latest' = latest + 1
  /\ cluster' = [cluster EXCEPT ![busy] = latest']
  /\ kind' = [kind EXCEPT ![busy] = "control"]
  /\ kube' = [kube EXCEPT ![busy] = latest']
  /\ tainted' = TRUE
  /\ addons' = {}
  /\ Then("clean")
  /\ UNCHANGED <<settings, lb, shared, replaced>>

Write(f, c) == shared' = [shared EXCEPT ![f] = c]
SharingOnly == UNCHANGED <<settings, lb, cluster, kind, kube, latest, tainted, addons, replaced>>

(* Mutant of Clean: the files of an earlier cluster stay. *)
CleanNothing == At("clean") /\ Then("config") /\ UNCHANGED shared /\ SharingOnly

(* rm -f ${config_path}/* "for saving new configuration". *)
Clean ==
  /\ At("clean")
  /\ shared' = [f \in File |-> Missing]
  /\ Then("config")
  /\ SharingOnly

SaveConfig ==
  /\ At("config")
  /\ Write("config", cluster[busy])
  /\ Then("join_worker")
  /\ SharingOnly

(* join_worker.sh; that kubeadm token create fails goes unnoticed. *)
SaveJoinWorker ==
  /\ At("join_worker")
  /\ Write("join_worker", cluster[busy]) \/ Write("join_worker", Useless)
  /\ Then("join_control_plane")
  /\ SharingOnly

(* join_control_plane.sh extends it; a failure there leaves half a script. *)
SaveJoinControl ==
  /\ At("join_control_plane")
  /\ \/ Write("join_control_plane", shared["join_worker"]) /\ Then("taint")
     \/ Write("join_control_plane", Useless) /\ Abort
  /\ SharingOnly

(* If settings.yml wants pods on the control planes: the taint of those    *)
(* that are there, which is this one, is removed.  "|| true" hides that it *)
(* could not be.                                                           *)
RemoveTaint ==
  /\ At("taint")
  /\ tainted' \in IF settings.schedule THEN {TRUE, FALSE} ELSE {tainted}
  /\ Then("calico")
  /\ UNCHANGED <<settings, lb, cluster, kind, kube, shared, latest, addons, replaced>>

(* kubectl apply: Calico, the metrics server, the dashboard, LongHorn.     *)
Install(addon) == addons' = addons \cup {addon}
InstallOnly == UNCHANGED <<settings, lb, cluster, kind, kube, shared, latest, tainted, replaced>>

Calico == At("calico") /\ Install("calico") /\ Then("metrics") /\ InstallOnly
Metrics == At("metrics") /\ Install("metrics") /\ Then("dashboard") /\ InstallOnly

(* The metrics server is scheduled on a machine that takes pods. *)
MetricsCanRun == ~tainted \/ \E n \in Worker : cluster[n] = latest

(* Mutant of SkipDashboard: it waits for the metrics server first. *)
SkipAfterWaiting ==
  /\ At("dashboard")
  /\ ~settings.dashboard
  /\ MetricsCanRun
  /\ Done
  /\ UNCHANGED addons
  /\ InstallOnly

(* dashboard() without a version: "exit 0". *)
SkipDashboard ==
  /\ At("dashboard")
  /\ ~settings.dashboard
  /\ Done
  /\ UNCHANGED addons
  /\ InstallOnly

(* The loop that waits for it ends when it is ready; it also ends when its *)
(* pods are not there yet, or kubectl fails.                               *)
WaitForMetrics ==
  /\ At("dashboard")
  /\ settings.dashboard
  /\ MetricsCanRun
  /\ Then("install dashboard")
  /\ UNCHANGED addons
  /\ InstallOnly

WaitEndsEarly ==
  /\ At("dashboard")
  /\ settings.dashboard
  /\ Then("install dashboard")
  /\ UNCHANGED addons
  /\ InstallOnly

InstallDashboard ==
  /\ At("install dashboard")
  /\ Install("dashboard")
  /\ Then("longhorn")
  /\ InstallOnly

(* longhorn(), also with an "exit 0" when it is not wanted. *)
LongHorn ==
  /\ At("longhorn")
  /\ IF settings.longhorn THEN Install("longhorn") ELSE UNCHANGED addons
  /\ Done
  /\ InstallOnly

(* control-plane-subsequent and worker: run the script that was left. *)
Join(role, file, as) ==
  /\ At(role)
  /\ shared[file] > 0
  /\ Reachable(shared[file])
  /\ cluster' = [cluster EXCEPT ![busy] = shared[file]]
  /\ kind' = [kind EXCEPT ![busy] = as]
  /\ Then("copy")
  /\ UNCHANGED <<settings, lb, kube, shared, latest, tainted, addons, replaced>>

JoinControl == Join("subsequent", "join_control_plane", "control")
JoinWorker == Join("worker", "join_worker", "worker")

(* cp ${config_path}/config; a worker is then labelled with it.            *)
CopyConfig ==
  /\ At("copy")
  /\ shared["config"] # Missing
  /\ kube' = [kube EXCEPT ![busy] = shared["config"]]
  /\ IF kind[busy] = "worker" THEN Then("label") ELSE Done
  /\ UNCHANGED <<settings, lb, cluster, kind, shared, latest, tainted, addons, replaced>>

Label ==
  /\ At("label")
  /\ shared["config"] = cluster[busy] /\ Reachable(cluster[busy])
  /\ Done
  /\ UNCHANGED <<settings, lb, cluster, kind, kube, shared, latest, tainted, addons, replaced>>

(* Any command of the script may fail. *)
Fail ==
  /\ busy # Nobody
  /\ Abort
  /\ UNCHANGED <<settings, lb, cluster, kind, kube, shared, latest, tainted, addons, replaced>>

(* The token of a script expires after a day, its key after two hours:     *)
(* between two runs.                                                       *)
Expire(f) ==
  /\ Idle
  /\ f # "config"
  /\ shared[f] > 0
  /\ Write(f, Useless)
  /\ UNCHANGED <<settings, lb, todo, busy, step, nodeVars, latest, tainted, addons, replaced>>

Script == \/ Common \/ KubeadmInit \/ Clean \/ SaveConfig \/ SaveJoinWorker
          \/ SaveJoinControl \/ RemoveTaint \/ Calico \/ Metrics \/ SkipDashboard
          \/ WaitForMetrics \/ InstallDashboard \/ LongHorn
          \/ JoinControl \/ JoinWorker \/ CopyConfig \/ Label

Host == \/ Up \/ Down \/ Stop \/ LbStop
        \/ \E n \in Node : UpOne(n) \/ DestroyOne(n)

Next == \/ Host \/ Script \/ Fail \/ WaitEndsEarly
        \/ \E n \in Node : BringUp(n)
        \/ \E f \in File : Expire(f)

Spec == Init /\ [][Next]_vars

(* Commands end, with or without success; only the wait for the metrics    *)
(* server is a loop, which nothing but its condition is sure to end.       *)
FairSpec ==
  /\ Spec
  /\ WF_vars(Script \/ \E n \in Node : BringUp(n))
  /\ WF_vars(step # "dashboard" /\ Fail)
-----------------------------------------------------------------------------
(* Whatever runs failed or were repeated, the scripts that tell how to     *)
(* join and the kubeconfig next to them are of one cluster.                *)
SharedFilesAgree ==
  \A f, g \in File : shared[f] > 0 /\ shared[g] > 0 => shared[f] = shared[g]

(* A machine that was provisioned with success is in a cluster, and its    *)
(* kubeconfig is of that one, also if the folder was left by another run.  *)
KubeconfigIsOfItsCluster ==
  \A n \in Node : result[n] = "ok" => cluster[n] # 0 /\ kube[n] = cluster[n]

(* Each machine takes the part that the Vagrantfile's name for it says,    *)
(* though the script derives it from addresses alone.                      *)
KindIsThatOfItsName ==
  \A n \in Node : result[n] = "ok" =>
    kind[n] = IF n \in Control THEN "control" ELSE "worker"

(* All machines are in one cluster, unless the first control plane was     *)
(* destroyed and the others were not.                                      *)
OneCluster ==
  ~replaced => \A m, n \in Node : cluster[m] # 0 /\ cluster[n] # 0 => cluster[m] = cluster[n]

(* The dashboard is wanted, and its script waits for a metrics server that *)
(* has nowhere to run: there is no worker yet, and workers are brought up  *)
(* after the machine that waits.                                           *)
WaitsForMetrics == At("dashboard") /\ settings.dashboard /\ tainted

(* vagrant up returns, again and again, or it waits for that and nothing   *)
(* else for ever.                                                          *)
UpReturns == []<>Idle \/ <>[]WaitsForMetrics

(* "LongHorn will not be installed because you don't need it", and only    *)
(* then.                                                                   *)
LongHornIfWanted ==
  result[First] = "ok" /\ settings.longhorn /\ cluster[First] = latest => "longhorn" \in addons
=============================================================================
