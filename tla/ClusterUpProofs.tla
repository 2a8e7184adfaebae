---------------------------- MODULE ClusterUpProofs ----------------------------
(* ClusterUp for any numbers of control planes and workers, any addresses  *)
(* and any number of clusters founded one after another.                   *)
EXTENDS ClusterUp, TLAPS

FirstSteps == {"clean", "config", "join_worker", "join_control_plane", "taint", "calico",
               "metrics", "dashboard", "install dashboard", "longhorn"}
Steps == {"none", "common", "first", "subsequent", "worker", "copy", "label"} \cup FirstSteps

Typed ==
  /\ busy \in Node \cup {Nobody}
  /\ step \in Steps
  /\ (busy = Nobody <=> step = "none")
  /\ machine \in [Node -> {"absent", "halted", "running"}]
  /\ result \in [Node -> {"none", "ok", "failed"}]
  /\ cluster \in [Node -> Nat] /\ kube \in [Node -> Nat]
  /\ kind \in [Node -> {"none", "control", "worker"}]
  /\ shared \in [File -> Int]
  /\ shared["config"] >= 0
  /\ latest \in Nat /\ tainted \in BOOLEAN

LEMMA NobodyIsNoNode == Nobody \notin Node
  BY DEF Nobody, Node, Control, Worker

LEMMA FirstIsNode == First \in Control /\ First \in Node
  BY ClusterAssumption DEF First, Node, Control

(* The addresses of the Vagrantfile and the tests of the script fit each   *)
(* other: a machine finds that it is one thing, what its name says.        *)
LEMMA RolesFitNames ==
  /\ Roles(Octet(First)) = {"first"}
  /\ \A n \in Control : n # First => Roles(Octet(n)) = {"subsequent"}
  /\ \A n \in Worker : Roles(Octet(n)) = {"worker"}
<1>1. Roles(Octet(First)) = {"first"}
  BY ClusterAssumption, FirstIsNode DEF Roles, Octet, First
<1>2. ASSUME NEW n \in Control, n # First PROVE Roles(Octet(n)) = {"subsequent"}
  <2>1. PICK i \in 1 .. NUM_CONTROL_NODES : n = <<"control-plane", i>>
    BY DEF Control
  <2>2. i # 1
    BY <1>2, <2>1 DEF First
  <2>3. Octet(n) = IP_START - 1 + i
    BY <2>1 DEF Octet
  <2>4. QED BY <2>2, <2>3, ClusterAssumption DEF Roles
<1>3. ASSUME NEW n \in Worker PROVE Roles(Octet(n)) = {"worker"}
  <2>1. PICK i \in 1 .. NUM_WORKER_NODES : n = <<"worker", i>>
    BY DEF Worker
  <2>2. n \notin Control
    BY <2>1 DEF Control
  <2>3. Octet(n) = IP_START - 1 + NUM_CONTROL_NODES + i
    BY <2>1, <2>2 DEF Octet
  <2>4. QED BY <2>3, ClusterAssumption DEF Roles
<1>4. QED BY <1>1, <1>2, <1>3

LEMMA TypedInit == Init => Typed
<1>1. Init => tainted \in BOOLEAN
  BY DEF Init
<1>2. ASSUME Init PROVE
        /\ machine \in [Node -> {"absent", "halted", "running"}]
        /\ result \in [Node -> {"none", "ok", "failed"}]
        /\ cluster \in [Node -> Nat] /\ kube \in [Node -> Nat]
        /\ kind \in [Node -> {"none", "control", "worker"}]
  BY <1>2 DEF Init
<1>3. ASSUME Init PROVE
        /\ busy \in Node \cup {Nobody} /\ step \in Steps /\ (busy = Nobody <=> step = "none")
        /\ shared \in [File -> Int] /\ shared["config"] >= 0
        /\ latest \in Nat
  BY <1>3 DEF Init, Steps, Missing, File
<1>4. QED BY <1>1, <1>2, <1>3 DEF Typed

(* A file is written without harm to the others. *)
LEMMA WriteTyped ==
  ASSUME shared \in [File -> Int], shared["config"] >= 0,
         NEW f \in File, NEW c \in Int, f = "config" => c >= 0, Write(f, c)
  PROVE  shared' \in [File -> Int] /\ shared'["config"] >= 0
  BY DEF Write, File

LEMMA FileFacts ==
  ASSUME shared \in [File -> Int], shared["config"] >= 0
  PROVE  /\ shared["config"] \in Nat /\ shared["join_worker"] \in Int /\ Useless \in Int
         /\ \A f \in File : shared[f] \in Int
  BY DEF File, Useless

LEMMA TypedInductive == Typed /\ [Next]_vars => Typed'
<1> SUFFICES ASSUME Typed, [Next]_vars PROVE Typed'
  OBVIOUS
<1> USE NobodyIsNoNode DEF Typed
<1>1. CASE Host
  BY <1>1 DEF Host, Up, Down, Stop, LbStop, UpOne, DestroyOne, Destroy, nodeVars
<1>2. CASE Script
  <2> USE DEF At, Then, Done, Steps, FirstSteps
  <2>1. CASE Common
    <3>1. CASE Done
      BY <2>1, <3>1 DEF Common
    <3>2. ASSUME NEW r \in Roles(Octet(busy)), Then(r) PROVE Typed'
      BY <2>1, <3>2 DEF Common, Roles
    <3>3. QED BY <2>1, <3>1, <3>2 DEF Common
  <2>2. CASE KubeadmInit
    BY <2>2 DEF KubeadmInit
  <2>3. CASE Clean
    BY <2>3 DEF Clean, SharingOnly, Missing, File
  <2>a. step # "none" => busy \in Node /\ cluster[busy] \in Nat
    OBVIOUS
  <2>b. /\ "config" \in File /\ "join_worker" \in File /\ "join_control_plane" \in File
        /\ "join_worker" # "config"
    BY DEF File
  <2>c. /\ shared["config"] \in Nat /\ shared["join_worker"] \in Int /\ Useless \in Int
        /\ \A f \in File : shared[f] \in Int
    BY FileFacts
  <2>4. CASE SaveConfig \/ SaveJoinWorker
    <3>1. shared' \in [File -> Int] /\ shared'["config"] >= 0
      <4>1. CASE SaveConfig
        <5>1. cluster[busy] \in Int /\ cluster[busy] >= 0
          BY <4>1, <2>a DEF SaveConfig
        <5>2. QED BY <4>1, <5>1, <2>b, WriteTyped DEF SaveConfig
      <4>2. CASE SaveJoinWorker
        <5>1. PICK c \in Int : Write("join_worker", c)
          BY <4>2, <2>a, <2>c DEF SaveJoinWorker
        <5>2. QED BY <5>1, <2>b, WriteTyped
      <4>3. QED BY <2>4, <4>1, <4>2
    <3>2. QED BY <2>4, <3>1 DEF SaveConfig, SaveJoinWorker, SharingOnly
  <2>5. CASE SaveJoinControl
    <3>1. shared' \in [File -> Int] /\ shared'["config"] >= 0
      BY <2>5, <2>b, <2>c, WriteTyped DEF SaveJoinControl
    <3>2. QED BY <2>5, <3>1 DEF SaveJoinControl, Abort, SharingOnly
  <2>6. CASE RemoveTaint \/ Calico \/ Metrics \/ SkipDashboard \/ WaitForMetrics
             \/ InstallDashboard \/ LongHorn
    BY <2>6 DEF RemoveTaint, Calico, Metrics, SkipDashboard, WaitForMetrics, InstallDashboard,
        LongHorn, InstallOnly
  <2>7. CASE JoinControl
    BY <2>7 DEF JoinControl, Join, File
  <2>8. CASE JoinWorker
    BY <2>8 DEF JoinWorker, Join, File
  <2>9. CASE CopyConfig
    <3>2. CASE Then("label")
      BY <2>9, <2>c, <3>2 DEF CopyConfig
    <3>3. CASE Done
      BY <2>9, <2>c, <3>3 DEF CopyConfig
    <3>4. QED BY <2>9, <3>2, <3>3 DEF CopyConfig
  <2>10. CASE Label
    BY <2>10 DEF Label
  <2>11. QED BY <1>2, <2>1, <2>2, <2>3, <2>4, <2>5, <2>6, <2>7, <2>8, <2>9, <2>10 DEF Script
<1>3. CASE Fail
  BY <1>3 DEF Fail, Abort, Steps
<1>4. CASE WaitEndsEarly
  BY <1>4 DEF WaitEndsEarly, Then, At, InstallOnly, Steps, FirstSteps
<1>5. ASSUME NEW n \in Node, BringUp(n) PROVE Typed'
  BY <1>5 DEF BringUp, Steps
<1>6. ASSUME NEW f \in File, Expire(f) PROVE Typed'
  BY <1>6 DEF Expire, Idle, Write, Useless, nodeVars
<1>7. CASE UNCHANGED vars
  BY <1>7 DEF vars, nodeVars
<1>8. QED BY <1>1, <1>2, <1>3, <1>4, <1>5, <1>6, <1>7 DEF Next
-----------------------------------------------------------------------------
(* Files are written after all the old ones were removed, and name the     *)
(* cluster of the machine that writes them.                                *)
FilesInv ==
  /\ SharedFilesAgree
  /\ step = "config" => \A f \in File : shared[f] <= 0
  /\ step \in {"join_worker", "join_control_plane"} =>
       \A f \in File : shared[f] > 0 => shared[f] = cluster[busy]

LEMMA FilesInductive == Typed /\ FilesInv /\ [Next]_vars => FilesInv'
<1> SUFFICES ASSUME Typed, FilesInv, [Next]_vars PROVE FilesInv'
  OBVIOUS
<1> USE NobodyIsNoNode DEF Typed, FilesInv, SharedFilesAgree
<1>1. CASE Host
  BY <1>1 DEF Host, Up, Down, Stop, LbStop, UpOne, DestroyOne, Destroy, nodeVars, Idle
<1>2. CASE Script
  <2> USE DEF At, Then, Done
  <2>1. CASE Common
    BY <2>1 DEF Common, Roles
  <2>2. CASE KubeadmInit
    BY <2>2 DEF KubeadmInit
  <2>3. CASE Clean
    BY <2>3 DEF Clean, SharingOnly, Missing
  <2>4. CASE SaveConfig
    BY <2>4 DEF SaveConfig, SharingOnly, Write
  <2>5. CASE SaveJoinWorker
    BY <2>5 DEF SaveJoinWorker, SharingOnly, Write, Useless
  <2>6. CASE SaveJoinControl
    BY <2>6 DEF SaveJoinControl, Abort, SharingOnly, Write, Useless, File
  <2>7. CASE RemoveTaint \/ Calico \/ Metrics \/ SkipDashboard \/ WaitForMetrics
             \/ InstallDashboard \/ LongHorn
    BY <2>7 DEF RemoveTaint, Calico, Metrics, SkipDashboard, WaitForMetrics, InstallDashboard,
        LongHorn, InstallOnly
  <2>8. CASE JoinControl \/ JoinWorker
    BY <2>8 DEF JoinControl, JoinWorker, Join
  <2>9. CASE CopyConfig \/ Label
    BY <2>9 DEF CopyConfig, Label
  <2>10. QED BY <1>2, <2>1, <2>2, <2>3, <2>4, <2>5, <2>6, <2>7, <2>8, <2>9 DEF Script
<1>3. CASE Fail \/ WaitEndsEarly
  BY <1>3 DEF Fail, Abort, WaitEndsEarly, Then, At, InstallOnly
<1>4. ASSUME NEW n \in Node, BringUp(n) PROVE FilesInv'
  BY <1>4 DEF BringUp
<1>5. ASSUME NEW f \in File, Expire(f) PROVE FilesInv'
  BY <1>5 DEF Expire, Idle, Write, Useless, nodeVars
<1>6. CASE UNCHANGED vars
  BY <1>6 DEF vars, nodeVars
<1>7. QED BY <1>1, <1>2, <1>3, <1>4, <1>5, <1>6 DEF Next

(* The shared files never mix two clusters, for stacks of any size. *)
THEOREM FilesAlwaysAgree == Spec => []SharedFilesAgree
<1>1. Init => FilesInv
  BY DEF Init, FilesInv, SharedFilesAgree, Missing
<1>2. FilesInv => SharedFilesAgree
  BY DEF FilesInv
<1>3. QED BY <1>1, <1>2, TypedInit, TypedInductive, FilesInductive, PTL DEF Spec
-----------------------------------------------------------------------------
NameKind(n) == IF n \in Control THEN "control" ELSE "worker"

(* How far a machine is tells what it knows: its part follows from its     *)
(* name, and the cluster it has joined is the one of the shared files.     *)
MachineInv ==
  /\ \A n \in Node : machine[n] = "absent" => result[n] = "none" /\ cluster[n] = 0
  /\ \A n \in Node : result[n] = "ok" =>
       cluster[n] # 0 /\ kube[n] = cluster[n] /\ kind[n] = NameKind(n)
  /\ busy # Nobody => result[busy] = "none" /\ machine[busy] # "absent"
  /\ step \in {"common", "first", "subsequent", "worker"} => cluster[busy] = 0
  /\ step \in {"first"} \cup FirstSteps => busy = First
  /\ step = "subsequent" => busy \in Control
  /\ step = "worker" => busy \in Worker
  /\ step \in FirstSteps \cup {"copy", "label"} =>
       cluster[busy] # 0 /\ kind[busy] = NameKind(busy)
  /\ step \in FirstSteps => kube[busy] = cluster[busy]
  /\ step \in {"copy", "label"} => \E f \in File : shared[f] > 0 /\ shared[f] = cluster[busy]
  /\ step = "label" => kube[busy] = cluster[busy]

LEMMA PositiveIsNotZero == \A i \in Int : i > 0 => i # 0
  OBVIOUS

LEMMA MachineInductive == Typed /\ FilesInv /\ MachineInv /\ [Next]_vars => MachineInv'
<1> SUFFICES ASSUME Typed, FilesInv, MachineInv, [Next]_vars PROVE MachineInv'
  OBVIOUS
<1> USE NobodyIsNoNode, FirstIsNode DEF Typed, MachineInv
<1>1. CASE Host
  <2>1. CASE Up \/ LbStop \/ \E n \in Node : UpOne(n)
    BY <1>1, <2>1 DEF Up, LbStop, UpOne, nodeVars
  <2>2. CASE Stop
    BY <2>2 DEF Stop, Idle, FirstSteps
  <2>3. ASSUME NEW S, Idle, Destroy(S) PROVE MachineInv'
    BY <2>3 DEF Idle, Destroy, FirstSteps
  <2>4. QED BY <1>1, <2>1, <2>2, <2>3 DEF Host, Down, DestroyOne
<1>2. CASE Script
  <2> USE DEF At, Then, Done, FirstSteps
  <2>1. CASE Common
    <3>0. Roles(Octet(busy)) # {}
      <4>1. Roles(Octet(busy)) \in {{"first"}, {"subsequent"}, {"worker"}}
        BY <2>1, RolesFitNames, Zenon DEF Common, Node
      <4>2. QED BY <4>1
    <3>1. PICK r \in Roles(Octet(busy)) : Then(r)
      BY <2>1, <3>0 DEF Common
    <3>2. \/ busy = First /\ r = "first"
          \/ busy \in Control /\ r = "subsequent"
          \/ busy \in Worker /\ r = "worker"
      <4>1. CASE busy = First
        BY <3>1, <4>1, RolesFitNames
      <4>2. CASE busy \in Control /\ busy # First
        BY <3>1, <4>2, RolesFitNames
      <4>3. CASE busy \in Worker
        BY <3>1, <4>3, RolesFitNames
      <4>4. QED BY <2>1, <4>1, <4>2, <4>3 DEF Common, Node
    <3>3. UNCHANGED <<busy, machine, result, cluster, kind, kube, shared>>
      BY <2>1, <3>1 DEF Common
    <3>4. cluster[busy] = 0 /\ step' = r
      BY <2>1, <3>1 DEF Common
    <3>5. QED BY <2>1, <3>2, <3>3, <3>4 DEF Common
  <2>2. CASE KubeadmInit
    <3>1. busy = First /\ latest' \in Nat /\ latest' # 0 /\ machine[busy] # "absent"
             /\ result[busy] = "none"
      BY <2>2 DEF KubeadmInit
    <3>2. /\ UNCHANGED <<busy, machine, result>>
          /\ step' = "clean"
          /\ cluster' = [cluster EXCEPT ![busy] = latest']
          /\ kind' = [kind EXCEPT ![busy] = "control"]
          /\ kube' = [kube EXCEPT ![busy] = latest']
      BY <2>2 DEF KubeadmInit
    <3>3. QED BY <3>1, <3>2 DEF NameKind
  <2>3. CASE Clean \/ SaveConfig \/ SaveJoinWorker
    BY <2>3 DEF Clean, SaveConfig, SaveJoinWorker, SharingOnly
  <2>4. CASE SaveJoinControl
    BY <2>4 DEF SaveJoinControl, Abort, SharingOnly
  <2>5. CASE RemoveTaint \/ Calico \/ Metrics \/ SkipDashboard \/ WaitForMetrics
             \/ InstallDashboard \/ LongHorn
    BY <2>5, ZenonT(30) DEF RemoveTaint, Calico, Metrics, SkipDashboard, WaitForMetrics,
        InstallDashboard, LongHorn, InstallOnly
  <2>6. ASSUME NEW role \in {"subsequent", "worker"}, NEW file \in File,
               Join(role, file, NameKind(busy))
        PROVE  MachineInv'
    <3>0. shared[file] \in Int /\ shared[file] > 0 /\ shared[file] # 0
      <4>1. shared[file] \in Int
        BY FileFacts
      <4>2. shared[file] > 0
        BY <2>6 DEF Join
      <4>3. QED BY <4>1, <4>2, PositiveIsNotZero
    <3>1. busy \in Node /\ result[busy] = "none" /\ machine[busy] # "absent"
      BY <2>6 DEF Join
    <3>4. /\ shared'[file] > 0 /\ shared'[file] = cluster'[busy]
          /\ cluster'[busy] # 0 /\ kind'[busy] = NameKind(busy)
      <4>1. shared' = shared
        BY <2>6 DEF Join
      <4>2. cluster' = [cluster EXCEPT ![busy] = shared[file]]
            /\ kind' = [kind EXCEPT ![busy] = NameKind(busy)]
        BY <2>6 DEF Join
      <4>3. busy \in DOMAIN cluster /\ busy \in DOMAIN kind
        BY <3>1
      <4>4. cluster'[busy] = shared[file] /\ kind'[busy] = NameKind(busy)
        BY <4>2, <4>3
      <4>5. QED BY <3>0, <4>1, <4>4
    <3>5. \A n \in Node : n # busy => cluster'[n] = cluster[n] /\ kind'[n] = kind[n]
      BY <2>6 DEF Join
    <3>2. /\ UNCHANGED <<busy, machine, result, kube, shared>>
          /\ step' = "copy"
          /\ cluster' = [cluster EXCEPT ![busy] = shared[file]]
          /\ kind' = [kind EXCEPT ![busy] = NameKind(busy)]
      BY <2>6 DEF Join
    <3>3. QED BY <3>1, <3>2, <3>4, <3>5, ZenonT(30) DEF NameKind
  <2>7. CASE JoinControl \/ JoinWorker
    <3>1. CASE JoinControl
      <4>1. NameKind(busy) = "control"
        BY <3>1 DEF JoinControl, Join, NameKind
      <4>2. QED BY <2>6, <3>1, <4>1 DEF JoinControl, File
    <3>2. CASE JoinWorker
      <4>1. NameKind(busy) = "worker"
        BY <3>2 DEF JoinWorker, Join, NameKind, Control, Worker
      <4>2. QED BY <2>6, <3>2, <4>1 DEF JoinWorker, File
    <3>3. QED BY <2>7, <3>1, <3>2
  <2>8. CASE CopyConfig
    <3>1. shared["config"] = cluster[busy]
      BY <2>8 DEF CopyConfig, FilesInv, SharedFilesAgree, Missing, File
    <3>2. CASE kind[busy] = "worker"
      BY <2>8, <3>1, <3>2 DEF CopyConfig
    <3>3. CASE kind[busy] # "worker"
      BY <2>8, <3>1, <3>3 DEF CopyConfig
    <3>4. QED BY <3>2, <3>3
  <2>9. CASE Label
    BY <2>9 DEF Label
  <2>10. QED BY <1>2, <2>1, <2>2, <2>3, <2>4, <2>5, <2>7, <2>8, <2>9 DEF Script
<1>3. CASE Fail \/ WaitEndsEarly
  <2>1. CASE Fail
    BY <2>1 DEF Fail, Abort, FirstSteps
  <2>2. CASE WaitEndsEarly
    BY <2>2 DEF WaitEndsEarly, Then, At, InstallOnly, FirstSteps
  <2>3. QED BY <1>3, <2>1, <2>2
<1>4. ASSUME NEW n \in Node, BringUp(n) PROVE MachineInv'
  BY <1>4 DEF BringUp, FirstSteps
<1>5. ASSUME NEW f \in File, Expire(f) PROVE MachineInv'
  BY <1>5 DEF Expire, Idle, Write, nodeVars, FirstSteps
<1>6. CASE UNCHANGED vars
  BY <1>6 DEF vars, nodeVars
<1>7. QED BY <1>1, <1>2, <1>3, <1>4, <1>5, <1>6 DEF Next

AllInv == Typed /\ FilesInv /\ MachineInv

LEMMA InitAll == Init => AllInv
<1>1. Init => FilesInv
  BY DEF Init, FilesInv, SharedFilesAgree, Missing
<1>2. Init => MachineInv
  BY DEF Init, MachineInv, FirstSteps
<1>3. QED BY <1>1, <1>2, TypedInit DEF AllInv

LEMMA AllInductive == AllInv /\ [Next]_vars => AllInv'
  BY TypedInductive, FilesInductive, MachineInductive DEF AllInv

(* A machine is left with the kubeconfig of the cluster it has joined. *)
THEOREM KubeconfigAlways == Spec => []KubeconfigIsOfItsCluster
<1>1. AllInv => KubeconfigIsOfItsCluster
  BY DEF AllInv, MachineInv, KubeconfigIsOfItsCluster
<1>2. QED BY <1>1, InitAll, AllInductive, PTL DEF Spec

(* The addresses lead every machine to the part its name stands for. *)
THEOREM KindAlways == Spec => []KindIsThatOfItsName
<1>1. AllInv => KindIsThatOfItsName
  BY DEF AllInv, MachineInv, KindIsThatOfItsName, NameKind
<1>2. QED BY <1>1, InitAll, AllInductive, PTL DEF Spec
-----------------------------------------------------------------------------
(* Members are all of the latest cluster, and there are none without the   *)
(* first control plane.                                                    *)
ClusterInv ==
  ~replaced => /\ \A n \in Node : cluster[n] # 0 => cluster[n] = latest
               /\ cluster[First] = 0 => \A n \in Node : cluster[n] = 0

LEMMA ClusterInductive == AllInv /\ ClusterInv /\ [Next]_vars => ClusterInv'
<1> SUFFICES ASSUME AllInv, ClusterInv, [Next]_vars PROVE ClusterInv'
  OBVIOUS
<1> USE NobodyIsNoNode, FirstIsNode DEF AllInv, Typed, ClusterInv
<1>1. CASE Host
  <2>1. CASE Up \/ LbStop \/ Stop \/ \E n \in Node : UpOne(n)
    BY <1>1, <2>1 DEF Up, LbStop, UpOne, Stop, nodeVars
  <2>2. ASSUME NEW S, Destroy(S) PROVE ClusterInv'
    BY <2>2 DEF Destroy
  <2>3. QED BY <1>1, <2>1, <2>2 DEF Host, Down, DestroyOne
<1>2. CASE Script
  <2>1. CASE KubeadmInit
    <3>1. busy = First /\ cluster[busy] = 0
      BY <2>1 DEF KubeadmInit, At, MachineInv
    <3>2. cluster' = [cluster EXCEPT ![busy] = latest'] /\ latest' = latest + 1
          /\ replaced' = replaced
      BY <2>1 DEF KubeadmInit
    <3>3. QED BY <3>1, <3>2
  <2>2. ASSUME NEW role, NEW file \in File, NEW as, Join(role, file, as) PROVE ClusterInv'
    <3>1. PICK n \in Node : cluster[n] = shared[file]
      BY <2>2 DEF Join, Reachable
    <3>2. shared[file] # 0
      BY <2>2 DEF Join
    <3>3. cluster' = [cluster EXCEPT ![busy] = shared[file]] /\ latest' = latest
          /\ replaced' = replaced
      BY <2>2 DEF Join
    <3>4. QED BY <3>1, <3>2, <3>3
  <2>3. CASE UNCHANGED <<cluster, latest, replaced>>
    BY <2>3
  <2>4. JoinControl \/ JoinWorker => \E role : \E file \in File : \E as : Join(role, file, as)
    BY DEF JoinControl, JoinWorker, File
  <2>5. QED BY <1>2, <2>1, <2>2, <2>3, <2>4
            DEF Script, Common, Clean, SaveConfig, SaveJoinWorker, SaveJoinControl, SharingOnly,
                RemoveTaint, Calico, Metrics, SkipDashboard, WaitForMetrics, InstallDashboard,
                LongHorn, InstallOnly, CopyConfig, Label
<1>3. CASE Fail \/ WaitEndsEarly
  BY <1>3 DEF Fail, WaitEndsEarly, InstallOnly
<1>4. ASSUME NEW n \in Node, BringUp(n) PROVE ClusterInv'
  BY <1>4 DEF BringUp
<1>5. ASSUME NEW f \in File, Expire(f) PROVE ClusterInv'
  BY <1>5 DEF Expire, nodeVars
<1>6. CASE UNCHANGED vars
  BY <1>6 DEF vars, nodeVars
<1>7. QED BY <1>1, <1>2, <1>3, <1>4, <1>5, <1>6 DEF Next

(* One cluster, however runs fail and are repeated, as long as the first   *)
(* control plane is not taken away from the others.                        *)
THEOREM OneClusterAlways == Spec => []OneCluster
<1>1. Init => ClusterInv
  BY DEF Init, ClusterInv
<1>2. ClusterInv => OneCluster
  BY DEF ClusterInv, OneCluster
<1>3. QED BY <1>1, <1>2, InitAll, AllInductive, ClusterInductive, PTL DEF Spec
=============================================================================
