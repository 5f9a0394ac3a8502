------------------------------ MODULE Destroy ------------------------------
(***************************************************************************)
(* `cgdevxcli destroy` (commands/destroy.py), started on what a setup left *)
(* behind: it fetches the GitOps repository, removes Argo CD applications, *)
(* destroys the cluster and then the repository with Terraform, deletes    *)
(* the bucket with Terraform's state and at last ~/.cgdevx. What to do it  *)
(* takes from the checkpoints; it never changes them.                      *)
(***************************************************************************)
EXTENDS Stages

CONSTANTS
    Left,           \* how many stages setup may have recorded
    UpToDate,       \* what setup made is what it recorded: it did not stop
                    \* between an effect and its checkpoint, nor went back
    MaxFaults       \* bound: stops, calls that fail and refusals to confirm

ASSUME ConstantsAssumption ==
    Left \subseteq Stage /\ UpToDate \in BOOLEAN /\ MaxFaults \in Nat

VARIABLES
    at,             \* the section the process is in
    recorded,       \* stages 1..recorded have a checkpoint
    folder,         \* ~/.cgdevx
    prepared, named,\* the state has the parameters, the name of the bucket
    rendered,       \* the local tree has its backends filled in
    cluster,        \* the cluster and what else k8s-tf makes
    apps,           \* load balancers that applications made in the cloud
    repo,           \* the GitOps repository and what else vcs-tf makes
    bucket,         \* the bucket, "full" while it holds Terraform's state
    faults

recordedState == <<recorded, prepared, named>>
resources == <<cluster, apps, repo, bucket>>
vars == <<at, recordedState, folder, rendered, resources, faults>>

Section == {"git", "confirm", "argocd", "cluster", "repo", "bucket", "folder"}

TypeOK ==
    /\ at \in Section \cup {"off"}
    /\ recorded \in Stage
    /\ {folder, prepared, named, rendered, apps, repo} \subseteq BOOLEAN
    /\ cluster \in {"up", "partly", "gone"}
    /\ bucket \in {"full", "empty", "gone"}
    /\ faults \in 0..MaxFaults

\* What setup leaves when it made the first `made` stages.
Init ==
    /\ at = "off" /\ folder = TRUE /\ faults = 0
    /\ recorded \in Left
    /\ \E made \in IF UpToDate THEN {recorded} ELSE recorded..TfStoreHardening :
        /\ bucket = IF made >= OneTimeSetup THEN "full" ELSE "gone"
        /\ repo = (made >= VcsTf)
        /\ cluster \in IF made >= K8sTf THEN {"up"}
                       ELSE IF made = VcsTf /\ ~UpToDate THEN {"gone", "partly"} ELSE {"gone"}
        /\ apps = (made >= K8sDelivery)
        /\ named = (made >= RepoPrep \/ recorded >= OneTimeSetup)
        /\ prepared \in IF made >= OneTimeSetup THEN {TRUE}
                        ELSE IF made = Dependencies THEN BOOLEAN ELSE {FALSE}
        /\ rendered \in IF made < RepoPrep THEN {FALSE}
                        ELSE IF UpToDate THEN {TRUE} ELSE BOOLEAN

\* Slip: the last stage does not count.
HasCheckpointBefore(s) == s < recorded

HasCheckpoint(s) == s <= recorded

Fault == faults < MaxFaults /\ faults' = faults + 1

\* An exception: the process ends where it is.
Raise(section) ==
    /\ at = section /\ at' = "off"
    /\ UNCHANGED <<recordedState, folder, rendered, resources, faults>>

-----------------------------------------------------------------------------
\* check_installation_presence
Start ==
    /\ at = "off" /\ folder
    /\ at' = "git"
    /\ UNCHANGED <<recordedState, folder, rendered, resources, faults>>

\* The constructor of PlatformGitOpsRepo clones what is no repository yet (a
\* tree that setup is still filling in), update fetches from the remote.
Fetch ==
    /\ at = "git"
    /\ HasCheckpoint(GitopsVcs) => repo
    /\ rendered' = (rendered \/ HasCheckpoint(GitopsVcs))
    /\ at' = "confirm"
    /\ UNCHANGED <<recordedState, folder, resources, faults>>

FetchRaises == HasCheckpoint(GitopsVcs) /\ ~repo /\ Raise("git")

\* The prompt names the cluster, p.parameters["<PRIMARY_CLUSTER_NAME>"].
Confirm ==
    /\ at = "confirm" /\ prepared
    /\ at' = "argocd"
    /\ UNCHANGED <<recordedState, folder, rendered, resources, faults>>

ConfirmRaises == ~prepared /\ Raise("confirm")

\* Applications are deleted through Argo CD; whatever goes wrong is dropped.
RemoveApps ==
    /\ at = "argocd"
    /\ \/ ~HasCheckpoint(K8sDelivery) /\ UNCHANGED <<apps, faults>>
       \/ HasCheckpoint(K8sDelivery) /\ cluster = "up" /\ apps' = FALSE /\ UNCHANGED faults
       \/ HasCheckpoint(K8sDelivery) /\ cluster # "up" /\ UNCHANGED <<apps, faults>>
       \/ HasCheckpoint(K8sDelivery) /\ Fault /\ UNCHANGED apps
    /\ at' = "cluster"
    /\ UNCHANGED <<recordedState, folder, rendered, cluster, repo, bucket>>

\* terraform init needs a backend and the bucket.
TfReady == rendered /\ bucket # "gone"

\* Slip: the return code of terraform destroy is not looked at.
DestroyClusterGoesOn ==
    /\ at = "cluster" /\ HasCheckpoint(K8sTf)
    /\ TfReady
    /\ at' = "repo"
    /\ UNCHANGED <<recordedState, folder, rendered, resources, faults>>

\* Terraform destroys what its state knows of; nothing, when that is lost. A
\* load balancer left over keeps the network of the cluster alive.
DestroyCluster ==
    /\ at = "cluster"
    /\ IF HasCheckpoint(K8sTf)
       THEN /\ TfReady /\ (cluster = "gone" \/ ~apps)
            /\ cluster' = IF bucket = "full" THEN "gone" ELSE cluster
       ELSE UNCHANGED cluster
    /\ at' = "repo"
    /\ UNCHANGED <<recordedState, folder, rendered, apps, repo, bucket, faults>>

\* Part of it may be gone then.
DestroyClusterFails ==
    /\ at = "cluster" /\ HasCheckpoint(K8sTf)
    /\ \/ TfReady /\ Fault
       \/ TfReady /\ cluster # "gone" /\ apps /\ UNCHANGED faults
    /\ cluster' \in {cluster} \cup (IF cluster = "up" THEN {"partly"} ELSE {})
    /\ at' = "off"
    /\ UNCHANGED <<recordedState, folder, rendered, apps, repo, bucket>>

InitRaises ==
    \/ HasCheckpoint(K8sTf) /\ ~TfReady /\ Raise("cluster")
    \/ HasCheckpoint(VcsTf) /\ ~TfReady /\ Raise("repo")

DestroyRepo ==
    /\ at = "repo"
    /\ HasCheckpoint(VcsTf) => TfReady
    /\ repo' = (repo /\ ~(HasCheckpoint(VcsTf) /\ bucket = "full"))
    /\ at' = "bucket"
    /\ UNCHANGED <<recordedState, folder, rendered, cluster, apps, bucket, faults>>

DestroyRepoFails ==
    /\ at = "repo" /\ HasCheckpoint(VcsTf) /\ TfReady
    /\ Fault
    /\ at' = "off"
    /\ UNCHANGED <<recordedState, folder, rendered, resources>>

\* Objects first, then the bucket; a ClientError makes a message, no more.
DeleteBucket ==
    /\ at = "bucket" /\ named
    /\ \/ bucket' = "gone" /\ UNCHANGED faults
       \/ bucket' \in {bucket, IF bucket = "full" THEN "empty" ELSE bucket} /\ Fault
    /\ at' = "folder"
    /\ UNCHANGED <<recordedState, folder, rendered, cluster, apps, repo>>

DeleteBucketRaises == ~named /\ Raise("bucket")

RemoveFolder ==
    /\ at = "folder"
    /\ folder' = FALSE /\ at' = "off"
    /\ UNCHANGED <<recordedState, rendered, resources, faults>>

\* Killed, or the user does not confirm.
Die ==
    /\ at # "off"
    /\ Fault
    /\ at' = "off"
    /\ UNCHANGED <<recordedState, folder, rendered, resources>>

\* "please try deleting Load Balancer(s) manually"
RemoveAppsByHand ==
    /\ at = "off" /\ apps /\ cluster = "partly"
    /\ apps' = FALSE
    /\ UNCHANGED <<at, recordedState, folder, rendered, cluster, repo, bucket, faults>>

Proceed ==
    \/ Fetch \/ FetchRaises
    \/ Confirm \/ ConfirmRaises
    \/ RemoveApps
    \/ DestroyCluster \/ DestroyClusterFails
    \/ InitRaises
    \/ DestroyRepo \/ DestroyRepoFails
    \/ DeleteBucket \/ DeleteBucketRaises
    \/ RemoveFolder

Next == Start \/ Proceed \/ Die \/ RemoveAppsByHand

Spec == Init /\ [][Next]_vars

\* "please try restarting the process", with the load balancers removed.
FairSpec == Spec /\ WF_vars(Proceed) /\ WF_vars(Start) /\ SF_vars(RemoveAppsByHand)

-----------------------------------------------------------------------------
Exists == cluster # "gone" \/ apps \/ repo

\* As long as anything is left, so is what a further destroy needs for it:
\* the local folder and Terraform's state.
StillDestroyable == Exists => folder /\ bucket = "full"

\* However often it fails, repeated calls remove cluster and repository.
EventuallyGone == <>[](~Exists)

\* "The cleanup process could still fail. If you have any issues, please try
\* restarting the process": repeated calls come to their end.
Finishes == <>(~folder)
=============================================================================
