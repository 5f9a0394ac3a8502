------------------------------- MODULE Setup -------------------------------
(***************************************************************************)
(* `cgdevxcli setup` (commands/setup.py): one process that walks 13        *)
(* stages, each of which changes something outside the process (a bucket,  *)
(* a key file, Terraform resources, the GitOps repository, the cluster)    *)
(* and then adds its checkpoint to the state file. The process may stop    *)
(* anywhere - killed, or by an exception, which leaves the same behind.    *)
(* The user starts it again, possibly with --from-checkpoint.              *)
(*                                                                         *)
(* A step is the code between two effects that survive the process.        *)
(* The state file is written whole here; StateFile has the torn write.     *)
(***************************************************************************)
EXTENDS Naturals, Sequences, FiniteSets, Stages, StateStore

CONSTANTS
    IsAws,          \* cloud_provider == AWS: the bucket is looked up at each start
    RestartFrom,    \* the stages the user gives to --from-checkpoint
    InitMayBeCut,   \* the process may stop between `vault operator init` and
                    \* the creation of the secret that holds the root token
    FlakyStorage,   \* head_object may fail for an object that is there
    RebuildMayFail, \* the clone may fail when gitops-vcs rebuilds its tree
    MaxFaults,      \* bound: stops of the process and calls that fail
    MaxRewinds,     \* bound: launches with --from-checkpoint
    MaxTemplate     \* bound: versions of the platform template

TfStage == {VcsTf, K8sTf, SecretsTf, UsersTf, CoreServicesTf}
Show == TfStoreHardening + 1                 \* show_credentials
Off == 0                                     \* no process

ASSUME ConstantsAssumption ==
    /\ IsAws \in BOOLEAN /\ InitMayBeCut \in BOOLEAN
    /\ FlakyStorage \in BOOLEAN /\ RebuildMayFail \in BOOLEAN
    /\ RestartFrom \subseteq Stage
    /\ MaxFaults \in Nat /\ MaxRewinds \in Nat /\ MaxTemplate \in Nat \ {0}

\* Groups of keys of internals, parameters and fragments; 0 is "not set".
\* sshKey and bucket hold which key and which bucket, the others are 1.
Item == {"gitUser", "params", "sshKey", "bucket", "repoUrl", "cluster",
         "argoCreds", "rootToken", "registry"}

State == [cps : Seq(Stage), val : [Item -> Nat]]
Blank == [cps |-> <<>>, val |-> [i \in Item |-> 0]]

Tree == [tpl : Nat, bucket : Nat]            \* template version, backend bucket
NoTree == [tpl |-> 0, bucket |-> 0]

VARIABLES
    at, step,       \* the stage being run and the place in it
    mem,            \* StateStore._store of the running process
    disk,           \* ~/.cgdevx/state.yaml
    keys, keyFile,  \* keys generated so far; the one in ~/.cgdevx/cgdevx_ed
    tools,          \* terraform and kubectl are in ~/.cgdevx/tools
    localTree,      \* ~/.cgdevx/gitops
    buckets,        \* buckets made so far, named 1..buckets
    owner,          \* the bucket with a section's Terraform state, 0 for none
    hardened,       \* the buckets whose policy admits the automation role
    deployKey,      \* the key vcs-tf registered with the Git provider
    template,       \* newest version of the platform template
    mainTree,       \* branch main of the GitOps repository
    argoKey,        \* the key in ArgoCD's repo-creds secret
    registryApp,    \* the ArgoCD "registry" application
    vaultInit,      \* Vault is initialised
    vaultSecret,    \* vault-unseal-secret is in the cluster
    faults, rewinds,
    tplAtLaunch     \* history: newest template when this run started

control == <<at, step>>
local == <<keys, keyFile, tools, localTree>>
cloud == <<buckets, owner, hardened>>
git == <<deployKey, template, mainTree>>
cluster == <<argoKey, registryApp, vaultInit, vaultSecret>>
env == <<faults, rewinds, tplAtLaunch>>

vars == <<control, mem, disk, local, cloud, git, cluster, env>>

Places == {"idle", "discover", "prepare", "enter", "bucket", "parametrise",
           "app", "init", "exec", "secret", "record"}

ControlType == at \in Off..Show /\ step \in Places
StoreType == mem \in State /\ disk \in State
LocalType ==
    /\ keys \in Nat /\ keyFile \in 0..keys /\ tools \in BOOLEAN /\ localTree \in Tree
CloudType ==
    /\ buckets \in Nat /\ owner \in [TfStage -> 0..buckets] /\ hardened \subseteq 1..buckets
GitType == deployKey \in Nat /\ template \in 1..MaxTemplate /\ mainTree \in Tree
ClusterType ==
    /\ argoKey \in Nat
    /\ registryApp \in BOOLEAN /\ vaultInit \in BOOLEAN /\ vaultSecret \in BOOLEAN
EnvType ==
    /\ faults \in 0..MaxFaults /\ rewinds \in 0..MaxRewinds
    /\ tplAtLaunch \in 0..MaxTemplate

TypeOK ==
    /\ ControlType /\ StoreType
    /\ LocalType /\ CloudType /\ GitType /\ ClusterType /\ EnvType

Init ==
    /\ at = Off /\ step = "idle"
    /\ mem = Blank /\ disk = Blank
    /\ keys = 0 /\ keyFile = 0
    /\ tools = FALSE
    /\ localTree = NoTree /\ mainTree = NoTree
    /\ buckets = 0 /\ owner = [s \in TfStage |-> 0] /\ hardened = {}
    /\ deployKey = 0 /\ argoKey = 0
    /\ template = 1 /\ tplAtLaunch = 0
    /\ registryApp = FALSE /\ vaultInit = FALSE /\ vaultSecret = FALSE
    /\ faults = 0 /\ rewinds = 0

-----------------------------------------------------------------------------
(* Control: how the process moves, starts, skips, records and stops. *)

Go(s, st) == at' = s /\ step' = st

\* prepare_parameters stands before one-time-setup and runs on every launch.
Enter(s) == Go(s, IF s = OneTimeSetup THEN "prepare" ELSE "enter")

Set(item, v) == mem' = [mem EXCEPT !.val[item] = v]

\* The process ends: its memory is gone, files and services stay.
Exit == Go(Off, "idle") /\ mem' = Blank /\ tplAtLaunch' = 0

Start(st) ==
    /\ at = Off
    /\ mem' = st
    /\ Go(Preflight, IF IsAws THEN "discover" ELSE "enter")
    /\ tplAtLaunch' = template
    /\ UNCHANGED <<local, cloud, git, cluster, faults>>

\* `cgdevxcli setup`
Launch == Start(disk) /\ UNCHANGED <<disk, rewinds>>

\* `cgdevxcli setup --from-checkpoint c`: the shortened list is saved at once.
LaunchFrom(c) ==
    /\ rewinds < MaxRewinds
    /\ rewinds' = rewinds + 1
    /\ disk' = [disk EXCEPT !.cps = RemoveFrom(@, c)]
    /\ Start(disk')

\* Slips: the tree is not rendered again, nothing is done again, new keys and
\* a new bucket on every launch.
AlwaysUpload == {GitopsVcs}
AlwaysNothing == {}
AlwaysOneTime == {OneTimeSetup, RepoPrep, GitopsVcs}

\* repo-prep and gitops-vcs are carried out even when recorded.
Always == {RepoPrep, GitopsVcs}

Runs(s) ==
    /\ at = s /\ step = "enter"
    /\ s \in Always \/ ~HasCheckpoint(mem.cps, s)

Skip ==
    /\ at \in Stage /\ step = "enter" /\ ~Runs(at)
    /\ Enter(at + 1)
    /\ UNCHANGED <<mem, disk, local, cloud, git, cluster, env>>

\* Slip: the list is saved, the values of the stage are not.
RecordListOnly ==
    /\ at \in Stage /\ step = "record"
    /\ mem' = [mem EXCEPT !.cps = SetCheckpoint(@, at)]
    /\ disk' = [disk EXCEPT !.cps = mem'.cps]
    /\ IF at = RepoPrep THEN Go(RepoPrep, "parametrise") ELSE Enter(at + 1)
    /\ UNCHANGED <<local, cloud, git, cluster, env>>

\* set_checkpoint and save_checkpoint at the end of a stage; repo-prep still
\* has to write the parameters into the tree afterwards.
RecordStage ==
    /\ at \in Stage /\ step = "record"
    /\ mem' = [mem EXCEPT !.cps = SetCheckpoint(@, at)]
    /\ disk' = mem'
    /\ IF at = RepoPrep THEN Go(RepoPrep, "parametrise") ELSE Enter(at + 1)
    /\ UNCHANGED <<local, cloud, git, cluster, env>>

\* Killed, or stopped by an error that a later launch need not meet.
Die ==
    /\ at # Off
    /\ step = "secret" => InitMayBeCut
    /\ faults < MaxFaults /\ faults' = faults + 1
    /\ Exit
    /\ UNCHANGED <<disk, local, cloud, git, cluster, rewinds>>

\* The last step of a successful run.
ShowCredentials ==
    /\ at = Show
    /\ Exit
    /\ UNCHANGED <<disk, local, cloud, git, cluster, faults, rewinds>>

-----------------------------------------------------------------------------
(* What a stage needs, and what makes it raise. *)

\* The values a stage reads with p.internals[..] and p.parameters[..].
Needs == [s \in Stage |->
    CASE s = OneTimeSetup -> {"params"}
      [] s = VcsTf -> {"params", "sshKey"}
      [] s = K8sTf -> {"params"}
      [] s = GitopsVcs -> {"repoUrl", "sshKey", "gitUser"}
      [] s = K8sDelivery -> {"params", "repoUrl", "sshKey", "cluster"}
      [] s = SecretsManagement -> {"params", "cluster"}
      [] s = SecretsTf -> {"params", "sshKey", "repoUrl", "cluster", "rootToken"}
      [] s = UsersTf -> {"params", "rootToken"}
      [] s = CoreServicesTf -> {"params", "cluster", "rootToken", "registry"}
      [] s = TfStoreHardening -> {"bucket", "cluster"}
      [] OTHER -> {}]

Ready(s) == \A i \in Needs[s] : mem.val[i] # 0

\* Terraform with an empty or foreign backend creates what exists already.
TfConflict(s) == owner[s] \notin {0, localTree.bucket}

\* The registry application brings Vault up once ArgoCD can read the repository.
VaultDeployed == registryApp /\ argoKey = deployKey /\ mainTree.tpl # 0

\* The stage raises at its start, whatever the weather.
Blocked(s) ==
    \/ ~Ready(s)
    \/ s = Preflight /\ owner[VcsTf] # 0           \* "GitOps repo already exists"
    \/ s \in TfStage /\ (localTree.tpl = 0 \/ TfConflict(s))
    \/ s = GitopsVcs /\ keyFile # deployKey         \* push denied
    \/ s = SecretsManagement /\ ~VaultDeployed

\* `vault operator init` on an initialised Vault whose secret is not there.
InitRefused == at = SecretsManagement /\ step = "exec" /\ vaultInit /\ ~vaultSecret

Raises == (at \in Stage /\ Runs(at) /\ Blocked(at)) \/ InitRefused

Raise ==
    /\ Raises
    /\ Exit
    /\ UNCHANGED <<disk, local, cloud, git, cluster, faults, rewinds>>

Work(s) == Runs(s) /\ ~Blocked(s)

-----------------------------------------------------------------------------
(* Before the stages (AWS): which bucket holds the Terraform state? *)

\* The Terraform state objects head_object finds in a bucket.
StateObjects(b) == {s \in TfStage : owner[s] = b}

\* Slip: the first bucket with the name prefix.
AnyBucket(b, missed) == b \in 1..buckets

\* resolve_iac_state_storage: a bucket with the most state objects; the order
\* of names with random suffixes decides a tie. Objects that head_object
\* misses do not count, so any bucket may come out first.
Discoverable(b, missed) ==
    missed \/ \A c \in 1..buckets : Cardinality(StateObjects(c)) <= Cardinality(StateObjects(b))

\* bucket_exists finds the stored bucket, or none is stored and none is found:
\* there is none yet, or list_buckets raised, which is passed over.
KeepBucket ==
    /\ at = Preflight /\ step = "discover"
    /\ IF mem.val["bucket"] # 0 \/ buckets = 0 THEN faults' = faults
       ELSE faults < MaxFaults /\ faults' = faults + 1
    /\ Enter(Preflight)
    /\ UNCHANGED <<mem, disk, local, cloud, git, cluster, rewinds, tplAtLaunch>>

\* No bucket is stored, or head_bucket failed for the stored one: the one
\* discovered replaces it in the fragments and is saved; its policy is then
\* refreshed if possible, which admits the automation role once that is known.
RediscoverBucket(b) ==
    /\ at = Preflight /\ step = "discover"
    /\ \E missed \in {FALSE, FlakyStorage} :
        /\ Discoverable(b, missed)
        /\ faults' = faults + (IF mem.val["bucket"] # 0 THEN 1 ELSE 0)
                            + (IF missed THEN 1 ELSE 0)
        /\ faults' <= MaxFaults
    /\ Set("bucket", b)
    /\ disk' = mem'
    /\ hardened' \in {hardened} \cup (IF mem.val["cluster"] # 0 THEN {hardened \cup {b}} ELSE {})
    /\ Enter(Preflight)
    /\ UNCHANGED <<local, buckets, owner, git, cluster, rewinds, tplAtLaunch>>

-----------------------------------------------------------------------------
(* The stages. *)

\* Permissions, the repository must not exist, the Git user is stored.
RunPreflight ==
    /\ Work(Preflight)
    /\ Set("gitUser", 1)
    /\ Go(Preflight, "record")
    /\ UNCHANGED <<disk, local, cloud, git, cluster, env>>

InstallDependencies ==
    /\ Work(Dependencies)
    /\ tools' = TRUE
    /\ Go(Dependencies, "record")
    /\ UNCHANGED <<mem, disk, keys, keyFile, localTree, cloud, git, cluster, env>>

\* The two webhook secrets are kept, everything else is derived from the
\* input again, and saved. (The refresh of the EKS endpoint that follows
\* finds the one stored: the cluster is not replaced here.)
PrepareParameters ==
    /\ at = OneTimeSetup /\ step = "prepare"
    /\ Set("params", 1)
    /\ disk' = mem'
    /\ Go(OneTimeSetup, "enter")
    /\ UNCHANGED <<local, cloud, git, cluster, env>>

\* New key pairs overwrite the files of the old ones.
CreateKeys ==
    /\ Work(OneTimeSetup)
    /\ keys' = keys + 1
    /\ keyFile' = keys'
    /\ Set("sshKey", keys')
    /\ Go(OneTimeSetup, "bucket")
    /\ UNCHANGED <<disk, tools, localTree, cloud, git, cluster, env>>

\* The name ends in a random string: a bucket is made on every execution.
CreateStateStorage ==
    /\ at = OneTimeSetup /\ step = "bucket"
    /\ buckets' = buckets + 1
    /\ Set("bucket", buckets')
    /\ Go(OneTimeSetup, "record")
    /\ UNCHANGED <<disk, local, owner, hardened, git, cluster, env>>

\* The local tree is removed, cloned and built; no backend is filled in yet.
CloneAndBuild ==
    /\ Work(RepoPrep)
    /\ localTree' = [tpl |-> template, bucket |-> 0]
    /\ Go(RepoPrep, "record")
    /\ UNCHANGED <<mem, disk, keys, keyFile, tools, cloud, git, cluster, env>>

\* parametrise_tf: the backend blocks name the bucket of the state.
ParametriseTf ==
    /\ at = RepoPrep /\ step = "parametrise"
    /\ localTree' = [localTree EXCEPT !.bucket = mem.val["bucket"]]
    /\ Enter(VcsTf)
    /\ UNCHANGED <<mem, disk, keys, keyFile, tools, cloud, git, cluster, env>>

\* Terraform writes its state to the bucket the tree names; vcs-tf registers
\* the bot's public key and makes the repository.
Provision(s) ==
    /\ owner' = [owner EXCEPT ![s] = localTree.bucket]
    /\ UNCHANGED <<buckets, hardened>>

\* terraform init, apply and output; the outputs go into the state.
ApplyTf(s) ==
    /\ Work(s)
    /\ Provision(s)
    /\ deployKey' = IF s = VcsTf THEN mem.val["sshKey"] ELSE deployKey
    /\ CASE s = VcsTf -> Set("repoUrl", 1)
         [] s = K8sTf -> Set("cluster", 1)
         [] s = SecretsTf -> Set("registry", 1)
         [] OTHER -> UNCHANGED mem
    /\ Go(s, "record")
    /\ UNCHANGED <<disk, local, template, mainTree, cluster, env>>

\* The apply fails half way: some resources exist and the state knows them.
ApplyFails(s) ==
    /\ Work(s)
    /\ faults < MaxFaults /\ faults' = faults + 1
    /\ Provision(s)
    /\ Exit
    /\ UNCHANGED <<disk, local, git, cluster, rewinds>>

\* Before the upload, when the role of the load balancer's controller is not
\* known: if `terraform init` refuses the tree ("labels"), the tree is removed,
\* cloned, built and parametrised again. What that raises is swallowed: a clone
\* that fails leaves nothing of the tree. (Done once by the code; as often as
\* MaxFaults allows here.)
RebuildTree ==
    /\ Work(GitopsVcs)
    /\ faults < MaxFaults /\ faults' = faults + 1
    /\ localTree' \in {[tpl |-> template, bucket |-> mem.val["bucket"]]}
                      \cup (IF RebuildMayFail THEN {NoTree} ELSE {})
    /\ UNCHANGED <<control, mem, disk, keys, keyFile, tools, cloud, git, cluster,
                   rewinds, tplAtLaunch>>

\* parametrise, then main is made equal to the rendered tree and pushed.
UploadGitops ==
    /\ Work(GitopsVcs)
    /\ mainTree' = localTree
    /\ Go(GitopsVcs, "record")
    /\ UNCHANGED <<mem, disk, local, cloud, deployKey, template, cluster, env>>

\* The bootstrap job, then the secrets: create_plain_secret leaves an
\* existing repo-creds secret as it is.
InstallArgo ==
    /\ Work(K8sDelivery)
    /\ argoKey' = IF argoKey = 0 THEN mem.val["sshKey"] ELSE argoKey
    /\ Set("argoCreds", 1)
    /\ Go(K8sDelivery, "app")
    /\ UNCHANGED <<disk, local, cloud, git, registryApp, vaultInit, vaultSecret, env>>

\* Project and registry application; "already exists" (409) is success.
CreateRegistryApp ==
    /\ at = K8sDelivery /\ step = "app"
    /\ registryApp' = TRUE
    /\ Go(K8sDelivery, "record")
    /\ UNCHANGED <<mem, disk, local, cloud, git, argoKey, vaultInit, vaultSecret, env>>

\* The Vault StatefulSet is there.
WaitVault ==
    /\ Work(SecretsManagement)
    /\ Go(SecretsManagement, "init")
    /\ UNCHANGED <<mem, disk, local, cloud, git, cluster, env>>

\* The secret is read, before the init or after Vault refused it.
ReuseVaultSecret ==
    /\ at = SecretsManagement /\ step \in {"init", "exec"}
    /\ vaultSecret
    /\ step = "exec" => vaultInit
    /\ Set("rootToken", 1)
    /\ Go(SecretsManagement, "record")
    /\ UNCHANGED <<disk, local, cloud, git, cluster, env>>

\* get_secret_kv_decoded answers {}: no secret, or any API error.
MissVaultSecret ==
    /\ at = SecretsManagement /\ step = "init"
    /\ IF vaultSecret THEN faults < MaxFaults /\ faults' = faults + 1
                      ELSE faults' = faults
    /\ Go(SecretsManagement, "exec")
    /\ UNCHANGED <<mem, disk, local, cloud, git, cluster, rewinds, tplAtLaunch>>

\* `vault operator init`: from here the root token is in this process only.
InitVault ==
    /\ at = SecretsManagement /\ step = "exec"
    /\ ~vaultInit
    /\ vaultInit' = TRUE
    /\ Go(SecretsManagement, "secret")
    /\ UNCHANGED <<mem, disk, local, cloud, git, argoKey, registryApp, vaultSecret, env>>

\* Slip: the token reaches the cluster and not the state.
StoreSecretOnly ==
    /\ at = SecretsManagement /\ step = "secret"
    /\ vaultSecret' = TRUE
    /\ Go(SecretsManagement, "record")
    /\ UNCHANGED <<mem, disk, local, cloud, git, argoKey, registryApp, vaultInit, env>>

\* create_plain_secret, and the token goes into the state.
StoreVaultSecret ==
    /\ at = SecretsManagement /\ step = "secret"
    /\ vaultSecret' = TRUE
    /\ Set("rootToken", 1)
    /\ Go(SecretsManagement, "record")
    /\ UNCHANGED <<disk, local, cloud, git, argoKey, registryApp, vaultInit, env>>

ProtectStateStorage ==
    /\ Work(TfStoreHardening)
    /\ hardened' = hardened \cup {mem.val["bucket"]}
    /\ Go(TfStoreHardening, "record")
    /\ UNCHANGED <<mem, disk, local, buckets, owner, git, cluster, env>>

-----------------------------------------------------------------------------
\* A new version of the platform template is published.
TemplateAdvances ==
    /\ template < MaxTemplate
    /\ template' = template + 1
    /\ UNCHANGED <<control, mem, disk, local, cloud, deployKey, mainTree, cluster, env>>

\* What the process does of itself.
Proceed ==
    \/ Skip \/ RecordStage \/ Raise \/ ShowCredentials
    \/ KeepBucket \/ \E b \in 1..buckets : RediscoverBucket(b)
    \/ RunPreflight \/ InstallDependencies \/ PrepareParameters
    \/ CreateKeys \/ CreateStateStorage
    \/ CloneAndBuild \/ ParametriseTf
    \/ \E s \in TfStage : ApplyTf(s) \/ ApplyFails(s)
    \/ RebuildTree \/ UploadGitops
    \/ InstallArgo \/ CreateRegistryApp
    \/ WaitVault \/ ReuseVaultSecret \/ MissVaultSecret \/ InitVault \/ StoreVaultSecret
    \/ ProtectStateStorage

Next ==
    \/ Launch
    \/ \E c \in RestartFrom : LaunchFrom(c)
    \/ Proceed
    \/ Die
    \/ TemplateAdvances

Spec == Init /\ [][Next]_vars

\* The process goes on, and the user does what commands/README.md asks for
\* after an error: runs the same command again.
FairSpec == Spec /\ WF_vars(Proceed) /\ WF_vars(Launch)

-----------------------------------------------------------------------------
(* Safety *)

Recorded(st) == {st.cps[i] : i \in DOMAIN st.cps}

\* The checkpoint lists, in memory and on disk, are the first stages in their
\* order: nothing is recorded before what it builds on, and cutting the list
\* at a stage (remove_checkpoints_from) forgets that stage and all later ones.
CheckpointsArePrefix ==
    \A st \in {mem, disk} : \A i \in DOMAIN st.cps : st.cps[i] = i

\* Every section's Terraform state lies in the bucket the state file names:
\* no resource ever becomes unknown to the next `terraform apply`.
StateNotOrphaned ==
    \A s \in TfStage : owner[s] \in {0, disk.val["bucket"]}

\* When Terraform runs, and when the tree is pushed for Atlantis to run it,
\* the local tree names the backend of the state, however the run got there.
TreeNamesBackend ==
    at \in TfStage \cup {GitopsVcs} /\ step = "enter"
        => localTree.bucket = mem.val["bucket"]

\* Once ArgoCD is recorded, one key pair is in use: the file upload pushes
\* with, the one in the state, the deploy key and ArgoCD's credentials.
OneKeyInUse ==
    K8sDelivery \in Recorded(disk)
        => \A k \in {keyFile, deployKey, argoKey} : k = disk.val["sshKey"]

\* Once secrets-management is recorded, the root token is in the state file
\* and in the cluster: later stages and later runs can talk to Vault.
TokenKept ==
    SecretsManagement \in Recorded(disk)
        => disk.val["rootToken"] # 0 /\ vaultInit /\ vaultSecret

\* A stage that is about to run finds every value it subscripts, also when
\* the stages that compute them are skipped: no KeyError after a restart.
InputsPresent == at \in Stage /\ Runs(at) => Ready(at)

\* "please try restarting the setup": what stopped one launch does not stop the
\* next. No stage meets, whatever stopped before it, the repository it wants
\* absent, Terraform state with another backend, a key the Git provider does not
\* know or a Vault that cannot come up; a Vault cut off from its secret is left.
OnlyVaultRaises == Raises => InitRefused

\* "template changes must always propagate": a run that reaches its end has
\* published a tree at least as new as the template it found, with the
\* backend of the state, whichever checkpoints it skipped.
TemplatePropagates ==
    at = Show => mainTree.tpl >= tplAtLaunch /\ mainTree.bucket = disk.val["bucket"]

\* "rerunning setup must not fail on `vault operator init` when Vault is
\* already initialized".
InitSurvivesRerun == ~InitRefused

-----------------------------------------------------------------------------
(* Liveness *)

\* "please try restarting the setup. It should resume from the step when it
\* failed": repeated launches end with every stage recorded.
Completes == <>[](Recorded(disk) = Stage)

\* They do, unless one stopped between Vault's initialisation and the secret
\* with its token: no other stop is one that later launches cannot get over.
CompletesUnlessCut == <>[](Recorded(disk) = Stage \/ vaultInit # vaultSecret)

-----------------------------------------------------------------------------
(* The promise of the state file *)

\* The effect of a stage that a later run relies on.
InPlace(s) ==
    \/ s = Preflight /\ disk.val["gitUser"] # 0
    \/ s = Dependencies /\ tools
    \/ s = OneTimeSetup /\ disk.val["sshKey"] # 0 /\ disk.val["bucket"] # 0
    \/ s = RepoPrep /\ localTree.tpl # 0
    \/ s \in TfStage /\ owner[s] # 0
    \/ s = GitopsVcs /\ mainTree.tpl # 0
    \/ s = K8sDelivery /\ registryApp
    \/ s = SecretsManagement /\ vaultSecret
    \/ s = TfStoreHardening /\ hardened # {}

Pipeline == INSTANCE ResumablePipeline WITH
    N <- TfStoreHardening,
    Early <- {TfStoreHardening},
    recorded <- Len(disk.cps),
    done <- {s \in Stage : InPlace(s)}

\* Setup implements the resumable pipeline: a checkpoint reaches the disk only
\* after the effect of its stage, one at a time, and no effect runs ahead (but
\* for the bucket policy, which a rediscovery of the bucket sets as well).
RefinesPipeline == Pipeline!Spec

-----------------------------------------------------------------------------
(* The inductive invariant behind the proofs of SetupProofs *)

\* The values the first n stages leave in the state.
Provided(val, n) ==
    /\ n >= Preflight => val["gitUser"] # 0
    /\ n >= OneTimeSetup => val["params"] # 0 /\ val["sshKey"] # 0 /\ val["bucket"] # 0
    /\ n >= VcsTf => val["repoUrl"] # 0
    /\ n >= K8sTf => val["cluster"] # 0
    /\ n >= K8sDelivery => val["argoCreds"] # 0
    /\ n >= SecretsManagement => val["rootToken"] # 0
    /\ n >= SecretsTf => val["registry"] # 0

\* The other effects of the first n stages.
Achieved(n) ==
    /\ n >= Dependencies => tools
    /\ n >= RepoPrep => localTree.tpl # 0 \/ RebuildMayFail
    /\ n >= VcsTf => owner[VcsTf] # 0
    /\ n >= K8sTf => owner[K8sTf] # 0
    /\ n >= GitopsVcs => mainTree.tpl # 0 \/ RebuildMayFail
    /\ n >= K8sDelivery => registryApp
    /\ n >= SecretsManagement => vaultSecret
    /\ n >= SecretsTf => owner[SecretsTf] # 0
    /\ n >= UsersTf => owner[UsersTf] # 0
    /\ n >= CoreServicesTf => owner[CoreServicesTf] # 0
    /\ n >= TfStoreHardening => hardened # {}

\* A key or bucket that is named somewhere has been made.
NamesBounded ==
    /\ mem.val["sshKey"] <= keys /\ disk.val["sshKey"] <= keys
    /\ mem.val["bucket"] <= buckets /\ disk.val["bucket"] <= buckets
    /\ localTree.bucket <= buckets
    /\ deployKey <= keys /\ argoKey <= keys

\* The places of a stage, and that a stage is only entered when all earlier
\* ones are recorded.
Positioned ==
    /\ at = Off <=> step = "idle"
    /\ step = "discover" => at = Preflight
    /\ step \in {"prepare", "bucket"} => at = OneTimeSetup
    /\ step = "parametrise" => at = RepoPrep
    /\ step = "app" => at = K8sDelivery
    /\ step \in {"init", "exec", "secret"} => at = SecretsManagement
    /\ at = Show => step = "enter"
    /\ at # Off => mem.cps = disk.cps /\ Len(mem.cps) >= at - 1
    /\ step = "parametrise" => Len(mem.cps) >= RepoPrep

\* What is recorded left its values in the file, and a running process has
\* them; it has those of its own stage when it is about to record that.
ValuesKept ==
    /\ Provided(disk.val, Len(disk.cps))
    /\ at # Off => Provided(mem.val, Len(mem.cps))
    /\ step = "record" => Provided(mem.val, at)
    /\ step = "bucket" => mem.val["sshKey"] # 0
    /\ step = "app" => mem.val["argoCreds"] # 0
    /\ (at = OneTimeSetup /\ step # "prepare") \/ at > OneTimeSetup => mem.val["params"] # 0

\* What is recorded left its effect, and so has the stage about to be recorded.
EffectsKept ==
    /\ Achieved(Len(disk.cps))
    /\ step = "record" => Achieved(at)
    /\ at > RepoPrep \/ step = "parametrise" => localTree.tpl # 0 \/ RebuildMayFail
    /\ at > RepoPrep /\ localTree.tpl # 0
          => localTree.bucket = mem.val["bucket"] /\ localTree.bucket # 0
    /\ vaultSecret \/ step = "secret" => vaultInit

IInv ==
    /\ TypeOK /\ NamesBounded
    /\ CheckpointsArePrefix /\ Positioned
    /\ ValuesKept /\ EffectsKept
=============================================================================
