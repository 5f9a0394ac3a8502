# Verification of the CG DevX CLI

TLA+ models of `tools/cli`, the program (`cgdevxcli`) that sets up, extends and
removes a CG DevX platform: what its commands do to the machine, the cloud, the
Git provider and the cluster, in which order, and what is left when they stop
half way. TLC checks the models on small instances; TLAPS proves the central
properties of eight of them for every value of the constants.

1. [The system](#1-the-system)
2. [The modules](#2-the-modules)
3. [The runs](#3-the-runs)
4. [The proofs](#4-the-proofs)
5. [What the models leave out](#5-what-the-models-leave-out)
6. [Where code and documentation part](#6-where-code-and-documentation-part)
7. [The plan](#7-the-plan)

To repeat the checks, in this directory:

    tlc -config Setup_resume.cfg Setup      # any run: <run>.cfg and its module
    tlapm SetupProofs.tla

`PROJECT.json` lists the runs, the source lines behind each definition (`map`),
one mutation per property that breaks it (`mutants`), the hazards of the code and
the properties that watch them.

## 1. The system

Every command is one single-threaded Python process that performs remote calls
in a fixed order. There is no concurrency inside a command. What makes the
program hard is everything that outlives a process: the state file, the local
folder `~/.cgdevx`, the cloud account, two kinds of Git repository and the
cluster, each with a memory of its own, while the process may stop between any
two of its effects and be started again, with other options, by a user who is
told to do just that ("please try restarting").

| Part | State it keeps | Operations | What must be right |
|---|---|---|---|
| **setup** (`commands/setup.py`) | place in its 13 stages | load the state, find the state bucket (AWS), each stage: skip or do, record; `--from-checkpoint` | a recorded stage has been done and its values are in the file; a repeated launch gets to the end; nothing made by an earlier run is lost or made twice |
| **state store** (`common/state_store.py`) | `~/.cgdevx/state.yaml`: checkpoints, input, internals, parameters, fragments | load, `has/set/remove_checkpoint`, `save_checkpoint` | the list is a prefix of the stages; a file cut by a stop is not believed |
| **platform template manager** | `~/.cgdevx/gitops`, branch `main` of the GitOps repository | clone, build, `parametrise_tf`, `upload` with its way around a protected branch | Terraform never runs without its backend; main holds the newest template |
| **Terraform wrapper** | Terraform's state in the bucket, by section | init, apply, output, destroy | one backend per installation; return codes are looked at; no pipe blocks |
| **AWS manager and SDK** | buckets and their policies; the records of a zone | create, find again, harden, delete; simulate permissions | a failing lookup is not an absent bucket; no platform touches another's storage |
| **Azure, GCP managers** | storage of the same kind | the same, without the search | as above; a failed creation is noticed |
| **Kubernetes client, delivery service manager** | secrets, service accounts, jobs, Argo CD objects | create if absent, wait, delete | an object that exists is the one meant; roles outlive the jobs that need them |
| **key manager** | key files in `~/.cgdevx` | generate | a key that others have a copy of is not replaced |
| **dependency manager** | `~/.cgdevx/tools` | look, download, compare the checksum, unpack or move, mark as executable | a binary that is damaged or cut half way is not executed |
| **DNS managers** | the TXT record that shows who owns the domain | find the zone, compare name servers, set the record, wait for it | a domain that is not ours is not taken for ours; a record that stays does not block |
| **destroy** (`commands/destroy.py`) | none of its own; reads checkpoints | fetch, Argo CD applications, cluster, repository, bucket, local folder | a call that fails can be repeated; nothing is left that no call would remove |
| **platform GitOps repository** | the clone of `~/.cgdevx/gitops`: branches, working tree | update, branch, add or remove a workload, commit, push, pull request | a pull request holds what its command says and nothing else |
| **workload create, delete** | the clone, remote branches, pull requests, the workloads' own resources | the above in order; `terraform destroy` of a workload | as above; exactly the resources asked for are destroyed |
| **workload bootstrap** | two repositories of the workload | clone templates, fill in, push, pull request | two repositories, either of which may fail |
| **Git providers** | tokens and repositories at GitHub or GitLab | existence, scopes, pull requests | |
| **Helm wrapper, optional services, logging, names** | none | a subprocess, constants | |
| **platform template** (`src/platform`) | | Terraform, charts and pipelines run by other programs | |

How they meet: `setup` owns the order and calls everything but `destroy` and the
workload commands; all of these share the state file and `~/.cgdevx`. `setup`
leaves a *rendered tree* in `~/.cgdevx/gitops`, which the workload commands and
`destroy` replace by a *clone* and which the next `setup` removes again. Terraform,
Argo CD, Atlantis and the reviewers of pull requests act on the repository and
the cluster on their own. Several platforms may live in one cloud account, each set up
from a machine of its own; what they share is the account's list of storages.

Hard behaviours, each a hazard in `PROJECT.json`: stops between an effect and its
record; a state file cut while it is written; `--from-checkpoint` to a stage
whose effects others have copied; values read from the state after the stage
that computes them was skipped; lookups that answer "no" when they fail; Vault's
root token, which exists once; a branch left checked out; pushes whose rejection
nobody reads; destroying what the next call would need; waits that end without
telling; two pipes of which one is read first; a main branch whose rules refuse the
push; lookups by the beginning of a name; a tool that is there but not yet whole, or
whole but not yet executable.

## 2. The modules

| Module | What it models | From |
|---|---|---|
| `Stages` | the 13 stages, numbered in the order of the code | `setup.py:119-133` |
| `StateStore` | the operations on the checkpoint list (operators only) | `state_store.py:94-122` |
| `ResumablePipeline` | *abstract*: what the checkpoints promise, with no cloud and no files | |
| `Setup` | `cgdevxcli setup` and all it changes | `setup.py`, template manager, AWS, Terraform, Kubernetes |
| `Prerequisites` | its first two stages, preflight and dependencies, on every cloud | `setup.py:249-303`, `dependency_manager.py`, the DNS managers, permissions of the three SDKs |
| `StateStorage` | the storage of the Terraform state, on every cloud, for platforms that share an account | `setup.py`, `destroy.py`, managers and SDKs of AWS, Azure, GCP |
| `Upload` | the upload of the rendered tree, with protected branches and pull requests | `platform_template_manager.py` |
| `TfProcess` | one Terraform process and the wrapper that reads its pipes | `tf_wrapper.py` |
| `StateFile` | the state file as it is written and read: truncation, sections in the order written and in the order read, types | `state_store.py`, `setup.py:140-187` |
| `Destroy` | `cgdevxcli destroy` on whatever a setup left | `destroy.py` |
| `Workloads` | `workload create`, `workload delete`, reviewers, setup in between | `workload/*.py`, `platform_gitops.py`, `command_utils.py` |
| `Bootstrap` | `workload bootstrap`, developers and reviewers at the same repositories | `workload/bootstrap.py`, `wl_template_manager.py` |
| `ArgoInstall` | the stage k8s-delivery against a cluster that works on its own | `setup.py:683-863`, `k8s.py`, `delivery_service_manager.py` |

`SetupProofs`, `StateFileProofs`, `PrerequisitesProofs`, `StateStorageProofs`,
`UploadProofs`, `TfProcessProofs`, `DestroyProofs` and `WorkloadsProofs` hold the theorems about the
module they are named after, and their proofs.

`Setup` has one action for each thing that a stage makes, and leaves to five modules what
happens inside: `RunPreflight` and `InstallDependencies` are `Prerequisites`,
`CreateStateStorage` and `ProtectStateStorage` are `StateStorage`, `UploadGitops` is
`Upload`, every `ApplyTf` is a few commands of `TfProcess`, `InstallArgo` is `ArgoInstall`.
What `Setup` assumes of each is what the properties of that module say: the stage is
recorded only when it has been done, and repeated launches get past it unless the world
refuses.

A definition whose comment begins with *Slip* is a plausible bug, used by
`mutants` and by nothing else.

### Setup

`at` is the stage, `step` the place in it. A step is the code between two effects
that survive the process, so a stop (`Die`) can come between any two of them;
an exception leaves the same behind as a stop. `mem` is `StateStore._store`, `disk`
the file; both hold the checkpoint list and *groups* of keys (`val`): the key pair
and the bucket by number, since there may be several, the others as present or
absent. The rest of the state is the world: `keyFile` and `localTree` on the
machine, `owner` (which bucket has a section's Terraform state), `mainTree`,
`deployKey`, `argoKey`, Vault.

* `Launch` and `LaunchFrom(c)` load the file; the second cuts the list at `c` and
  saves at once, as `setup.py:181-187` does before it validates anything.
* `KeepBucket`, `RediscoverBucket` are the search of `setup.py:200-242`, AWS only. The first
  is also the search that raises in `list_buckets` and goes on with nothing, a fault.
* `Skip`, `RecordStage` and one action or chain of actions per stage: `RunPreflight`,
  `InstallDependencies`, `PrepareParameters` (on every launch), `CreateKeys`,
  `CreateStateStorage`, `CloneAndBuild`, `ParametriseTf` (the last two on every launch),
  `ApplyTf`, `ApplyFails` for the five Terraform sections, `RebuildTree`, `UploadGitops` (on every
  launch), `InstallArgo`, `CreateRegistryApp`, `WaitVault`, `ReuseVaultSecret`,
  `MissVaultSecret`, `InitVault`, `StoreVaultSecret`, `ProtectStateStorage`,
  `ShowCredentials`.
* `Raise` is an error that the next launch would meet again: a value that is not
  there, the repository that preflight wants absent, Terraform with another
  backend, a rejected push, Vault that is not deployed or cannot be initialised.
* `RebuildTree`: before the upload, if `terraform init` refuses the tree, it is removed,
  cloned and built again; what that raises is swallowed, and the clone may have left
  nothing (`RebuildMayFail`).
* `TemplateAdvances`: the template repository gets a new version.

`Setup` implements `ResumablePipeline` under the mapping `recorded <- Len(disk.cps)`,
`done <-` the stages whose effect is `InPlace`. A save is one step here. `StateFile`, where
it is two and may be cut between or within them, implements the same pipeline, so that what
`Setup` takes for granted of `save_checkpoint` is what `StateFile` says of it.

### Prerequisites

Preflight looks at the permissions, the zone and its name servers, sets a TXT record and
waits for the resolvers. The world - cloud, credentials, delegation, zones, what resolvers
have cached - is chosen in `Init` and only `record` and `answer` change. What differs by
cloud has an operator of its own: `SimulationSays`, `RolesMaySay`, `GrantsSay` for the
permissions, `ExactZones` and `ZonesByPart` for the zone that is found first, `Upserted`,
`Kept`, `Added` for the record, `SubsetOfExpected` and `HasExpected` for the answer.
Two things make the service refuse the record (`RecordRefused`): on AWS a TXT record of
the same name that is not weighted, as setup's is, and on GCP a zone that was found first
and shares the name servers, but is of another name.
Dependencies then installs Terraform and kubectl: a file is absent, torn, damaged or
whole, and apart from that executable or not (`runs`), since unpacking and marking are two
steps. `MaxLooks` and `MaxAttempts` are the constants of the code, 100 and 5 there.

### StateStorage

For each platform the place of its setup (`at`), the name in its state file (`name`), what
its checkpoints say as far as the storage is concerned (`level`), and of each storage
whether it exists, is prepared, whose Terraform state it holds and who gets in. Names are
a platform and a number; what the code does with their letters is in three places:
`LikeNamed` (`startswith`, AWS), `Stem` (the platforms whose name starts another's),
`LongName` and `Group` (the first 20 letters, which on Azure name the resource group and
the account). `FindMisses` is S3 that answers an error, which counts as "no";
`CreateFails` is GCP, which logs and goes on. `DestroyPlatform` is the end of
`destroy.py`: `EmptiedBucket`, `ResourceGroup`, `EmptyBucket` say what each cloud deletes.
The role of the automation is made by an apply, so it is a new one where there is no state yet:
on Azure, which goes by its id, what the old one was assigned is not the new one's (`RoleIsNew`).

### Upload

A tree gives each file a version. `Launch` renders, `CloneMain` clones what others have
merged into since, `PushMain` is the direct push, which main's `rule` and whatever was
pushed meanwhile may refuse; then `PushBranch`, `OpenRequest`, `AutoMerge`, each of which
can end in `Raise`. `Fail` also covers a call whose effect took place and whose answer was
lost. The template, other people's merges (`Develop`), and reviewers (`Merge`, `Close`,
`RequestByHand`) move on their own. `MergeOf` is Git's merge of three trees, by file.

### TfProcess

`Terraform` writes lines to two pipes of bounded size, in any order, and exits with either
code; the wrapper starts it (`Execute`), reads stdout line by line to its end (`ReadLine`,
`EndOfStdout`), then stderr (`Communicate`), takes the code and goes to the caller's next
command (`Return`). Lines are counted. `saved` is the progress manager's list, which no
command empties.

### StateFile

`save_checkpoint` opens the file with `w+` and dumps the store, whose keys yaml
sorts; `StateStore()` reads the sections in another order and skips, silently,
everything after the first that is missing. `Truncate`, `Write` and a `Die` between
them leave the file empty or cut in any section; `torn` remembers that this has
happened. The stages are reduced to the
values they leave and subscript (`IntoInternals`, `FromInternals`, ...), taken from
each stage's code. `Options` says where a launch has its options from, since
click's tuple for `--optional-services` is saved as a tag that `safe_load` refuses.

`StateFile` implements `ResumablePipeline` too, under `recorded <- Len(OnRecord)`: the list in
the file, empty where the file has none, and, while it is open and not yet written, the list
that is being saved. Opening it for a new checkpoint is then a `Record`, a save that is cut
a `Rewind`.

### Destroy

`Init` is what a setup may leave: which stages it recorded, and (`UpToDate = FALSE`)
which it made without recording them. Sections: fetch, confirm, Argo CD
applications, cluster, repository, bucket, folder. A section is gone through when
its checkpoint is there. Load balancers that applications made in the cloud hold
up the destruction of the cluster; the message of the code asks the user to
delete them by hand, `RemoveAppsByHand`. Terraform that finds its bucket empty
destroys nothing.

### Workloads

One process, the clone it works in, the remote repository, a reviewer, the setup
command. A command is `update` (clone, or fetch and pull of whatever is checked
out), `CreateBranch` from whatever is checked out, then for each name `Destroy` (with
`--destroy-resources`), `Edit`, `Commit` and `Push`, then `OpenPullRequest`,
`SwitchToMain`, `DeleteBranch`. `Push` may fail silently. A head that exists is
accepted by `create_head` at the same commit (`SameCommit`), for which the same contents on
the same base stand here: the reason why a repeated create can work. Between `create_head`
and `checkout` the command may stop (`StopBeforeCheckout`). A `delete` may name workloads
that main does not have (`Mistyped`), at the cost of a fault. A workload's five files are
one entry; its value is the command that wrote it, so a stale entry is visible.

### Bootstrap

For the code repository, then for the GitOps repository: `Clone` both folders anew,
`Render` (the template's files over those of the clone, the service's folder, the
placeholders), `Upload` (add, commit, push to main). Then, in the second, `Update`,
`AddIdentity` in a new branch, `UploadBranch`, `OpenPullRequest`. `DevelopersPush` and
`MergeIac` move main under the clone (`raced`); a push is rejected then, or because the branch
of an earlier call is still there, and the command does not look: `ahead`.

### ArgoInstall

`InstallArgo` of `Setup` in detail. The command's steps are `CreateRbac`, `DeleteJob`,
`CreateJob`, `WaitForJob`, `RemoveRbac`, `GetComponents`, `WaitForComponents`, `GetToken`,
`CreateApp`, `Record`. The cluster's are its own: pods that apply the manifests part by
part while their role exists, the second pod for one that failed, pods orphaned by
the deletion of their job (the default of batch/v1 when, as in `create_job`, no
propagation policy is given), components that become ready. A deadline may pass in
any wait, at the cost of a fault, except that a failed job always reaches it. `GetToken` takes
any running pod of Argo CD, ready or not, as `setup.py:815` does.

## 3. The runs

A run marked *violated* checks one sentence of the documentation that the code
does not keep (section 6). The configurations listed as *further* are of that
kind too: they show the same flaws from another side, are run by hand, and are
not among the runs of `PROJECT.json`.

### Setup

| Run | Instance | Shows |
|---|---|---|
| `Setup_resume` | AWS, restarts from repo-prep or later (1), 3 faults, stops anywhere, 2 template versions | all safety of the installation at every moment; a pipeline that resumes behind the last record; no launch raises at what an earlier one left, but at Vault's; repeated launches record every stage, unless a stop hit Vault's initialisation |

Further, each of which lifts one restriction and shows that it is needed:
`Setup_from_one_time_setup`, `Setup_from_preflight` (restarts from earlier stages),
`Setup_flaky_storage` (S3 lookups that fail), `Setup_rebuild_fails` (a rebuilding of the
tree that fails and is swallowed), `Setup_vault_cut` (completion after a stop
inside Vault's initialisation). `Setup_any_restart` passes: with two restarts from
anywhere and lookups that fail the state file still stays honest.

What the properties say, in the order they matter:

* `InputsPresent`, `RefinesPipeline`: what is recorded has been done, in order, and a
  stage that is about to run finds what it subscripts.
* `StateNotOrphaned`, `TreeNamesBackend`: all Terraform state is in the bucket the
  state file names, and Terraform never runs on a tree that names none.
* `OneKeyInUse`: one key pair in the file, the state, the deploy key and Argo CD.
* `TokenKept`: Vault's token is not lost once it is stored.
* `TemplatePropagates`: main holds the newest template after a launch.
* `OnlyVaultRaises`: no launch meets what every later launch would meet too, but a Vault
  that a stop left initialised and its secret unsaved.
* `CompletesUnlessCut`: hence repeated launches complete.

### Prerequisites

| Run | Instance | Shows |
|---|---|---|
| `Prerequisites_leftovers` | every cloud, zone, delegation and credential, 2 looks of 2 queries, 2 faults, 1 restart | a recorded preflight has shown the ownership, recorded tools are whole and Terraform runs; no launch is held up by the record or the download of an earlier one; launches get through unless the world refuses or a stop left a tool without its mode |

Further: `Prerequisites_unmarked` (the last exception).

### StateStorage

| Run | Instance | Shows |
|---|---|---|
| `StateStorage_account` | 2 platforms in one account of each cloud, 1 fault, 1 restart, 1 destroy | what is recorded exists, is prepared, holds the state and lets the automation in; no platform changes another's storage; launches get it hardened |

Further: `StateStorage_alone` (one platform, 4 faults, 2 restarts; passes),
`StateStorage_nested`, `StateStorage_alike`, `StateStorage_missed`,
`StateStorage_assigned`.

### Upload

| Run | Instance | Shows |
|---|---|---|
| `Upload_shared` | every rule of main, with and without the right to open requests, 1 file of the template and 1 of others, 2 versions, 2 merges by others, 1 fault, 1 closed request | nothing that was merged meanwhile is lost; success means published; launches get past every rule the code knows |

Further: `Upload_worded` (a rule the code does not know).

### TfProcess

| Run | Instance | Shows |
|---|---|---|
| `TfProcess_pipes` | pipes of 2 lines, up to 4 lines of stdout and 3 of stderr in any order, every sequence of commands | whole answers and none of an earlier command; the one jam is a full stderr under an empty stdout; otherwise every command ends |

Further: `TfProcess_jam` (the jam).

### StateFile

| Run | Instance | Shows |
|---|---|---|
| `StateFile_stops` | 3 stops in any place of a save, one restart, options in a file | no launch believes what was not done; however saves are cut, the file moves as `ResumablePipeline` allows; as long as none was cut, no recorded stage lacks its values and repeated launches complete |

Further: `StateFile_torn_completes`, `StateFile_arguments` (one stop, options on the
command line, and no later launch completes).

### Destroy

| Run | Instance | Shows |
|---|---|---|
| `Destroy_up_to_date` | after any of nine checkpoints, 3 failures | while anything is left, so is what the next call needs; repeated calls remove everything |

Further: `Destroy_half_made`, `Destroy_restarted`, `Destroy_early`.

### Workloads

| Run | Instance | Shows |
|---|---|---|
| `Workloads_one_by_one` | 2 workloads, 4 commands of one name, no other open pull request, 1 fault | a command that reports success has its very commit under review; without the fault no command raises or leaves a branch |
| `Workloads_together` | 3 commands of up to two names, several pull requests, closed branches that stay, 1 fault, setup in between | no pull request changes and no destruction hits a workload nobody named; a deletion of one workload has destroyed its resources |
| `Workloads_two_names` (violated) | one delete of two names, no fault | the resources of the second stay |

Further: `Workloads_leftover`, `Workloads_repeated`, `Workloads_closed`,
`Workloads_setup_again`.

### Bootstrap

| Run | Instance | Shows |
|---|---|---|
| `Bootstrap_shared` | 2 commands, 2 services, 2 faults, 2 pushes of developers | what developers push meanwhile is not overwritten; no identity without its service, in main or under review; success means published unless a push was rejected; repetition ends in success or at an open pull request |

Further: `Bootstrap_raced` (one push of a developer, and success is reported for a
repository that was not filled).

### ArgoInstall

| Run | Instance | Shows |
|---|---|---|
| `ArgoInstall_again` | manifests in 3 parts, 4 faults, a restart of the stage | all of Argo CD is there when the stage is recorded, unless the job did not succeed before the deadline; the role is gone or the user told; launches get past the stage |

Further: `ArgoInstall_slow` (the application is created before the components run).

### Bounds

*Faults* are stops, calls that fail and, in `Workloads`, names mistyped. Every failure found
needs at most three (a stop to reach the odd state, then one or two failing lookups); the passing runs go to the same number or one
beyond. *Restarts.* Two, because a restart forgets everything but the list: a
third starts from a list that the first could have produced. *Template versions.*
Two: a new one, and the one before. *Workloads.* Two: the one a command is
about and one it must not touch. *Commands.* Three or four: one that leaves
something behind, one that meets it, one after that. Keys and buckets are not
bounded: each needs a restart. *Pushes of developers.* Two: one in each repository, or
one before and one after the clone. *Parts.* Three: what the command waits for, with
something before and something after it. *Platforms.* Two: the one at work and the one it
must leave alone; one of them has a long name. *Storages* are bounded by what can make a
platform create one more. *Pipes.* Two lines, with more lines to write than both hold, so
that either can be full. *Files of a tree.* One that the template owns and one it does not:
a merge goes file by file. Nothing else counts.

No run has symmetry: the stages are ordered, and liveness is checked.

### Fairness

`WF(Proceed)`: the process goes on. `WF(Launch)`, `WF(Start)`, `WF(Repeat)`: the user
runs the same command again, as `commands/README.md:126-127` and `:166-167` ask for after
an error. `SF(RemoveAppsByHand)`, in `Destroy` only: strong, since every new call
switches the action off for its duration; the code's message asks for it. In `ArgoInstall` the
job controller and the components make progress. In `TfProcess` both processes are
scheduled. In `Upload` people do what the messages ask for: `WF(RequestByHand)`, and
`SF(Merge)`, strong since a request is not mergeable all the time; in `Prerequisites` caches run
out, `WF(Refresh)`. Faults, restarts, reviews,
developers and new templates are never fair. Without fairness nothing
follows, and with it the faults are still as many as the bound allows, at any
place.

Deadlock is checked in `Setup`. In the other modules it is not: a state file that
nobody can load, a machine without `~/.cgdevx`, a user with no further command are
places where the system really stops, as are two platforms with nothing left to do, a
Terraform that has answered, and the jam of its pipes, which the properties name.

## 4. The proofs

Eight modules prove, for every value of the constants:

| Module | Theorems | From |
|---|---|---|
| `SetupProofs` | `TypeCorrect`, `PrefixAlways`, `InputsAlways`, `TokenAlways`, `SavedAlways` | `ConstantsAssumption` |
| | `BackendAlways`, `TemplateAlways`, `ImplementsPipeline`, `RecordedInPlaceAlways` | also `RebuildMayFail = FALSE`: no rebuilding of the tree fails |
| | `OneKeyAlways` | also `RestartsLater`: no restart carries out one-time-setup again |
| | `StateAlwaysFound` | also `RestartsLater` and `FlakyStorage = FALSE`: a look at a bucket sees what is there |
| | `OnlyVaultRaisesAlways` | also all three |
| `StateFileProofs` | `TypeCorrect`, `RecordedWasDoneAlways`, `ValuesOfRecordedAlways`, `ImplementsPipeline`, `ResumableAlways` | `ConstantsAssumption` |
| `PrerequisitesProofs` | `TypeCorrect`, `PreflightVerifiedAlways`, `ToolsCompleteAlways`, `OnlyRefusalsObstructAlways` | `ConstantsAssumption` |
| `StateStorageProofs` | `TypeCorrect`, `FrugalAlways` | `ConstantsAssumption` |
| | `RecordedUsableAlways`, `UndisturbedAlways`, `BackendReachedAlways` | also `Apart`: no name starts another, at most one is long |
| `UploadProofs` | `TypeCorrect`, `OthersKeptAlways`, `SuccessPublishesAlways`, `NeverBackAlways` | `ConstantsAssumption` |
| the same, of `Bootstrap` | `BootstrapTypeCorrect`, `IdentityHasServiceAlways`, `RacedWorkKeptAlways`, `PublishedUnlessRejectedAlways` | `BootstrapConstants` |
| `TfProcessProofs` | `TypeCorrect`, `AnswersWholeAlways`, `OnlyStderrJamsAlways`, `FittingErrorsNeverStick` | `ConstantsAssumption`; for the last, errors that fit the pipe |
| the same, of `ArgoInstall` | `InstallTypeCorrect`, `InstalledUnlessUnnoticedAlways`, `RoleRemovedAlways` | `InstallConstants` |
| `DestroyProofs` | `TypeCorrect`, `StillDestroyableAlways`, `RaisesOnlyWhenGoneAlways` | `UpToDate = TRUE`: the setup before recorded what it made |
| `WorkloadsProofs` | `TypeCorrect`, `OnlyNamedOrFailedAlways`, `DestroysOnlyNamedAlways`, `OneDestroyedAsAskedAlways` | `NamesAssumption`: main is no workload's branch |
| | `CleanWithoutFaultsAlways` | also `OneByOne`: users wait for open pull requests |
| | `ReviewsTheCommitAlways` | also `OneByOne`, one name a command, no branch left of a closed pull request, no launch of setup, one fault at most |

`ConstantsAssumption` gives the types of a module's constants, and TLC evaluates it in each
run of that module. What stands after "also", `Apart` and
`UpToDate` are premises of the theorems, not of the modules, and none can be dropped: a
configuration shows what happens without it.

| Without | TLC finds a violation with |
|---|---|
| `RestartsLater` | `Setup_from_one_time_setup` for the state; for the key, the same on AWS with `IsAws = TRUE`, `MaxFaults = 1` and `OneKeyInUse` |
| `FlakyStorage = FALSE` | `Setup_flaky_storage` |
| `RebuildMayFail = FALSE` | `Setup_rebuild_fails`, as it is and with `TreeNamesBackend`, `RefinesPipeline` or `OnlyVaultRaises` for `TemplatePropagates` |
| `Apart` | `StateStorage_nested`, `StateStorage_alike` |
| `UpToDate` | `Destroy_half_made` |
| one name a command | `Workloads_one_by_one` with `NamesPerDelete = 2` |
| `BranchesStay = FALSE` | `Workloads_closed` |
| one fault, no launch, `OneByOne` | `Workloads_one_by_one` with `MaxFaults = 2`, with `MaxLaunches = 1`, with `OneByOne = FALSE` |

`UploadProofs` extends `Upload` and `Bootstrap`, `TfProcessProofs` extends `TfProcess` and
`ArgoInstall`; what `Bootstrap` and `ArgoInstall` share with their hosts has therefore a name
of its own there (`place`, `BootstrapSpec`, `InstallSpec`). Each shares the theorem module
with the component it resembles: `Bootstrap`, as `Upload`, pushes to a main that others push
to, and `ArgoInstall`, as `TfProcess`, starts something and waits for it.

The type invariant of a module is proved and is not among the properties of its run;
`CheckpointsArePrefix` is proved, and TLC checks it as part of `RefinesPipeline`.

Each proof is by an inductive invariant `IInv`, theorem `Inductive`, with one step for each
action of the module.

### Setup

None of the properties is inductive. Whether a stage finds its values depends
on what was recorded when they were computed, which may be several processes ago;
so `IInv` says, for memory and file alike, what a list of length *n* implies:

    IInv == TypeOK /\ NamesBounded /\ CheckpointsArePrefix /\ Positioned
            /\ ValuesKept /\ EffectsKept

* `NamesBounded`: a key or bucket named anywhere has been made (types need it).
* `Positioned`: which step belongs to which stage, and that a process at stage *s*
  has at least *s - 1* stages recorded, in memory and in the file.
* `ValuesKept`: *n* recorded stages left their values (`Provided`), in the file and in
  the memory of a running process, which has those of its own stage when it is
  about to record it.
* `EffectsKept`: the same for the world (`Achieved`), and that from vcs-tf on the
  local tree names the backend: the tree is made anew on every launch, so this
  does not follow from the record.

The proof goes by layers, each with the earlier ones at hand: `TypesStep`, `NamesStep`,
`OrderStep`, `ValuesStep`, `EffectsStep`, one step per action in each. The lemmas about
lists (`RecordedByLength`, `SetCheckpointInOrder`, `RemoveFromInOrder`) say that in a
prefix "recorded" is a comparison with its length, which turns everything else
into arithmetic. `ListStep` bounds what a step does to the list, `EffectsStayStep` says
that no step takes an effect away.

On top of `IInv` come four invariants of their own, and what follows from them:

* `Saved` (`SavedAlways`): outside one-time-setup the process and the file agree on the
  key and the bucket. `ImplementsPipeline` needs it: "in place" is read off the world
  and the *file*, while a save writes what the process has in memory: if the two differed, a
  save could put one-time-setup in place at another stage's turn. The proof of the refinement is the two halves
  it asks for, an initial state is one of the pipeline's, and each action is a
  `Perform`, a `Record`, a `Rewind` or a stutter: an action of a stage puts that
  stage in place or none, `save_checkpoint` adds at most one to the list. The
  pipeline's own invariant (`PipelineKeeps`) then holds of setup: `RecordedInPlaceAlways`.
* `Fresh` (`TemplateAlways`): from repo-prep on the local tree, and from gitops-vcs on
  main, are no older than the template at launch. This rests on the order of the
  stages and on the two that are carried out on every launch, not on the record.
* `OneKey` (`OneKeyAlways`): before one-time-setup is recorded no key is handed out, from
  then on all are the file's. A restart at one-time-setup makes a new key, vcs-tf
  installs it at the Git provider, and Argo CD, whose secret exists, keeps the old one: hence
  `RestartsLater`.
* `OneBucket` (`StateAlwaysFound`): all Terraform state lies in one bucket, that of the file.
  Since it is then the only bucket with any state, it is the one with the most, and
  the discovery at a launch can only come back to it (`DiscoverOwner`); a look
  that fails breaks this, hence `FlakyStorage = FALSE`.

`OnlyVaultRaises` follows from all of them, one reason to raise at a time: `InputsReady`, the
values are there; by `OneKey` the push is not denied and Vault's application can be
synchronised; by `OneBucket` no section has its state elsewhere and no repository exists before
one-time-setup is recorded, hence none at preflight.

### The others

* `StateFile`: memory and file are both honest, without a stage recorded twice (`Honest`),
  and hold the values of what they record unless a save was cut (`Filled`, `Saved`).
  What `Load` reads, what `RemoveFrom` leaves and what `CutSection` cuts is `Within` what was
  there before, so that a file cut in any place is as honest as the one it was to become.
  For `ImplementsPipeline` the lists in memory and on disk are also in the order of the stages
  (`Sorted`), and the process is where its list ends (`Following`); each step is then one of
  four of the pipeline (`PipelineStep`). `ResumableAlways`: while no save was cut, a launch can
  read the file and each stage finds what it subscripts, since that is what earlier
  stages leave (`InputsAreEarlier`).
* `Prerequisites`: what a place in the code has behind it. `PreflightSoFar` (from "zone" on the
  permissions were said to suffice, from "txt" on the name servers are the domain's, at "wait"
  the zone is its own and on AWS the record has the value; what resolvers answer came from the record) and `ToolsSoFar` (between
  unpacking and marking the file is the download that was compared). On AWS an empty
  answer passes for the value; that the record has the value all the same is because AWS
  alone replaces it, which the invariant keeps. `OnlyRefusalsObstruct` is read off the same two.
* `StateStorage`: for every platform at once, what is recorded is usable (`Usable`), what a
  running launch is about to record is prepared (`Readies`), and the storages it names are
  its own (`Owns`), for which `Apart` is needed. A step then disturbs only its own platform:
  `StepKeepsMine` and `StepKeepsOthers` are the two halves of the induction.
  `FrugalAlways` (`Frugal`) is independent of it: a storage is created only after a fault, a restart
  or a destroy, so that the guard `made[p] < MaxStorages` of `Create` cuts off no behaviour.
* `Upload`: `OthersKept` and `SuccessPublishes` are about a single step, and need only the
  types and that a launch going on has no outcome; the proof shows that they do not depend
  on the history of main at all. `NeverBackAlways` does: every branch that was ever pushed goes
  forward from its base and no further than the last launch (`Forward`), so that a reviewer
  who merges an old one, in any order, takes no file of the template back.
* `TfProcess`: the pipes and the counts agree, what is written is in the pipe or has been
  read (`Conserved`), and the list of the progress manager is what its one tracked command
  has printed so far.
* `Destroy`: the sections go in order (`InOrder`), and what exists is on record (`OnRecord`);
  that a call can also fetch, name and initialise what is left (`Repeatable`) gives
  `RaisesOnlyWhenGoneAlways`.
* `Workloads`: the names a branch carries, in the clone and remotely, are those of its
  command or of commands that failed before it (`OnBranch`, `OnName`, `LocalClean`,
  `RemoteClean`). `Gone` says that where one workload is deleted the name the loop stored
  can only be its own, whence `OneDestroyedAsAsked`; with two names it is the first's, which
  the run `Workloads_two_names` shows. `Clean` says what holds as long as nothing failed: no
  pull request is open while a command is on its way to one (`Undisturbed`), and the clone has
  main and at most the branch of the command (`Tidy`). `Reviewed` follows the tree through
  the loop into the commit and the push (`Dealt`), for which the push must not meet a branch of
  that name with other commits: every remote branch is one of the clone's or under
  review (`Known`), and while nothing has failed there is none to meet (`FirstPush`).
* `Bootstrap`: what the clone has on the way to the push (`OnTheWay`: an identity only with its
  service, and, unless developers were faster, the main it was cloned from) and what
  main has by then, unless a push was rejected (`InMain`). `MergedTree` says that a merge
  of two trees which have the service of their identity has it too.
* `ArgoInstall`: a job that succeeded has applied every part, and what the stage has behind it at
  each line (`Installed`); a job that goes on has attempts left (`Attempts`). What orphaned pods of
  deleted jobs do can only add to what is applied (`OneMore`).

Only model-checked: liveness (`CompletesUnlessCut`, `CompletesUnlessTorn`, `EventuallyGone`,
`Published`, `Hardened`, `Prepared`, `Answered`, `UnderReview`, `Completes`), which the prover cannot do
under fairness. Every other property of a passing run is the subject of a theorem, and of
five of the liveness properties the safety half is one: that a repeated call meets nothing
it would meet for ever (`OnlyVaultRaisesAlways` of `CompletesUnlessCut`, `ResumableAlways` of
`CompletesUnlessTorn`, `OnlyRefusalsObstructAlways` of `Prepared`, `BackendReachedAlways` of
`Hardened`, `RaisesOnlyWhenGoneAlways` of `EventuallyGone`).
Induction over data is beyond the installed provers; no module has recursive operators.

## 5. What the models leave out

* *Data.* The text of parameters, snippets and messages; which keys a group has.
  Two values of one group are never set apart.
* *Waits.* A wait that goes on too long is a failure that the next launch may not
  meet; `ArgoInstall` has the deadlines of one stage. Delays are not counted.
* *Half a rebuilding.* Of the second clone and build in gitops-vcs (`RebuildTree`) only the
  clone fails here, not the building or filling in of what it fetched.
* *Records of the domain.* On AWS somebody's weighted record of another identifier stays
  beside setup's; what a resolver then answers is left out.
* *The details of a stage* are not in `Setup` but in the module named in section 2; no run
  composes the two.
* *Settings that only warn.* Uniform access of a GCS bucket and versioning of an Azure
  account are logged when they fail and never looked at again, so that they are no part of
  "prepared" in `StateStorage`.
* *What Terraform prints.* `TfProcess` counts lines; parsing plan, progress and outputs is
  left out.
* *Permissions.* One answer, sufficient or not; which permission is missing is not modelled.
* *Partial Terraform.* Half an apply is "some resources exist and the state knows
  them" in `Setup`, `"partly"` in `Destroy`. k8s-tf is one resource there.
* *Concurrent processes.* Two commands at once on one machine are not modelled;
  nothing in the code or the documents provides for them.
* *Files within a step.* `shutil.rmtree` and the five files of a workload happen at
  once; the state file, where the difference shows, has its own module.
* *Merges.* A reviewer resolves conflicts, so that both sides' entries survive.
* `StateFile` leaves out fragments, which only fill in text. A cut mapping lacks the
  values of one stage: which ones depends on the names of the keys.
* *Not modelled*: the Helm wrapper, snippets of Terraform configuration, tokens, logging, enumerations, IAM lists:
  requests and data without state. `src/platform`: interpreted by other programs;
  the models hold what the CLI relies on, as environment actions.

## 6. Where code and documentation part

Each is a configuration that TLC finds violated. `Workloads_two_names` is among the runs, and
`findings` in `PROJECT.json` quotes its lines; the others are run by hand.

Its property, `DestroyedAsAsked`, can also fail with one name a command, in five commands: a
create that died after its push leaves its branch checked out, `delete --all` lists the
workloads of that tree, one more than main has, and destroys only the first's. What
holds whatever happened before is `OneDestroyedAsAsked`, about a deletion that
names one workload.

| Run | |
|---|---|
| `Setup_from_preflight` | "restarting from an arbitrary checkpoint (idempotent)": from preflight it raises for ever on the repository of the first run |
| `Setup_from_one_time_setup` | the same: a second bucket becomes the backend, the Terraform state stays in the first |
| `Setup_vault_cut` | "rerunning setup must not fail on `vault operator init`": it does after a stop between the init and the secret |
| `Prerequisites_unmarked` | "It should resume from the step when it failed previously" (`commands/README.md:125-127`): after a stop between the unpacking of Terraform and its `chmod`, every launch tries to execute it and raises |
| `StateStorage_nested` | "Discover the active Terraform remote state bucket for this platform" (`aws_manager.py:66-67`): for `gitops` also that of `gitops-dev` |
| `StateStorage_alike` | two Azure platforms whose long names begin alike share a resource group, which the destroy of one deletes |
| `StateStorage_missed` | two errors of S3 in a row: the launch goes on with a bucket that it found and never prepared |
| `StateStorage_assigned` | a stop between the Azure role assignment and its record: every launch raises `RoleAssignmentExists` |
| `Upload_worded` | "Template changes must always propagate" (`docs/CGDEVXCLI_SETUP_FIXES_2025-12.md:80`): not where main is protected by a GitHub ruleset or by GitLab, whose refusal has other words |
| `TfProcess_jam` | a Terraform that writes more to stderr than the pipe holds, before it ends its stdout, stops for ever together with the CLI |
| `Setup_rebuild_fails` | "Always ensure GitOps repo content is up-to-date" (`setup.py:622`): after a clone whose error is swallowed, main is made equal to an empty tree and the stage recorded; the next launch repairs it |
| `Setup_flaky_storage` | "so old bucket names never resurface": they do when `head_bucket` and `head_object` fail |
| `StateFile_torn_completes` | a stop during `save_checkpoint` leaves a file that ends the resuming |
| `StateFile_arguments` | options on the command line put a tuple into the file that no launch can load |
| `Destroy_half_made` | "destroys all resources created during the setup": not those of a section that is not recorded, whose Terraform state it then deletes |
| `Destroy_restarted`, `Destroy_early` | "please try restarting the process": a call cannot be repeated once the repository is gone, nor succeed after a setup that stopped early |
| `Workloads_two_names` | the second workload's resources are not destroyed |
| `Workloads_leftover` | the pull request after a failed command holds the changes of both |
| `Workloads_repeated` | a command that stopped before its push blocks all later ones |
| `Workloads_closed` | a rejected push goes unnoticed, the old branch is under review |
| `Workloads_setup_again` | a launch of setup removes merged workloads from main |
| `Bootstrap_raced` | "an exception is raised [...] if the bootstrap process [...] fails": a rejected push is a success |
| `ArgoInstall_slow` | "wait for additional ArgoCD Pods to transition to Running": for 300 seconds, then the registry application is created all the same |

## 7. The plan

Done, in this order: `Stages`, `StateStore`, `ResumablePipeline`, `Setup` with its
proofs, `StateFile`, `Destroy`, `Workloads`, `Bootstrap`, `ArgoInstall`; then `TfProcess`,
`Upload`, `StateStorage`, `Prerequisites`, each with its proofs; the proofs of `Destroy`,
`Workloads`, `StateFile`, `Bootstrap` and `ArgoInstall`; the refinement of
`ResumablePipeline` by `StateFile`, and the safety halves of section 4.

Next modules:

1. `Params`: a launch without options over saved input, the optional services that
   are extended in place, the validation order.
2. `EndpointRefresh`: the endpoint and token of a cluster that was replaced.
3. A composition of `Upload` and `Workloads`, which share main.

Next theorems: the safety halves of `Published`, `UnderReview` and `Completes`, as there
are of the others.
