------------------------------ MODULE Bootstrap ------------------------------
(***************************************************************************)
(* `cgdevxcli workload bootstrap`: fills the two repositories of a         *)
(* workload, code and GitOps, from their templates, by a push to main, and *)
(* opens a pull request in the second that has Atlantis create the         *)
(* workload's identity. Developers push to the same branches meanwhile; a  *)
(* push that is rejected is not noticed.                                   *)
(***************************************************************************)
EXTENDS Naturals

CONSTANTS
    Service,        \* names for --workload-service-name
    None,           \* no service
    MaxCommands,    \* bound: commands, repetitions not counted
    MaxFailures,    \* bound: stops, failing calls
    MaxPushes       \* bound: pushes of developers

ASSUME BootstrapConstants ==
    /\ None \notin Service
    /\ {MaxCommands, MaxFailures, MaxPushes} \subseteq Nat

Repo == {"wl", "gitops"}

\* A tree: the folders of services, the service whose identity terraform is to
\* create, and whether developers changed files that the template has too.
RepoTree == [services : SUBSET Service, identity : Service \cup {None}, edited : BOOLEAN]
EmptyTree == [services |-> {}, identity |-> None, edited |-> FALSE]

VARIABLES
    place, repo, svc,
                    \* place in the command, its repository and --workload-service-name
    failed,         \* the last command did not come to its end
    mains, made,    \* branch main of the repositories, those that have one
    iac, iacBase,   \* sets of at most one: the branch "...-iac-init" of the GitOps
                    \* repository, and main where the branch left it
    pr,             \* it has an open pull request
    work, fetched,  \* the clone's tree, and main when last fetched
    ahead, raced,   \* the clone, main have a commit that the other lacks
    failures, commands, pushes,
    rejected        \* history: a push of this command was rejected

command == <<place, repo, svc, failed, rejected>>
clone == <<work, fetched, ahead, raced>>
hosted == <<mains, made, iac, iacBase, pr>>
counts == <<failures, commands, pushes>>
bootstrapVars == <<command, clone, hosted, counts>>

BootstrapTypeOK ==
    /\ place \in {"off", "clone", "render", "upload", "update", "identity", "branch", "pr"}
    /\ repo \in Repo /\ svc \in Service \cup {None} /\ {failed, rejected} \subseteq BOOLEAN
    /\ mains \in [Repo -> RepoTree] /\ made \subseteq Repo
    /\ iac \subseteq RepoTree /\ iacBase \subseteq RepoTree /\ (iac = {} <=> iacBase = {})
    /\ pr \in BOOLEAN /\ (pr => iac # {})
    /\ work \in RepoTree /\ fetched \in RepoTree /\ {ahead, raced} \subseteq BOOLEAN
    /\ failures \in 0..MaxFailures /\ commands \in 0..MaxCommands /\ pushes \in 0..MaxPushes

BootstrapInit ==
    /\ place = "off" /\ repo = "wl" /\ svc = None /\ failed = FALSE /\ rejected = FALSE
    /\ mains = [r \in Repo |-> EmptyTree] /\ made = {}
    /\ iac = {} /\ iacBase = {} /\ pr = FALSE
    /\ work = EmptyTree /\ fetched = EmptyTree /\ ahead = FALSE /\ raced = FALSE
    /\ failures = 0 /\ commands = 0 /\ pushes = 0

-----------------------------------------------------------------------------
(* The user, developers, reviewers *)

Begin == place' = "clone" /\ repo' = "wl" /\ failed' = TRUE /\ rejected' = FALSE

Ask(s) ==
    /\ place = "off" /\ commands < MaxCommands /\ commands' = commands + 1
    /\ svc' = s /\ Begin
    /\ UNCHANGED <<clone, hosted, failures, pushes>>

\* The same command, with the same options.
Repeat ==
    /\ place = "off" /\ failed
    /\ Begin
    /\ UNCHANGED <<svc, clone, hosted, counts>>

\* main moves on under the clone that the command has of it.
MovesOn(r) == raced' = (raced \/ (r = repo /\ place \notin {"off", "clone"}))

DevelopersPush(r) ==
    /\ pushes < MaxPushes /\ pushes' = pushes + 1
    /\ mains' = [mains EXCEPT ![r].edited = TRUE] /\ made' = made \cup {r}
    /\ MovesOn(r)
    /\ UNCHANGED <<command, work, fetched, ahead, iac, iacBase, pr, failures, commands>>

\* What the branch changed since it left main, on top of what main is now.
Merged(t, b, m) ==
    [services |-> m.services \cup t.services,
     identity |-> IF t.identity # b.identity THEN t.identity ELSE m.identity,
     edited |-> IF t.edited # b.edited THEN t.edited ELSE m.edited]

\* The branch is deleted (delete_branch_on_merge).
MergeIac ==
    /\ pr /\ pr' = FALSE
    /\ \E t \in iac, b \in iacBase : mains' = [mains EXCEPT !["gitops"] = Merged(t, b, @)]
    /\ iac' = {} /\ iacBase' = {}
    /\ MovesOn("gitops")
    /\ UNCHANGED <<command, work, fetched, ahead, made, counts>>

\* Whoever closes a pull request may or may not delete its branch.
CloseIac ==
    /\ pr /\ pr' = FALSE
    /\ \/ UNCHANGED <<iac, iacBase>>
       \/ iac' = {} /\ iacBase' = {}
    /\ UNCHANGED <<command, clone, mains, made, counts>>

-----------------------------------------------------------------------------
(* The command *)

Fault == failures < MaxFailures /\ failures' = failures + 1

\* clone_template, clone_wl: both folders are made anew.
Clone ==
    /\ place = "clone"
    /\ work' = mains[repo] /\ fetched' = mains[repo] /\ ahead' = FALSE /\ raced' = FALSE
    /\ place' = "render"
    /\ UNCHANGED <<repo, svc, failed, rejected, hosted, counts>>

\* The template's files replace those of the same name; the service's folder is
\* added to those that are there; placeholders are filled in.
Render ==
    /\ place = "render"
    /\ work' = [work EXCEPT !.services = @ \cup {svc}, !.edited = FALSE]
    /\ place' = "upload"
    /\ UNCHANGED <<repo, svc, failed, rejected, fetched, ahead, raced, hosted, counts>>

Rejected == rejected' = TRUE /\ UNCHANGED hosted

PushedToMain ==
    /\ mains' = [mains EXCEPT ![repo] = work] /\ made' = made \cup {repo}
    /\ UNCHANGED <<iac, iacBase, pr, rejected>>

\* The folder is removed and it is the other repository's turn, or the pull
\* request's.
Uploaded ==
    IF repo = "wl" THEN place' = "clone" /\ repo' = "gitops" ELSE place' = "update" /\ UNCHANGED repo

\* Slip: push with force.
UploadByForce ==
    /\ place = "upload"
    /\ PushedToMain /\ ahead' = FALSE
    /\ Uploaded
    /\ UNCHANGED <<svc, failed, work, fetched, raced, counts>>

\* Slip: nothing is added to the commit.
UploadNothing ==
    /\ place = "upload"
    /\ made' = made \cup {repo} /\ ahead' = FALSE
    /\ Uploaded
    /\ UNCHANGED <<svc, failed, rejected, work, fetched, raced, mains, iac, iacBase, pr, counts>>

\* add, commit, push; the result of the push is not looked at.
Upload ==
    /\ place = "upload"
    /\ \/ ~raced /\ PushedToMain /\ ahead' = FALSE /\ UNCHANGED failures
       \/ raced /\ Rejected /\ ahead' = TRUE /\ UNCHANGED failures
       \/ Fault /\ Rejected /\ ahead' = TRUE
    /\ Uploaded
    /\ UNCHANGED <<svc, failed, work, fetched, raced, commands, pushes>>

\* Slip: the clone is reset to what main is.
UpdateResets ==
    /\ place = "update" /\ "gitops" \in made
    /\ work' = mains["gitops"] /\ fetched' = mains["gitops"] /\ ahead' = FALSE /\ raced' = FALSE
    /\ place' = "identity"
    /\ UNCHANGED <<repo, svc, failed, rejected, hosted, counts>>

\* fetch and pull, which is possible unless main is not there or has diverged.
Updatable == "gitops" \in made /\ ~(ahead /\ raced)

Update ==
    /\ place = "update" /\ Updatable
    /\ work' = IF raced THEN mains["gitops"] ELSE work
    /\ fetched' = mains["gitops"] /\ raced' = FALSE
    /\ place' = "identity"
    /\ UNCHANGED <<repo, svc, failed, rejected, ahead, hosted, counts>>

Stop == place' = "off" /\ UNCHANGED <<repo, svc, failed, rejected, clone, hosted>>

UpdateRaises == place = "update" /\ ~Updatable /\ Stop /\ UNCHANGED counts

\* create_branch, from the clone's main; the sample of an identity is copied.
AddIdentity ==
    /\ place = "identity"
    /\ work' = [work EXCEPT !.identity = svc]
    /\ place' = "branch"
    /\ UNCHANGED <<repo, svc, failed, rejected, fetched, ahead, raced, hosted, counts>>

BranchPublished == iac = {} /\ iac' = {work} /\ iacBase' = {fetched}

\* Slip: it is an error that the branch exists.
UploadNewBranch ==
    /\ place = "branch"
    /\ IF iac = {} THEN place' = "pr" /\ BranchPublished
       ELSE place' = "off" /\ UNCHANGED <<iac, iacBase>>
    /\ UNCHANGED <<repo, svc, failed, rejected, clone, mains, made, pr, counts>>

\* As Upload; a branch that is there has another commit and rejects this one.
UploadBranch ==
    /\ place = "branch"
    /\ \/ BranchPublished /\ UNCHANGED <<mains, made, pr, rejected, failures>>
       \/ iac # {} /\ Rejected /\ UNCHANGED failures
       \/ Fault /\ Rejected
    /\ place' = "pr"
    /\ UNCHANGED <<repo, svc, failed, clone, commands, pushes>>

\* The folder is removed; the command reports success.
OpenPullRequest ==
    /\ place = "pr" /\ iac # {} /\ ~pr
    /\ pr' = TRUE
    /\ place' = "off" /\ failed' = FALSE
    /\ UNCHANGED <<repo, svc, rejected, clone, mains, made, iac, iacBase, counts>>

\* No such branch, or it has a pull request.
PullRequestRaises == place = "pr" /\ (iac = {} \/ pr) /\ Stop /\ UNCHANGED counts

\* Killed, or an error of Git or the provider.
Die == place # "off" /\ Fault /\ Stop /\ UNCHANGED <<commands, pushes>>

BootstrapProceeds ==
    \/ Clone \/ Render \/ Upload
    \/ Update \/ UpdateRaises
    \/ AddIdentity \/ UploadBranch
    \/ OpenPullRequest \/ PullRequestRaises

BootstrapNext ==
    \/ BootstrapProceeds \/ Die
    \/ \E s \in Service : Ask(s)
    \/ Repeat
    \/ \E r \in Repo : DevelopersPush(r)
    \/ MergeIac \/ CloseIac

BootstrapSpec == BootstrapInit /\ [][BootstrapNext]_bootstrapVars

\* A user repeats what failed.
BootstrapFairSpec == BootstrapSpec /\ WF_bootstrapVars(BootstrapProceeds) /\ WF_bootstrapVars(Repeat)

-----------------------------------------------------------------------------
\* Nobody is asked to review, and nobody has in main, an identity for a service
\* that the same tree lacks: whatever was rejected, left over or merged.
IdentityHasService ==
    \A t \in iac \cup {mains["gitops"]} : t.identity # None => t.identity \in t.services

\* A push of the command replaces what developers did only if it was in main
\* when the command cloned it; what they push meanwhile it does not overwrite.
RacedWorkKept ==
    [][\A r \in Repo : pr' = pr /\ mains[r].edited /\ ~mains'[r].edited => fetched.edited]_bootstrapVars

\* A command that reports success has filled both repositories and put its
\* service under review, or one of its pushes was rejected.
PublishedUnlessRejected ==
    [][failed /\ ~failed' =>
        \/ rejected
        \/ /\ \A r \in Repo : svc \in mains[r].services
           /\ \A t \in iac : t.identity = svc]_bootstrapVars

\* Repeated, a failed command succeeds or finds its pull request open.
UnderReview == failed ~> (~failed \/ pr)

\* "An exception is raised [...] if the bootstrap process for either the
\* workload or GitOps repository fails": success means both are filled.
ReportedIsPublished ==
    [][failed /\ ~failed' => \A r \in Repo : svc \in mains[r].services]_bootstrapVars
=============================================================================
