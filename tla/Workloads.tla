----------------------------- MODULE Workloads -----------------------------
(***************************************************************************)
(* `cgdevxcli workload create` and `workload delete`: each edits the clone *)
(* of the GitOps repository on the user's machine in a branch of its own,  *)
(* pushes it and opens a pull request, which somebody merges or closes. A  *)
(* command that stops leaves its branch checked out, where the next begins.*)
(*                                                                         *)
(* A workload's five files are one entry; its value is the command that    *)
(* wrote it, 0 where there is none.                                        *)
(***************************************************************************)
EXTENDS Naturals, FiniteSets

CONSTANTS
    Workload,
    Main, None,     \* names of the branch main and of no branch, no workload
    NamesPerDelete, \* how many names one delete may have
    OneByOne,       \* "no other ongoing changes (active PRs)": users heed it
    BranchesStay,   \* closing a pull request leaves its branch on the remote
    MaxCommands,    \* bound: commands, repetitions not counted
    MaxFaults,      \* bound: stops, failing calls, names mistyped
    MaxLaunches     \* bound: launches of setup among them

ASSUME ConstantsAssumption ==
    /\ IsFiniteSet(Workload) /\ {OneByOne, BranchesStay} \subseteq BOOLEAN
    /\ {NamesPerDelete, MaxCommands, MaxFaults, MaxLaunches} \subseteq Nat

Entries == [Workload -> 0..MaxCommands]
NoEntries == [w \in Workload |-> 0]
Listed(e) == {w \in Workload : e[w] # 0}

\* "<prefix><workload>-init" for create, a timestamp, so a name of its own, for
\* delete. A delete starts only while one of these names is free.
Branch == Workload \cup 1..(MaxCommands + MaxFaults)
ASSUME NamesAssumption == Main \notin Branch

\* The tip of a branch, and main where it left it. A branch that is not on top
\* of the remote branch of the same name has diverged.
Tip == [has : Entries, base : Entries]
Head == [has : Entries, base : Entries, diverged : BOOLEAN]

Command == [kind : {"create", "delete", "all"}, names : SUBSET Workload, destroy : BOOLEAN,
            id : 0..MaxCommands]

VARIABLES
    at, cmd,        \* the place in the command, and the last command
    branch,         \* its branch
    name, todo,     \* the name it deals with, those that follow
    wlRepo,         \* wl_gitops_repo_name, as the workload it belongs to
    failed,         \* it did not come to its end
    main,           \* branch main of the GitOps repository
    remote, prs,    \* its other branches, those with an open pull request
    cloned,         \* the local folder is a clone, not setup's rendered tree
    heads, active,  \* local branches and the one checked out
    tree,           \* the working tree
    resources,      \* workloads whose own Terraform made resources
    faults, launches,
    failedNames     \* history: what commands that failed were about

command == <<at, cmd, branch, name, todo, wlRepo, failed, failedNames>>
hosted == <<main, remote, prs>>
local == <<cloned, heads, active, tree>>
env == <<faults, launches>>
vars == <<command, hosted, local, resources, env>>

Places == {"off", "update", "branch", "destroy", "edit", "commit", "push", "pr", "switch", "tidy"}

TypeOK ==
    /\ at \in Places /\ cmd \in Command
    /\ branch \in Branch \cup {None} /\ name \in Workload \cup {None} /\ todo \subseteq Workload
    /\ wlRepo \in Workload \cup {None} /\ failed \in BOOLEAN /\ failedNames \subseteq Workload
    /\ main \in Entries
    /\ DOMAIN remote \subseteq Branch /\ \A b \in DOMAIN remote : remote[b] \in Tip
    /\ prs \subseteq DOMAIN remote
    /\ cloned \in BOOLEAN /\ active \in DOMAIN heads /\ tree \in Entries
    /\ DOMAIN heads \subseteq Branch \cup {Main}
    /\ \A b \in DOMAIN heads : heads[b] \in Head
    /\ resources \subseteq Workload
    /\ faults \in 0..MaxFaults /\ launches \in 0..MaxLaunches

MainHead == [has |-> main, base |-> main, diverged |-> FALSE]
With(f, b, v) == [x \in DOMAIN f \cup {b} |-> IF x = b THEN v ELSE f[x]]
Without(f, b) == [x \in DOMAIN f \ {b} |-> f[x]]

Init ==
    /\ at = "off" /\ branch = None /\ name = None /\ todo = {} /\ wlRepo = None /\ failed = FALSE
    /\ cmd = [kind |-> "create", names |-> {}, destroy |-> FALSE, id |-> 0]
    /\ main = NoEntries /\ remote = <<>> /\ prs = {}
    /\ cloned = FALSE /\ heads = [b \in {Main} |-> MainHead] /\ active = Main /\ tree = NoEntries
    /\ resources = {}
    /\ faults = 0 /\ launches = 0 /\ failedNames = {}

-----------------------------------------------------------------------------
(* The user and the reviewer *)

\* One command. Nothing checks the names a delete has: one that is not in main
\* is a slip of the user.
Mistyped(kind, names) == kind = "delete" /\ ~(names \subseteq Listed(main))

Ask(kind, names, destroy) ==
    /\ at = "off" /\ cmd.id < MaxCommands
    /\ OneByOne => prs = {}
    /\ kind = "create" => Cardinality(names) = 1 /\ ~destroy
    /\ kind = "delete" => Cardinality(names) \in 1..NamesPerDelete
    /\ kind = "all" => names = {} /\ Cardinality(Listed(main)) \in 1..NamesPerDelete
    /\ cmd' = [kind |-> kind, names |-> names, destroy |-> destroy, id |-> cmd.id + 1]
    /\ IF Mistyped(kind, names) THEN faults < MaxFaults /\ faults' = faults + 1
       ELSE UNCHANGED faults
    /\ at' = "update" /\ failed' = TRUE /\ wlRepo' = None
    /\ UNCHANGED <<branch, name, todo, failedNames, hosted, local, resources, launches>>

\* The same command, with the same options.
Repeat ==
    /\ at = "off" /\ failed
    /\ at' = "update" /\ wlRepo' = None
    /\ UNCHANGED <<cmd, branch, name, todo, failed, failedNames, hosted, local, resources, env>>

\* What the branch changed since it left main, on top of what main is now.
Merged(b) == [w \in Workload |->
    IF remote[b].has[w] # remote[b].base[w] THEN remote[b].has[w] ELSE main[w]]

\* Applied by Atlantis, merged, and the branch deleted (delete_branch_on_merge).
Merge(b) ==
    /\ main' = Merged(b)
    /\ prs' = prs \ {b} /\ remote' = Without(remote, b)
    /\ UNCHANGED <<command, local, resources, env>>

Close(b) ==
    /\ prs' = prs \ {b}
    /\ remote' = IF BranchesStay THEN remote ELSE Without(remote, b)
    /\ UNCHANGED <<main, command, local, resources, env>>

\* The workload's own repositories are bootstrapped, from this machine too, and
\* applied.
Provision(w) ==
    /\ at = "off" /\ main[w] # 0 /\ resources' = resources \cup {w}
    /\ resources' # resources
    /\ UNCHANGED <<command, hosted, local, env>>

\* setup, started again: it replaces the local folder by a rendered template
\* and makes main equal to it ("authoritative").
LaunchSetup ==
    /\ at = "off" /\ launches < MaxLaunches /\ launches' = launches + 1
    /\ main' = NoEntries
    /\ cloned' = FALSE /\ heads' = [b \in {Main} |-> MainHead'] /\ active' = Main /\ tree' = NoEntries
    /\ UNCHANGED <<command, remote, prs, resources, faults>>

-----------------------------------------------------------------------------
(* A command *)

Fail ==
    /\ at' = "off" /\ branch' = None /\ name' = None /\ todo' = {} /\ wlRepo' = None
    /\ failedNames' = failedNames \cup cmd.names
    /\ UNCHANGED <<cmd, failed, hosted, local, env>>

\* fetch and pull of whatever is checked out; a fresh clone if there is none.
Updatable == ~cloned \/ active = Main \/ (active \in DOMAIN remote /\ ~heads[active].diverged)

\* --all is what the tree lists after that; nothing to delete is an error.
Update ==
    /\ at = "update" /\ Updatable
    /\ cloned' = TRUE
    /\ IF cloned /\ active # Main THEN UNCHANGED <<heads, active, tree>>
       ELSE /\ heads' = [b \in DOMAIN heads |-> IF b = Main THEN MainHead ELSE heads[b]]
            /\ tree' = main /\ UNCHANGED active
    /\ cmd' = [cmd EXCEPT !.names = IF cmd.kind = "all" THEN Listed(tree') ELSE @]
    /\ at' = "branch" /\ todo' = cmd'.names
    /\ UNCHANGED <<branch, name, wlRepo, failed, failedNames, hosted, resources, env>>

\* "couldn't find remote ref", or the branches have diverged.
UpdateRefused == at = "update" /\ ~Updatable
UpdateRaises == UpdateRefused /\ Fail /\ UNCHANGED resources

\* The loop over the names, then the pull request.
NextName ==
    IF todo = {} THEN at' = "pr" /\ name' = None /\ UNCHANGED todo
    ELSE /\ name' \in todo /\ todo' = todo \ {name'}
         /\ at' = IF cmd.destroy THEN "destroy" ELSE "edit"

Taken == DOMAIN heads \cup DOMAIN remote

NameOfBranch(b) ==
    IF cmd.kind = "create" THEN b \in cmd.names
    ELSE /\ b \notin Workload \cup Taken
         /\ b = CHOOSE n \in Branch : n \notin Workload \cup Taken

\* create_head from HEAD; a head that is there is accepted at the same commit,
\* for which its contents stand.
SameCommit(b) == heads[b].has = heads[active].has /\ heads[b].base = heads[active].base

WithHead(b) ==
    IF b \in DOMAIN heads THEN heads
    ELSE With(heads, b, [heads[active] EXCEPT !.diverged = b \in DOMAIN remote])

CreateBranch(b) ==
    /\ at = "branch" /\ todo # {}
    /\ NameOfBranch(b) /\ (b \in DOMAIN heads => SameCommit(b))
    /\ heads' = WithHead(b)
    /\ active' = b /\ branch' = b
    /\ NextName
    /\ UNCHANGED <<cmd, wlRepo, failed, failedNames, hosted, cloned, tree, resources, env>>

\* GitBranchAlreadyExists; no workloads to delete.
BranchRefused ==
    /\ at = "branch"
    /\ todo = {} \/ (cmd.kind = "create" /\ cmd.names \cap (DOMAIN heads \ {active}) # {})
BranchRaises == BranchRefused /\ Fail /\ UNCHANGED resources

\* Slip: terraform's return code is not looked at.
DestroyGoesOn ==
    /\ at = "destroy"
    /\ wlRepo' = IF wlRepo = None THEN name ELSE wlRepo
    /\ main[wlRepo'] # 0
    /\ resources' \in {resources, resources \ {wlRepo'}}
    /\ at' = "edit"
    /\ UNCHANGED <<cmd, branch, name, todo, failed, failedNames, hosted, local, env>>

\* Slip: the temporary folder holds the clone of some workload.
DestroyWhatIsThere ==
    /\ at = "destroy"
    /\ wlRepo' = IF wlRepo = None THEN name ELSE wlRepo
    /\ main[wlRepo'] # 0
    /\ \E w \in Listed(main) : resources' = resources \ {w}
    /\ at' = "edit"
    /\ UNCHANGED <<cmd, branch, name, todo, failed, failedNames, hosted, local, env>>

\* clone_wl and terraform destroy, through the repository of the first name:
\* the loop assigns wl_gitops_repo_name, a parameter, once for all.
Destroy ==
    /\ at = "destroy"
    /\ wlRepo' = IF wlRepo = None THEN name ELSE wlRepo
    /\ main[wlRepo'] # 0
    /\ resources' = resources \ {wlRepo'}
    /\ at' = "edit"
    /\ UNCHANGED <<cmd, branch, name, todo, failed, failedNames, hosted, local, env>>

\* A workload that is not in main has no repository to clone.
DestroyRefused == at = "destroy" /\ main[IF wlRepo = None THEN name ELSE wlRepo] = 0
DestroyRaises == DestroyRefused /\ Fail /\ UNCHANGED resources

\* add_workload, rm_workload
Edit ==
    /\ at = "edit"
    /\ tree' = [tree EXCEPT ![name] = IF cmd.kind = "create" THEN cmd.id ELSE 0]
    /\ at' = "commit"
    /\ UNCHANGED <<cmd, branch, name, todo, wlRepo, failed, failedNames, hosted, cloned, heads,
                   active, resources, env>>

\* Slip: the commit of the branch is that of its start.
CommitNothing ==
    /\ at = "commit"
    /\ at' = "push"
    /\ UNCHANGED <<cmd, branch, name, todo, wlRepo, failed, failedNames, hosted, local,
                   resources, env>>

\* Everything in the working tree, whoever left it there.
Commit ==
    /\ at = "commit"
    /\ heads' = [heads EXCEPT ![active].has = tree]
    /\ at' = "push"
    /\ UNCHANGED <<cmd, branch, name, todo, wlRepo, failed, failedNames, hosted, cloned, active,
                   tree, resources, env>>

Pushed == remote' = With(remote, active, [has |-> heads[active].has, base |-> heads[active].base])

\* A push that is rejected says so in its result, which nobody looks at.
Push ==
    /\ at = "push"
    /\ \/ ~heads[active].diverged /\ Pushed /\ UNCHANGED faults
       \/ heads[active].diverged /\ UNCHANGED <<remote, faults>>
       \/ faults < MaxFaults /\ faults' = faults + 1 /\ UNCHANGED remote
    /\ NextName
    /\ UNCHANGED <<cmd, branch, wlRepo, failed, failedNames, main, prs, local, resources, launches>>

OpenPullRequest ==
    /\ at = "pr"
    /\ branch \in DOMAIN remote \ prs
    /\ prs' = prs \cup {branch}
    /\ at' = "switch"
    /\ UNCHANGED <<cmd, branch, name, todo, wlRepo, failed, failedNames, main, remote, local,
                   resources, env>>

\* No such branch, or it has a pull request: PullRequestCreationError.
PullRequestRefused == at = "pr" /\ branch \notin DOMAIN remote \ prs
PullRequestRaises == PullRequestRefused /\ Fail /\ UNCHANGED resources

\* Slip: the next command starts where this one ended.
StayOnBranch ==
    /\ at = "switch"
    /\ at' = "off" /\ branch' = None /\ wlRepo' = None /\ failed' = FALSE
    /\ UNCHANGED <<cmd, name, todo, failedNames, hosted, local, resources, env>>

SwitchToMain ==
    /\ at = "switch"
    /\ active' = Main /\ tree' = heads[Main].has
    /\ at' = "tidy"
    /\ UNCHANGED <<cmd, branch, name, todo, wlRepo, failed, failedNames, hosted, cloned, heads,
                   resources, env>>

DeleteBranch ==
    /\ at = "tidy"
    /\ heads' = Without(heads, branch)
    /\ at' = "off" /\ branch' = None /\ wlRepo' = None /\ failed' = FALSE
    /\ UNCHANGED <<cmd, name, todo, failedNames, hosted, cloned, active, tree, resources, env>>

\* Killed, not confirmed, or an error of Git, Terraform or the provider.
Die ==
    /\ at # "off"
    /\ faults < MaxFaults /\ faults' = faults + 1
    /\ at' = "off" /\ branch' = None /\ name' = None /\ todo' = {} /\ wlRepo' = None
    /\ failedNames' = failedNames \cup cmd.names
    /\ UNCHANGED <<cmd, failed, hosted, local, resources, launches>>

\* The same between create_head and checkout.
StopBeforeCheckout(b) ==
    /\ at = "branch" /\ todo # {}
    /\ NameOfBranch(b) /\ b \notin DOMAIN heads
    /\ faults < MaxFaults /\ faults' = faults + 1
    /\ heads' = WithHead(b)
    /\ at' = "off" /\ branch' = None /\ name' = None /\ todo' = {} /\ wlRepo' = None
    /\ failedNames' = failedNames \cup cmd.names
    /\ UNCHANGED <<cmd, failed, hosted, cloned, active, tree, resources, launches>>

Raise == UpdateRaises \/ BranchRaises \/ DestroyRaises \/ PullRequestRaises

Proceed ==
    \/ Update
    \/ \E b \in Branch : CreateBranch(b)
    \/ Destroy \/ Edit \/ Commit \/ Push
    \/ OpenPullRequest
    \/ SwitchToMain \/ DeleteBranch
    \/ Raise

Users ==
    \/ \E kind \in {"create", "delete", "all"}, names \in SUBSET Workload, d \in BOOLEAN :
         Ask(kind, names, d)
    \/ Repeat
    \/ \E w \in Workload : Provision(w)
    \/ LaunchSetup

Review == \E b \in prs : Merge(b) \/ Close(b)

Next == Proceed \/ Users \/ Review \/ Die \/ \E b \in Branch : StopBeforeCheckout(b)

Spec == Init /\ [][Next]_vars

\* A user repeats what failed until it does not.
FairSpec == Spec /\ WF_vars(Proceed) /\ WF_vars(Repeat)

-----------------------------------------------------------------------------
Changes(b) == {w \in Workload : remote[b].has[w] # remote[b].base[w]}

\* A pull request changes entries of its own workloads only.
OnlyNamed == [][at = "pr" /\ at' = "switch" => Changes(branch) \subseteq cmd.names]_vars

\* Besides these it can only hold what an earlier, failed command was about.
OnlyNamedOrFailed ==
    [][at = "pr" /\ at' = "switch" => Changes(branch) \subseteq cmd.names \cup failedNames]_vars

\* The branch under review is what the command committed, so a command that
\* succeeds has put all it was asked for before the reviewer.
ReviewsTheCommit ==
    [][at = "pr" /\ at' = "switch" =>
        /\ remote[branch].has = heads[branch].has
        /\ \A w \in cmd.names :
             remote[branch].has[w] = IF cmd.kind = "create" THEN cmd.id ELSE 0]_vars

\* delete --destroy-resources of one workload that comes to its end has left
\* nothing of its own resources (they may be made again while its entry is in
\* main), whatever stopped before and whatever is under review meanwhile.
OneDestroyedAsAsked ==
    [][at = "commit" /\ cmd.destroy /\ cmd.names = {name} /\ at' = "push" =>
        name \notin resources]_vars

\* The same of every workload, where several are named.
DestroyedAsAsked ==
    [][at = "commit" /\ cmd.destroy /\ at' = "push" /\ todo = {} =>
        resources \cap cmd.names = {}]_vars

\* Resources vanish for a workload the running command deletes, for no other.
DestroysOnlyNamed ==
    [][\A w \in resources \ resources' : cmd.destroy /\ w \in cmd.names]_vars

\* Without faults and with users who wait for open pull requests no command
\* raises, and every one leaves main checked out and no branch behind.
CleanWithoutFaults ==
    faults = 0 =>
        /\ ~(UpdateRefused \/ BranchRefused \/ DestroyRefused \/ PullRequestRefused)
        /\ at = "off" => active = Main /\ DOMAIN heads = {Main}

\* A command that failed succeeds if it is repeated often enough.
Served == failed ~> ~failed

\* The entries in main change by review only.
ChangedByReview == [][main' # main => \E b \in prs \ prs' : main' = Merged(b)]_vars
=============================================================================
