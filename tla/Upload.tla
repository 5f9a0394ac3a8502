------------------------------- MODULE Upload -------------------------------
(***************************************************************************)
(* GitOpsTemplateManager.upload: how every launch of setup brings the tree *)
(* it rendered into branch main of the GitOps repository, where others     *)
(* merge too. It clones main, makes the clone equal to the rendered tree   *)
(* and pushes; where a protected main refuses that, it pushes a branch of  *)
(* its own, opens a pull request and tries to merge it, or raises until    *)
(* somebody has.                                                           *)
(*                                                                         *)
(* A tree gives each file a version, 0 where there is none.                *)
(***************************************************************************)
EXTENDS Naturals

CONSTANTS
    TemplateFile,   \* files that come from the platform template
    OtherFile,      \* files that only workload commands and people add
    MaxVersion,     \* bound: versions of a template file
    MaxEdits,       \* bound: changes that others merge
    MaxFaults,      \* bound: calls that fail, launches that stop
    MaxCloses       \* bound: pull requests closed without a merge

ASSUME ConstantsAssumption ==
    /\ TemplateFile \cap OtherFile = {}
    /\ {MaxVersion, MaxEdits, MaxFaults, MaxCloses} \subseteq Nat /\ MaxVersion > 0

File == TemplateFile \cup OtherFile
Tree == [File -> 0..(MaxVersion + MaxEdits)]

\* A branch that the command pushed: what it was cloned from, what it holds.
Change == [base : Tree, head : Tree]

\* How main answers a push. GitHub's classic rule says "protected branch", its
\* rulesets and GitLab use words the code does not look for. A rule may ask for
\* a pull request only, or for a review of it too.
Rule == {"none", "request", "review", "otherwise worded"}

VARIABLES
    rule, canRequest,   \* main's rule; the provider is GitHub and there is a token
    template,           \* what the template renders to
    main,               \* the remote branch
    branches, requests, \* pushed branches, those with an open pull request
    at,                 \* the place in upload
    rendered,           \* the local tree
    base,               \* what .push_tmp was cloned from
    outcome,            \* of the last launch, as far as upload goes
    edits, faults, closes

remote == <<main, branches, requests>>
local == <<at, rendered, base, outcome>>
bounds == <<edits, faults, closes>>
vars == <<rule, canRequest, template, remote, local, bounds>>

Places == {"off", "clone", "push", "branch", "request", "merge"}

TypeOK ==
    /\ rule \in Rule /\ canRequest \in BOOLEAN
    /\ {template, main, rendered, base} \subseteq Tree
    /\ branches \subseteq Change /\ requests \subseteq Change
    /\ at \in Places /\ outcome \in {"none", "published", "raised"}
    /\ edits \in 0..MaxEdits /\ faults \in 0..MaxFaults /\ closes \in 0..MaxCloses

FirstTemplate == [f \in File |-> IF f \in TemplateFile THEN 1 ELSE 0]

\* vcs-tf has made the repository: main is there and empty.
Init ==
    /\ rule \in Rule /\ canRequest \in BOOLEAN
    /\ template = FirstTemplate
    /\ main = [f \in File |-> 0]
    /\ branches = {} /\ requests = {}
    /\ at = "off" /\ rendered = main /\ base = main /\ outcome = "none"
    /\ edits = 0 /\ faults = 0 /\ closes = 0

-----------------------------------------------------------------------------
(* Others *)

\* The template repository gets a new version of a file.
TemplateAdvances(f) ==
    /\ f \in TemplateFile /\ template[f] < MaxVersion
    /\ template' = [template EXCEPT ![f] = @ + 1]
    /\ UNCHANGED <<rule, canRequest, remote, local, bounds>>

\* Somebody merges a change of their own.
Develop(f) ==
    /\ f \in OtherFile /\ edits < MaxEdits
    /\ edits' = edits + 1
    /\ main' = [main EXCEPT ![f] = edits']
    /\ UNCHANGED <<rule, canRequest, template, branches, requests, local, faults, closes>>

\* A merge of three trees, file by file; one that is changed on both sides in
\* different ways is a conflict.
Clean(c) == \A f \in File : c.head[f] = c.base[f] \/ main[f] \in {c.base[f], c.head[f]}
MergeOf(c) == [f \in File |-> IF c.head[f] = c.base[f] THEN main[f] ELSE c.head[f]]

\* Branches of the same content count as one. A branch goes with its request,
\* unless the launch has just pushed another like it.
Gone(c) == IF at = "request" /\ c = [base |-> base, head |-> rendered] THEN {} ELSE {c}

Merge(c) ==
    /\ c \in requests /\ Clean(c)
    /\ main' = MergeOf(c)
    /\ requests' = requests \ {c} /\ branches' = branches \ Gone(c)
    /\ UNCHANGED <<rule, canRequest, template, local, bounds>>

Close(c) ==
    /\ c \in requests /\ closes < MaxCloses
    /\ requests' = requests \ {c}
    /\ closes' = closes + 1
    /\ UNCHANGED <<rule, canRequest, template, main, branches, local, edits, faults>>

\* "Create a PR to merge into main."
RequestByHand(c) ==
    /\ c \in branches \ requests
    /\ requests' = requests \cup {c}
    /\ UNCHANGED <<rule, canRequest, template, main, branches, local, bounds>>

Others ==
    \/ \E f \in File : TemplateAdvances(f) \/ Develop(f)
    \/ \E c \in branches \cup requests : Merge(c) \/ Close(c) \/ RequestByHand(c)

-----------------------------------------------------------------------------
(* The launch *)

\* The local folder is removed and rendered anew, on every launch.
Launch ==
    /\ at = "off"
    /\ rendered' = template /\ outcome' = "none" /\ at' = "clone"
    /\ UNCHANGED <<rule, canRequest, template, remote, base, bounds>>

\* Slip: a leftover .push_tmp is used again.
CloneOnce ==
    /\ at = "clone"
    /\ base' = IF base = [f \in File |-> 0] THEN main ELSE base
    /\ at' = "push"
    /\ UNCHANGED <<rule, canRequest, template, remote, rendered, outcome, bounds>>

\* .push_tmp is removed first, whatever an earlier launch left there; then its
\* files are replaced, and committed if that made a difference.
CloneMain ==
    /\ at = "clone"
    /\ base' = main /\ at' = "push"
    /\ UNCHANGED <<rule, canRequest, template, remote, rendered, outcome, bounds>>

Ended(as) == at' = "off" /\ outcome' = as /\ UNCHANGED <<rendered, base>>
Raise == Ended("raised") /\ UNCHANGED <<rule, canRequest, template, remote, bounds>>

\* Slip: push --force.
OnTopForced == TRUE

\* A push without a commit is up to date and no rule is asked; one that is not
\* on top of main is refused before any rule is.
OnTop == main = base
Refused == rule # "none" /\ rendered # base

Pushed == OnTop /\ ~Refused /\ main' = rendered /\ UNCHANGED <<branches, requests>>

PushMain ==
    /\ at = "push" /\ Pushed
    /\ Ended("published")
    /\ UNCHANGED <<rule, canRequest, template, bounds>>

\* "fetch first", or a rule in other words: not a protection issue.
PushFails ==
    /\ at = "push" /\ (~OnTop \/ (Refused /\ rule = "otherwise worded"))
    /\ Raise

MainProtected ==
    /\ at = "push" /\ OnTop /\ Refused /\ rule # "otherwise worded"
    /\ at' = "branch"
    /\ UNCHANGED <<rule, canRequest, template, remote, rendered, base, outcome, bounds>>

Generated == [base |-> base, head |-> rendered]

\* "cgdevx/generated/<timestamp>": a new branch every time.
PushBranch ==
    /\ at = "branch"
    /\ branches' = branches \cup {Generated}
    /\ at' = "request"
    /\ UNCHANGED <<rule, canRequest, template, main, requests, rendered, base, outcome, bounds>>

OpenRequest ==
    /\ at = "request" /\ canRequest
    /\ requests' = requests \cup {Generated}
    /\ at' = "merge"
    /\ UNCHANGED <<rule, canRequest, template, main, branches, rendered, base, outcome, bounds>>

\* Not GitHub, or no token.
RequestFails ==
    /\ at = "request" /\ ~canRequest
    /\ Raise

\* The request can be squashed into main at once.
Mergeable == rule = "request" /\ Generated \in requests /\ Clean(Generated)

Squashed ==
    /\ Mergeable
    /\ main' = MergeOf(Generated)
    /\ requests' = requests \ {Generated} /\ branches' = branches \ {Generated}

AutoMerge ==
    /\ at = "merge" /\ Squashed
    /\ Ended("published")
    /\ UNCHANGED <<rule, canRequest, template, bounds>>

\* Slip: the answer to the merge is not looked at.
MergeUnseen ==
    /\ at = "merge" /\ ~Mergeable
    /\ Ended("published")
    /\ UNCHANGED <<rule, canRequest, template, remote, bounds>>

\* "could not be auto-merged": a review, a conflict, somebody was faster.
MergeFails ==
    /\ at = "merge" /\ ~Mergeable
    /\ Raise

\* A call fails (a request that GitHub does not accept, 422, is one that no open
\* request explains), or only its answer is lost; or the process stops.
Fail ==
    /\ at # "off" /\ faults < MaxFaults
    /\ faults' = faults + 1
    /\ Ended("raised")
    /\ UNCHANGED remote \/ (at = "push" /\ Pushed) \/ (at = "merge" /\ Squashed)
    /\ UNCHANGED <<rule, canRequest, template, edits, closes>>

Proceed ==
    \/ CloneMain \/ PushMain \/ PushFails \/ MainProtected
    \/ PushBranch \/ OpenRequest \/ RequestFails \/ AutoMerge \/ MergeFails

Next == Others \/ Launch \/ Proceed \/ Fail

Spec == Init /\ [][Next]_vars

\* The process goes on, and a launch that raised is repeated. The messages ask
\* for a request and its merge; whoever is asked time and again does it once.
FairSpec ==
    /\ Spec
    /\ WF_vars(Proceed) /\ WF_vars(outcome = "raised" /\ Launch)
    /\ WF_vars(\E c \in branches : RequestByHand(c))
    /\ SF_vars(\E c \in requests : Merge(c))

-----------------------------------------------------------------------------
(* Properties *)

\* What somebody merged after the launch had looked at main survives the launch,
\* pushed or squashed: it changes only files that are still as it cloned them.
OthersKept == [][at' # at => \A f \in File : main'[f] # main[f] => main[f] = base[f]]_vars

\* upload returns only when main has the rendered tree: every file as rendered,
\* or, where the launch had nothing to change, as somebody else has left it.
SuccessPublishes == [][(at # at' /\ outcome' = "published") =>
    \A f \in File : main'[f] = rendered[f] \/ (rendered[f] = base[f] /\ main'[f] = main[f])]_vars

\* As long as main's rule is one the code knows, repeated launches get past
\* upload, through calls that fail, requests that are closed or merged out of
\* order, and new versions of the template.
Published == (at # "off" /\ rule # "otherwise worded") ~> outcome = "published"

\* "Template changes must always propagate", under every rule.
AlwaysPublished == at # "off" ~> outcome = "published"

=============================================================================
