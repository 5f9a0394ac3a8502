---------------------------- MODULE UploadProofs ----------------------------
(***************************************************************************)
(* upload against any number of files, versions, reviewers and failures,   *)
(* and workload bootstrap (module Bootstrap), which upload's proofs are    *)
(* followed by: both push to a main to which others push too.              *)
(***************************************************************************)
EXTENDS Upload, Bootstrap, TLAPS

LEMMA Trees ==
    /\ FirstTemplate \in Tree /\ [f \in File |-> 0] \in Tree
    /\ \A t \in Tree : \A f \in File : \A v \in 0..(MaxVersion + MaxEdits) : [t EXCEPT ![f] = v] \in Tree
  <1>. USE ConstantsAssumption DEF Tree
  <1>1. 0 \in 0..(MaxVersion + MaxEdits) /\ 1 \in 0..(MaxVersion + MaxEdits)
    OBVIOUS
  <1>2. FirstTemplate \in Tree
    BY <1>1 DEF FirstTemplate
  <1> QED
    BY <1>1, <1>2

LEMMA MergeIsTree ==
    ASSUME TypeOK, NEW c \in Change
    PROVE  MergeOf(c) \in Tree
  BY DEF TypeOK, Change, Tree, MergeOf

\* A launch that goes on has not ended with a result.
IInv == TypeOK /\ (at # "off" => outcome = "none")

LEMMA InitIInv == Init => IInv
  <1> SUFFICES ASSUME Init PROVE IInv
    OBVIOUS
  <1>1. {template, main, rendered, base} \subseteq Tree
    BY Trees DEF Init
  <1> QED
    BY <1>1, ConstantsAssumption DEF Init, IInv, TypeOK, Places

LEMMA StepIInv == IInv /\ [Next]_vars => IInv'
  <1> SUFFICES ASSUME IInv, [Next]_vars PROVE IInv'
    OBVIOUS
  <1>. USE ConstantsAssumption DEF IInv, TypeOK, Places
  <1>g. Generated \in Change /\ MergeOf(Generated) \in Tree
    <2>1. Generated \in Change
      BY DEF Generated, Change
    <2> QED
      BY <2>1, MergeIsTree
  <1>1. ASSUME NEW f \in File, TemplateAdvances(f) PROVE IInv'
    <2>1. template[f] + 1 \in 0..(MaxVersion + MaxEdits)
      BY <1>1 DEF TemplateAdvances, Tree
    <2>2. template' \in Tree
      BY <1>1, <2>1 DEF TemplateAdvances, Tree
    <2> QED
      BY <1>1, <2>2 DEF TemplateAdvances, remote, local, bounds
  <1>2. ASSUME NEW f \in File, Develop(f) PROVE IInv'
    <2>1. edits' \in 0..MaxEdits /\ edits' \in 0..(MaxVersion + MaxEdits)
      BY <1>2 DEF Develop
    <2>2. main' \in Tree
      BY <1>2, <2>1 DEF Develop, Tree
    <2> QED
      BY <1>2, <2>1, <2>2 DEF Develop, local
  <1>3. ASSUME NEW c \in branches \cup requests, Merge(c) PROVE IInv'
    BY <1>3, MergeIsTree DEF Merge, Gone, local, bounds
  <1>4. ASSUME NEW c \in branches \cup requests, Close(c) PROVE IInv'
    BY <1>4 DEF Close, local
  <1>5. ASSUME NEW c \in branches \cup requests, RequestByHand(c) PROVE IInv'
    BY <1>5 DEF RequestByHand, local, bounds
  <1>6. CASE Launch
    BY <1>6 DEF Launch, remote, bounds
  <1>7. CASE CloneMain
    BY <1>7 DEF CloneMain, remote, bounds
  <1>8. CASE PushMain
    BY <1>8 DEF PushMain, Pushed, Ended, bounds
  <1>9. CASE PushFails
    BY <1>9 DEF PushFails, Raise, Ended, remote, bounds
  <1>10. CASE MainProtected
    BY <1>10 DEF MainProtected, remote, bounds
  <1>11. CASE PushBranch
    <2>1. branches' \subseteq Change
      BY <1>11, <1>g DEF PushBranch
    <2> QED
      BY <1>11, <2>1 DEF PushBranch, bounds
  <1>12. CASE OpenRequest
    <2>1. requests' \subseteq Change
      BY <1>12, <1>g DEF OpenRequest
    <2> QED
      BY <1>12, <2>1 DEF OpenRequest, bounds
  <1>13. CASE RequestFails
    BY <1>13 DEF RequestFails, Raise, Ended, remote, bounds
  <1>14. CASE AutoMerge
    <2>1. main' \in Tree
      BY <1>14, <1>g DEF AutoMerge, Squashed
    <2>2. branches' \subseteq Change /\ requests' \subseteq Change
      BY <1>14 DEF AutoMerge, Squashed
    <2> QED
      BY <1>14, <2>1, <2>2 DEF AutoMerge, Ended, bounds
  <1>15. CASE MergeFails
    BY <1>15 DEF MergeFails, Raise, Ended, remote, bounds
  <1>16. CASE Fail
    BY <1>16, <1>g DEF Fail, Pushed, Squashed, Ended, remote
  <1>17. CASE UNCHANGED vars
    BY <1>17 DEF vars, remote, local, bounds
  <1> QED
    BY <1>1, <1>2, <1>3, <1>4, <1>5, <1>6, <1>7, <1>8, <1>9, <1>10, <1>11, <1>12, <1>13,
       <1>14, <1>15, <1>16, <1>17 DEF Next, Others, Proceed

\* In every reachable state.
THEOREM Inductive == Spec => []IInv
  BY InitIInv, StepIInv, PTL DEF Spec

\* Every variable keeps to its type.
THEOREM TypeCorrect == Spec => []TypeOK
  BY Inductive, PTL DEF IInv

\* What one step of the launch may do to main.
LEMMA LaunchStep ==
    ASSUME IInv, [Next]_vars, at' # at
    PROVE  \/ main' = main /\ outcome' # "published"
           \/ main = base /\ main' = rendered
           \/ Squashed
  <1>1. ASSUME Others PROVE FALSE
    BY <1>1 DEF Others, TemplateAdvances, Develop, Merge, Close, RequestByHand, local
  <1>2. CASE Launch
    BY <1>2 DEF Launch, remote
  <1>3. CASE Proceed
    BY <1>3 DEF IInv, Proceed, CloneMain, PushMain, Pushed, OnTop, PushFails, MainProtected, PushBranch,
                OpenRequest, RequestFails, AutoMerge, MergeFails, Raise, Ended, remote
  <1>4. CASE Fail
    BY <1>4 DEF Fail, Ended, Pushed, OnTop, remote
  <1> QED
    BY <1>1, <1>2, <1>3, <1>4 DEF Next, vars, local

\* A launch never overwrites what others merged since it cloned main.
THEOREM OthersKeptAlways == Spec => OthersKept
  <1>1. ASSUME IInv, [Next]_vars, at' # at, NEW f \in File, main'[f] # main[f]
        PROVE  main[f] = base[f]
    <2>1. CASE Squashed
      BY <1>1, <2>1 DEF Squashed, Mergeable, Clean, MergeOf, Generated
    <2> QED
      BY <1>1, <2>1, LaunchStep
  <1>2. IInv /\ [Next]_vars => [at' # at => \A f \in File : main'[f] # main[f] => main[f] = base[f]]_vars
    BY <1>1
  <1> QED
    BY <1>2, Inductive, PTL DEF Spec, OthersKept

\* upload succeeds only with the rendered tree in main.
THEOREM SuccessPublishesAlways == Spec => SuccessPublishes
  <1>1. ASSUME IInv, [Next]_vars, at' # at, outcome' = "published", NEW f \in File
        PROVE  main'[f] = rendered[f] \/ (rendered[f] = base[f] /\ main'[f] = main[f])
    <2>1. CASE Squashed
      BY <1>1, <2>1 DEF Squashed, MergeOf, Generated
    <2> QED
      BY <1>1, <2>1, LaunchStep
  <1>2. IInv /\ [Next]_vars => [(at # at' /\ outcome' = "published") =>
            \A f \in File : main'[f] = rendered[f] \/ (rendered[f] = base[f] /\ main'[f] = main[f])]_vars
    BY <1>1
  <1> QED
    BY <1>2, Inductive, PTL DEF Spec, SuccessPublishes

-----------------------------------------------------------------------------
(* Versions of the template, over all launches *)

\* Main, the clone and every branch a launch ever pushed are no newer than what the
\* last launch rendered, and no branch is older than what it was cloned from.
Forward ==
    \A f \in TemplateFile :
        /\ main[f] <= rendered[f] /\ base[f] <= rendered[f] /\ rendered[f] <= template[f]
        /\ \A c \in branches \cup requests : c.base[f] <= c.head[f] /\ c.head[f] <= rendered[f]

\* Versions are numbers.
LEMMA VersionsAreNat ==
    ASSUME TypeOK, NEW f \in TemplateFile
    PROVE  /\ f \in File
           /\ main[f] \in Nat /\ rendered[f] \in Nat /\ base[f] \in Nat /\ template[f] \in Nat
           /\ \A c \in branches \cup requests : c.base[f] \in Nat /\ c.head[f] \in Nat
  <1>1. f \in File /\ 0..(MaxVersion + MaxEdits) \subseteq Nat
    BY ConstantsAssumption DEF File
  <1>2. \A t \in Tree : t[f] \in Nat
    BY <1>1 DEF Tree
  <1> QED
    BY <1>1, <1>2 DEF TypeOK, Change

\* A merge of a branch that goes forward takes main forward, and no further than it.
LEMMA MergeForward ==
    ASSUME TypeOK, Forward, NEW c \in branches \cup requests, Clean(c), NEW f \in TemplateFile
    PROVE  main[f] <= MergeOf(c)[f] /\ MergeOf(c)[f] <= rendered[f]
  <1>1. f \in File /\ main[f] \in Nat /\ rendered[f] \in Nat /\ c.base[f] \in Nat /\ c.head[f] \in Nat
    BY VersionsAreNat
  <1>2. MergeOf(c)[f] = IF c.head[f] = c.base[f] THEN main[f] ELSE c.head[f]
    BY <1>1 DEF MergeOf
  <1>3. c.head[f] = c.base[f] \/ main[f] \in {c.base[f], c.head[f]}
    BY <1>1 DEF Clean
  <1>4. main[f] <= rendered[f] /\ c.base[f] <= c.head[f] /\ c.head[f] <= rendered[f]
    BY DEF Forward
  <1> QED
    BY <1>1, <1>2, <1>3, <1>4

\* What a step may do to versions and trees.
Moves ==
    /\ \/ UNCHANGED <<rendered, template>>
       \/ rendered' = template /\ template' = template
       \/ rendered' = rendered /\ \E f \in File : template' = [template EXCEPT ![f] = @ + 1]
    /\ base' = base \/ (base' = main /\ UNCHANGED <<main, rendered>>)
    /\ (branches \cup requests)' \subseteq (branches \cup requests) \cup {Generated}
    /\ \/ main' = main
       \/ UNCHANGED <<rendered, base, template>> /\ main = base /\ main' = rendered
       \/ /\ UNCHANGED <<rendered, base, template>>
          /\ \E c \in branches \cup requests : Clean(c) /\ main' = MergeOf(c)
       \/ /\ UNCHANGED <<rendered, base, template>>
          /\ \E f \in OtherFile : main' = [main EXCEPT ![f] = edits']

LEMMA StepMoves == [Next]_vars => Moves
  <1> SUFFICES ASSUME [Next]_vars PROVE Moves
    OBVIOUS
  <1>. USE DEF Moves
  <1>1. ASSUME NEW f \in File, TemplateAdvances(f) PROVE Moves
    BY <1>1 DEF TemplateAdvances, remote, local
  <1>2. ASSUME NEW f \in File, Develop(f) PROVE Moves
    BY <1>2 DEF Develop, local
  <1>3. ASSUME NEW c \in branches \cup requests, Merge(c) PROVE Moves
    BY <1>3 DEF Merge, local
  <1>4. ASSUME NEW c \in branches \cup requests, Close(c) \/ RequestByHand(c) PROVE Moves
    BY <1>4 DEF Close, RequestByHand, local
  <1>5. CASE Launch \/ CloneMain
    BY <1>5 DEF Launch, CloneMain, remote
  <1>6. CASE PushMain
    BY <1>6 DEF PushMain, Pushed, OnTop, Ended
  <1>7. CASE PushFails \/ RequestFails \/ MergeFails
    BY <1>7 DEF PushFails, RequestFails, MergeFails, Raise, Ended, remote
  <1>8. CASE MainProtected \/ PushBranch \/ OpenRequest
    BY <1>8 DEF MainProtected, PushBranch, OpenRequest, remote
  <1>9. ASSUME Squashed, UNCHANGED <<rendered, base, template>> PROVE Moves
    BY <1>9 DEF Squashed, Mergeable
  <1>10. CASE AutoMerge
    BY <1>9, <1>10 DEF AutoMerge, Ended
  <1>11. CASE Fail
    <2>1. UNCHANGED <<rendered, base, template>>
      BY <1>11 DEF Fail, Ended
    <2>2. UNCHANGED remote \/ Pushed \/ Squashed
      BY <1>11 DEF Fail
    <2> QED
      BY <1>9, <2>1, <2>2 DEF Pushed, OnTop, remote
  <1>12. CASE UNCHANGED vars
    BY <1>12 DEF vars, remote, local
  <1> QED
    BY <1>1, <1>2, <1>3, <1>4, <1>5, <1>6, <1>7, <1>8, <1>10, <1>11, <1>12 DEF Next, Others, Proceed

\* For one file of the template: main goes forward, no further than what is rendered.
LEMMA MainForward ==
    ASSUME IInv, Forward, Moves, NEW f \in TemplateFile
    PROVE  main[f] <= main'[f] /\ main'[f] <= rendered'[f] /\ rendered[f] <= rendered'[f]
           /\ rendered'[f] <= template'[f]
  <1>1. f \in File /\ main[f] \in Nat /\ rendered[f] \in Nat /\ template[f] \in Nat
        /\ template \in Tree
    BY VersionsAreNat DEF IInv, TypeOK
  <1>2. main[f] <= rendered[f] /\ rendered[f] <= template[f]
    BY DEF Forward
  <1>3. /\ rendered[f] <= rendered'[f] /\ rendered'[f] <= template'[f]
    <2>1. CASE UNCHANGED <<rendered, template>> \/ (rendered' = template /\ template' = template)
      BY <1>1, <1>2, <2>1
    <2>2. ASSUME NEW g \in File, rendered' = rendered, template' = [template EXCEPT ![g] = @ + 1]
          PROVE  /\ rendered[f] <= rendered'[f] /\ rendered'[f] <= template'[f]
      BY <1>1, <1>2, <2>2 DEF Tree
    <2> QED
      BY <2>1, <2>2 DEF Moves
  <1>4. main[f] <= main'[f] /\ main'[f] <= rendered'[f]
    <2>1. CASE main' = main
      <3>1. rendered'[f] = rendered[f] \/ rendered'[f] = template[f]
        BY DEF Moves
      <3> QED
        BY <1>1, <1>2, <1>3, <2>1, <3>1
    <2>2. CASE UNCHANGED rendered /\ main' = rendered
      BY <1>1, <1>2, <2>2
    <2>3. ASSUME UNCHANGED rendered, NEW c \in branches \cup requests, Clean(c), main' = MergeOf(c)
          PROVE  main[f] <= main'[f] /\ main'[f] <= rendered'[f]
      BY <2>3, MergeForward DEF IInv
    <2>4. ASSUME UNCHANGED rendered, NEW g \in OtherFile, main' = [main EXCEPT ![g] = edits']
          PROVE  main[f] <= main'[f] /\ main'[f] <= rendered'[f]
      <3>1. g # f /\ main \in Tree
        BY ConstantsAssumption DEF IInv, TypeOK
      <3> QED
        BY <1>1, <1>2, <2>4, <3>1 DEF Tree
    <2> QED
      BY <2>1, <2>2, <2>3, <2>4 DEF Moves
  <1> QED
    BY <1>3, <1>4

LEMMA InitForward == Init => Forward
  <1> SUFFICES ASSUME Init, NEW f \in TemplateFile
               PROVE  main[f] <= rendered[f] /\ base[f] <= rendered[f] /\ rendered[f] <= template[f]
    BY DEF Init, Forward
  <1>1. f \in File
    BY DEF File
  <1>2. main[f] = 0 /\ rendered[f] = 0 /\ base[f] = 0 /\ template[f] = 1
    BY <1>1 DEF Init, FirstTemplate
  <1> QED
    BY <1>2

LEMMA StepForward ==
    ASSUME IInv, IInv', Forward, [Next]_vars
    PROVE  Forward'
  <1> SUFFICES ASSUME NEW f \in TemplateFile
               PROVE  /\ main'[f] <= rendered'[f] /\ base'[f] <= rendered'[f] /\ rendered'[f] <= template'[f]
                      /\ \A c \in (branches \cup requests)' : c.base[f] <= c.head[f] /\ c.head[f] <= rendered'[f]
    BY DEF Forward
  <1>1. /\ main[f] <= main'[f] /\ main'[f] <= rendered'[f] /\ rendered[f] <= rendered'[f]
        /\ rendered'[f] <= template'[f]
    BY MainForward, StepMoves
  <1>2. /\ main[f] \in Nat /\ rendered[f] \in Nat /\ base[f] \in Nat
        /\ \A c \in branches \cup requests : c.base[f] \in Nat /\ c.head[f] \in Nat
    BY VersionsAreNat DEF IInv
  <1>3. rendered'[f] \in Nat
    <2>1. f \in File /\ rendered' \in Tree
      BY DEF IInv, TypeOK, File
    <2>2. rendered'[f] \in 0..(MaxVersion + MaxEdits)
      BY <2>1 DEF Tree
    <2> QED
      BY <2>2, ConstantsAssumption
  <1>4. /\ main[f] <= rendered[f] /\ base[f] <= rendered[f]
        /\ \A c \in branches \cup requests : c.base[f] <= c.head[f] /\ c.head[f] <= rendered[f]
    BY DEF Forward
  <1>5. base' = base \/ base' = main
    BY StepMoves DEF Moves
  <1>6. base'[f] <= rendered'[f]
    BY <1>1, <1>2, <1>3, <1>4, <1>5
  <1>7. ASSUME NEW c \in (branches \cup requests)'
        PROVE  c.base[f] <= c.head[f] /\ c.head[f] <= rendered'[f]
    <2>1. c \in branches \cup requests \/ c = Generated
      BY StepMoves DEF Moves
    <2>2. CASE c \in branches \cup requests
      BY <1>1, <1>2, <1>3, <1>4, <2>2
    <2>3. CASE c = Generated
      <3>1. c.base[f] = base[f] /\ c.head[f] = rendered[f]
        BY <2>3 DEF Generated
      <3> QED
        BY <1>1, <1>4, <3>1
    <2> QED
      BY <2>1, <2>2, <2>3
  <1> QED
    BY <1>1, <1>6, <1>7

\* No launch and no merge takes a file of the template back to an older version in
\* main: not through a branch that an earlier launch left and a reviewer merges
\* later, nor through a clone that is older than main.
THEOREM NeverBackAlways == Spec => [][\A f \in TemplateFile : main[f] <= main'[f]]_vars
  <1>1. IInv /\ Forward /\ [Next]_vars => (IInv /\ Forward)'
    BY StepIInv, StepForward
  <1>2. IInv /\ Forward /\ [Next]_vars => [\A f \in TemplateFile : main[f] <= main'[f]]_vars
    BY StepMoves, MainForward
  <1> QED
    BY InitIInv, InitForward, <1>1, <1>2, PTL DEF Spec

-----------------------------------------------------------------------------
(***************************************************************************)
(* workload bootstrap, the other command that pushes to a main to which    *)
(* others push as well.  Its names are its own (place, mains, fetched,     *)
(* failures for at, main, base, faults of upload), so that one module can  *)
(* extend both.                                                            *)
(***************************************************************************)

Has(t) == t.identity # None => t.identity \in t.services

\* What a command has in its clone of a repository on the way to the push.
OnTheWay ==
    /\ place # "off" \/ failed => svc \in Service
    /\ place \in {"update", "identity", "branch", "pr"} => repo = "gitops"
    /\ place \in {"render", "upload"} /\ ~raced => fetched = mains[repo]
    /\ place \in {"render", "upload", "update"} /\ repo = "gitops" => Has(work)
    /\ place \in {"upload", "update", "identity", "branch"} => svc \in work.services
    /\ place = "branch" => work.identity = svc

\* What is in main by then: of the second repository what was not left in the
\* clone, of both what no push that was rejected should have put there.
InMain ==
    /\ place = "update" /\ ~ahead => svc \in mains["gitops"].services
    /\ place # "off" /\ repo = "gitops" /\ ~rejected => svc \in mains["wl"].services
    /\ place \in {"update", "identity", "branch", "pr"} /\ ~rejected => svc \in mains["gitops"].services
    /\ place = "pr" /\ ~rejected => \A t \in iac : t.identity = svc

BI == BootstrapTypeOK /\ IdentityHasService /\ OnTheWay /\ InMain

LEMMA MergedTree ==
    ASSUME NEW t \in RepoTree, NEW b \in RepoTree, NEW m \in RepoTree
    PROVE  /\ Merged(t, b, m) \in RepoTree
           /\ Merged(t, b, m).services = m.services \cup t.services
           /\ Has(t) /\ Has(m) => Has(Merged(t, b, m))
  <1>1. Merged(t, b, m) \in RepoTree /\ Merged(t, b, m).services = m.services \cup t.services
    BY DEF Merged, RepoTree
  <1>2. Merged(t, b, m).identity \in {t.identity, m.identity}
    BY DEF Merged
  <1> QED
    BY <1>1, <1>2 DEF Has

LEMMA InitBI == BootstrapInit => BI
  <1> SUFFICES ASSUME BootstrapInit PROVE BI
    OBVIOUS
  <1>1. EmptyTree \in RepoTree /\ EmptyTree.identity = None
    BY DEF EmptyTree, RepoTree
  <1>2. mains \in [Repo -> RepoTree] /\ mains["gitops"] = EmptyTree
    BY <1>1 DEF BootstrapInit, Repo
  <1>3. BootstrapTypeOK
    <2>1. failures \in 0..MaxFailures /\ commands \in 0..MaxCommands /\ pushes \in 0..MaxPushes
      BY BootstrapConstants DEF BootstrapInit
    <2>2. failed = FALSE /\ rejected = FALSE /\ ahead = FALSE /\ raced = FALSE /\ pr = FALSE
      BY DEF BootstrapInit
    <2>3. {failed, rejected} \subseteq BOOLEAN /\ {ahead, raced} \subseteq BOOLEAN /\ pr \in BOOLEAN
      BY <2>2
    <2> QED
      BY <1>1, <1>2, <2>1, <2>2, <2>3 DEF BootstrapInit, BootstrapTypeOK, Repo
  <1>4. IdentityHasService
    BY <1>1, <1>2 DEF BootstrapInit, IdentityHasService
  <1> QED
    BY <1>3, <1>4 DEF BootstrapInit, BI, OnTheWay, InMain

\* A name for every kind of step.
LEMMA BootstrapSteps ==
    ASSUME [BootstrapNext]_bootstrapVars
    PROVE  \/ UNCHANGED bootstrapVars
           \/ Clone \/ Render \/ Upload \/ Update \/ AddIdentity \/ UploadBranch \/ OpenPullRequest
           \/ UpdateRaises \/ PullRequestRaises \/ Die
           \/ (\E s \in Service : Ask(s)) \/ Repeat \/ (\E r \in Repo : DevelopersPush(r)) \/ MergeIac \/ CloseIac
  BY DEF BootstrapNext, BootstrapProceeds

LEMMA BootstrapTypes ==
    ASSUME BI, [BootstrapNext]_bootstrapVars
    PROVE  BootstrapTypeOK'
  <1>. USE DEF BI, BootstrapTypeOK, command, clone, hosted, counts, Repo
  <1>0. /\ None \notin Service /\ mains["wl"] \in RepoTree /\ mains["gitops"] \in RepoTree
        /\ failures + 1 \in Nat /\ commands + 1 \in Nat /\ pushes + 1 \in Nat /\ MaxFailures \in Nat
        /\ MaxCommands \in Nat /\ MaxPushes \in Nat
    BY BootstrapConstants
  <1>1. CASE UNCHANGED bootstrapVars
    BY <1>1 DEF bootstrapVars
  <1>2. CASE Clone
    BY <1>2 DEF Clone
  <1>3. CASE Render
    <2>1. svc \in Service
      BY <1>3 DEF Render, OnTheWay
    <2>2. work' \in RepoTree
      BY <1>3, <2>1 DEF Render, RepoTree
    <2> QED
      BY <1>3, <2>2 DEF Render
  <1>4. CASE Upload
    <2>1. mains' \in [Repo -> RepoTree] /\ made' \subseteq Repo /\ rejected' \in BOOLEAN /\ ahead' \in BOOLEAN
      BY <1>4 DEF Upload, PushedToMain, Rejected
    <2>2. failures' \in 0..MaxFailures
      BY <1>0, <1>4 DEF Upload, Fault
    <2>3. UNCHANGED <<iac, iacBase, pr>>
      BY <1>4 DEF Upload, PushedToMain, Rejected
    <2>4. place' \in {"clone", "update"} /\ repo' \in Repo
      BY <1>4 DEF Upload, Uploaded
    <2> QED
      BY <1>4, <2>1, <2>2, <2>3, <2>4 DEF Upload
  <1>5. CASE Update
    BY <1>5, <1>0 DEF Update
  <1>6. CASE AddIdentity
    <2>1. work' \in RepoTree
      BY <1>6 DEF AddIdentity, RepoTree
    <2> QED
      BY <1>6, <2>1 DEF AddIdentity
  <1>7. CASE UploadBranch
    <2>1. failures' \in 0..MaxFailures
      BY <1>0, <1>7 DEF UploadBranch, Fault
    <2>2. UNCHANGED <<mains, made, pr>> /\ rejected' \in BOOLEAN
      BY <1>7 DEF UploadBranch, Rejected
    <2>3. /\ iac' \subseteq RepoTree /\ iacBase' \subseteq RepoTree /\ (iac' = {} <=> iacBase' = {})
          /\ (iac' = {} => iac = {})
      BY <1>7 DEF UploadBranch, Rejected, BranchPublished
    <2> QED
      BY <1>7, <2>1, <2>2, <2>3 DEF UploadBranch
  <1>8. CASE OpenPullRequest
    BY <1>8 DEF OpenPullRequest
  <1>9. CASE UpdateRaises \/ PullRequestRaises
    <2>1. place' = "off" /\ UNCHANGED <<repo, svc, failed, rejected, clone, hosted, counts>>
      BY <1>9 DEF UpdateRaises, PullRequestRaises, Stop
    <2> QED
      BY <2>1
  <1>10. CASE Die
    BY <1>10, <1>0 DEF Die, Fault, Stop
  <1>11. CASE \E s \in Service : Ask(s)
    <2>1. PICK s \in Service : Ask(s)
      BY <1>11
    <2>2. commands' \in 0..MaxCommands
      BY <1>0, <2>1 DEF Ask
    <2>3. {failed', rejected'} \subseteq BOOLEAN
      BY <2>1 DEF Ask, Begin
    <2>4. place' = "clone" /\ repo' = "wl" /\ svc' = s /\ UNCHANGED <<clone, hosted, failures, pushes>>
      BY <2>1 DEF Ask, Begin
    <2> QED
      BY <2>2, <2>3, <2>4
  <1>12. CASE Repeat
    BY <1>12 DEF Repeat, Begin
  <1>13. CASE \E r \in Repo : DevelopersPush(r)
    <2>1. PICK r \in Repo : DevelopersPush(r)
      BY <1>13
    <2>2. mains' \in [Repo -> RepoTree]
      <3>1. mains[r] \in RepoTree /\ [mains[r] EXCEPT !.edited = TRUE] \in RepoTree
        BY DEF RepoTree
      <3>2. mains' = [mains EXCEPT ![r] = [mains[r] EXCEPT !.edited = TRUE]]
        BY <2>1 DEF DevelopersPush
      <3> QED
        BY <3>1, <3>2
    <2>3. raced' \in BOOLEAN
      BY <2>1 DEF DevelopersPush, MovesOn
    <2>4. pushes' \in 0..MaxPushes
      BY <1>0, <2>1 DEF DevelopersPush
    <2> QED
      BY <2>1, <2>2, <2>3, <2>4 DEF DevelopersPush
  <1>14. CASE MergeIac
    <2>1. PICK t \in iac, b \in iacBase : mains' = [mains EXCEPT !["gitops"] = Merged(t, b, @)]
      BY <1>14 DEF MergeIac
    <2>2. Merged(t, b, mains["gitops"]) \in RepoTree
      BY <1>0, MergedTree
    <2>3. mains' \in [Repo -> RepoTree]
      BY <2>1, <2>2
    <2>4. raced' \in BOOLEAN
      BY <1>14 DEF MergeIac, MovesOn
    <2> QED
      BY <1>14, <2>3, <2>4 DEF MergeIac
  <1>15. CASE CloseIac
    BY <1>15 DEF CloseIac
  <1> QED
    BY <1>1, <1>2, <1>3, <1>4, <1>5, <1>6, <1>7, <1>8, <1>9, <1>10, <1>11, <1>12, <1>13, <1>14,
       <1>15, BootstrapSteps

\* What others do to main: the services in it stay, and the clone is told.
LEMMA OthersOnMain ==
    ASSUME BI, (\E r \in Repo : DevelopersPush(r)) \/ MergeIac
    PROVE  /\ \A r \in Repo : mains[r].services \subseteq mains'[r].services
           /\ mains'["gitops"].identity = mains["gitops"].identity \/ Has(mains'["gitops"])
           /\ iac' \subseteq iac
           /\ UNCHANGED <<command, work, fetched, ahead>>
           /\ (raced => raced')
           /\ place \in {"render", "upload"} /\ ~raced' => mains'[repo] = mains[repo]
  <1>. USE DEF BI, BootstrapTypeOK, Repo
  <1>1. CASE \E r \in Repo : DevelopersPush(r)
    <2>1. PICK r \in Repo : DevelopersPush(r)
      BY <1>1
    <2>2. mains' = [mains EXCEPT ![r].edited = TRUE] /\ \A x \in Repo : mains[x] \in RepoTree
      BY <2>1 DEF DevelopersPush
    <2>3. \A x \in Repo : mains'[x].services = mains[x].services /\ mains'[x].identity = mains[x].identity
      BY <2>2 DEF RepoTree
    <2>4. \A x \in Repo : x # r => mains'[x] = mains[x]
      BY <2>2
    <2>5. raced' = (raced \/ (r = repo /\ place \notin {"off", "clone"}))
      BY <2>1 DEF DevelopersPush, MovesOn
    <2>6. UNCHANGED <<command, work, fetched, ahead, iac>>
      BY <2>1 DEF DevelopersPush
    <2> QED
      BY <2>3, <2>4, <2>5, <2>6
  <1>2. CASE MergeIac
    <2>1. PICK t \in iac, b \in iacBase : mains' = [mains EXCEPT !["gitops"] = Merged(t, b, @)]
      BY <1>2 DEF MergeIac
    <2>2. mains["gitops"] \in RepoTree /\ Has(mains["gitops"]) /\ Has(t)
      BY DEF IdentityHasService, Has
    <2>3. mains'["gitops"] = Merged(t, b, mains["gitops"]) /\ mains'["wl"] = mains["wl"]
      BY <2>1
    <2>4. /\ Has(mains'["gitops"])
          /\ mains["gitops"].services \subseteq mains'["gitops"].services
      BY <2>2, <2>3, MergedTree
    <2>5. raced' = (raced \/ ("gitops" = repo /\ place \notin {"off", "clone"}))
      BY <1>2 DEF MergeIac, MovesOn
    <2>6. UNCHANGED <<command, work, fetched, ahead>> /\ iac' = {}
      BY <1>2 DEF MergeIac, clone
    <2> QED
      BY <2>3, <2>4, <2>5, <2>6
  <1> QED
    BY <1>1, <1>2

LEMMA OnTheWayStep ==
    ASSUME BI, [BootstrapNext]_bootstrapVars
    PROVE  OnTheWay'
  <1>. USE DEF OnTheWay, command, clone, hosted, counts
  <1>0. /\ work \in RepoTree /\ repo \in Repo /\ mains["gitops"] \in RepoTree
        /\ Has(mains["gitops"]) /\ OnTheWay /\ InMain
    BY DEF BI, BootstrapTypeOK, Repo, IdentityHasService, Has
  <1>1. CASE UNCHANGED bootstrapVars
    BY <1>0, <1>1 DEF bootstrapVars, Has
  <1>2. CASE Clone
    BY <1>0, <1>2 DEF Clone, Has
  <1>3. CASE Render
    <2>1. work'.services = work.services \cup {svc} /\ work'.identity = work.identity
      BY <1>0, <1>3 DEF Render, RepoTree
    <2> QED
      BY <1>0, <1>3, <2>1 DEF Render, Has
  <1>4. CASE Upload
    <2>1. place = "upload" /\ UNCHANGED <<work, fetched, raced, svc, failed>>
      BY <1>4 DEF Upload
    <2>2. (place' = "clone" /\ repo' = "gitops") \/ (place' = "update" /\ repo' = "gitops")
      BY <1>0, <1>4 DEF Upload, Uploaded, Repo
    <2>3. place' = "update" => repo = "gitops"
      BY <1>0, <1>4 DEF Upload, Uploaded, Repo
    <2> QED
      BY <1>0, <2>1, <2>2, <2>3 DEF Has
  <1>5. CASE Update
    <2>1. raced => ~ahead
      BY <1>5 DEF Update, Updatable
    <2>2. svc \in work'.services
      BY <1>0, <1>5, <2>1 DEF Update, InMain
    <2> QED
      BY <1>0, <1>5, <2>2 DEF Update
  <1>6. CASE AddIdentity
    <2>1. work'.services = work.services /\ work'.identity = svc
      BY <1>0, <1>6 DEF AddIdentity, RepoTree
    <2> QED
      BY <1>0, <1>6, <2>1 DEF AddIdentity
  <1>7. CASE UploadBranch
    BY <1>0, <1>7 DEF UploadBranch
  <1>8. CASE OpenPullRequest
    BY <1>0, <1>8 DEF OpenPullRequest
  <1>9. CASE UpdateRaises \/ PullRequestRaises \/ Die
    BY <1>0, <1>9 DEF UpdateRaises, PullRequestRaises, Die, Stop
  <1>11. CASE \E s \in Service : Ask(s)
    BY <1>0, <1>11 DEF Ask, Begin
  <1>12. CASE Repeat
    BY <1>0, <1>12 DEF Repeat, Begin
  <1>13. CASE (\E r \in Repo : DevelopersPush(r)) \/ MergeIac
    BY <1>0, <1>13, OthersOnMain DEF Has
  <1>15. CASE CloseIac
    BY <1>0, <1>15 DEF CloseIac, Has
  <1> QED
    BY <1>1, <1>2, <1>3, <1>4, <1>5, <1>6, <1>7, <1>8, <1>9, <1>11, <1>12, <1>13, <1>15,
       BootstrapSteps

LEMMA InMainStep ==
    ASSUME BI, [BootstrapNext]_bootstrapVars
    PROVE  InMain'
  <1>. USE DEF InMain, command, clone, hosted, counts
  <1>0. /\ mains \in [Repo -> RepoTree] /\ repo \in Repo /\ "wl" \in Repo /\ "gitops" \in Repo /\ "wl" # "gitops"
        /\ OnTheWay /\ InMain /\ rejected \in BOOLEAN
    BY DEF BI, BootstrapTypeOK, Repo
  <1>1. CASE UNCHANGED bootstrapVars
    BY <1>0, <1>1 DEF bootstrapVars
  <1>2. CASE Clone
    BY <1>0, <1>2 DEF Clone
  <1>3. CASE Render
    BY <1>0, <1>3 DEF Render
  <1>4. CASE Upload
    <2>1. place = "upload" /\ svc \in work.services /\ UNCHANGED svc
      BY <1>0, <1>4 DEF Upload, OnTheWay
    <2>2. CASE PushedToMain /\ ahead' = FALSE
      <3>1. mains'[repo].services = work.services /\ (repo = "gitops" => mains'["wl"] = mains["wl"])
        BY <1>0, <2>2 DEF PushedToMain
      <3>2. UNCHANGED rejected
        BY <2>2 DEF PushedToMain
      <3>3. CASE repo = "wl"
        BY <1>4, <2>1, <3>1, <3>2, <3>3 DEF Upload, Uploaded
      <3>4. CASE repo = "gitops"
        BY <1>0, <1>4, <2>1, <3>1, <3>2, <3>4 DEF Upload, Uploaded
      <3> QED
        BY <1>0, <3>3, <3>4 DEF Repo
    <2>3. CASE rejected' = TRUE /\ ahead' = TRUE
      BY <1>4, <2>3 DEF Upload, Uploaded
    <2> QED
      BY <1>4, <2>2, <2>3 DEF Upload, Rejected
  <1>5. CASE Update
    BY <1>0, <1>5 DEF Update
  <1>6. CASE AddIdentity
    BY <1>0, <1>6 DEF AddIdentity
  <1>7. CASE UploadBranch
    <2>1. place' = "pr" /\ place = "branch" /\ UNCHANGED <<mains, svc, repo>>
      BY <1>7 DEF UploadBranch, Rejected
    <2>2. rejected' \/ (iac' = {work} /\ UNCHANGED rejected)
      BY <1>7 DEF UploadBranch, Rejected, BranchPublished
    <2>3. work.identity = svc
      BY <1>0, <2>1 DEF OnTheWay
    <2> QED
      BY <1>0, <2>1, <2>2, <2>3
  <1>8. CASE OpenPullRequest
    BY <1>0, <1>8 DEF OpenPullRequest
  <1>9. CASE UpdateRaises \/ PullRequestRaises \/ Die
    BY <1>0, <1>9 DEF UpdateRaises, PullRequestRaises, Die, Stop
  <1>11. CASE \E s \in Service : Ask(s)
    BY <1>0, <1>11 DEF Ask, Begin
  <1>12. CASE Repeat
    BY <1>0, <1>12 DEF Repeat, Begin
  <1>13. CASE (\E r \in Repo : DevelopersPush(r)) \/ MergeIac
    BY <1>0, <1>13, OthersOnMain
  <1>15. CASE CloseIac
    BY <1>0, <1>15 DEF CloseIac
  <1> QED
    BY <1>1, <1>2, <1>3, <1>4, <1>5, <1>6, <1>7, <1>8, <1>9, <1>11, <1>12, <1>13, <1>15,
       BootstrapSteps

LEMMA IdentityStep ==
    ASSUME BI, [BootstrapNext]_bootstrapVars
    PROVE  IdentityHasService'
  <1>. USE DEF command, clone, hosted, counts
  <1>0. /\ mains \in [Repo -> RepoTree] /\ "gitops" \in Repo
        /\ OnTheWay /\ Has(mains["gitops"]) /\ \A t \in iac : Has(t)
    BY DEF BI, BootstrapTypeOK, Repo, IdentityHasService, Has
  <1>1. Has(mains'["gitops"])
    <2>1. CASE UNCHANGED mains
      BY <1>0, <2>1 DEF Has
    <2>2. CASE Upload /\ PushedToMain
      <3>1. mains' = [mains EXCEPT ![repo] = work] /\ place = "upload"
        BY <2>2 DEF Upload, PushedToMain
      <3>2. repo = "gitops" => Has(work)
        BY <1>0, <3>1 DEF OnTheWay
      <3>3. mains'["gitops"] = IF repo = "gitops" THEN work ELSE mains["gitops"]
        BY <1>0, <3>1
      <3> QED
        BY <1>0, <3>2, <3>3 DEF Has
    <2>3. CASE (\E r \in Repo : DevelopersPush(r)) \/ MergeIac
      <3>1. Has(mains["gitops"]) /\ mains["gitops"].services \subseteq mains'["gitops"].services
        BY <1>0, <2>3, OthersOnMain
      <3> QED
        BY <2>3, <3>1, OthersOnMain DEF Has
    <2>4. UNCHANGED mains \/ (Upload /\ PushedToMain) \/ (\E r \in Repo : DevelopersPush(r)) \/ MergeIac
      BY BootstrapSteps DEF bootstrapVars, Clone, Render, Upload, Rejected, Update, AddIdentity, UploadBranch,
         OpenPullRequest, UpdateRaises, PullRequestRaises, Die, Stop, Ask, Repeat, CloseIac
    <2> QED
      BY <2>1, <2>2, <2>3, <2>4
  <1>2. \A t \in iac' : Has(t)
    <2>1. CASE iac' \subseteq iac
      BY <1>0, <2>1
    <2>2. CASE UploadBranch /\ BranchPublished
      <3>1. iac' = {work} /\ place = "branch"
        BY <2>2 DEF UploadBranch, BranchPublished
      <3>2. Has(work)
        BY <1>0, <3>1 DEF OnTheWay, Has
      <3> QED
        BY <3>1, <3>2
    <2>3. iac' \subseteq iac \/ (UploadBranch /\ BranchPublished)
      BY BootstrapSteps, OthersOnMain DEF bootstrapVars, Clone, Render, Upload, PushedToMain, Rejected, Update,
         AddIdentity, UploadBranch, OpenPullRequest, UpdateRaises, PullRequestRaises, Die, Stop, Ask,
         Repeat, CloseIac
    <2> QED
      BY <2>1, <2>2, <2>3
  <1> QED
    BY <1>1, <1>2 DEF IdentityHasService, Has

\* In every reachable state.
THEOREM BootstrapInductive == BootstrapSpec => []BI
  <1>1. BI /\ [BootstrapNext]_bootstrapVars => BI'
    BY BootstrapTypes, IdentityStep, OnTheWayStep, InMainStep DEF BI
  <1> QED
    BY InitBI, <1>1, PTL DEF BootstrapSpec

\* Every variable of bootstrap keeps to its type.
THEOREM BootstrapTypeCorrect == BootstrapSpec => []BootstrapTypeOK
  <1>1. BI => BootstrapTypeOK
    BY DEF BI
  <1> QED
    BY BootstrapInductive, <1>1, PTL

\* No tree under review or in main has an identity for a service that it lacks,
\* whatever developers push, reviewers do and commands leave behind.
THEOREM IdentityHasServiceAlways == BootstrapSpec => []IdentityHasService
  <1>1. BI => IdentityHasService
    BY DEF BI
  <1> QED
    BY BootstrapInductive, <1>1, PTL

\* bootstrap overwrites nothing that was pushed since it cloned.
THEOREM RacedWorkKeptAlways == BootstrapSpec => RacedWorkKept
  <1>1. ASSUME BI, [BootstrapNext]_bootstrapVars, pr' = pr, NEW r \in Repo, mains[r].edited, ~mains'[r].edited
        PROVE  fetched.edited
    <2>. USE DEF command, clone, hosted, counts
    <2>1. mains'[r] # mains[r] /\ mains \in [Repo -> RepoTree]
      BY <1>1 DEF BI, BootstrapTypeOK
    <2>2. CASE Upload
      <3>1. mains' = [mains EXCEPT ![repo] = work] /\ ~raced /\ place = "upload"
        BY <2>1, <2>2 DEF Upload, PushedToMain, Rejected, Fault
      <3>2. r = repo
        BY <2>1, <3>1
      <3>3. fetched = mains[repo]
        BY <1>1, <3>1 DEF BI, OnTheWay
      <3> QED
        BY <1>1, <3>2, <3>3
    <2>3. CASE \E x \in Repo : DevelopersPush(x)
      <3>1. PICK x \in Repo : mains' = [mains EXCEPT ![x].edited = TRUE]
        BY <2>3 DEF DevelopersPush
      <3> QED
        BY <1>1, <2>1, <3>1 DEF RepoTree
    <2>4. CASE MergeIac
      BY <1>1, <2>4 DEF MergeIac
    <2> QED
      BY <1>1, <2>1, <2>2, <2>3, <2>4, BootstrapSteps
      DEF bootstrapVars, Clone, Render, Rejected, Update, AddIdentity, UploadBranch,
          OpenPullRequest, UpdateRaises, PullRequestRaises, Die, Stop, Ask, Repeat, CloseIac
  <1>2. BI /\ [BootstrapNext]_bootstrapVars =>
          [\A r \in Repo : pr' = pr /\ mains[r].edited /\ ~mains'[r].edited => fetched.edited]_bootstrapVars
    BY <1>1
  <1> QED
    BY BootstrapInductive, <1>2, PTL DEF BootstrapSpec, RacedWorkKept

\* Success means that both repositories have the service and the pull request
\* is for its identity, unless a push was rejected.
THEOREM PublishedUnlessRejectedAlways == BootstrapSpec => PublishedUnlessRejected
  <1>1. ASSUME BI, [BootstrapNext]_bootstrapVars, failed, ~failed', ~rejected
        PROVE  /\ \A r \in Repo : svc \in mains[r].services
               /\ \A t \in iac : t.identity = svc
    <2>. USE DEF command, clone, hosted, counts
    <2>1. place = "pr"
      BY <1>1, BootstrapSteps DEF bootstrapVars, Clone, Render, Upload, Update, AddIdentity, UploadBranch,
         OpenPullRequest, UpdateRaises, PullRequestRaises, Die, Stop, Ask, Repeat, Begin, DevelopersPush,
         MergeIac, CloseIac
    <2> QED
      BY <1>1, <2>1 DEF BI, OnTheWay, InMain, Repo
  <1>2. BI /\ [BootstrapNext]_bootstrapVars =>
          [failed /\ ~failed' =>
             \/ rejected
             \/ /\ \A r \in Repo : svc \in mains[r].services
                /\ \A t \in iac : t.identity = svc]_bootstrapVars
    BY <1>1
  <1> QED
    BY BootstrapInductive, <1>2, PTL DEF BootstrapSpec, PublishedUnlessRejected
=============================================================================
