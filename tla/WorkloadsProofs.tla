--------------------------- MODULE WorkloadsProofs --------------------------
(***************************************************************************)
(* create and delete touch no workload nobody named, and destroy what one  *)
(* workload's deletion is to destroy, for any workloads, users, faults and *)
(* launches of setup. With users who wait for open pull requests they are  *)
(* clean without faults; and with one name a command and one fault, what   *)
(* they say they did is what is under review.                              *)
(***************************************************************************)
EXTENDS Workloads, FiniteSetTheorems, TLAPS

\* Where a branch tip differs from main as it was when the branch began.
Differs(h) == {w \in Workload : h.has[w] # h.base[w]}

Working == {"destroy", "edit", "commit", "push", "pr", "switch"}

\* The types of the command, and of what Git keeps.
CommandTypes ==
    /\ at \in Places /\ cmd \in Command
    /\ branch \in Branch \cup {None} /\ name \in Workload \cup {None} /\ todo \subseteq Workload
    /\ wlRepo \in Workload \cup {None} /\ failedNames \subseteq Workload
GitTypes ==
    /\ main \in Entries /\ tree \in Entries
    /\ DOMAIN remote \subseteq Branch /\ \A b \in DOMAIN remote : remote[b] \in Tip
    /\ prs \subseteq DOMAIN remote
    /\ active \in DOMAIN heads /\ Main \in DOMAIN heads
    /\ DOMAIN heads \subseteq Branch \cup {Main}
    /\ \A b \in DOMAIN heads : heads[b] \in Head

OtherTypes ==
    /\ failed \in BOOLEAN /\ cloned \in BOOLEAN /\ resources \subseteq Workload
    /\ faults \in 0..MaxFaults /\ launches \in 0..MaxLaunches

\* A new branch is named after the workload, or is not a workload's.
OnBranch ==
    /\ at \in Working => branch = active
    /\ at \in Working \cup {"tidy"} => branch \in Branch
    /\ at \in Working /\ cmd.kind = "create" => cmd.names = {branch}
    /\ at \in Working /\ cmd.kind # "create" => branch \notin Workload
    /\ at = "tidy" \/ ~cloned => active = Main
    /\ at \in Working \cup {"branch"} => cloned
    /\ cmd.kind = "create" => \A v, w \in cmd.names : v = w

\* The loop goes over the names of the command.
OnName ==
    /\ at \in {"destroy", "edit", "commit", "push"} => name \in cmd.names
    /\ at \in Working \cup {"branch"} => todo \subseteq cmd.names
    /\ at = "destroy" => cmd.destroy
    /\ at \in {"off", "update", "branch"} => wlRepo = None
    /\ at \in Working => wlRepo \in cmd.names \cup {None}

\* What may be on the branch that is checked out: the command's own names, once
\* it has its branch, and those of commands that failed.
Suspect == IF at \in Working THEN failedNames \cup cmd.names ELSE failedNames

LocalClean ==
    /\ Differs(heads[active]) \subseteq Suspect
    /\ {w \in Workload : tree[w] # heads[active].base[w]} \subseteq Suspect
    /\ heads[Main].has = heads[Main].base

\* A remote branch with the name of a workload was pushed for that workload.
RemoteClean ==
    /\ \A b \in Workload \cap DOMAIN remote : Differs(remote[b]) \subseteq failedNames \cup {b}
    /\ at \in Working /\ branch \in DOMAIN remote =>
          Differs(remote[branch]) \subseteq failedNames \cup cmd.names

IInv == CommandTypes /\ GitTypes /\ OnBranch /\ OnName /\ LocalClean /\ RemoteClean

\* The two ways in which a set of branches changes.
LEMMA WithBranch ==
    ASSUME NEW f, NEW b, NEW v
    PROVE  /\ DOMAIN With(f, b, v) = DOMAIN f \cup {b}
           /\ With(f, b, v)[b] = v
           /\ \A x \in DOMAIN f : x # b => With(f, b, v)[x] = f[x]
  BY DEF With

LEMMA WithoutBranch ==
    ASSUME NEW f, NEW b
    PROVE  /\ DOMAIN Without(f, b) = DOMAIN f \ {b}
           /\ \A x \in DOMAIN f \ {b} : Without(f, b)[x] = f[x]
  BY DEF Without

\* If the branches are of a kind before, they are afterwards.
LEMMA AllWithout ==
    ASSUME NEW f, NEW b, NEW S, \A x \in DOMAIN f : f[x] \in S
    PROVE  /\ DOMAIN Without(f, b) = DOMAIN f \ {b}
           /\ \A x \in DOMAIN Without(f, b) : Without(f, b)[x] \in S
  BY DEF Without

LEMMA HeadCopy ==
    ASSUME NEW h \in Head, NEW d \in BOOLEAN
    PROVE  /\ [h EXCEPT !.diverged = d] \in Head
           /\ [h EXCEPT !.diverged = d].has = h.has /\ [h EXCEPT !.diverged = d].base = h.base
  BY DEF Head

\* The clone with the head of a branch: as the head checked out, if it is new.
LEMMA WithHeadType ==
    ASSUME GitTypes, NEW b \in Branch
    PROVE  /\ DOMAIN WithHead(b) = DOMAIN heads \cup {b}
           /\ \A x \in DOMAIN heads : WithHead(b)[x] = heads[x]
           /\ \A x \in DOMAIN heads \cup {b} : WithHead(b)[x] \in Head
           /\ b \notin DOMAIN heads => /\ WithHead(b)[b].has = heads[active].has
                                      /\ WithHead(b)[b].base = heads[active].base
                                      /\ WithHead(b)[b].diverged = (b \in DOMAIN remote)
  <1>1. CASE b \in DOMAIN heads
    BY <1>1 DEF WithHead, GitTypes
  <1>2. CASE b \notin DOMAIN heads
    <2> DEFINE h == [heads[active] EXCEPT !.diverged = b \in DOMAIN remote]
    <2>1. heads[active] \in Head /\ \A x \in DOMAIN heads : heads[x] \in Head
      BY DEF GitTypes
    <2>2. h \in Head /\ h.has = heads[active].has /\ h.base = heads[active].base
      BY <2>1, HeadCopy, (b \in DOMAIN remote) \in BOOLEAN
    <2>3. h.diverged = (b \in DOMAIN remote)
      BY <2>1 DEF Head
    <2>4. WithHead(b) = With(heads, b, h)
      BY <1>2 DEF WithHead
    <2> HIDE DEF h
    <2>5. /\ DOMAIN WithHead(b) = DOMAIN heads \cup {b} /\ WithHead(b)[b] = h
          /\ \A x \in DOMAIN heads : x # b => WithHead(b)[x] = heads[x]
      BY <2>4 DEF With
    <2>6. \A x \in DOMAIN heads : x # b
      BY <1>2
    <2> QED
      BY <1>2, <2>1, <2>2, <2>3, <2>5, <2>6
  <1> QED
    BY <1>1, <1>2

\* main is a set of entries, and a branch may start from it.
LEMMA MainHeadType ==
    ASSUME main \in Entries
    PROVE  MainHead \in Head /\ MainHead.has = MainHead.base /\ MainHead.base = main
  BY DEF MainHead, Head

LEMMA NoEntriesType == NoEntries \in Entries
  BY ConstantsAssumption DEF NoEntries, Entries

\* An entry of a merge is the branch's or main's.
LEMMA MergedType ==
    ASSUME GitTypes, NEW b \in DOMAIN remote
    PROVE  Merged(b) \in Entries
  BY DEF GitTypes, Tip, Entries, Merged

LEMMA InitIInv == Init => IInv
  <1> SUFFICES ASSUME Init PROVE IInv
    OBVIOUS
  <1>1. CommandTypes
    BY ConstantsAssumption DEF Init, CommandTypes, Places, Command
  <1>2. DOMAIN remote = {} /\ main \in Entries /\ tree = main /\ prs = {}
    BY NoEntriesType DEF Init
  <1>3. DOMAIN heads = {Main} /\ heads[Main] = MainHead /\ active = Main
    BY DEF Init
  <1>4. GitTypes
    BY <1>2, <1>3, MainHeadType DEF GitTypes
  <1>5. OnBranch /\ OnName
    BY <1>3 DEF Init, OnBranch, OnName, Working
  <1>6. LocalClean /\ RemoteClean
    BY <1>2, <1>3, MainHeadType DEF LocalClean, RemoteClean, Differs, Init, Working, Suspect
  <1> QED
    BY <1>1, <1>4, <1>5, <1>6 DEF IInv

\* The command keeps its types.
LEMMA CommandTypesStep ==
    ASSUME CommandTypes, GitTypes, [Next]_vars
    PROVE  CommandTypes'
  <1>. USE ConstantsAssumption DEF CommandTypes, command, hosted, local, env
  <1>1. CASE UNCHANGED vars
    BY <1>1 DEF vars
  <1>2. CASE Update
    <2>1. tree' \in Entries => Listed(tree') \subseteq Workload
      BY DEF Listed
    <2>2. cmd' \in Command
      BY <1>2 DEF Update, Command, Listed
    <2> QED
      BY <1>2, <2>2 DEF Update, Command, Places
  <1>3. CASE \E b \in Branch : CreateBranch(b)
    <2>1. PICK b \in Branch : CreateBranch(b)
      BY <1>3
    <2>2. at' \in Places /\ name' \in Workload \cup {None} /\ todo' \subseteq Workload
      BY <2>1 DEF CreateBranch, NextName, Places
    <2> QED
      BY <2>1, <2>2 DEF CreateBranch
  <1>4. CASE Destroy
    BY <1>4 DEF Destroy, Places
  <1>5. CASE Edit
    BY <1>5 DEF Edit, Places
  <1>6. CASE Commit
    BY <1>6 DEF Commit, Places
  <1>7. CASE Push
    <2>1. at' \in Places /\ name' \in Workload \cup {None} /\ todo' \subseteq Workload
      BY <1>7 DEF Push, NextName, Places
    <2> QED
      BY <1>7, <2>1 DEF Push
  <1>8. CASE OpenPullRequest
    BY <1>8 DEF OpenPullRequest, Places
  <1>9. CASE SwitchToMain
    BY <1>9 DEF SwitchToMain, Places
  <1>10. CASE DeleteBranch
    BY <1>10 DEF DeleteBranch, Places
  <1>11. CASE Fail /\ UNCHANGED resources
    BY <1>11 DEF Fail, Places, Command
  <1>12. CASE \E kind \in {"create", "delete", "all"}, names \in SUBSET Workload, d \in BOOLEAN : Ask(kind, names, d)
    <2>1. PICK kind \in {"create", "delete", "all"}, names \in SUBSET Workload, d \in BOOLEAN : Ask(kind, names, d)
      BY <1>12
    <2>2. cmd' \in Command
      BY <2>1 DEF Ask, Command
    <2> QED
      BY <2>1, <2>2 DEF Ask, Places
  <1>13. CASE Repeat
    BY <1>13 DEF Repeat, Places
  <1>14. CASE \E w \in Workload : Provision(w)
    BY <1>14 DEF Provision
  <1>15. CASE LaunchSetup
    BY <1>15 DEF LaunchSetup
  <1>16. CASE \E b \in prs : Merge(b)
    BY <1>16 DEF Merge
  <1>17. CASE \E b \in prs : Close(b)
    BY <1>17 DEF Close
  <1>18. CASE Die
    BY <1>18 DEF Die, Places, Command
  <1>19. CASE \E b \in Branch : StopBeforeCheckout(b)
    BY <1>19 DEF StopBeforeCheckout, Places, Command
  <1> QED
    BY <1>1, <1>2, <1>3, <1>4, <1>5, <1>6, <1>7, <1>8, <1>9, <1>10, <1>11, <1>12,
       <1>13, <1>14, <1>15, <1>16, <1>17, <1>18, <1>19
    DEF Next, Proceed, Users, Review, Raise, UpdateRaises, BranchRaises, DestroyRaises, PullRequestRaises

\* So does what Git keeps.
LEMMA GitTypesStep ==
    ASSUME CommandTypes, GitTypes, OnBranch, [Next]_vars
    PROVE  GitTypes'
  <1>. USE DEF GitTypes, command, hosted, local, env
  <1>1. CASE UNCHANGED vars
    BY <1>1 DEF vars
  <1>2. CASE Update
    <2>1. CASE cloned /\ active # Main
      BY <1>2, <2>1 DEF Update
    <2>2. CASE ~(cloned /\ active # Main)
      <3>1. tree' \in Entries /\ DOMAIN heads' = DOMAIN heads
        BY <1>2, <2>2 DEF Update
      <3>2. \A b \in DOMAIN heads' : heads'[b] \in Head
        BY <1>2, <2>2, MainHeadType DEF Update
      <3> QED
        BY <1>2, <2>2, <3>1, <3>2 DEF Update
    <2> QED
      BY <2>1, <2>2
  <1>3. CASE \E b \in Branch : CreateBranch(b)
    <2>1. PICK b \in Branch : CreateBranch(b)
      BY <1>3
    <2>2. heads' = WithHead(b) /\ active' = b /\ UNCHANGED <<tree, main, remote, prs>>
      BY <2>1 DEF CreateBranch
    <2>3. DOMAIN heads' = DOMAIN heads \cup {b} /\ \A x \in DOMAIN heads' : heads'[x] \in Head
      BY <2>2, WithHeadType
    <2> QED
      BY <2>2, <2>3
  <1>4. CASE Destroy
    BY <1>4 DEF Destroy
  <1>5. CASE Edit
    <2>1. cmd.id \in 0..MaxCommands /\ 0 \in 0..MaxCommands
      BY ConstantsAssumption DEF CommandTypes, Command
    <2>2. tree' \in Entries
      BY <1>5, <2>1 DEF Edit, Entries
    <2> QED
      BY <1>5, <2>2 DEF Edit
  <1>6. CASE Commit
    <2>1. DOMAIN heads' = DOMAIN heads /\ \A b \in DOMAIN heads' : heads'[b] \in Head
      BY <1>6 DEF Commit, Head
    <2> QED
      BY <1>6, <2>1 DEF Commit
  <1>7. CASE Push
    <2>1. UNCHANGED <<main, prs, local>>
      BY <1>7 DEF Push
    <2>2. CASE UNCHANGED remote
      BY <2>1, <2>2
    <2>3. CASE Pushed
      <3>1. active \in Branch
        BY <1>7 DEF OnBranch, Working, Push
      <3> DEFINE t == [has |-> heads[active].has, base |-> heads[active].base]
      <3>2. t \in Tip
        BY DEF Head, Tip
      <3>3. DOMAIN remote' = DOMAIN remote \cup {active} /\ \A b \in DOMAIN remote' : remote'[b] \in Tip
        <4>1. remote' = With(remote, active, t)
          BY <2>3 DEF Pushed
        <4> HIDE DEF t
        <4>2. \A x \in DOMAIN remote : remote[x] \in Tip
          OBVIOUS
        <4> QED
          BY <3>2, <4>1, <4>2 DEF With
      <3> QED
        BY <2>1, <3>1, <3>3
    <2> QED
      BY <1>7, <2>2, <2>3 DEF Push
  <1>8. CASE OpenPullRequest
    BY <1>8 DEF OpenPullRequest
  <1>9. CASE SwitchToMain
    BY <1>9 DEF SwitchToMain, Head
  <1>10. CASE DeleteBranch
    <2>1. branch # Main /\ active = Main
      BY <1>10, NamesAssumption DEF DeleteBranch, OnBranch, Working
    <2>2. DOMAIN heads' = DOMAIN heads \ {branch} /\ \A b \in DOMAIN heads' : heads'[b] \in Head
      BY <1>10, AllWithout DEF DeleteBranch
    <2> QED
      BY <1>10, <2>1, <2>2 DEF DeleteBranch
  <1>11. CASE Fail /\ UNCHANGED resources
    BY <1>11 DEF Fail
  <1>12. CASE \E kind \in {"create", "delete", "all"}, names \in SUBSET Workload, d \in BOOLEAN : Ask(kind, names, d)
    BY <1>12 DEF Ask
  <1>13. CASE Repeat
    BY <1>13 DEF Repeat
  <1>14. CASE \E w \in Workload : Provision(w)
    BY <1>14 DEF Provision
  <1>15. CASE LaunchSetup
    <2>1. main' \in Entries /\ tree' \in Entries
      BY <1>15, NoEntriesType DEF LaunchSetup
    <2>2. MainHead' \in Head
      BY <2>1 DEF MainHead, Head
    <2> QED
      BY <1>15, <2>1, <2>2 DEF LaunchSetup
  <1>16. CASE \E b \in prs : Merge(b)
    <2>1. PICK b \in prs : Merge(b)
      BY <1>16
    <2>2. main' \in Entries
      BY <2>1, MergedType DEF Merge
    <2>3. DOMAIN remote' = DOMAIN remote \ {b} /\ \A x \in DOMAIN remote' : remote'[x] \in Tip
      BY <2>1, AllWithout DEF Merge
    <2> QED
      BY <2>1, <2>2, <2>3 DEF Merge
  <1>17. CASE \E b \in prs : Close(b)
    <2>1. PICK b \in prs : Close(b)
      BY <1>17
    <2>2. CASE BranchesStay
      BY <2>1, <2>2 DEF Close
    <2>3. CASE ~BranchesStay
      <3>1. DOMAIN remote' = DOMAIN remote \ {b} /\ \A x \in DOMAIN remote' : remote'[x] \in Tip
        BY <2>1, <2>3, AllWithout DEF Close
      <3> QED
        BY <2>1, <3>1 DEF Close
    <2> QED
      BY <2>2, <2>3
  <1>18. CASE Die
    BY <1>18 DEF Die
  <1>19. CASE \E b \in Branch : StopBeforeCheckout(b)
    <2>1. PICK b \in Branch : StopBeforeCheckout(b)
      BY <1>19
    <2>2. heads' = WithHead(b) /\ UNCHANGED <<active, tree, main, remote, prs>>
      BY <2>1 DEF StopBeforeCheckout
    <2>3. DOMAIN heads' = DOMAIN heads \cup {b} /\ \A x \in DOMAIN heads' : heads'[x] \in Head
      BY <2>2, WithHeadType
    <2> QED
      BY <2>2, <2>3
  <1> QED
    BY <1>1, <1>2, <1>3, <1>4, <1>5, <1>6, <1>7, <1>8, <1>9, <1>10, <1>11, <1>12,
       <1>13, <1>14, <1>15, <1>16, <1>17, <1>18, <1>19
    DEF Next, Proceed, Users, Review, Raise, UpdateRaises, BranchRaises, DestroyRaises, PullRequestRaises


\* The names: which branch is checked out, and which workload is dealt with.
LEMMA OnBranchStep ==
    ASSUME CommandTypes, GitTypes, OnBranch, [Next]_vars
    PROVE  OnBranch'
  <1>. USE DEF OnBranch, command, hosted, local, env, Working
  <1>1. CASE UNCHANGED vars
    BY <1>1 DEF vars
  <1>2. CASE Update
    <2>1. cmd' = [cmd EXCEPT !.names = IF cmd.kind = "all" THEN Listed(tree') ELSE @]
      BY <1>2 DEF Update
    <2>2. cmd'.kind = cmd.kind /\ (cmd.kind = "create" => cmd'.names = cmd.names)
      BY <2>1 DEF CommandTypes, Command
    <2> QED
      BY <1>2, <2>2 DEF Update
  <1>3. CASE \E b \in Branch : CreateBranch(b)
    <2>1. PICK b \in Branch : CreateBranch(b)
      BY <1>3
    <2>2. at' \in {"pr", "destroy", "edit"} /\ branch' = b /\ active' = b /\ UNCHANGED <<cmd, cloned>>
      BY <2>1 DEF CreateBranch, NextName
    <2>3. cloned
      BY <2>1 DEF CreateBranch
    <2>4. cmd.kind = "create" => cmd.names = {b}
      BY <2>1 DEF CreateBranch, NameOfBranch
    <2>5. cmd.kind # "create" => b \notin Workload
      BY <2>1 DEF CreateBranch, NameOfBranch
    <2> QED
      BY <2>2, <2>3, <2>4, <2>5
  <1>4. CASE Destroy
    BY <1>4 DEF Destroy
  <1>5. CASE Edit
    BY <1>5 DEF Edit
  <1>6. CASE Commit
    BY <1>6 DEF Commit
  <1>7. CASE Push
    BY <1>7 DEF Push, NextName
  <1>8. CASE OpenPullRequest
    BY <1>8 DEF OpenPullRequest
  <1>9. CASE SwitchToMain
    BY <1>9 DEF SwitchToMain
  <1>10. CASE DeleteBranch
    BY <1>10 DEF DeleteBranch
  <1>11. CASE Fail /\ UNCHANGED resources
    BY <1>11 DEF Fail
  <1>12. CASE \E kind \in {"create", "delete", "all"}, names \in SUBSET Workload, d \in BOOLEAN : Ask(kind, names, d)
    <2>1. PICK kind \in {"create", "delete", "all"}, names \in SUBSET Workload, d \in BOOLEAN : Ask(kind, names, d)
      BY <1>12
    <2>2. kind = "create" => \A v, w \in names : v = w
      <3>1. IsFiniteSet(names)
        BY ConstantsAssumption, FS_Subset
      <3> QED
        BY <2>1, <3>1, FS_Singleton DEF Ask
    <2>3. cmd'.kind = kind /\ cmd'.names = names
      BY <2>1 DEF Ask
    <2> QED
      BY <2>1, <2>2, <2>3 DEF Ask
  <1>13. CASE Repeat
    BY <1>13 DEF Repeat
  <1>14. CASE \E w \in Workload : Provision(w)
    BY <1>14 DEF Provision
  <1>15. CASE LaunchSetup
    BY <1>15 DEF LaunchSetup
  <1>16. CASE \E b \in prs : Merge(b)
    BY <1>16 DEF Merge
  <1>17. CASE \E b \in prs : Close(b)
    BY <1>17 DEF Close
  <1>18. CASE Die
    BY <1>18 DEF Die
  <1>19. CASE \E b \in Branch : StopBeforeCheckout(b)
    BY <1>19 DEF StopBeforeCheckout
  <1> QED
    BY <1>1, <1>2, <1>3, <1>4, <1>5, <1>6, <1>7, <1>8, <1>9, <1>10, <1>11, <1>12,
       <1>13, <1>14, <1>15, <1>16, <1>17, <1>18, <1>19
    DEF Next, Proceed, Users, Review, Raise, UpdateRaises, BranchRaises, DestroyRaises, PullRequestRaises

LEMMA OnNameStep ==
    ASSUME CommandTypes, OnName, [Next]_vars
    PROVE  OnName'
  <1>. USE DEF OnName, command, hosted, local, env, Working
  <1>1. CASE UNCHANGED vars
    BY <1>1 DEF vars
  <1>2. CASE Update
    BY <1>2 DEF Update
  <1>3. CASE \E b \in Branch : CreateBranch(b)
    <2>1. PICK b \in Branch : CreateBranch(b)
      BY <1>3
    <2>2. UNCHANGED <<cmd, wlRepo>> /\ at = "branch" /\ NextName
      BY <2>1 DEF CreateBranch
    <2> QED
      BY <2>2 DEF NextName
  <1>4. CASE Destroy
    BY <1>4 DEF Destroy
  <1>5. CASE Edit
    BY <1>5 DEF Edit
  <1>6. CASE Commit
    BY <1>6 DEF Commit
  <1>7. CASE Push
    <2>1. UNCHANGED <<cmd, wlRepo>> /\ at = "push" /\ NextName
      BY <1>7 DEF Push
    <2> QED
      BY <2>1 DEF NextName
  <1>8. CASE OpenPullRequest
    BY <1>8 DEF OpenPullRequest
  <1>9. CASE SwitchToMain
    BY <1>9 DEF SwitchToMain
  <1>10. CASE DeleteBranch
    BY <1>10 DEF DeleteBranch
  <1>11. CASE Fail /\ UNCHANGED resources
    BY <1>11 DEF Fail
  <1>12. CASE \E kind \in {"create", "delete", "all"}, names \in SUBSET Workload, d \in BOOLEAN : Ask(kind, names, d)
    BY <1>12 DEF Ask
  <1>13. CASE Repeat
    BY <1>13 DEF Repeat
  <1>14. CASE \E w \in Workload : Provision(w)
    BY <1>14 DEF Provision
  <1>15. CASE LaunchSetup
    BY <1>15 DEF LaunchSetup
  <1>16. CASE \E b \in prs : Merge(b)
    BY <1>16 DEF Merge
  <1>17. CASE \E b \in prs : Close(b)
    BY <1>17 DEF Close
  <1>18. CASE Die
    BY <1>18 DEF Die
  <1>19. CASE \E b \in Branch : StopBeforeCheckout(b)
    BY <1>19 DEF StopBeforeCheckout
  <1> QED
    BY <1>1, <1>2, <1>3, <1>4, <1>5, <1>6, <1>7, <1>8, <1>9, <1>10, <1>11, <1>12,
       <1>13, <1>14, <1>15, <1>16, <1>17, <1>18, <1>19
    DEF Next, Proceed, Users, Review, Raise, UpdateRaises, BranchRaises, DestroyRaises, PullRequestRaises


\* A step that leaves the clone alone may only add to the suspects.
LEMMA LocalStays ==
    ASSUME LocalClean, UNCHANGED <<heads, active, tree>>, Suspect \subseteq Suspect'
    PROVE  LocalClean'
  BY DEF LocalClean, Differs

\* On main there is nothing to suspect.
LEMMA MainIsClean ==
    ASSUME active' = Main, heads'[Main].has = heads'[Main].base, tree' = heads'[Main].base
    PROVE  LocalClean'
  BY DEF LocalClean, Differs

LEMMA LocalCleanStep ==
    ASSUME IInv, [Next]_vars
    PROVE  LocalClean'
  <1>. USE DEF IInv, command, hosted, local, env, Working
  <1>1. CASE UNCHANGED vars
    BY <1>1, LocalStays DEF vars, Suspect
  <1>2. CASE Update
    <2>1. CASE cloned /\ active # Main
      <3>1. UNCHANGED <<heads, active, tree, failedNames>> /\ at = "update" /\ at' = "branch"
        BY <1>2, <2>1 DEF Update
      <3> QED
        BY <3>1, LocalStays DEF Suspect
    <2>2. CASE ~(cloned /\ active # Main)
      <3>1. active = Main /\ UNCHANGED active
        BY <1>2, <2>2 DEF Update, OnBranch
      <3>2. heads'[Main] = MainHead /\ tree' = main
        BY <1>2, <2>2 DEF Update, GitTypes
      <3> QED
        BY <3>1, <3>2, MainIsClean, MainHeadType DEF GitTypes
    <2> QED
      BY <2>1, <2>2
  <1>3. CASE \E b \in Branch : CreateBranch(b)
    <2>1. PICK b \in Branch : CreateBranch(b)
      BY <1>3
    <2>2. at' \in Working /\ UNCHANGED <<cmd, failedNames, tree>> /\ active' = b /\ at = "branch"
      BY <2>1 DEF CreateBranch, NextName
    <2>3. heads'[b].has = heads[active].has /\ heads'[b].base = heads[active].base /\ heads'[Main] = heads[Main]
      <3>1. heads' = WithHead(b) /\ (b \in DOMAIN heads => SameCommit(b)) /\ Main \in DOMAIN heads
        BY <2>1 DEF CreateBranch, GitTypes
      <3> QED
        BY <3>1, WithHeadType DEF SameCommit
    <2>4. Suspect = failedNames /\ Suspect' = failedNames \cup cmd.names
      BY <2>2 DEF Suspect
    <2> QED
      BY <2>2, <2>3, <2>4 DEF LocalClean, Differs
  <1>4. CASE Destroy
    <2>1. UNCHANGED <<heads, active, tree>> /\ Suspect \subseteq Suspect'
      BY <1>4 DEF Destroy, Suspect
    <2> QED
      BY <2>1, LocalStays
  <1>5. CASE Edit
    <2>1. UNCHANGED <<heads, active>> /\ Suspect' = Suspect /\ name \in Suspect
      BY <1>5 DEF Edit, Suspect, OnName
    <2>2. \A w \in Workload : w # name => tree'[w] = tree[w]
      BY <1>5 DEF Edit, GitTypes, Entries
    <2> QED
      BY <2>1, <2>2 DEF LocalClean, Differs
  <1>6. CASE Commit
    <2>1. active # Main /\ active \in DOMAIN heads /\ Main \in DOMAIN heads
      BY <1>6, NamesAssumption DEF Commit, OnBranch, GitTypes
    <2>2. UNCHANGED <<active, tree>> /\ Suspect' = Suspect
      BY <1>6 DEF Commit, Suspect
    <2>3. heads'[active].has = tree /\ heads'[active].base = heads[active].base /\ heads'[Main] = heads[Main]
      BY <1>6, <2>1 DEF Commit, GitTypes, Head
    <2> QED
      BY <2>2, <2>3 DEF LocalClean, Differs
  <1>7. CASE Push
    <2>1. UNCHANGED <<heads, active, tree>> /\ Suspect \subseteq Suspect'
      BY <1>7 DEF Push, Suspect, NextName
    <2> QED
      BY <2>1, LocalStays
  <1>8. CASE OpenPullRequest
    <2>1. UNCHANGED <<heads, active, tree>> /\ Suspect \subseteq Suspect'
      BY <1>8 DEF OpenPullRequest, Suspect
    <2> QED
      BY <2>1, LocalStays
  <1>9. CASE SwitchToMain
    BY <1>9, MainIsClean DEF SwitchToMain, LocalClean
  <1>10. CASE DeleteBranch
    <2>1. branch # Main /\ active = Main /\ Main \in DOMAIN heads
      BY <1>10, NamesAssumption DEF DeleteBranch, OnBranch, GitTypes
    <2>2. heads'[Main] = heads[Main] /\ UNCHANGED <<active, tree>>
      BY <1>10, <2>1, WithoutBranch DEF DeleteBranch
    <2>3. Suspect = failedNames /\ Suspect' = failedNames
      BY <1>10 DEF DeleteBranch, Suspect
    <2> QED
      BY <2>1, <2>2, <2>3 DEF LocalClean, Differs
  <1>11. CASE Fail /\ UNCHANGED resources
    <2>1. UNCHANGED <<heads, active, tree>> /\ Suspect \subseteq Suspect'
      BY <1>11 DEF Fail, Suspect
    <2> QED
      BY <2>1, LocalStays
  <1>12. CASE \E kind \in {"create", "delete", "all"}, names \in SUBSET Workload, d \in BOOLEAN : Ask(kind, names, d)
    <2>1. UNCHANGED <<heads, active, tree>> /\ Suspect \subseteq Suspect'
      BY <1>12 DEF Ask, Suspect
    <2> QED
      BY <2>1, LocalStays
  <1>13. CASE Repeat
    <2>1. UNCHANGED <<heads, active, tree>> /\ Suspect \subseteq Suspect'
      BY <1>13 DEF Repeat, Suspect
    <2> QED
      BY <2>1, LocalStays
  <1>14. CASE \E w \in Workload : Provision(w)
    <2>1. UNCHANGED <<heads, active, tree>> /\ Suspect \subseteq Suspect'
      BY <1>14 DEF Provision, Suspect
    <2> QED
      BY <2>1, LocalStays
  <1>15. CASE LaunchSetup
    <2>1. active' = Main /\ heads'[Main] = MainHead' /\ tree' = NoEntries /\ main' = NoEntries
      BY <1>15 DEF LaunchSetup
    <2>2. MainHead'.has = MainHead'.base /\ MainHead'.base = main'
      BY DEF MainHead
    <2> QED
      BY <2>1, <2>2, MainIsClean
  <1>16. CASE \E b \in prs : Merge(b)
    <2>1. UNCHANGED <<heads, active, tree>> /\ Suspect \subseteq Suspect'
      BY <1>16 DEF Merge, Suspect
    <2> QED
      BY <2>1, LocalStays
  <1>17. CASE \E b \in prs : Close(b)
    <2>1. UNCHANGED <<heads, active, tree>> /\ Suspect \subseteq Suspect'
      BY <1>17 DEF Close, Suspect
    <2> QED
      BY <2>1, LocalStays
  <1>18. CASE Die
    <2>1. UNCHANGED <<heads, active, tree>> /\ Suspect \subseteq Suspect'
      BY <1>18 DEF Die, Suspect
    <2> QED
      BY <2>1, LocalStays
  <1>19. CASE \E b \in Branch : StopBeforeCheckout(b)
    <2>1. PICK b \in Branch : StopBeforeCheckout(b)
      BY <1>19
    <2>2. heads' = WithHead(b) /\ UNCHANGED <<active, tree>> /\ Suspect \subseteq Suspect'
      BY <2>1 DEF StopBeforeCheckout, Suspect
    <2>3. heads'[active] = heads[active] /\ heads'[Main] = heads[Main]
      BY <2>2, WithHeadType DEF GitTypes
    <2> QED
      BY <2>2, <2>3 DEF LocalClean, Differs
  <1> QED
    BY <1>1, <1>2, <1>3, <1>4, <1>5, <1>6, <1>7, <1>8, <1>9, <1>10, <1>11, <1>12,
       <1>13, <1>14, <1>15, <1>16, <1>17, <1>18, <1>19
    DEF Next, Proceed, Users, Review, Raise, UpdateRaises, BranchRaises, DestroyRaises, PullRequestRaises

\* A step that leaves the remote alone, and the command on its branch.
LEMMA RemoteStays ==
    ASSUME RemoteClean, UNCHANGED remote, failedNames \subseteq failedNames',
           at' \in Working => at \in Working /\ UNCHANGED <<branch, cmd>>
    PROVE  RemoteClean'
  BY DEF RemoteClean, Differs

\* A branch that goes from the remote.
LEMMA RemoteShrinks ==
    ASSUME RemoteClean, NEW b, remote' = Without(remote, b), UNCHANGED <<at, branch, cmd, failedNames>>
    PROVE  RemoteClean'
  <1>1. /\ DOMAIN Without(remote, b) = DOMAIN remote \ {b}
        /\ \A x \in DOMAIN remote \ {b} : Without(remote, b)[x] = remote[x]
    BY WithoutBranch
  <1>2. \A x \in DOMAIN remote' : x \in DOMAIN remote /\ remote'[x] = remote[x]
    BY <1>1
  <1> QED
    BY <1>2 DEF RemoteClean, Differs

LEMMA RemoteCleanStep ==
    ASSUME IInv, [Next]_vars
    PROVE  RemoteClean'
  <1>. USE DEF IInv, command, hosted, local, env
  <1>1. CASE UNCHANGED vars
    BY <1>1, RemoteStays DEF vars, Working
  <1>2. CASE Update
    BY <1>2, RemoteStays DEF Update, Working
  <1>3. CASE \E b \in Branch : CreateBranch(b)
    <2>1. PICK b \in Branch : CreateBranch(b)
      BY <1>3
    <2>2. UNCHANGED <<cmd, failedNames, remote>> /\ branch' = b /\ at = "branch"
      BY <2>1 DEF CreateBranch
    <2>3. CASE cmd.kind = "create"
      <3>1. b \in Workload /\ {b} \subseteq cmd.names
        BY <2>1, <2>3 DEF CreateBranch, NameOfBranch, CommandTypes, Command
      <3> QED
        BY <2>2, <3>1 DEF RemoteClean, Differs
    <2>4. CASE cmd.kind # "create"
      <3>1. b \notin DOMAIN remote
        BY <2>1, <2>4 DEF CreateBranch, NameOfBranch, Taken
      <3> QED
        BY <2>2, <3>1 DEF RemoteClean, Differs
    <2> QED
      BY <2>3, <2>4
  <1>4. CASE Destroy
    BY <1>4, RemoteStays DEF Destroy, Working
  <1>5. CASE Edit
    BY <1>5, RemoteStays DEF Edit, Working
  <1>6. CASE Commit
    BY <1>6, RemoteStays DEF Commit, Working
  <1>7. CASE Push
    <2>1. UNCHANGED <<cmd, failedNames, branch>> /\ at = "push"
      BY <1>7 DEF Push
    <2>2. CASE UNCHANGED remote
      BY <2>1, <2>2, RemoteStays DEF Working
    <2>3. CASE Pushed
      <3> DEFINE t == [has |-> heads[active].has, base |-> heads[active].base]
      <3>1. Differs(t) \subseteq failedNames \cup cmd.names
        BY <2>1 DEF LocalClean, Differs, Suspect, Working
      <3>2. branch = active /\ (active \in Workload => cmd.names = {active})
        BY <2>1 DEF OnBranch, Working
      <3>3. remote' = With(remote, active, t)
        BY <2>3 DEF Pushed
      <3> HIDE DEF t
      <3>4. /\ DOMAIN remote' = DOMAIN remote \cup {active} /\ remote'[active] = t
            /\ \A x \in DOMAIN remote : x # active => remote'[x] = remote[x]
        BY <3>3 DEF With
      <3>5. \A b \in Workload \cap DOMAIN remote' : Differs(remote'[b]) \subseteq failedNames \cup {b}
        BY <3>1, <3>2, <3>4 DEF RemoteClean
      <3>6. Differs(remote'[branch]) \subseteq failedNames \cup cmd.names
        BY <3>1, <3>2, <3>4
      <3> QED
        BY <2>1, <3>5, <3>6 DEF RemoteClean, Differs
    <2> QED
      BY <1>7, <2>2, <2>3 DEF Push
  <1>8. CASE OpenPullRequest
    BY <1>8, RemoteStays DEF OpenPullRequest, Working
  <1>9. CASE SwitchToMain
    BY <1>9, RemoteStays DEF SwitchToMain, Working
  <1>10. CASE DeleteBranch
    BY <1>10, RemoteStays DEF DeleteBranch, Working
  <1>11. CASE Fail /\ UNCHANGED resources
    BY <1>11, RemoteStays DEF Fail, Working
  <1>12. CASE \E kind \in {"create", "delete", "all"}, names \in SUBSET Workload, d \in BOOLEAN : Ask(kind, names, d)
    BY <1>12, RemoteStays DEF Ask, Working
  <1>13. CASE Repeat
    BY <1>13, RemoteStays DEF Repeat, Working
  <1>14. CASE \E w \in Workload : Provision(w)
    BY <1>14, RemoteStays DEF Provision, Working
  <1>15. CASE LaunchSetup
    BY <1>15, RemoteStays DEF LaunchSetup, Working
  <1>16. CASE \E b \in prs : Merge(b)
    BY <1>16, RemoteShrinks DEF Merge
  <1>17. CASE \E b \in prs : Close(b)
    <2>1. PICK b \in prs : Close(b)
      BY <1>17
    <2>2. CASE BranchesStay
      BY <2>1, <2>2, RemoteStays DEF Close
    <2>3. CASE ~BranchesStay
      BY <2>1, <2>3, RemoteShrinks DEF Close
    <2> QED
      BY <2>2, <2>3
  <1>18. CASE Die
    BY <1>18, RemoteStays DEF Die, Working
  <1>19. CASE \E b \in Branch : StopBeforeCheckout(b)
    BY <1>19, RemoteStays DEF StopBeforeCheckout, Working
  <1> QED
    BY <1>1, <1>2, <1>3, <1>4, <1>5, <1>6, <1>7, <1>8, <1>9, <1>10, <1>11, <1>12,
       <1>13, <1>14, <1>15, <1>16, <1>17, <1>18, <1>19
    DEF Next, Proceed, Users, Review, Raise, UpdateRaises, BranchRaises, DestroyRaises, PullRequestRaises

\* The remaining types.
LEMMA OtherTypesStep ==
    ASSUME OtherTypes, [Next]_vars
    PROVE  OtherTypes'
  <1>. USE ConstantsAssumption DEF OtherTypes, command, hosted, local, env
  <1>1. CASE UNCHANGED vars
    BY <1>1 DEF vars
  <1>2. CASE Update
    BY <1>2 DEF Update
  <1>3. CASE \E b \in Branch : CreateBranch(b)
    BY <1>3 DEF CreateBranch
  <1>4. CASE Destroy
    BY <1>4 DEF Destroy
  <1>5. CASE Edit
    BY <1>5 DEF Edit
  <1>6. CASE Commit
    BY <1>6 DEF Commit
  <1>7. CASE Push
    BY <1>7 DEF Push
  <1>8. CASE OpenPullRequest
    BY <1>8 DEF OpenPullRequest
  <1>9. CASE SwitchToMain
    BY <1>9 DEF SwitchToMain
  <1>10. CASE DeleteBranch
    BY <1>10 DEF DeleteBranch
  <1>11. CASE Fail /\ UNCHANGED resources
    BY <1>11 DEF Fail
  <1>12. CASE \E kind \in {"create", "delete", "all"}, names \in SUBSET Workload, d \in BOOLEAN : Ask(kind, names, d)
    BY <1>12 DEF Ask
  <1>13. CASE Repeat
    BY <1>13 DEF Repeat
  <1>14. CASE \E w \in Workload : Provision(w)
    BY <1>14 DEF Provision
  <1>15. CASE LaunchSetup
    <2>1. launches' = launches + 1 /\ launches < MaxLaunches /\ cloned' = FALSE
      BY <1>15 DEF LaunchSetup
    <2>2. UNCHANGED <<failed, resources, faults>>
      BY <1>15 DEF LaunchSetup
    <2>3. launches' \in 0..MaxLaunches
      BY <2>1
    <2> QED
      BY <2>1, <2>2, <2>3
  <1>16. CASE \E b \in prs : Merge(b)
    BY <1>16 DEF Merge
  <1>17. CASE \E b \in prs : Close(b)
    BY <1>17 DEF Close
  <1>18. CASE Die
    BY <1>18 DEF Die
  <1>19. CASE \E b \in Branch : StopBeforeCheckout(b)
    BY <1>19 DEF StopBeforeCheckout
  <1> QED
    BY <1>1, <1>2, <1>3, <1>4, <1>5, <1>6, <1>7, <1>8, <1>9, <1>10, <1>11, <1>12,
       <1>13, <1>14, <1>15, <1>16, <1>17, <1>18, <1>19
    DEF Next, Proceed, Users, Review, Raise, UpdateRaises, BranchRaises, DestroyRaises, PullRequestRaises

\* Only one step opens a pull request, and it needs the branch on the remote.
LEMMA Opens ==
    ASSUME [Next]_vars, at = "pr", at' = "switch"
    PROVE  branch \in DOMAIN remote
  <1>. USE DEF command, hosted, local, env
  <1>1. CASE UNCHANGED vars
    BY <1>1 DEF vars
  <1>2. CASE Update
    BY <1>2 DEF Update
  <1>3. CASE \E b \in Branch : CreateBranch(b)
    BY <1>3 DEF CreateBranch
  <1>4. CASE Destroy
    BY <1>4 DEF Destroy
  <1>5. CASE Edit
    BY <1>5 DEF Edit
  <1>6. CASE Commit
    BY <1>6 DEF Commit
  <1>7. CASE Push
    BY <1>7 DEF Push
  <1>8. CASE OpenPullRequest
    BY <1>8 DEF OpenPullRequest
  <1>9. CASE SwitchToMain
    BY <1>9 DEF SwitchToMain
  <1>10. CASE DeleteBranch
    BY <1>10 DEF DeleteBranch
  <1>11. CASE Fail /\ UNCHANGED resources
    BY <1>11 DEF Fail
  <1>12. CASE \E kind \in {"create", "delete", "all"}, names \in SUBSET Workload, d \in BOOLEAN : Ask(kind, names, d)
    BY <1>12 DEF Ask
  <1>13. CASE Repeat
    BY <1>13 DEF Repeat
  <1>14. CASE \E w \in Workload : Provision(w)
    BY <1>14 DEF Provision
  <1>15. CASE LaunchSetup
    BY <1>15 DEF LaunchSetup
  <1>16. CASE \E b \in prs : Merge(b)
    BY <1>16 DEF Merge
  <1>17. CASE \E b \in prs : Close(b)
    BY <1>17 DEF Close
  <1>18. CASE Die
    BY <1>18 DEF Die
  <1>19. CASE \E b \in Branch : StopBeforeCheckout(b)
    BY <1>19 DEF StopBeforeCheckout
  <1> QED
    BY <1>1, <1>2, <1>3, <1>4, <1>5, <1>6, <1>7, <1>8, <1>9, <1>10, <1>11, <1>12,
       <1>13, <1>14, <1>15, <1>16, <1>17, <1>18, <1>19
    DEF Next, Proceed, Users, Review, Raise, UpdateRaises, BranchRaises, DestroyRaises, PullRequestRaises

\* Only one step destroys anything.
LEMMA Destroys ==
    ASSUME [Next]_vars, ~Destroy
    PROVE  resources \subseteq resources'
  <1>. USE DEF command, hosted, local, env
  <1>1. CASE UNCHANGED vars
    BY <1>1 DEF vars
  <1>2. CASE Update
    BY <1>2 DEF Update
  <1>3. CASE \E b \in Branch : CreateBranch(b)
    BY <1>3 DEF CreateBranch
  <1>4. CASE Destroy
    BY <1>4
  <1>5. CASE Edit
    BY <1>5 DEF Edit
  <1>6. CASE Commit
    BY <1>6 DEF Commit
  <1>7. CASE Push
    BY <1>7 DEF Push
  <1>8. CASE OpenPullRequest
    BY <1>8 DEF OpenPullRequest
  <1>9. CASE SwitchToMain
    BY <1>9 DEF SwitchToMain
  <1>10. CASE DeleteBranch
    BY <1>10 DEF DeleteBranch
  <1>11. CASE Fail /\ UNCHANGED resources
    BY <1>11 DEF Fail
  <1>12. CASE \E kind \in {"create", "delete", "all"}, names \in SUBSET Workload, d \in BOOLEAN : Ask(kind, names, d)
    BY <1>12 DEF Ask
  <1>13. CASE Repeat
    BY <1>13 DEF Repeat
  <1>14. CASE \E w \in Workload : Provision(w)
    BY <1>14 DEF Provision
  <1>15. CASE LaunchSetup
    BY <1>15 DEF LaunchSetup
  <1>16. CASE \E b \in prs : Merge(b)
    BY <1>16 DEF Merge
  <1>17. CASE \E b \in prs : Close(b)
    BY <1>17 DEF Close
  <1>18. CASE Die
    BY <1>18 DEF Die
  <1>19. CASE \E b \in Branch : StopBeforeCheckout(b)
    BY <1>19 DEF StopBeforeCheckout
  <1> QED
    BY <1>1, <1>2, <1>3, <1>4, <1>5, <1>6, <1>7, <1>8, <1>9, <1>10, <1>11, <1>12,
       <1>13, <1>14, <1>15, <1>16, <1>17, <1>18, <1>19
    DEF Next, Proceed, Users, Review, Raise, UpdateRaises, BranchRaises, DestroyRaises, PullRequestRaises

\* What may be on the branches, local and remote, that a command works with.
THEOREM Inductive == Spec => []IInv
  <1>1. IInv /\ [Next]_vars => IInv'
    BY CommandTypesStep, GitTypesStep, OnBranchStep, OnNameStep, LocalCleanStep, RemoteCleanStep DEF IInv
  <1> QED
    BY InitIInv, <1>1, PTL DEF Spec

\* The types.
THEOREM TypeCorrect == Spec => []TypeOK
  <1>1. Init => OtherTypes
    <2> SUFFICES ASSUME Init PROVE OtherTypes
      OBVIOUS
    <2>1. faults \in 0..MaxFaults /\ launches \in 0..MaxLaunches
      BY ConstantsAssumption DEF Init
    <2>2. failed = FALSE /\ cloned = FALSE /\ resources = {}
      BY DEF Init
    <2> QED
      BY <2>1, <2>2 DEF OtherTypes
  <1>2. OtherTypes /\ [Next]_vars => OtherTypes'
    BY OtherTypesStep
  <1>3. IInv /\ OtherTypes => TypeOK
    BY DEF IInv, CommandTypes, GitTypes, OtherTypes, TypeOK
  <1> QED
    BY Inductive, <1>1, <1>2, <1>3, PTL DEF Spec

\* A pull request that opens changes workloads of its command, or of one that
\* failed before: with any users, reviewers, faults and launches of setup.
THEOREM OnlyNamedOrFailedAlways == Spec => OnlyNamedOrFailed
  <1>1. IInv /\ [Next]_vars =>
          [at = "pr" /\ at' = "switch" => Changes(branch) \subseteq cmd.names \cup failedNames]_vars
    BY Opens DEF IInv, RemoteClean, Working, Changes, Differs
  <1> QED
    BY Inductive, <1>1, PTL DEF Spec, OnlyNamedOrFailed

\* Resources are destroyed for a workload the running command names.
THEOREM DestroysOnlyNamedAlways == Spec => DestroysOnlyNamed
  <1>1. IInv /\ [Next]_vars =>
          [\A w \in resources \ resources' : cmd.destroy /\ w \in cmd.names]_vars
    <2> SUFFICES ASSUME IInv, [Next]_vars PROVE \A w \in resources \ resources' : cmd.destroy /\ w \in cmd.names
      OBVIOUS
    <2> USE DEF command, hosted, local, env
    <2>1. CASE Destroy
      BY <2>1 DEF Destroy, IInv, OnName, Working
    <2>2. CASE ~Destroy
      BY <2>2, Destroys
    <2> QED
      BY <2>1, <2>2
  <1> QED
    BY Inductive, <1>1, PTL DEF Spec, DestroysOnlyNamed

\* What a step may be.
LEMMA Steps ==
    ASSUME [Next]_vars
    PROVE  \/ UNCHANGED vars
           \/ Update \/ (\E b \in Branch : CreateBranch(b)) \/ Destroy \/ Edit \/ Commit \/ Push
           \/ OpenPullRequest \/ SwitchToMain \/ DeleteBranch \/ Raise \/ Die
           \/ (\E b \in Branch : StopBeforeCheckout(b))
           \/ (\E kind \in {"create", "delete", "all"}, names \in SUBSET Workload, d \in BOOLEAN :
                 Ask(kind, names, d))
           \/ Repeat \/ (\E w \in Workload : Provision(w)) \/ LaunchSetup
           \/ (\E b \in prs : Merge(b)) \/ (\E b \in prs : Close(b))
  BY DEF Next, Proceed, Users, Review

\* Where one workload is deleted, its own resources are gone once the loop has
\* passed the place that destroys: wl_gitops_repo_name can only be its own.
Gone ==
    at \in {"edit", "commit"} /\ cmd.destroy /\ cmd.names = {name} => name \notin resources

LEMMA GoneStep ==
    ASSUME IInv, Gone, [Next]_vars
    PROVE  Gone'
  <1>. USE DEF Gone, command, hosted, local, env
  <1>1. CASE UNCHANGED vars
    BY <1>1 DEF vars
  <1>2. CASE Update
    BY <1>2 DEF Update
  <1>3. CASE \E b \in Branch : CreateBranch(b)
    BY <1>3 DEF CreateBranch, NextName
  <1>4. CASE Destroy
    <2>1. cmd.names = {name} => wlRepo' = name
      BY <1>4 DEF Destroy, IInv, OnName, Working
    <2>2. resources' = resources \ {wlRepo'} /\ UNCHANGED <<cmd, name>>
      BY <1>4 DEF Destroy
    <2> QED
      BY <2>1, <2>2
  <1>5. CASE Edit
    BY <1>5 DEF Edit
  <1>6. CASE Commit
    BY <1>6 DEF Commit
  <1>7. CASE Push
    BY <1>7 DEF Push, NextName
  <1>8. CASE OpenPullRequest
    BY <1>8 DEF OpenPullRequest
  <1>9. CASE SwitchToMain
    BY <1>9 DEF SwitchToMain
  <1>10. CASE DeleteBranch
    BY <1>10 DEF DeleteBranch
  <1>11. CASE Raise \/ Die
    BY <1>11 DEF Raise, UpdateRaises, BranchRaises, DestroyRaises, PullRequestRaises, Fail, Die
  <1>12. CASE \E kind \in {"create", "delete", "all"}, names \in SUBSET Workload, d \in BOOLEAN : Ask(kind, names, d)
    BY <1>12 DEF Ask
  <1>13. CASE Repeat
    BY <1>13 DEF Repeat
  <1>14. CASE \E w \in Workload : Provision(w)
    BY <1>14 DEF Provision
  <1>15. CASE LaunchSetup
    BY <1>15 DEF LaunchSetup
  <1>16. CASE \E b \in prs : Merge(b) \/ Close(b)
    BY <1>16 DEF Merge, Close
  <1>17. CASE \E b \in Branch : StopBeforeCheckout(b)
    BY <1>17 DEF StopBeforeCheckout
  <1> QED
    BY <1>1, <1>2, <1>3, <1>4, <1>5, <1>6, <1>7, <1>8, <1>9, <1>10, <1>11, <1>12,
       <1>13, <1>14, <1>15, <1>16, <1>17, Steps

\* A deletion of one workload with --destroy-resources, once it commits, has
\* destroyed that workload's resources: for any users, reviewers and faults.
THEOREM OneDestroyedAsAskedAlways == Spec => OneDestroyedAsAsked
  <1>1. Init => Gone
    BY DEF Init, Gone
  <1>2. IInv /\ Gone /\ [Next]_vars => Gone'
    BY GoneStep
  <1>3. Gone =>
          [at = "commit" /\ cmd.destroy /\ cmd.names = {name} /\ at' = "push" =>
              name \notin resources]_vars
    BY DEF Gone
  <1> QED
    BY Inductive, <1>1, <1>2, <1>3, PTL DEF Spec, OneDestroyedAsAsked

\* Users who wait for open pull requests, and no faults: there is no pull
\* request while a command is on its way to one, so main stands still and what
\* it deletes is there.
Waiting == {"update", "branch", "destroy", "edit", "commit", "push", "pr"}

Undisturbed ==
    /\ at \in Waiting => prs = {}
    /\ cmd.kind = "create" => ~cmd.destroy
    /\ at \in Waiting /\ cmd.kind = "delete" => cmd.names \subseteq Listed(main)
    /\ at \in Waiting \ {"update"} /\ cmd.kind = "all" => cmd.names \subseteq Listed(main)
    /\ at = "update" => IF cmd.kind = "all" THEN Listed(main) # {} ELSE cmd.names # {}
    /\ at = "branch" => todo = cmd.names /\ cmd.names # {}

\* The clone has main and the branch of the command, which will be on the
\* remote when the pull request is asked for.
Tidy ==
    /\ at \in {"off", "update", "branch"} => active = Main /\ DOMAIN heads = {Main}
    /\ at \in Working \cup {"tidy"} => DOMAIN heads = {Main, branch}
    /\ at = "off" => ~failed
    /\ at \in Working \ {"pr", "switch"} /\ heads[active].diverged => branch \in DOMAIN remote
    /\ at = "pr" => branch \in DOMAIN remote

Clean == faults = 0 => Undisturbed /\ Tidy

LEMMA InitClean == Init => Clean
  <1> SUFFICES ASSUME Init PROVE Undisturbed /\ Tidy
    BY DEF Clean
  <1> QED
    BY DEF Init, Undisturbed, Tidy, Waiting, Working

\* Until faults happen, or if none did.
LEMMA FaultsGrow ==
    ASSUME OtherTypes, [Next]_vars, faults' = 0
    PROVE  faults = 0 /\ ~Die /\ ~(\E b \in Branch : StopBeforeCheckout(b))
  <1>. USE DEF command, hosted, local, env
  <1>1. faults \in Nat /\ faults + 1 # 0
    BY ConstantsAssumption DEF OtherTypes
  <1>2. ~Die /\ ~(\E b \in Branch : StopBeforeCheckout(b))
    BY <1>1 DEF Die, StopBeforeCheckout
  <1>3. faults' \in {faults, faults + 1}
    BY <1>2, Steps DEF vars, Update, CreateBranch, Destroy, Edit, Commit, Push, OpenPullRequest,
       SwitchToMain, DeleteBranch, Raise, UpdateRaises, BranchRaises, DestroyRaises, PullRequestRaises,
       Fail, Ask, Repeat, Provision, LaunchSetup, Merge, Close
  <1> QED
    BY <1>1, <1>2, <1>3

\* Nothing is refused.
LEMMA NothingRefused ==
    ASSUME IInv, Undisturbed, Tidy
    PROVE  ~(UpdateRefused \/ BranchRefused \/ DestroyRefused \/ PullRequestRefused)
  <1>1. ~UpdateRefused
    BY DEF UpdateRefused, Updatable, Tidy
  <1>2. ~BranchRefused
    BY DEF BranchRefused, Tidy, Undisturbed
  <1>3. ~DestroyRefused
    <2> SUFFICES ASSUME at = "destroy" PROVE main[IF wlRepo = None THEN name ELSE wlRepo] # 0
      BY DEF DestroyRefused
    <2>1. cmd.destroy /\ cmd.kind # "create" /\ cmd.names \subseteq Listed(main)
      BY DEF IInv, OnName, Undisturbed, Waiting, CommandTypes, Command
    <2>2. (IF wlRepo = None THEN name ELSE wlRepo) \in cmd.names
      BY DEF IInv, OnName, Working
    <2> QED
      BY <2>1, <2>2 DEF Listed
  <1>4. ~PullRequestRefused
    BY DEF PullRequestRefused, Tidy, Undisturbed, Waiting
  <1> QED
    BY <1>1, <1>2, <1>3, <1>4

LEMMA UndisturbedStep ==
    ASSUME OneByOne, IInv, OtherTypes, Undisturbed, Tidy, [Next]_vars, faults = 0, faults' = 0,
           ~Die, ~(\E b \in Branch : StopBeforeCheckout(b))
    PROVE  Undisturbed'
  <1>. USE DEF Undisturbed, Waiting, command, hosted, local, env
  <1>1. CASE UNCHANGED vars
    BY <1>1 DEF vars, Listed
  <1>2. CASE Update
    <2>1. cmd' = [cmd EXCEPT !.names = IF cmd.kind = "all" THEN Listed(tree') ELSE @]
      BY <1>2 DEF Update
    <2>2. /\ cmd'.kind = cmd.kind /\ cmd'.destroy = cmd.destroy
          /\ cmd'.names = IF cmd.kind = "all" THEN Listed(tree') ELSE cmd.names
      BY <2>1 DEF IInv, CommandTypes, Command
    <2>3. tree' = main /\ UNCHANGED main /\ at' = "branch" /\ todo' = cmd'.names /\ UNCHANGED prs
      BY <1>2 DEF Update, Tidy
    <2> QED
      BY <1>2, <2>2, <2>3 DEF Update, Listed
  <1>3. CASE \E b \in Branch : CreateBranch(b)
    BY <1>3 DEF CreateBranch, NextName, Listed
  <1>4. CASE Destroy
    BY <1>4 DEF Destroy, Listed
  <1>5. CASE Edit
    BY <1>5 DEF Edit, Listed
  <1>6. CASE Commit
    BY <1>6 DEF Commit, Listed
  <1>7. CASE Push
    BY <1>7 DEF Push, NextName, Listed
  <1>8. CASE OpenPullRequest
    BY <1>8 DEF OpenPullRequest
  <1>9. CASE SwitchToMain
    BY <1>9 DEF SwitchToMain
  <1>10. CASE DeleteBranch
    BY <1>10 DEF DeleteBranch
  <1>11. CASE Raise
    BY <1>11 DEF Raise, UpdateRaises, BranchRaises, DestroyRaises, PullRequestRaises, Fail
  <1>12. CASE \E kind \in {"create", "delete", "all"}, names \in SUBSET Workload, d \in BOOLEAN : Ask(kind, names, d)
    <2>1. PICK kind \in {"create", "delete", "all"}, names \in SUBSET Workload, d \in BOOLEAN : Ask(kind, names, d)
      BY <1>12
    <2>2. cmd'.kind = kind /\ cmd'.names = names /\ cmd'.destroy = d
      BY <2>1 DEF Ask
    <2>3. kind # "all" => names # {}
      BY <2>1, FS_EmptySet, ConstantsAssumption DEF Ask
    <2>4. kind = "all" => Listed(main) # {}
      BY <2>1, FS_EmptySet, ConstantsAssumption DEF Ask
    <2>5. faults + 1 # faults
      OBVIOUS
    <2>6. ~Mistyped(kind, names)
      BY <2>1, <2>5 DEF Ask
    <2> QED
      BY <2>1, <2>2, <2>3, <2>4, <2>6 DEF Ask, Listed, Mistyped
  <1>13. CASE Repeat
    BY <1>13 DEF Repeat, Tidy
  <1>14. CASE \E w \in Workload : Provision(w)
    BY <1>14 DEF Provision
  <1>15. CASE LaunchSetup
    BY <1>15 DEF LaunchSetup
  <1>16. CASE \E b \in prs : Merge(b) \/ Close(b)
    BY <1>16 DEF Merge, Close
  <1> QED
    BY <1>1, <1>2, <1>3, <1>4, <1>5, <1>6, <1>7, <1>8, <1>9, <1>10, <1>11, <1>12,
       <1>13, <1>14, <1>15, <1>16, Steps

LEMMA TidyStep ==
    ASSUME IInv, Undisturbed, Tidy, [Next]_vars, faults = 0, faults' = 0,
           ~Die, ~(\E b \in Branch : StopBeforeCheckout(b))
    PROVE  Tidy'
  <1>. USE DEF Tidy, Working, command, hosted, local, env
  <1>1. CASE UNCHANGED vars
    BY <1>1 DEF vars
  <1>2. CASE Update
    BY <1>2 DEF Update
  <1>3. CASE \E b \in Branch : CreateBranch(b)
    <2>1. PICK b \in Branch : CreateBranch(b)
      BY <1>3
    <2>5. heads' = WithHead(b) /\ UNCHANGED <<remote, failed>> /\ branch' = b /\ active' = b
      BY <2>1 DEF CreateBranch
    <2>2. b \notin DOMAIN heads /\ DOMAIN heads = {Main} /\ todo # {}
      BY <2>1, NamesAssumption DEF CreateBranch
    <2>3. DOMAIN heads' = {Main, b} /\ heads'[b].diverged = (b \in DOMAIN remote)
      BY <2>5, <2>2, WithHeadType DEF IInv
    <2>4. at' \in {"destroy", "edit"}
      BY <2>1, <2>2 DEF CreateBranch, NextName
    <2> QED
      BY <2>5, <2>3, <2>4
  <1>4. CASE Destroy
    BY <1>4 DEF Destroy
  <1>5. CASE Edit
    BY <1>5 DEF Edit
  <1>6. CASE Commit
    <2>1. active \in DOMAIN heads /\ heads[active] \in Head /\ branch = active
      BY <1>6 DEF Commit, IInv, GitTypes, OnBranch
    <2>2. DOMAIN heads' = DOMAIN heads /\ heads'[active].diverged = heads[active].diverged
      BY <1>6, <2>1 DEF Commit, Head
    <2> QED
      BY <1>6, <2>1, <2>2 DEF Commit
  <1>7. CASE Push
    <2>1. branch = active /\ UNCHANGED <<heads, active, branch, failed>>
      BY <1>7 DEF Push, IInv, OnBranch
    <2>2. branch \in DOMAIN remote'
      <3>1. CASE Pushed
        <4>1. DOMAIN remote' = DOMAIN remote \cup {active}
          BY <3>1 DEF Pushed, With
        <4> QED
          BY <2>1, <4>1
      <3>2. CASE heads[active].diverged /\ UNCHANGED remote
        BY <1>7, <2>1, <3>2 DEF Push
      <3>3. faults' # faults + 1
        OBVIOUS
      <3> QED
        BY <1>7, <3>1, <3>2, <3>3 DEF Push
    <2> QED
      BY <1>7, <2>1, <2>2 DEF Push, NextName
  <1>8. CASE OpenPullRequest
    BY <1>8 DEF OpenPullRequest
  <1>9. CASE SwitchToMain
    BY <1>9 DEF SwitchToMain
  <1>10. CASE DeleteBranch
    <2>1. branch # Main /\ active = Main
      BY <1>10, NamesAssumption DEF DeleteBranch, IInv, OnBranch
    <2>2. DOMAIN heads' = DOMAIN heads \ {branch}
      BY <1>10, WithoutBranch DEF DeleteBranch
    <2> QED
      BY <1>10, <2>1, <2>2 DEF DeleteBranch
  <1>11. CASE Raise
    BY <1>11, NothingRefused DEF Raise, UpdateRaises, BranchRaises, DestroyRaises, PullRequestRaises
  <1>12. CASE \E kind \in {"create", "delete", "all"}, names \in SUBSET Workload, d \in BOOLEAN : Ask(kind, names, d)
    BY <1>12 DEF Ask
  <1>13. CASE Repeat
    BY <1>13 DEF Repeat
  <1>14. CASE \E w \in Workload : Provision(w)
    BY <1>14 DEF Provision
  <1>15. CASE LaunchSetup
    BY <1>15 DEF LaunchSetup
  <1>16. CASE \E b \in prs : Merge(b) \/ Close(b)
    <2>1. at \notin Waiting
      BY <1>16 DEF Undisturbed
    <2>2. UNCHANGED <<at, active, heads, branch, failed>>
      BY <1>16 DEF Merge, Close
    <2> QED
      BY <2>1, <2>2 DEF Waiting
  <1> QED
    BY <1>1, <1>2, <1>3, <1>4, <1>5, <1>6, <1>7, <1>8, <1>9, <1>10, <1>11, <1>12,
       <1>13, <1>14, <1>15, <1>16, Steps

LEMMA CleanStep ==
    ASSUME OneByOne, IInv, OtherTypes, Clean, [Next]_vars
    PROVE  Clean'
  <1> SUFFICES ASSUME faults' = 0 PROVE (Undisturbed /\ Tidy)'
    BY DEF Clean
  <1>1. faults = 0 /\ ~Die /\ ~(\E b \in Branch : StopBeforeCheckout(b))
    BY FaultsGrow
  <1> QED
    BY <1>1, UndisturbedStep, TidyStep DEF Clean

\* Users who wait for open pull requests, and no fault: no command raises, and
\* each leaves main checked out and no branch behind, whatever it names,
\* whatever becomes of the pull requests, and however often setup is launched.
THEOREM CleanWithoutFaultsAlways ==
    ASSUME OneByOne
    PROVE  Spec => []CleanWithoutFaults
  <1>1. IInv /\ OtherTypes /\ Clean /\ [Next]_vars => Clean'
    BY CleanStep
  <1>2. IInv /\ Clean => CleanWithoutFaults
    BY NothingRefused DEF Clean, CleanWithoutFaults, Tidy
  <1>3. TypeOK => OtherTypes
    BY DEF TypeOK, OtherTypes
  <1> QED
    BY Inductive, TypeCorrect, InitClean, <1>1, <1>2, <1>3, PTL DEF Spec

\* What the command wants of its workloads.
Wanted == IF cmd.kind = "create" THEN cmd.id ELSE 0

\* One at most, while nothing has failed.
AtMostOne(S) == \A v, w \in S : v = w

\* A branch on the remote is one of the clone, but for those of pull requests
\* that are open; so none of the clone has diverged.
Known ==
    /\ \A b \in DOMAIN heads : ~heads[b].diverged
    /\ DOMAIN remote \subseteq DOMAIN heads \cup prs
    /\ at # "off" \/ failed => DOMAIN remote \subseteq DOMAIN heads
    /\ at \in {"switch", "tidy"} => branch \in prs \/ branch \notin DOMAIN remote

\* A push that fails leaves no earlier one of the same branch there.
FirstPush ==
    faults = 0 =>
        /\ \A b \in DOMAIN remote : b \in prs \/ (at = "pr" /\ b = branch)
        /\ at = "update" /\ cmd.kind = "all" => AtMostOne(Listed(main))
        /\ AtMostOne(cmd.names)

\* What has been dealt with is as wanted in the tree, the tree is committed, and
\* the commit pushed.
Dealt ==
    /\ at = "branch" => todo = cmd.names
    /\ at \in {"destroy", "edit", "commit", "push"} => name \notin todo
    /\ at \in {"destroy", "edit"} => \A w \in cmd.names \ (todo \cup {name}) : tree[w] = Wanted
    /\ at \in {"commit", "push"} => \A w \in cmd.names \ todo : tree[w] = Wanted
    /\ at = "pr" => \A w \in cmd.names : tree[w] = Wanted
    /\ at \in {"push", "pr"} => heads[active].has = tree
    /\ at = "pr" /\ branch \in DOMAIN remote => remote[branch].has = heads[branch].has

Reviewed == Known /\ FirstPush /\ Dealt

LEMMA InitReviewed == Init => Reviewed
  <1> SUFFICES ASSUME Init PROVE Reviewed
    OBVIOUS
  <1>1. DOMAIN remote = {} /\ DOMAIN heads = {Main} /\ heads[Main] = MainHead
    BY DEF Init
  <1>2. Known
    BY <1>1 DEF Init, Known, MainHead
  <1>3. FirstPush
    BY <1>1 DEF Init, FirstPush, AtMostOne
  <1>4. Dealt
    BY DEF Init, Dealt
  <1> QED
    BY <1>2, <1>3, <1>4 DEF Reviewed

\* A new head has diverged only if the remote has its branch.
LEMMA NoneDiverged ==
    ASSUME GitTypes, NEW b \in Branch, \A x \in DOMAIN heads : ~heads[x].diverged,
           b \notin DOMAIN heads => b \notin DOMAIN remote
    PROVE  /\ DOMAIN WithHead(b) = DOMAIN heads \cup {b}
           /\ \A x \in DOMAIN heads \cup {b} : ~WithHead(b)[x].diverged
  <1>1. \A x \in DOMAIN heads : WithHead(b)[x] = heads[x]
    BY WithHeadType
  <1>2. b \notin DOMAIN heads => WithHead(b)[b].diverged = (b \in DOMAIN remote)
    BY WithHeadType
  <1>3. ~WithHead(b)[b].diverged
    <2>1. CASE b \in DOMAIN heads
      BY <2>1, <1>1
    <2>2. CASE b \notin DOMAIN heads
      BY <2>2, <1>2, Zenon
    <2> QED
      BY <2>1, <2>2
  <1> QED
    BY <1>1, <1>3, WithHeadType

LEMMA KnownStep ==
    ASSUME OneByOne, BranchesStay = FALSE, MaxLaunches = 0, IInv, OtherTypes, Known, [Next]_vars
    PROVE  Known'
  <1>. USE DEF Known, command, hosted, local, env
  <1>1. CASE UNCHANGED vars
    BY <1>1 DEF vars
  <1>2. CASE Update
    <2>1. UNCHANGED <<remote, prs>> /\ at = "update" /\ at' = "branch"
      BY <1>2 DEF Update
    <2>2. DOMAIN heads' = DOMAIN heads /\ \A b \in DOMAIN heads' : heads'[b] \in {heads[b], MainHead}
      BY <1>2 DEF Update
    <2>3. ~MainHead.diverged
      BY DEF MainHead
    <2> QED
      BY <2>1, <2>2, <2>3
  <1>3. CASE \E b \in Branch : CreateBranch(b)
    <2>1. PICK b \in Branch : CreateBranch(b)
      BY <1>3
    <2>2. UNCHANGED <<remote, prs>> /\ at = "branch" /\ at' \in {"destroy", "edit", "pr"}
      BY <2>1 DEF CreateBranch, NextName
    <2>3. heads' = WithHead(b)
      BY <2>1 DEF CreateBranch
    <2>4. DOMAIN heads' = DOMAIN heads \cup {b} /\ \A x \in DOMAIN heads' : ~heads'[x].diverged
      <3>1. b \notin DOMAIN heads => b \notin DOMAIN remote
        BY <2>2
      <3> QED
        BY <2>3, <3>1, NoneDiverged DEF IInv
    <2> QED
      BY <2>2, <2>4
  <1>4. CASE Destroy
    BY <1>4 DEF Destroy
  <1>5. CASE Edit
    BY <1>5 DEF Edit
  <1>6. CASE Commit
    <2>1. DOMAIN heads' = DOMAIN heads /\ \A b \in DOMAIN heads : heads'[b].diverged = heads[b].diverged
      BY <1>6 DEF Commit, IInv, GitTypes, Head
    <2> QED
      BY <1>6, <2>1 DEF Commit
  <1>7. CASE Push
    <2>1. at = "push" /\ at' \in {"destroy", "edit", "pr"} /\ UNCHANGED <<heads, prs>>
      BY <1>7 DEF Push, NextName
    <2>2. active \in DOMAIN heads
      BY DEF IInv, GitTypes
    <2>3. DOMAIN remote' \subseteq DOMAIN remote \cup {active}
      BY <1>7 DEF Push, Pushed, With
    <2> QED
      BY <2>1, <2>2, <2>3
  <1>8. CASE OpenPullRequest
    BY <1>8 DEF OpenPullRequest
  <1>9. CASE SwitchToMain
    BY <1>9 DEF SwitchToMain
  <1>10. CASE DeleteBranch
    <2>1. DOMAIN heads' = DOMAIN heads \ {branch} /\ \A b \in DOMAIN heads' : heads'[b] = heads[b]
      BY <1>10, WithoutBranch DEF DeleteBranch
    <2>2. at = "tidy" /\ at' = "off" /\ ~failed' /\ UNCHANGED <<remote, prs>>
      BY <1>10 DEF DeleteBranch
    <2> QED
      BY <2>1, <2>2
  <1>11. CASE Raise \/ Die
    <2>1. at' = "off" /\ UNCHANGED <<failed, hosted, heads>>
      BY <1>11 DEF Raise, UpdateRaises, BranchRaises, DestroyRaises, PullRequestRaises, Fail, Die
    <2>2. at # "off"
      BY <1>11 DEF Raise, UpdateRaises, BranchRaises, DestroyRaises, PullRequestRaises, UpdateRefused,
         BranchRefused, DestroyRefused, PullRequestRefused, Die
    <2> QED
      BY <2>1, <2>2
  <1>12. CASE \E kind \in {"create", "delete", "all"}, names \in SUBSET Workload, d \in BOOLEAN : Ask(kind, names, d)
    BY <1>12 DEF Ask
  <1>13. CASE Repeat
    BY <1>13 DEF Repeat
  <1>14. CASE \E w \in Workload : Provision(w)
    BY <1>14 DEF Provision
  <1>15. CASE LaunchSetup
    BY <1>15 DEF LaunchSetup, OtherTypes
  <1>16. CASE \E b \in prs : Merge(b) \/ Close(b)
    <2>1. PICK b \in prs : Merge(b) \/ Close(b)
      BY <1>16
    <2>2. remote' = Without(remote, b) /\ prs' = prs \ {b} /\ UNCHANGED <<at, failed, branch, heads>>
      BY <2>1 DEF Merge, Close
    <2>3. DOMAIN remote' = DOMAIN remote \ {b}
      BY <2>2 DEF Without
    <2> QED
      BY <2>2, <2>3
  <1>17. CASE \E b \in Branch : StopBeforeCheckout(b)
    <2>1. PICK b \in Branch : StopBeforeCheckout(b)
      BY <1>17
    <2>2. heads' = WithHead(b) /\ at' = "off" /\ at = "branch" /\ b \notin DOMAIN heads
      BY <2>1 DEF StopBeforeCheckout
    <2>3. UNCHANGED <<remote, prs>>
      BY <2>1 DEF StopBeforeCheckout
    <2>4. DOMAIN heads' = DOMAIN heads \cup {b} /\ \A x \in DOMAIN heads' : ~heads'[x].diverged
      <3>1. b \notin DOMAIN remote
        BY <2>2
      <3> QED
        BY <2>2, <3>1, NoneDiverged DEF IInv
    <2> QED
      BY <2>2, <2>3, <2>4
  <1> QED
    BY <1>1, <1>2, <1>3, <1>4, <1>5, <1>6, <1>7, <1>8, <1>9, <1>10, <1>11, <1>12,
       <1>13, <1>14, <1>15, <1>16, <1>17, Steps

\* A set of as many elements as the limit allows.
LEMMA AtMost ==
    ASSUME NamesPerDelete <= 1, NEW S \in SUBSET Workload,
           Cardinality(S) = 1 \/ Cardinality(S) \in 1..NamesPerDelete
    PROVE  AtMostOne(S)
  <1>1. IsFiniteSet(S)
    BY ConstantsAssumption, FS_Subset
  <1>2. Cardinality(S) = 1
    BY ConstantsAssumption
  <1> QED
    BY <1>1, <1>2, FS_Singleton DEF AtMostOne

\* Then a name that the loop deals with is the last.
LEMMA LastName ==
    ASSUME IInv, Dealt, AtMostOne(cmd.names), at \in {"destroy", "edit", "commit", "push"}
    PROVE  todo = {}
  BY DEF IInv, OnName, Working, Dealt, AtMostOne

LEMMA FirstPushStep ==
    ASSUME OneByOne, BranchesStay = FALSE, NamesPerDelete <= 1,
           IInv, OtherTypes, Clean, Reviewed, [Next]_vars
    PROVE  FirstPush'
  <1> SUFFICES ASSUME faults' = 0
               PROVE /\ \A b \in DOMAIN remote' : b \in prs' \/ (at' = "pr" /\ b = branch')
                     /\ at' = "update" /\ cmd'.kind = "all" => AtMostOne(Listed(main)')
                     /\ AtMostOne(cmd'.names)
    BY DEF FirstPush, AtMostOne
  <1>0. /\ faults = 0 /\ ~Die /\ ~(\E b \in Branch : StopBeforeCheckout(b))
        /\ Undisturbed /\ Tidy /\ FirstPush
    BY FaultsGrow DEF Clean, Reviewed
  <1>. USE <1>0 DEF FirstPush, command, hosted, local, env
  <1>1. CASE UNCHANGED vars
    BY <1>1 DEF vars, Listed
  <1>2. CASE Update
    <2>1. cmd' = [cmd EXCEPT !.names = IF cmd.kind = "all" THEN Listed(tree') ELSE @]
      BY <1>2 DEF Update
    <2>2. /\ cmd'.kind = cmd.kind
          /\ cmd'.names = IF cmd.kind = "all" THEN Listed(tree') ELSE cmd.names
      BY <2>1 DEF IInv, CommandTypes, Command
    <2>3. tree' = main /\ at' = "branch" /\ at = "update" /\ UNCHANGED <<remote, prs>>
      BY <1>2 DEF Update, Tidy
    <2> QED
      BY <2>2, <2>3
  <1>3. CASE \E b \in Branch : CreateBranch(b)
    BY <1>3 DEF CreateBranch, NextName
  <1>4. CASE Destroy
    BY <1>4 DEF Destroy
  <1>5. CASE Edit
    BY <1>5 DEF Edit
  <1>6. CASE Commit
    BY <1>6 DEF Commit
  <1>7. CASE Push
    <2>1. at = "push" /\ prs = {} /\ UNCHANGED <<cmd, prs, branch>> /\ branch = active
      BY <1>7 DEF Push, Undisturbed, Waiting, IInv, OnBranch, Working
    <2>2. todo = {}
      BY <2>1, LastName DEF Reviewed
    <2>3. at' = "pr"
      BY <1>7, <2>2 DEF Push, NextName
    <2>4. DOMAIN remote' \subseteq DOMAIN remote \cup {active}
      BY <1>7 DEF Push, Pushed, With
    <2> QED
      BY <2>1, <2>3, <2>4
  <1>8. CASE OpenPullRequest
    BY <1>8 DEF OpenPullRequest
  <1>9. CASE SwitchToMain
    BY <1>9 DEF SwitchToMain
  <1>10. CASE DeleteBranch
    BY <1>10 DEF DeleteBranch
  <1>11. CASE Raise
    BY <1>11, NothingRefused DEF Raise, UpdateRaises, BranchRaises, DestroyRaises, PullRequestRaises
  <1>12. CASE \E kind \in {"create", "delete", "all"}, names \in SUBSET Workload, d \in BOOLEAN : Ask(kind, names, d)
    <2>1. PICK kind \in {"create", "delete", "all"}, names \in SUBSET Workload, d \in BOOLEAN : Ask(kind, names, d)
      BY <1>12
    <2>2. cmd'.kind = kind /\ cmd'.names = names /\ UNCHANGED <<main, remote, prs>> /\ at = "off"
      BY <2>1 DEF Ask
    <2>3. AtMostOne(names)
      <3>1. CASE kind = "all"
        BY <2>1, <3>1 DEF Ask, AtMostOne
      <3>2. CASE kind # "all"
        BY <2>1, <3>2, AtMost DEF Ask
      <3> QED
        BY <3>1, <3>2
    <2>4. kind = "all" => AtMostOne(Listed(main))
      <3>1. Listed(main) \in SUBSET Workload
        BY DEF Listed
      <3> QED
        BY <2>1, <3>1, AtMost DEF Ask
    <2> QED
      BY <2>2, <2>3, <2>4 DEF Listed
  <1>13. CASE Repeat
    BY <1>13 DEF Repeat, Tidy
  <1>14. CASE \E w \in Workload : Provision(w)
    BY <1>14 DEF Provision
  <1>15. CASE LaunchSetup
    BY <1>15 DEF LaunchSetup
  <1>16. CASE \E b \in prs : Merge(b) \/ Close(b)
    <2>1. PICK b \in prs : Merge(b) \/ Close(b)
      BY <1>16
    <2>2. remote' = Without(remote, b) /\ prs' = prs \ {b} /\ UNCHANGED <<at, branch, cmd>>
      BY <2>1 DEF Merge, Close
    <2>3. DOMAIN remote' = DOMAIN remote \ {b}
      BY <2>2 DEF Without
    <2>4. at \notin Waiting
      BY <2>1 DEF Undisturbed
    <2> QED
      BY <2>2, <2>3, <2>4 DEF Waiting
  <1> QED
    BY <1>1, <1>2, <1>3, <1>4, <1>5, <1>6, <1>7, <1>8, <1>9, <1>10, <1>11, <1>12,
       <1>13, <1>14, <1>15, <1>16, Steps

LEMMA DealtStep ==
    ASSUME MaxFaults <= 1, IInv, OtherTypes, Clean, Reviewed, [Next]_vars
    PROVE  Dealt'
  <1>. USE DEF Reviewed, Dealt, Wanted, command, hosted, local, env
  <1>1. CASE UNCHANGED vars
    BY <1>1 DEF vars
  <1>2. CASE Update
    BY <1>2 DEF Update
  <1>3. CASE \E b \in Branch : CreateBranch(b)
    <2>1. PICK b \in Branch : CreateBranch(b)
      BY <1>3
    <2>2. name' \in todo /\ todo' = todo \ {name'} /\ at' \in {"destroy", "edit"} /\ UNCHANGED cmd
      BY <2>1 DEF CreateBranch, NextName
    <2>3. todo = cmd.names
      BY <2>1 DEF CreateBranch
    <2> QED
      BY <2>2, <2>3
  <1>4. CASE Destroy
    BY <1>4 DEF Destroy
  <1>5. CASE Edit
    <2>1. name \in Workload /\ tree \in Entries
      BY <1>5 DEF Edit, IInv, OnName, CommandTypes, Command, GitTypes
    <2>2. tree'[name] = Wanted /\ \A w \in Workload : w # name => tree'[w] = tree[w]
      BY <1>5, <2>1 DEF Edit, Entries
    <2>3. cmd.names \subseteq Workload
      BY DEF IInv, CommandTypes, Command
    <2> QED
      BY <1>5, <2>2, <2>3 DEF Edit
  <1>6. CASE Commit
    <2>1. heads'[active].has = tree
      BY <1>6 DEF Commit, IInv, GitTypes, Head
    <2> QED
      BY <1>6, <2>1 DEF Commit
  <1>7. CASE Push
    <2>1. at = "push" /\ branch = active /\ UNCHANGED <<cmd, branch, heads, active, tree>>
      BY <1>7 DEF Push, IInv, OnBranch, Working
    <2>2. ~heads[active].diverged
      BY DEF Known, IInv, GitTypes
    <2>3. CASE Pushed
      <3>1. active \in DOMAIN remote' /\ remote'[active].has = heads[active].has
        BY <2>3 DEF Pushed, With
      <3> QED
        BY <1>7, <2>1, <3>1 DEF Push, NextName
    <2>4. CASE faults < MaxFaults /\ UNCHANGED remote
      <3>1. faults = 0
        BY <2>4, ConstantsAssumption DEF OtherTypes
      <3>2. todo = {}
        BY <2>1, <3>1, LastName DEF FirstPush
      <3>3. DOMAIN remote = {}
        BY <2>1, <3>1 DEF FirstPush, Clean, Undisturbed, Waiting
      <3> QED
        BY <1>7, <2>1, <2>4, <3>2, <3>3 DEF Push, NextName
    <2> QED
      BY <1>7, <2>2, <2>3, <2>4 DEF Push
  <1>8. CASE OpenPullRequest
    BY <1>8 DEF OpenPullRequest
  <1>9. CASE SwitchToMain
    BY <1>9 DEF SwitchToMain
  <1>10. CASE DeleteBranch
    BY <1>10 DEF DeleteBranch
  <1>11. CASE Raise \/ Die
    BY <1>11 DEF Raise, UpdateRaises, BranchRaises, DestroyRaises, PullRequestRaises, Fail, Die
  <1>12. CASE \E kind \in {"create", "delete", "all"}, names \in SUBSET Workload, d \in BOOLEAN : Ask(kind, names, d)
    BY <1>12 DEF Ask
  <1>13. CASE Repeat
    BY <1>13 DEF Repeat
  <1>14. CASE \E w \in Workload : Provision(w)
    BY <1>14 DEF Provision
  <1>15. CASE LaunchSetup
    BY <1>15 DEF LaunchSetup
  <1>16. CASE \E b \in prs : Merge(b) \/ Close(b)
    <2>1. PICK b \in prs : Merge(b) \/ Close(b)
      BY <1>16
    <2>2. remote' \in {remote, Without(remote, b)} /\ UNCHANGED <<command, local>>
      BY <2>1 DEF Merge, Close
    <2>3. \A x \in DOMAIN remote' : x \in DOMAIN remote /\ remote'[x] = remote[x]
      BY <2>2 DEF Without
    <2> QED
      BY <2>2, <2>3
  <1>17. CASE \E b \in Branch : StopBeforeCheckout(b)
    BY <1>17 DEF StopBeforeCheckout
  <1> QED
    BY <1>1, <1>2, <1>3, <1>4, <1>5, <1>6, <1>7, <1>8, <1>9, <1>10, <1>11, <1>12,
       <1>13, <1>14, <1>15, <1>16, <1>17, Steps

\* One name a command, no other open pull request, closed branches that go, one
\* fault at most: a command that succeeds has its very commit under review, and
\* with it everything it was asked for, however many commands came before.
THEOREM ReviewsTheCommitAlways ==
    ASSUME OneByOne, BranchesStay = FALSE, NamesPerDelete <= 1, MaxFaults <= 1, MaxLaunches = 0
    PROVE  Spec => ReviewsTheCommit
  <1>1. IInv /\ OtherTypes /\ Clean /\ [Next]_vars => Clean'
    BY CleanStep
  <1>2. IInv /\ OtherTypes /\ Clean /\ Reviewed /\ [Next]_vars => Reviewed'
    BY KnownStep, FirstPushStep, DealtStep DEF Reviewed
  <1>3. IInv /\ Reviewed /\ [Next]_vars =>
          [at = "pr" /\ at' = "switch" =>
             /\ remote[branch].has = heads[branch].has
             /\ \A w \in cmd.names :
                  remote[branch].has[w] = IF cmd.kind = "create" THEN cmd.id ELSE 0]_vars
    <2> SUFFICES ASSUME IInv, Reviewed, [Next]_vars, at = "pr", at' = "switch"
                 PROVE  /\ remote[branch].has = heads[branch].has
                        /\ \A w \in cmd.names : remote[branch].has[w] = Wanted
      BY DEF Wanted
    <2>1. branch \in DOMAIN remote /\ branch = active
      BY Opens DEF IInv, OnBranch, Working
    <2> QED
      BY <2>1 DEF Reviewed, Dealt
  <1>4. TypeOK => OtherTypes
    BY DEF TypeOK, OtherTypes
  <1> QED
    BY Inductive, TypeCorrect, InitClean, InitReviewed, <1>1, <1>2, <1>3, <1>4, PTL
    DEF Spec, ReviewsTheCommit
=============================================================================
