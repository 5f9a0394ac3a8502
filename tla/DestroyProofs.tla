---------------------------- MODULE DestroyProofs ---------------------------
(***************************************************************************)
(* destroy, after a setup that stopped right after a checkpoint, never     *)
(* gives away what a further destroy needs: for every set of checkpoints   *)
(* and any number of failures.                                             *)
(***************************************************************************)
EXTENDS Destroy, TLAPS

\* What exists is recorded, and load balancers need a cluster.
OnRecord ==
    /\ cluster # "gone" => HasCheckpoint(K8sTf)
    /\ repo => HasCheckpoint(VcsTf)
    /\ apps => cluster # "gone"

\* A section is reached when those before it have done their work.
InOrder ==
    /\ at \in {"repo", "bucket", "folder"} => cluster = "gone"
    /\ at \in {"bucket", "folder"} => ~repo

IInv == TypeOK /\ OnRecord /\ InOrder /\ StillDestroyable

\* The stages are numbers.
LEMMA StageNumbers == Stage \subseteq Nat /\ \A s \in Stage : s <= TfStoreHardening
  BY DEF Stage, Preflight, TfStoreHardening

\* The types hold after any setup.
LEMMA InitTypeOK == Init => TypeOK
  <1> SUFFICES ASSUME Init PROVE TypeOK
    OBVIOUS
  <1>1. recorded \in Stage /\ faults \in 0..MaxFaults
    BY ConstantsAssumption DEF Init
  <1>2. bucket \in {"full", "empty", "gone"} /\ cluster \in {"up", "partly", "gone"}
    BY DEF Init
  <1>3. {prepared, named, rendered, apps, repo} \subseteq BOOLEAN
    <2>1. PICK made :
        /\ repo = (made >= VcsTf) /\ apps = (made >= K8sDelivery)
        /\ named = (made >= RepoPrep \/ recorded >= OneTimeSetup)
        /\ prepared \in IF made >= OneTimeSetup THEN {TRUE}
                        ELSE IF made = Dependencies THEN BOOLEAN ELSE {FALSE}
        /\ rendered \in IF made < RepoPrep THEN {FALSE}
                        ELSE IF UpToDate THEN {TRUE} ELSE BOOLEAN
      BY DEF Init
    <2>2. repo \in BOOLEAN /\ apps \in BOOLEAN /\ named \in BOOLEAN
      BY <2>1
    <2>3. prepared \in BOOLEAN /\ rendered \in BOOLEAN
      BY <2>1, Zenon
    <2> QED
      BY <2>2, <2>3
  <1> QED
    BY <1>1, <1>2, <1>3 DEF Init, TypeOK, Section

\* No step leaves the types.
LEMMA StepTypeOK ==
    ASSUME TypeOK, [Next]_vars
    PROVE  TypeOK'
  <1>. USE ConstantsAssumption DEF TypeOK, Section, recordedState, resources
  <1>1. CASE UNCHANGED vars
    BY <1>1 DEF vars
  <1>2. CASE Start
    BY <1>2 DEF Start
  <1>3. CASE Fetch
    BY <1>3 DEF Fetch
  <1>4. CASE FetchRaises \/ ConfirmRaises \/ InitRaises \/ DeleteBucketRaises
    BY <1>4 DEF FetchRaises, ConfirmRaises, InitRaises, DeleteBucketRaises, Raise
  <1>5. CASE Confirm
    BY <1>5 DEF Confirm
  <1>6. CASE RemoveApps
    <2>1. faults' = faults \/ (faults < MaxFaults /\ faults' = faults + 1)
      BY <1>6 DEF RemoveApps, Fault
    <2>2. faults' \in 0..MaxFaults
      BY <2>1
    <2>3. apps' = apps \/ apps' = FALSE
      BY <1>6 DEF RemoveApps
    <2>4. at' = "cluster" /\ UNCHANGED <<recordedState, folder, rendered, cluster, repo, bucket>>
      BY <1>6 DEF RemoveApps
    <2> QED
      BY <2>2, <2>3, <2>4
  <1>7. CASE DestroyCluster
    BY <1>7 DEF DestroyCluster
  <1>8. CASE DestroyClusterFails
    BY <1>8 DEF DestroyClusterFails, Fault
  <1>9. CASE DestroyRepo
    BY <1>9 DEF DestroyRepo
  <1>10. CASE DestroyRepoFails
    BY <1>10 DEF DestroyRepoFails, Fault
  <1>11. CASE DeleteBucket
    BY <1>11 DEF DeleteBucket, Fault
  <1>12. CASE RemoveFolder
    BY <1>12 DEF RemoveFolder
  <1>13. CASE Die
    BY <1>13 DEF Die, Fault
  <1>14. CASE RemoveAppsByHand
    BY <1>14 DEF RemoveAppsByHand
  <1> QED
    BY <1>1, <1>2, <1>3, <1>4, <1>5, <1>6, <1>7, <1>8, <1>9, <1>10, <1>11, <1>12, <1>13, <1>14
    DEF Next, Proceed

\* After a setup that is up to date what it made is on record.
LEMMA InitIInv ==
    ASSUME UpToDate = TRUE, Init
    PROVE  IInv
  <1>1. TypeOK
    BY InitTypeOK
  <1>2. /\ bucket = IF recorded >= 3 THEN "full" ELSE "gone"
        /\ repo => recorded >= 5
        /\ cluster \in IF recorded >= 6 THEN {"up"} ELSE {"gone"}
        /\ apps => recorded >= 8
    <2>1. PICK made \in {recorded} :
            /\ bucket = IF made >= OneTimeSetup THEN "full" ELSE "gone"
            /\ repo = (made >= VcsTf)
            /\ cluster \in IF made >= K8sTf THEN {"up"} ELSE {"gone"}
            /\ apps = (made >= K8sDelivery)
      BY DEF Init
    <2>2. made = recorded
      OBVIOUS
    <2> QED
      BY <2>1, <2>2 DEF OneTimeSetup, VcsTf, K8sTf, K8sDelivery
  <1>3. recorded \in Nat
    BY <1>1, StageNumbers DEF TypeOK
  <1>4. at = "off" /\ folder = TRUE
    BY DEF Init
  <1>5. OnRecord
    BY <1>2, <1>3 DEF OnRecord, HasCheckpoint, VcsTf, K8sTf, K8sDelivery
  <1>6. Exists => bucket = "full"
    BY <1>2, <1>3 DEF Exists, OneTimeSetup, VcsTf, K8sTf, K8sDelivery
  <1> QED
    BY <1>1, <1>4, <1>5, <1>6 DEF IInv, InOrder, StillDestroyable

\* Each section destroys what the next one relies on being gone.
LEMMA StepIInv ==
    ASSUME IInv, [Next]_vars
    PROVE  (OnRecord /\ InOrder /\ StillDestroyable)'
  <1>. USE DEF IInv, TypeOK, OnRecord, InOrder, StillDestroyable, Exists, HasCheckpoint, recordedState, resources
  <1>1. CASE UNCHANGED vars
    BY <1>1 DEF vars
  <1>2. CASE Start
    BY <1>2 DEF Start
  <1>3. CASE Fetch
    BY <1>3 DEF Fetch
  <1>4. CASE FetchRaises \/ ConfirmRaises \/ InitRaises \/ DeleteBucketRaises
    BY <1>4 DEF FetchRaises, ConfirmRaises, InitRaises, DeleteBucketRaises, Raise
  <1>5. CASE Confirm
    BY <1>5 DEF Confirm
  <1>6. CASE RemoveApps
    BY <1>6 DEF RemoveApps, Fault
  <1>7. CASE DestroyCluster
    BY <1>7 DEF DestroyCluster
  <1>8. CASE DestroyClusterFails
    BY <1>8 DEF DestroyClusterFails, Fault
  <1>9. CASE DestroyRepo
    BY <1>9 DEF DestroyRepo
  <1>10. CASE DestroyRepoFails
    BY <1>10 DEF DestroyRepoFails, Fault
  <1>11. CASE DeleteBucket
    BY <1>11 DEF DeleteBucket, Fault
  <1>12. CASE RemoveFolder
    BY <1>12 DEF RemoveFolder
  <1>13. CASE Die
    BY <1>13 DEF Die, Fault
  <1>14. CASE RemoveAppsByHand
    BY <1>14 DEF RemoveAppsByHand
  <1> QED
    BY <1>1, <1>2, <1>3, <1>4, <1>5, <1>6, <1>7, <1>8, <1>9, <1>10, <1>11, <1>12, <1>13, <1>14
    DEF Next, Proceed

\* The types.
THEOREM TypeCorrect == Spec => []TypeOK
  <1>1. TypeOK /\ [Next]_vars => TypeOK'
    BY StepTypeOK
  <1> QED
    BY InitTypeOK, <1>1, PTL DEF Spec

\* However destroy stops or fails, and however often: as long as anything is left,
\* so are the folder and Terraform's state.
THEOREM StillDestroyableAlways ==
    ASSUME UpToDate = TRUE
    PROVE  Spec => []StillDestroyable
  <1>1. Init => IInv
    BY InitIInv
  <1>2. IInv /\ [Next]_vars => IInv'
    BY StepIInv, StepTypeOK DEF IInv
  <1>3. IInv => StillDestroyable
    BY DEF IInv
  <1> QED
    BY <1>1, <1>2, <1>3, PTL DEF Spec

-----------------------------------------------------------------------------
(* What a further call needs *)

\* As long as anything is left, a call can fetch, name the cluster and the bucket,
\* and initialise Terraform.
Repeatable ==
    Exists => /\ prepared /\ named /\ rendered
              /\ HasCheckpoint(GitopsVcs) => repo

LEMMA InitRepeatable ==
    ASSUME UpToDate = TRUE, Init
    PROVE  Repeatable
  <1>1. /\ cluster # "gone" => recorded >= 6
        /\ apps => recorded >= 8
        /\ repo <=> recorded >= 5
        /\ recorded >= 4 => named
        /\ prepared \in IF recorded >= 3 THEN {TRUE}
                        ELSE IF recorded = 2 THEN BOOLEAN ELSE {FALSE}
        /\ rendered \in IF recorded < 4 THEN {FALSE} ELSE {TRUE}
    <2>1. PICK made \in {recorded} :
            /\ cluster \in IF made >= K8sTf THEN {"up"} ELSE {"gone"}
            /\ apps = (made >= K8sDelivery)
            /\ repo = (made >= VcsTf)
            /\ named = (made >= RepoPrep \/ recorded >= OneTimeSetup)
            /\ prepared \in IF made >= OneTimeSetup THEN {TRUE}
                            ELSE IF made = Dependencies THEN BOOLEAN ELSE {FALSE}
            /\ rendered \in IF made < RepoPrep THEN {FALSE} ELSE {TRUE}
      BY DEF Init
    <2>2. made = recorded
      OBVIOUS
    <2> QED
      BY <2>1, <2>2 DEF Dependencies, OneTimeSetup, RepoPrep, VcsTf, K8sTf, K8sDelivery
  <1>2. recorded \in Nat
    BY InitTypeOK, StageNumbers DEF TypeOK
  <1> SUFFICES ASSUME Exists PROVE prepared /\ named /\ rendered /\ repo
    BY DEF Repeatable
  <1>3. recorded >= 5
    BY <1>1, <1>2 DEF Exists
  <1>4. repo /\ named
    BY <1>1, <1>2, <1>3
  <1>5. prepared \in {TRUE} /\ rendered \in {TRUE}
    <2>1. recorded >= 3 /\ ~(recorded < 4)
      BY <1>2, <1>3
    <2> QED
      BY <1>1, <2>1
  <1> QED
    BY <1>4, <1>5

\* The repository goes last; nothing takes the rest away.
LEMMA StepRepeatable ==
    ASSUME IInv, Repeatable, [Next]_vars
    PROVE  Repeatable'
  <1>. USE DEF IInv, TypeOK, InOrder, OnRecord, Repeatable, Exists, HasCheckpoint, recordedState, resources
  <1>1. CASE UNCHANGED vars
    BY <1>1 DEF vars
  <1>2. CASE Start \/ Fetch \/ Confirm \/ RemoveFolder
    BY <1>2 DEF Start, Fetch, Confirm, RemoveFolder
  <1>3. CASE FetchRaises \/ ConfirmRaises \/ InitRaises \/ DeleteBucketRaises
    BY <1>3 DEF FetchRaises, ConfirmRaises, InitRaises, DeleteBucketRaises, Raise
  <1>4. CASE RemoveApps
    BY <1>4 DEF RemoveApps, Fault
  <1>5. CASE DestroyCluster
    BY <1>5 DEF DestroyCluster
  <1>6. CASE DestroyClusterFails
    BY <1>6 DEF DestroyClusterFails, Fault
  <1>7. CASE DestroyRepo
    BY <1>7 DEF DestroyRepo
  <1>8. CASE DestroyRepoFails \/ DeleteBucket
    BY <1>8 DEF DestroyRepoFails, DeleteBucket, Fault
  <1>9. CASE Die \/ RemoveAppsByHand
    BY <1>9 DEF Die, RemoveAppsByHand, Fault
  <1> QED
    BY <1>1, <1>2, <1>3, <1>4, <1>5, <1>6, <1>7, <1>8, <1>9 DEF Next, Proceed

\* "please try restarting the process": the errors that every further call would
\* meet too are met only when nothing is left to destroy: the safety half of
\* EventuallyGone. (A cluster held up by load balancers is not among them, since
\* the user is told to remove these.)
THEOREM RaisesOnlyWhenGoneAlways ==
    ASSUME UpToDate = TRUE
    PROVE  Spec => [][FetchRaises \/ ConfirmRaises \/ InitRaises \/ DeleteBucketRaises => ~Exists]_vars
  <1>1. Init => IInv /\ Repeatable
    BY InitIInv, InitRepeatable
  <1>2. IInv /\ Repeatable /\ [Next]_vars => (IInv /\ Repeatable)'
    <2>1. ASSUME IInv, [Next]_vars PROVE IInv'
      BY <2>1, StepIInv, StepTypeOK DEF IInv
    <2> QED
      BY <2>1, StepRepeatable
  <1>3. IInv /\ Repeatable
          => [FetchRaises \/ ConfirmRaises \/ InitRaises \/ DeleteBucketRaises => ~Exists]_vars
    BY DEF IInv, StillDestroyable, Repeatable, TfReady, FetchRaises, ConfirmRaises,
           InitRaises, DeleteBucketRaises, Raise, Exists
  <1> QED
    BY <1>1, <1>2, <1>3, PTL DEF Spec
=============================================================================
