---------------------------- MODULE SetupProofs ----------------------------
(***************************************************************************)
(* What holds of Setup for every cloud, every set of restarts and every    *)
(* number of faults, restarts and template versions.                       *)
(***************************************************************************)
EXTENDS Setup, FiniteSetTheorems, TLAPS

\* A list of checkpoints that is the first Len(cps) stages in their order.
InOrder(cps) == \A i \in DOMAIN cps : cps[i] = i

\* In such a list a stage is recorded when the list is long enough, at the
\* position of its number.
LEMMA RecordedByLength ==
    ASSUME NEW cps \in Seq(Stage), InOrder(cps), NEW c \in Stage
    PROVE  /\ HasCheckpoint(cps, c) <=> c <= Len(cps)
           /\ HasCheckpoint(cps, c) => IndexOf(cps, c) = c
  <1>. USE DEF InOrder, Stage, Preflight, TfStoreHardening
  <1>1. HasCheckpoint(cps, c) <=> c <= Len(cps)
    BY DEF HasCheckpoint
  <1>2. ASSUME HasCheckpoint(cps, c)
        PROVE  IndexOf(cps, c) = c
    <2>1. c \in DOMAIN cps /\ cps[c] = c /\ \A j \in 1..(c - 1) : cps[j] # c
      BY <1>1, <1>2
    <2>2. \A i \in DOMAIN cps : cps[i] = c => i = c
      OBVIOUS
    <2> QED
      BY <2>1, <2>2 DEF IndexOf
  <1> QED
    BY <1>1, <1>2

\* set_checkpoint on such a list, when at most this stage is missing: the
\* list stays one and is long enough for the stage.
LEMMA SetCheckpointInOrder ==
    ASSUME NEW cps \in Seq(Stage), InOrder(cps), NEW c \in Stage, Len(cps) >= c - 1
    PROVE  /\ SetCheckpoint(cps, c) \in Seq(Stage)
           /\ InOrder(SetCheckpoint(cps, c))
           /\ Len(SetCheckpoint(cps, c)) = IF Len(cps) >= c THEN Len(cps) ELSE c
  <1>. USE DEF Stage, Preflight, TfStoreHardening
  <1>1. CASE HasCheckpoint(cps, c)
    BY <1>1, RecordedByLength DEF SetCheckpoint
  <1>2. CASE ~HasCheckpoint(cps, c)
    <2>1. Len(cps) = c - 1
      BY <1>2, RecordedByLength
    <2> QED
      BY <1>2, <2>1 DEF SetCheckpoint, InOrder
  <1> QED
    BY <1>1, <1>2

\* remove_checkpoints_from on such a list drops the stage and all later ones.
LEMMA RemoveFromInOrder ==
    ASSUME NEW cps \in Seq(Stage), InOrder(cps), NEW c \in Stage
    PROVE  /\ RemoveFrom(cps, c) \in Seq(Stage)
           /\ InOrder(RemoveFrom(cps, c))
           /\ Len(RemoveFrom(cps, c)) = IF Len(cps) >= c THEN c - 1 ELSE Len(cps)
  <1>. USE DEF Stage, Preflight, TfStoreHardening
  <1>1. CASE HasCheckpoint(cps, c)
    <2>1. c <= Len(cps) /\ RemoveFrom(cps, c) = SubSeq(cps, 1, c - 1)
      BY <1>1, RecordedByLength DEF RemoveFrom
    <2> QED
      BY <2>1 DEF InOrder
  <1>2. CASE ~HasCheckpoint(cps, c)
    BY <1>2, RecordedByLength DEF RemoveFrom
  <1> QED
    BY <1>1, <1>2

-----------------------------------------------------------------------------
(* The inductive invariant holds at first and is kept by every step. *)

\* The state of a fresh machine, and what is left in memory of a run that ended.

LEMMA BlankState ==
    /\ Blank \in State /\ Blank.cps = <<>> /\ Len(Blank.cps) = 0
    /\ \A i \in Item : Blank.val[i] = 0
  BY DEF Blank, State

LEMMA InitIInv == Init => IInv
  <1> SUFFICES ASSUME Init PROVE IInv
    OBVIOUS
  <1>. USE DEF Init, Off
  <1>1. TypeOK
    <2>1. ControlType
      BY DEF ControlType, Places, Show, TfStoreHardening
    <2>2. StoreType
      BY BlankState DEF StoreType
    <2>3. /\ tools \in BOOLEAN /\ registryApp \in BOOLEAN
          /\ vaultInit \in BOOLEAN /\ vaultSecret \in BOOLEAN
      OBVIOUS
    <2>4. localTree \in Tree /\ mainTree \in Tree
      BY DEF Tree, NoTree
    <2>5. LocalType /\ ClusterType
      BY <2>3, <2>4 DEF LocalType, ClusterType
    <2>6. CloudType
      BY DEF CloudType
    <2>7. GitType /\ EnvType
      BY <2>4, ConstantsAssumption DEF GitType, EnvType
    <2> QED
      BY <2>1, <2>2, <2>5, <2>6, <2>7 DEF TypeOK
  <1>2. NamesBounded
    BY BlankState DEF NamesBounded, Item, NoTree
  <1>3. CheckpointsArePrefix
    BY BlankState DEF CheckpointsArePrefix
  <1>4. Positioned
    BY DEF Positioned, Show, Preflight, OneTimeSetup, RepoPrep, K8sDelivery,
           SecretsManagement, TfStoreHardening
  <1>5. ValuesKept /\ EffectsKept
    BY BlankState
    DEF ValuesKept, EffectsKept, Provided, Achieved, Preflight, Dependencies, OneTimeSetup,
        RepoPrep, VcsTf, K8sTf, GitopsVcs, K8sDelivery, SecretsManagement, SecretsTf,
        UsersTf, CoreServicesTf, TfStoreHardening
  <1> QED
    BY <1>1, <1>2, <1>3, <1>4, <1>5 DEF IInv

\* Setting one value keeps the shape of the state and its checkpoints.
LEMMA SetState ==
    ASSUME NEW st \in State, NEW item \in Item, NEW v \in Nat
    PROVE  LET new == [st EXCEPT !.val[item] = v]
           IN  /\ new \in State /\ new.cps = st.cps /\ new.val[item] = v
               /\ \A i \in Item \ {item} : new.val[i] = st.val[i]
  BY DEF State

\* The lengths of the checkpoint lists and the stage are numbers, and both
\* lists are in order.
LEMMA Numbers ==
    ASSUME IInv
    PROVE  /\ at \in 0..14
           /\ mem.cps \in Seq(Stage) /\ InOrder(mem.cps) /\ Len(mem.cps) \in 0..13
           /\ disk.cps \in Seq(Stage) /\ InOrder(disk.cps) /\ Len(disk.cps) \in 0..13
  <1>1. mem.cps \in Seq(Stage) /\ disk.cps \in Seq(Stage) /\ at \in 0..14
    BY DEF IInv, TypeOK, ControlType, StoreType, State, Show, Off, TfStoreHardening
  <1>2. InOrder(mem.cps) /\ InOrder(disk.cps)
    BY DEF IInv, CheckpointsArePrefix, InOrder
  <1>3. ASSUME NEW cps \in Seq(Stage), InOrder(cps)
        PROVE  Len(cps) \in 0..13
    <2>1. Len(cps) \in Nat
      OBVIOUS
    <2>2. CASE Len(cps) = 0
      BY <2>2
    <2>3. CASE Len(cps) > 0
      <3>1. Len(cps) \in DOMAIN cps
        BY <2>1, <2>3
      <3>2. cps[Len(cps)] = Len(cps) /\ cps[Len(cps)] \in Stage
        BY <1>3, <3>1 DEF InOrder
      <3>3. Len(cps) \in Stage
        BY <3>2
      <3> QED
        BY <3>3 DEF Stage, Preflight, TfStoreHardening
    <2> QED
      BY <2>1, <2>2, <2>3
  <1> QED
    BY <1>1, <1>2, <1>3

\* What a launch makes of the state file, and what recording a stage makes of
\* the state in memory: still a state, in order, with the length expected.
LEMMA LaunchFromState ==
    ASSUME IInv, NEW c \in RestartFrom
    PROVE  LET new == [disk EXCEPT !.cps = RemoveFrom(@, c)]
           IN  /\ new \in State /\ InOrder(new.cps) /\ new.val = disk.val
               /\ Len(new.cps) = IF Len(disk.cps) >= c THEN c - 1 ELSE Len(disk.cps)
  <1>1. disk \in State /\ c \in Stage
    BY ConstantsAssumption DEF IInv, TypeOK, StoreType
  <1> QED
    BY <1>1, Numbers, RemoveFromInOrder DEF State

LEMMA RecordedState ==
    ASSUME IInv, at \in Stage, step = "record"
    PROVE  LET new == [mem EXCEPT !.cps = SetCheckpoint(@, at)]
           IN  /\ new \in State /\ InOrder(new.cps) /\ new.val = mem.val
               /\ Len(new.cps) = IF Len(mem.cps) >= at THEN Len(mem.cps) ELSE at
               /\ Len(mem.cps) >= at - 1
  <1>1. mem \in State /\ Len(mem.cps) >= at - 1
    BY DEF IInv, TypeOK, StoreType, Positioned, Stage, Off, Preflight
  <1> QED
    BY <1>1, Numbers, SetCheckpointInOrder DEF State

\* What a step leaves alone keeps its type.
LEMMA Frames ==
    /\ StoreType /\ UNCHANGED <<mem, disk>> => StoreType'
    /\ LocalType /\ UNCHANGED local => LocalType'
    /\ CloudType /\ UNCHANGED cloud => CloudType'
    /\ GitType /\ UNCHANGED git => GitType'
    /\ ClusterType /\ UNCHANGED cluster => ClusterType'
    /\ EnvType /\ UNCHANGED env => EnvType'
  <1>1. StoreType /\ UNCHANGED <<mem, disk>> => StoreType'
    BY DEF StoreType
  <1>2. LocalType /\ UNCHANGED local => LocalType'
    BY DEF LocalType, local
  <1>3. CloudType /\ UNCHANGED cloud => CloudType'
    BY DEF CloudType, cloud
  <1>4. GitType /\ UNCHANGED git => GitType'
    BY DEF GitType, git
  <1>5. ClusterType /\ UNCHANGED cluster => ClusterType'
    BY DEF ClusterType, cluster
  <1>6. EnvType /\ UNCHANGED env => EnvType'
    BY DEF EnvType, env
  <1> QED
    BY <1>1, <1>2, <1>3, <1>4, <1>5, <1>6

\* The value of an item is a number, and the stored names are small enough.
LEMMA StoredNames ==
    ASSUME IInv
    PROVE  /\ mem.val["sshKey"] \in 0..keys /\ mem.val["bucket"] \in 0..buckets
           /\ disk.val["sshKey"] \in 0..keys /\ disk.val["bucket"] \in 0..buckets
           /\ localTree.bucket \in 0..buckets
           /\ deployKey \in 0..keys /\ argoKey \in 0..keys
           /\ keys \in Nat /\ buckets \in Nat
  <1>1. /\ mem \in State /\ disk \in State /\ localTree \in Tree
        /\ keys \in Nat /\ buckets \in Nat /\ deployKey \in Nat /\ argoKey \in Nat
    BY DEF IInv, TypeOK, StoreType, LocalType, CloudType, GitType, ClusterType
  <1>2. /\ mem.val["sshKey"] \in Nat /\ mem.val["bucket"] \in Nat
        /\ disk.val["sshKey"] \in Nat /\ disk.val["bucket"] \in Nat
        /\ localTree.bucket \in Nat
    BY <1>1 DEF State, Item, Tree
  <1> QED
    BY <1>1, <1>2 DEF IInv, NamesBounded

\* Every step keeps the types.
LEMMA TypesStep ==
    ASSUME IInv, [Next]_vars
    PROVE  TypeOK'
  <1>0. /\ ControlType /\ StoreType /\ LocalType /\ CloudType
        /\ GitType /\ ClusterType /\ EnvType
    BY DEF IInv, TypeOK
  <1>. USE DEF Go, Enter, Set, ControlType, Places, Show, Off, Preflight, Dependencies,
               OneTimeSetup, RepoPrep, VcsTf, K8sTf, GitopsVcs, K8sDelivery,
               SecretsManagement, SecretsTf, UsersTf, CoreServicesTf, TfStoreHardening
  <1>1. ASSUME Launch PROVE TypeOK'
    <2>1. ControlType'
      BY <1>1 DEF Launch, Start
    <2>2. StoreType'
      BY <1>0, <1>1 DEF Launch, Start, StoreType
    <2>3. EnvType'
      BY <1>0, <1>1 DEF Launch, Start, EnvType, GitType
    <2> QED
      BY <1>0, <1>1, <2>1, <2>2, <2>3, Frames DEF Launch, Start, TypeOK
  <1>2. ASSUME NEW c \in RestartFrom, LaunchFrom(c) PROVE TypeOK'
    <2>1. ControlType'
      BY <1>2 DEF LaunchFrom, Start
    <2>2. StoreType'
      BY <1>2, LaunchFromState DEF LaunchFrom, Start, StoreType
    <2>3. EnvType'
      BY <1>0, <1>2, ConstantsAssumption DEF LaunchFrom, Start, EnvType, GitType
    <2> QED
      BY <1>0, <1>2, <2>1, <2>2, <2>3, Frames DEF LaunchFrom, Start, TypeOK
  <1>3. ASSUME Skip PROVE TypeOK'
    <2>1. ControlType'
      BY <1>3 DEF Skip, Stage
    <2> QED
      BY <1>0, <1>3, <2>1, Frames DEF Skip, TypeOK
  <1>4. ASSUME RecordStage PROVE TypeOK'
    <2>1. ControlType'
      BY <1>4 DEF RecordStage, Stage
    <2>2. StoreType'
      BY <1>4, RecordedState DEF RecordStage, StoreType
    <2> QED
      BY <1>0, <1>4, <2>1, <2>2, Frames DEF RecordStage, TypeOK
  <1>5. ASSUME Exit, UNCHANGED <<disk, local, git, cluster, rewinds>>,
               CloudType', faults' \in 0..MaxFaults
        PROVE  TypeOK'
    <2>1. ControlType'
      BY <1>5 DEF Exit
    <2>2. StoreType'
      BY <1>0, <1>5, BlankState DEF Exit, StoreType
    <2>3. EnvType'
      BY <1>0, <1>5, ConstantsAssumption DEF Exit, EnvType
    <2> QED
      BY <1>0, <1>5, <2>1, <2>2, <2>3, Frames DEF TypeOK
  <1>6. ASSUME Raise \/ ShowCredentials PROVE TypeOK'
    BY <1>0, <1>5, <1>6, Frames DEF Raise, ShowCredentials, EnvType
  <1>7. ASSUME Die PROVE TypeOK'
    <2>1. faults' \in 0..MaxFaults
      BY <1>0, <1>7, ConstantsAssumption DEF Die, EnvType
    <2> QED
      BY <1>0, <1>5, <1>7, <2>1, Frames DEF Die
  <1>8. ASSUME NEW s \in TfStage, ApplyFails(s) PROVE TypeOK'
    <2>1. faults' \in 0..MaxFaults
      BY <1>0, <1>8, ConstantsAssumption DEF ApplyFails, EnvType
    <2>2. CloudType'
      BY <1>0, <1>8, StoredNames DEF ApplyFails, Provision, CloudType
    <2> QED
      BY <1>0, <1>5, <1>8, <2>1, <2>2 DEF ApplyFails
  <1>9. ASSUME KeepBucket PROVE TypeOK'
    <2>1. EnvType'
      BY <1>0, <1>9, ConstantsAssumption DEF KeepBucket, EnvType
    <2> QED
      BY <1>0, <1>9, <2>1, Frames DEF KeepBucket, TypeOK
  <1>10. ASSUME NEW b \in 1..buckets, RediscoverBucket(b) PROVE TypeOK'
    <2>1. StoreType'
      BY <1>0, <1>10, SetState DEF RediscoverBucket, StoreType, CloudType, Item
    <2>2. CloudType'
      BY <1>0, <1>10 DEF RediscoverBucket, CloudType
    <2>3. EnvType'
      <3>1. PICK missed \in {FALSE, FlakyStorage} :
                /\ faults' = faults + (IF mem.val["bucket"] # 0 THEN 1 ELSE 0)
                                    + (IF missed THEN 1 ELSE 0)
                /\ faults' <= MaxFaults
        BY <1>10 DEF RediscoverBucket
      <3> QED
        BY <1>0, <1>10, <3>1, ConstantsAssumption DEF RediscoverBucket, EnvType
    <2> QED
      BY <1>0, <1>10, <2>1, <2>2, <2>3, Frames DEF RediscoverBucket, TypeOK
  <1>11. ASSUME RunPreflight \/ ReuseVaultSecret PROVE TypeOK'
    <2>1. mem' \in State /\ disk' = disk
      <3>1. CASE RunPreflight
        BY <1>0, <3>1, SetState DEF RunPreflight, StoreType, Item
      <3>2. CASE ReuseVaultSecret
        BY <1>0, <3>2, SetState DEF ReuseVaultSecret, StoreType, Item
      <3> QED
        BY <1>11, <3>1, <3>2
    <2>2. StoreType'
      BY <1>0, <2>1 DEF StoreType
    <2> QED
      BY <1>0, <1>11, <2>2, Frames DEF RunPreflight, ReuseVaultSecret, TypeOK
  <1>12. ASSUME InstallDependencies PROVE TypeOK'
    <2>1. LocalType'
      BY <1>0, <1>12 DEF InstallDependencies, LocalType
    <2> QED
      BY <1>0, <1>12, <2>1, Frames DEF InstallDependencies, TypeOK
  <1>13. ASSUME PrepareParameters PROVE TypeOK'
    <2>1. StoreType'
      BY <1>0, <1>13, SetState DEF PrepareParameters, StoreType, Item
    <2> QED
      BY <1>0, <1>13, <2>1, Frames DEF PrepareParameters, TypeOK
  <1>14. ASSUME CreateKeys PROVE TypeOK'
    <2>1. StoreType'
      BY <1>0, <1>14, SetState DEF CreateKeys, StoreType, LocalType, Item
    <2>2. LocalType'
      BY <1>0, <1>14 DEF CreateKeys, LocalType
    <2> QED
      BY <1>0, <1>14, <2>1, <2>2, Frames DEF CreateKeys, TypeOK
  <1>15. ASSUME CreateStateStorage PROVE TypeOK'
    <2>1. StoreType'
      BY <1>0, <1>15, SetState DEF CreateStateStorage, StoreType, CloudType, Item
    <2>2. CloudType'
      <3>1. buckets \in Nat /\ buckets' = buckets + 1
        BY <1>0, <1>15 DEF CreateStateStorage, CloudType
      <3>2. owner \in [TfStage -> 0..buckets'] /\ hardened \subseteq 1..buckets'
        BY <1>0, <3>1 DEF CloudType
      <3> QED
        BY <1>15, <3>1, <3>2 DEF CreateStateStorage, CloudType
    <2> QED
      BY <1>0, <1>15, <2>1, <2>2, Frames DEF CreateStateStorage, TypeOK
  <1>16. ASSUME CloneAndBuild \/ ParametriseTf PROVE TypeOK'
    <2>1. localTree' \in Tree
      BY <1>0, <1>16, StoredNames
      DEF CloneAndBuild, ParametriseTf, LocalType, GitType, CloudType, Tree
    <2>2. LocalType'
      BY <1>0, <1>16, <2>1 DEF CloneAndBuild, ParametriseTf, LocalType
    <2> QED
      BY <1>0, <1>16, <2>2, Frames DEF CloneAndBuild, ParametriseTf, TypeOK
  <1>17. ASSUME NEW s \in TfStage, ApplyTf(s) PROVE TypeOK'
    <2>1. StoreType'
      <3>1. \/ UNCHANGED mem
            \/ \E i \in {"repoUrl", "cluster", "registry"} : Set(i, 1)
        BY <1>17 DEF ApplyTf, TfStage
      <3>2. ASSUME NEW i \in Item, Set(i, 1)
            PROVE  mem' \in State
        BY <1>0, <3>2, SetState DEF StoreType
      <3>3. mem' \in State
        BY <1>0, <3>1, <3>2 DEF StoreType, Item
      <3> QED
        BY <1>0, <1>17, <3>3 DEF ApplyTf, StoreType
    <2>2. CloudType'
      BY <1>0, <1>17, StoredNames DEF ApplyTf, Provision, CloudType
    <2>3. GitType'
      BY <1>0, <1>17, StoredNames DEF ApplyTf, GitType, LocalType
    <2> QED
      BY <1>0, <1>17, <2>1, <2>2, <2>3, Frames DEF ApplyTf, TypeOK, TfStage
  <1>27. ASSUME RebuildTree PROVE TypeOK'
    <2>1. localTree' \in Tree
      BY <1>0, <1>27, StoredNames DEF RebuildTree, NoTree, GitType, Tree
    <2>2. LocalType' /\ EnvType'
      BY <1>0, <1>27, <2>1, ConstantsAssumption DEF RebuildTree, LocalType, EnvType
    <2>3. ControlType'
      BY <1>0, <1>27 DEF RebuildTree, control
    <2> QED
      BY <1>0, <1>27, <2>2, <2>3, Frames DEF RebuildTree, TypeOK
  <1>18. ASSUME UploadGitops PROVE TypeOK'
    <2>1. GitType'
      BY <1>0, <1>18 DEF UploadGitops, GitType, LocalType
    <2> QED
      BY <1>0, <1>18, <2>1, Frames DEF UploadGitops, TypeOK
  <1>19. ASSUME InstallArgo PROVE TypeOK'
    <2>1. StoreType'
      BY <1>0, <1>19, SetState DEF InstallArgo, StoreType, Item
    <2>2. ClusterType'
      BY <1>0, <1>19, StoredNames DEF InstallArgo, ClusterType, LocalType
    <2> QED
      BY <1>0, <1>19, <2>1, <2>2, Frames DEF InstallArgo, TypeOK
  <1>20. ASSUME CreateRegistryApp \/ InitVault PROVE TypeOK'
    <2>1. ClusterType'
      BY <1>0, <1>20 DEF CreateRegistryApp, InitVault, ClusterType
    <2> QED
      BY <1>0, <1>20, <2>1, Frames DEF CreateRegistryApp, InitVault, TypeOK
  <1>21. ASSUME WaitVault PROVE TypeOK'
    BY <1>0, <1>21, Frames DEF WaitVault, TypeOK
  <1>22. ASSUME MissVaultSecret PROVE TypeOK'
    <2>1. EnvType'
      BY <1>0, <1>22, ConstantsAssumption DEF MissVaultSecret, EnvType
    <2> QED
      BY <1>0, <1>22, <2>1, Frames DEF MissVaultSecret, TypeOK
  <1>23. ASSUME StoreVaultSecret PROVE TypeOK'
    <2>1. StoreType'
      BY <1>0, <1>23, SetState DEF StoreVaultSecret, StoreType, Item
    <2>2. ClusterType'
      BY <1>0, <1>23 DEF StoreVaultSecret, ClusterType
    <2> QED
      BY <1>0, <1>23, <2>1, <2>2, Frames DEF StoreVaultSecret, TypeOK
  <1>24. ASSUME ProtectStateStorage PROVE TypeOK'
    <2>1. mem.val["bucket"] # 0
      BY <1>24 DEF ProtectStateStorage, Work, Blocked, Ready, Needs, Stage
    <2>2. CloudType'
      <3>1. mem.val["bucket"] \in 1..buckets
        BY <1>0, <2>1, StoredNames DEF CloudType
      <3> QED
        BY <1>0, <1>24, <3>1 DEF ProtectStateStorage, CloudType
    <2> QED
      BY <1>0, <1>24, <2>2, Frames DEF ProtectStateStorage, TypeOK
  <1>25. ASSUME TemplateAdvances PROVE TypeOK'
    <2>1. GitType'
      BY <1>0, <1>25, ConstantsAssumption DEF TemplateAdvances, GitType
    <2> QED
      BY <1>0, <1>25, <2>1, Frames DEF TemplateAdvances, TypeOK, control
  <1>26. CASE UNCHANGED vars
    BY <1>0, <1>26, Frames DEF vars, control, TypeOK
  <1> QED
    BY <1>1, <1>2, <1>3, <1>4, <1>6, <1>7, <1>8, <1>9, <1>10, <1>11, <1>12, <1>13, <1>14,
       <1>15, <1>16, <1>17, <1>18, <1>19, <1>20, <1>21, <1>22, <1>23, <1>24, <1>25, <1>26,
       <1>27
    DEF Next, Proceed

\* Set changes one value of the state in memory.
LEMMA SetMem ==
    ASSUME IInv, NEW item \in Item, NEW v \in Nat, Set(item, v)
    PROVE  /\ mem' \in State /\ mem'.cps = mem.cps /\ mem'.val[item] = v
           /\ \A i \in Item \ {item} : mem'.val[i] = mem.val[i]
  <1>1. mem \in State
    BY DEF IInv, TypeOK, StoreType
  <1> QED
    BY <1>1, SetState DEF Set

\* No step names a key or a bucket that was never made.
LEMMA NamesStep ==
    ASSUME IInv, [Next]_vars
    PROVE  NamesBounded'
  <1>0. /\ mem.val["sshKey"] \in 0..keys /\ mem.val["bucket"] \in 0..buckets
        /\ disk.val["sshKey"] \in 0..keys /\ disk.val["bucket"] \in 0..buckets
        /\ localTree.bucket \in 0..buckets
        /\ deployKey \in 0..keys /\ argoKey \in 0..keys
        /\ keys \in Nat /\ buckets \in Nat
    BY StoredNames
  <1>. DEFINE Same == UNCHANGED <<keys, buckets, localTree, deployKey, argoKey>>
  <1>1. ASSUME Same, mem' \in {mem, disk, Blank}, disk' \in {mem, disk}
        PROVE  NamesBounded'
    BY <1>0, <1>1, BlankState DEF NamesBounded, Item
  <1>2. ASSUME NEW i \in Item \ {"sshKey", "bucket"}, Set(i, 1),
               UNCHANGED <<keys, buckets, localTree>>, disk' \in {disk, mem'},
               deployKey' \in {deployKey, mem.val["sshKey"]},
               argoKey' \in {argoKey, mem.val["sshKey"]}
        PROVE  NamesBounded'
    <2>1. mem'.val["sshKey"] = mem.val["sshKey"] /\ mem'.val["bucket"] = mem.val["bucket"]
      BY <1>2, SetMem DEF Item
    <2> QED
      BY <1>0, <1>2, <2>1 DEF NamesBounded
  <1>3. ASSUME Launch \/ Skip \/ KeepBucket \/ InstallDependencies \/ UploadGitops
               \/ CreateRegistryApp \/ WaitVault \/ MissVaultSecret \/ InitVault
               \/ ProtectStateStorage \/ TemplateAdvances
        PROVE  NamesBounded'
    <2>1. Same /\ mem' \in {mem, disk} /\ disk' = disk
      BY <1>3 DEF Launch, Start, Skip, KeepBucket, InstallDependencies, UploadGitops,
                  CreateRegistryApp, WaitVault, MissVaultSecret, InitVault,
                  ProtectStateStorage, TemplateAdvances, local, cloud, git, cluster
    <2> QED
      BY <1>1, <2>1
  <1>4. ASSUME Raise \/ ShowCredentials \/ Die \/ \E s \in TfStage : ApplyFails(s)
        PROVE  NamesBounded'
    <2>1. Same /\ mem' = Blank /\ disk' = disk
      BY <1>4 DEF Raise, ShowCredentials, Die, ApplyFails, Exit, Provision,
                  local, cloud, git, cluster
    <2> QED
      BY <1>1, <2>1
  <1>5. ASSUME RunPreflight \/ PrepareParameters \/ InstallArgo \/ ReuseVaultSecret
               \/ StoreVaultSecret
        PROVE  NamesBounded'
    <2>1. /\ \E i \in {"gitUser", "params", "argoCreds", "rootToken"} : Set(i, 1)
          /\ UNCHANGED <<keys, buckets, localTree, deployKey>> /\ disk' \in {disk, mem'}
          /\ argoKey' \in {argoKey, mem.val["sshKey"]}
      BY <1>5 DEF RunPreflight, PrepareParameters, InstallArgo, ReuseVaultSecret,
                  StoreVaultSecret, local, cloud, git, cluster
    <2> QED
      BY <1>2, <2>1 DEF Item
  <1>6. ASSUME NEW s \in TfStage, ApplyTf(s) PROVE NamesBounded'
    <2>1. /\ UNCHANGED mem \/ \E i \in {"repoUrl", "cluster", "registry"} : Set(i, 1)
          /\ UNCHANGED <<keys, buckets, localTree, disk, argoKey>>
          /\ deployKey' \in {deployKey, mem.val["sshKey"]}
      BY <1>6 DEF ApplyTf, Provision, TfStage, local, cluster
    <2>2. CASE UNCHANGED mem
      BY <1>0, <2>1, <2>2 DEF NamesBounded
    <2> QED
      BY <1>2, <2>1, <2>2 DEF Item
  <1>7. ASSUME NEW b \in 1..buckets, RediscoverBucket(b) PROVE NamesBounded'
    <2>1. Same /\ Set("bucket", b) /\ disk' = mem'
      BY <1>7 DEF RediscoverBucket, local, git, cluster
    <2>2. mem'.val["bucket"] = b /\ mem'.val["sshKey"] = mem.val["sshKey"]
      BY <1>0, <2>1, SetMem DEF Item
    <2> QED
      BY <1>0, <2>1, <2>2 DEF NamesBounded
  <1>8. ASSUME CreateKeys PROVE NamesBounded'
    <2>1. /\ keys' = keys + 1 /\ Set("sshKey", keys + 1)
          /\ UNCHANGED <<disk, buckets, localTree, deployKey, argoKey>>
      BY <1>8 DEF CreateKeys, cloud, git, cluster
    <2>2. mem'.val["bucket"] = mem.val["bucket"] /\ mem'.val["sshKey"] = keys + 1
      BY <1>0, <2>1, SetMem DEF Item
    <2> QED
      BY <1>0, <2>1, <2>2 DEF NamesBounded
  <1>9. ASSUME CreateStateStorage PROVE NamesBounded'
    <2>1. /\ buckets' = buckets + 1 /\ Set("bucket", buckets + 1)
          /\ UNCHANGED <<disk, keys, localTree, deployKey, argoKey>>
      BY <1>9 DEF CreateStateStorage, local, git, cluster
    <2>2. mem'.val["sshKey"] = mem.val["sshKey"] /\ mem'.val["bucket"] = buckets + 1
      BY <1>0, <2>1, SetMem DEF Item
    <2> QED
      BY <1>0, <2>1, <2>2 DEF NamesBounded
  <1>10. ASSUME CloneAndBuild \/ ParametriseTf \/ RebuildTree PROVE NamesBounded'
    <2>1. /\ UNCHANGED <<mem, disk, keys, buckets, deployKey, argoKey>>
          /\ \/ localTree' \in {[tpl |-> template, bucket |-> 0], NoTree}
             \/ localTree' = [tpl |-> template, bucket |-> mem.val["bucket"]]
             \/ localTree' = [localTree EXCEPT !.bucket = mem.val["bucket"]]
      BY <1>10 DEF CloneAndBuild, ParametriseTf, RebuildTree, cloud, git, cluster
    <2>2. localTree'.bucket \in {0, mem.val["bucket"]}
      BY <2>1 DEF IInv, TypeOK, LocalType, Tree, NoTree
    <2> QED
      BY <1>0, <2>1, <2>2 DEF NamesBounded
  <1>11. ASSUME NEW c \in RestartFrom, LaunchFrom(c) PROVE NamesBounded'
    <2>1. disk'.val = disk.val /\ mem' = disk' /\ Same
      BY <1>11, LaunchFromState DEF LaunchFrom, Start, local, cloud, git, cluster
    <2> QED
      BY <1>0, <2>1 DEF NamesBounded
  <1>12. ASSUME RecordStage PROVE NamesBounded'
    <2>1. mem'.val = mem.val /\ disk' = mem' /\ Same
      BY <1>12, RecordedState DEF RecordStage, local, cloud, git, cluster
    <2> QED
      BY <1>0, <2>1 DEF NamesBounded
  <1>13. CASE UNCHANGED vars
    BY <1>0, <1>13 DEF vars, local, cloud, git, cluster, NamesBounded
  <1> QED
    BY <1>3, <1>4, <1>5, <1>6, <1>7, <1>8, <1>9, <1>10, <1>11, <1>12, <1>13
    DEF Next, Proceed

\* Work is done in a stage that was entered.
LEMMA WorkAt ==
    ASSUME NEW s \in Stage, Work(s)
    PROVE  at = s /\ step = "enter" /\ Ready(s) /\ ~Blocked(s)
  BY DEF Work, Runs, Blocked

\* No step breaks the order of the checkpoints or enters a stage too early.
LEMMA OrderStep ==
    ASSUME IInv, [Next]_vars
    PROVE  CheckpointsArePrefix' /\ Positioned'
  <1>. DEFINE Goal == CheckpointsArePrefix' /\ Positioned'
              SameLists == mem'.cps = mem.cps /\ disk'.cps = disk.cps
  <1>0. CheckpointsArePrefix /\ Positioned
    BY DEF IInv
  <1>. USE DEF Show, Off, Preflight, Dependencies, OneTimeSetup, RepoPrep, VcsTf, K8sTf,
               GitopsVcs, K8sDelivery, SecretsManagement, SecretsTf, UsersTf,
               CoreServicesTf, TfStoreHardening
  <1>1. ASSUME InOrder(mem'.cps), InOrder(disk'.cps) PROVE CheckpointsArePrefix'
    BY <1>1 DEF InOrder, CheckpointsArePrefix
  <1>2. ASSUME SameLists PROVE CheckpointsArePrefix'
    BY <1>1, <1>2, Numbers
  <1>3. ASSUME at \in Stage, at' = at, SameLists,
               \/ step' \in {"record", "enter"}
               \/ at = OneTimeSetup /\ step' = "bucket"
               \/ at = K8sDelivery /\ step' = "app"
               \/ at = SecretsManagement /\ step' \in {"init", "exec", "secret"}
        PROVE  Goal
    <2>1. Positioned'
      BY <1>0, <1>3, Numbers DEF Positioned, Stage
    <2> QED
      BY <1>2, <1>3, <2>1
  <1>4. ASSUME Exit, disk' = disk PROVE Goal
    <2>1. InOrder(mem'.cps) /\ InOrder(disk'.cps)
      BY <1>4, Numbers, BlankState DEF Exit, InOrder
    <2>2. Positioned'
      BY <1>4 DEF Exit, Go, Positioned
    <2> QED
      BY <1>1, <2>1, <2>2
  <1>5. ASSUME InOrder(disk'.cps), mem' = disk', disk' \in State,
               Go(Preflight, IF IsAws THEN "discover" ELSE "enter")
        PROVE  Goal
    <2>1. Len(mem'.cps) >= 0
      BY <1>5 DEF State
    <2>2. Positioned'
      BY <1>5, <2>1 DEF Go, Positioned
    <2> QED
      BY <1>1, <1>5, <2>2
  <1>6. ASSUME at \in Stage, Len(mem.cps) >= at, SameLists, Enter(at + 1)
        PROVE  Goal
    <2>0. at \in 1..13 /\ Len(mem.cps) \in Nat
      BY <1>6, Numbers DEF Stage
    <2>1. at' = at + 1 /\ step' = IF at' = 3 THEN "prepare" ELSE "enter"
      BY <1>6 DEF Enter, Go
    <2>2. at' \in 2..14 /\ Len(mem'.cps) >= at' - 1
      BY <1>6, <2>0, <2>1
    <2>3. mem'.cps = disk'.cps
      BY <1>0, <1>6, <2>0 DEF Positioned
    <2>4. Positioned'
      BY <2>1, <2>2, <2>3 DEF Positioned
    <2> QED
      BY <1>2, <1>6, <2>4
  <1>7. ASSUME Launch PROVE Goal
    BY <1>5, <1>7, Numbers DEF Launch, Start, IInv, TypeOK, StoreType
  <1>8. ASSUME NEW c \in RestartFrom, LaunchFrom(c) PROVE Goal
    BY <1>5, <1>8, LaunchFromState DEF LaunchFrom, Start
  <1>9. ASSUME Skip PROVE Goal
    <2>1. HasCheckpoint(mem.cps, at)
      BY <1>9 DEF Skip, Runs
    <2>2. Len(mem.cps) >= at
      BY <1>9, <2>1, Numbers, RecordedByLength DEF Skip
    <2> QED
      BY <1>6, <1>9, <2>2 DEF Skip
  <1>10. ASSUME ParametriseTf PROVE Goal
    BY <1>0, <1>6, <1>10 DEF ParametriseTf, Positioned, Stage, Enter
  <1>11. ASSUME RecordStage PROVE Goal
    <2>1. at \in Stage /\ step = "record" /\ disk' = mem'
      BY <1>11 DEF RecordStage
    <2>2. /\ InOrder(mem'.cps) /\ Len(mem'.cps) >= at
      BY <1>11, <2>1, RecordedState, Numbers DEF RecordStage, Stage
    <2>3. \/ at = RepoPrep /\ Go(RepoPrep, "parametrise")
          \/ at # RepoPrep /\ Enter(at + 1)
      BY <1>11 DEF RecordStage
    <2>4. Positioned'
      BY <1>0, <2>1, <2>2, <2>3 DEF Positioned, Enter, Go, Stage
    <2> QED
      BY <1>1, <2>1, <2>2, <2>4
  <1>12. ASSUME Raise \/ ShowCredentials \/ Die \/ \E s \in TfStage : ApplyFails(s)
         PROVE  Goal
    BY <1>4, <1>12 DEF Raise, ShowCredentials, Die, ApplyFails
  <1>13. ASSUME NEW i \in Item, NEW v \in Nat, Set(i, v), disk' \in {disk, mem'},
                at # Off
         PROVE  SameLists
    BY <1>0, <1>13, SetMem DEF Positioned
  <1>14. ASSUME KeepBucket \/ InstallDependencies \/ CloneAndBuild \/ UploadGitops
                \/ CreateRegistryApp \/ WaitVault \/ MissVaultSecret \/ InitVault
                \/ ProtectStateStorage
         PROVE  Goal
    BY <1>3, <1>14, WorkAt
    DEF KeepBucket, InstallDependencies, CloneAndBuild, UploadGitops, CreateRegistryApp,
        WaitVault, MissVaultSecret, InitVault, ProtectStateStorage, Enter, Go, Stage
  <1>15. ASSUME NEW b \in 1..buckets, RediscoverBucket(b) PROVE Goal
    <2>1. SameLists
      BY <1>13, <1>15, StoredNames DEF RediscoverBucket, Item
    <2> QED
      BY <1>3, <1>15, <2>1 DEF RediscoverBucket, Enter, Go, Stage
  <1>16. ASSUME RunPreflight \/ PrepareParameters \/ CreateKeys \/ CreateStateStorage
                \/ InstallArgo \/ ReuseVaultSecret \/ StoreVaultSecret
         PROVE  Goal
    <2>1. /\ at \in Stage /\ at' = at
          /\ \/ step' \in {"record", "enter"}
             \/ at = OneTimeSetup /\ step' = "bucket"
             \/ at = K8sDelivery /\ step' = "app"
      BY <1>16, WorkAt
      DEF RunPreflight, PrepareParameters, CreateKeys, CreateStateStorage, InstallArgo,
          ReuseVaultSecret, StoreVaultSecret, Go, Stage
    <2>2. \E i \in Item : \E v \in Nat : Set(i, v) /\ disk' \in {disk, mem'}
      BY <1>16, StoredNames
      DEF RunPreflight, PrepareParameters, CreateKeys, CreateStateStorage, InstallArgo,
          ReuseVaultSecret, StoreVaultSecret, Item
    <2> QED
      BY <1>3, <1>13, <2>1, <2>2 DEF Stage
  <1>17. ASSUME NEW s \in TfStage, ApplyTf(s) PROVE Goal
    <2>1. at = s /\ s \in Stage /\ at' = s /\ step' = "record" /\ disk' = disk
      BY <1>17, WorkAt DEF ApplyTf, TfStage, Stage, Go
    <2>2. UNCHANGED mem \/ \E i \in {"repoUrl", "cluster", "registry"} : Set(i, 1)
      BY <1>17 DEF ApplyTf, TfStage
    <2>3. SameLists
      BY <1>13, <2>1, <2>2 DEF Item, Stage
    <2> QED
      BY <1>3, <2>1, <2>3
  <1>18. ASSUME TemplateAdvances \/ RebuildTree \/ UNCHANGED vars PROVE Goal
    <2>1. UNCHANGED <<at, step, mem, disk>>
      BY <1>18 DEF TemplateAdvances, RebuildTree, vars, control
    <2> QED
      BY <1>0, <1>2, <2>1 DEF Positioned
  <1> QED
    BY <1>7, <1>8, <1>9, <1>10, <1>11, <1>12, <1>14, <1>15, <1>16, <1>17, <1>18
    DEF Next, Proceed

\* Fewer stages provide fewer values; setting another value takes none away.
LEMMA ProvidedFewer ==
    ASSUME NEW val, NEW n \in Nat, NEW m \in Nat, m <= n, Provided(val, n)
    PROVE  Provided(val, m)
  BY DEF Provided, Preflight, OneTimeSetup, VcsTf, K8sTf, K8sDelivery, SecretsManagement,
         SecretsTf

LEMMA ProvidedSet ==
    ASSUME IInv, NEW item \in Item, NEW v \in Nat \ {0}, Set(item, v),
           NEW n \in Nat, Provided(mem.val, n)
    PROVE  Provided(mem'.val, n)
  <1>1. \A i \in Item : mem.val[i] # 0 => mem'.val[i] # 0
    BY SetMem
  <1> QED
    BY <1>1 DEF Provided, Item

\* A running process holds the values of the stages before its own.
LEMMA ProvidedSoFar ==
    ASSUME IInv, at \in Stage
    PROVE  Provided(mem.val, at - 1)
  <1>1. /\ at # Off /\ at - 1 \in Nat /\ Len(mem.cps) \in Nat
        /\ Len(mem.cps) >= at - 1 /\ Provided(mem.val, Len(mem.cps))
    BY Numbers DEF IInv, Positioned, ValuesKept, Stage, Off, Preflight
  <1> QED
    BY <1>1, ProvidedFewer

\* No step loses a value that what is recorded, or is being done, provides.
LEMMA ValuesStep ==
    ASSUME IInv, [Next]_vars
    PROVE  ValuesKept'
  <1>0. Positioned /\ ValuesKept /\ Positioned'
    BY OrderStep DEF IInv
  <1>. USE DEF Show, Off, Preflight, Dependencies, OneTimeSetup, RepoPrep, VcsTf, K8sTf,
               GitopsVcs, K8sDelivery, SecretsManagement, SecretsTf, UsersTf,
               CoreServicesTf, TfStoreHardening
  <1>1. ASSUME Exit, disk' = disk PROVE ValuesKept'
    BY <1>0, <1>1 DEF Exit, Go, ValuesKept
  <1>2. ASSUME Provided(disk'.val, Len(disk'.cps)), mem' = disk', at' = Preflight,
               step' \in {"discover", "enter"}
        PROVE  ValuesKept'
    BY <1>2 DEF ValuesKept
  <1>3. ASSUME at' = at, disk' = disk, mem' = mem, step # "prepare",
               step' = "record" => Provided(mem.val, at), step' \notin {"bucket", "app"}
        PROVE  ValuesKept'
    BY <1>0, <1>3 DEF ValuesKept
  <1>4. ASSUME NEW i \in Item, NEW v \in Nat \ {0}, Set(i, v), at \in Stage, at' = at,
               disk' \in {disk, mem'}, step # "prepare" \/ i = "params",
               step' = "record" => Provided(mem'.val, at),
               step' = "bucket" => i = "sshKey", step' = "app" => i = "argoCreds"
        PROVE  ValuesKept'
    <2>1. mem'.cps = mem.cps /\ mem'.val[i] = v /\ \A j \in Item : mem.val[j] # 0 => mem'.val[j] # 0
      BY <1>4, SetMem
    <2>2. Provided(mem'.val, Len(mem'.cps))
      BY <1>0, <1>4, <2>1, ProvidedSet, Numbers DEF ValuesKept, Stage
    <2>3. Provided(disk'.val, Len(disk'.cps))
      BY <1>0, <1>4, <2>2 DEF ValuesKept
    <2>4. mem.val["params"] # 0 \/ i = "params" => mem'.val["params"] # 0
      BY <1>4, <2>1 DEF Item
    <2> QED
      BY <1>0, <1>4, <2>1, <2>2, <2>3, <2>4 DEF ValuesKept, Stage
  <1>5. ASSUME Launch PROVE ValuesKept'
    BY <1>0, <1>2, <1>5 DEF Launch, Start, Go, ValuesKept
  <1>6. ASSUME NEW c \in RestartFrom, LaunchFrom(c) PROVE ValuesKept'
    <2>1. c \in 1..13 /\ Len(disk.cps) \in 0..13
      BY <1>6, Numbers, ConstantsAssumption DEF Stage
    <2>2. disk'.val = disk.val
           /\ Len(disk'.cps) = IF Len(disk.cps) >= c THEN c - 1 ELSE Len(disk.cps)
      BY <1>6, LaunchFromState DEF LaunchFrom
    <2>3. /\ disk'.val = disk.val
          /\ Len(disk'.cps) \in Nat /\ Len(disk'.cps) <= Len(disk.cps)
      BY <2>1, <2>2
    <2>4. Provided(disk'.val, Len(disk'.cps))
      BY <1>0, <2>3, ProvidedFewer, Numbers DEF ValuesKept
    <2> QED
      BY <1>2, <1>6, <2>4 DEF LaunchFrom, Start, Go
  <1>7. ASSUME Skip \/ ParametriseTf PROVE ValuesKept'
    <2>1. /\ at \in Stage /\ at' = at + 1 /\ mem' = mem /\ disk' = disk
          /\ step' \in {"prepare", "enter"} /\ step # "prepare"
          /\ at' = OneTimeSetup => step' = "prepare"
      BY <1>7 DEF Skip, ParametriseTf, Enter, Go, Stage
    <2>2. at' > OneTimeSetup => mem.val["params"] # 0
      BY <1>0, <2>1 DEF ValuesKept, Stage
    <2>3. Provided(disk.val, Len(disk.cps)) /\ Provided(mem.val, Len(mem.cps))
      BY <1>0, <2>1 DEF ValuesKept, Stage
    <2> QED
      BY <2>1, <2>2, <2>3 DEF ValuesKept
  <1>8. ASSUME RecordStage PROVE ValuesKept'
    <2>1. /\ at \in Stage /\ step = "record" /\ disk' = mem' /\ mem'.val = mem.val
          /\ Len(mem'.cps) = IF Len(mem.cps) >= at THEN Len(mem.cps) ELSE at
      BY <1>8, RecordedState DEF RecordStage
    <2>2. Provided(mem'.val, Len(mem'.cps))
      BY <1>0, <2>1 DEF ValuesKept, Stage
    <2>3. /\ at' \in {at, at + 1} /\ step' \in {"prepare", "enter", "parametrise"}
          /\ at' = OneTimeSetup => step' = "prepare"
      BY <1>8 DEF RecordStage, Enter, Go
    <2> QED
      BY <1>0, <2>1, <2>2, <2>3 DEF ValuesKept, Stage
  <1>9. ASSUME Raise \/ ShowCredentials \/ Die \/ \E s \in TfStage : ApplyFails(s)
        PROVE  ValuesKept'
    BY <1>1, <1>9 DEF Raise, ShowCredentials, Die, ApplyFails
  <1>10. ASSUME NEW s \in {Dependencies, RepoPrep, GitopsVcs, TfStoreHardening}, Work(s),
                UNCHANGED <<mem, disk>>, Go(s, "record")
         PROVE  ValuesKept'
    <2>1. at \in Stage /\ at = s /\ at' = at /\ step # "prepare"
      BY <1>10, WorkAt DEF Stage, Go
    <2>2. Provided(mem.val, at)
      BY <2>1, <1>10, ProvidedSoFar DEF Provided, Stage
    <2> QED
      BY <1>3, <1>10, <2>1, <2>2 DEF Go
  <1>11. ASSUME InstallDependencies \/ CloneAndBuild \/ UploadGitops \/ ProtectStateStorage
         PROVE  ValuesKept'
    BY <1>10, <1>11
    DEF InstallDependencies, CloneAndBuild, UploadGitops, ProtectStateStorage
  <1>12. ASSUME KeepBucket \/ WaitVault \/ MissVaultSecret \/ InitVault
         PROVE  ValuesKept'
    BY <1>3, <1>12, WorkAt
    DEF KeepBucket, WaitVault, MissVaultSecret, InitVault, Enter, Go, Stage
  <1>13. ASSUME CreateRegistryApp PROVE ValuesKept'
    <2>1. Provided(mem.val, at)
      <3>1. at = K8sDelivery /\ mem.val["argoCreds"] # 0 /\ Provided(mem.val, at - 1)
        BY <1>0, <1>13, ProvidedSoFar DEF CreateRegistryApp, ValuesKept, Stage
      <3> QED
        BY <3>1 DEF Provided
    <2> QED
      BY <1>3, <1>13, <2>1 DEF CreateRegistryApp, Go
  <1>14. ASSUME NEW b \in 1..buckets, RediscoverBucket(b) PROVE ValuesKept'
    BY <1>4, <1>14, StoredNames DEF RediscoverBucket, Enter, Go, Stage, Item
  <1>15. ASSUME PrepareParameters PROVE ValuesKept'
    BY <1>4, <1>15 DEF PrepareParameters, Go, Stage, Item
  <1>16. ASSUME CreateKeys PROVE ValuesKept'
    BY <1>4, <1>16, StoredNames, WorkAt DEF CreateKeys, Go, Stage, Item
  <1>17. ASSUME CreateStateStorage PROVE ValuesKept'
    <2>1. /\ at = OneTimeSetup /\ Provided(mem.val, at - 1)
          /\ mem.val["sshKey"] # 0 /\ mem.val["params"] # 0 /\ mem.val["gitUser"] # 0
      BY <1>0, <1>17, ProvidedSoFar DEF CreateStateStorage, ValuesKept, Provided, Stage
    <2>2. buckets + 1 \in Nat \ {0} /\ Set("bucket", buckets + 1)
      BY <1>17, StoredNames DEF CreateStateStorage
    <2>3. Provided(mem'.val, at)
      BY <2>1, <2>2, SetMem DEF Provided, Item
    <2> QED
      BY <1>4, <1>17, <2>1, <2>2, <2>3 DEF CreateStateStorage, Go, Stage, Item
  <1>18. ASSUME RunPreflight PROVE ValuesKept'
    <2>1. at = Preflight /\ step = "enter" /\ Set("gitUser", 1)
      BY <1>18, WorkAt DEF RunPreflight, Stage
    <2>2. Provided(mem'.val, at)
      BY <2>1, SetMem DEF Provided, Item
    <2> QED
      BY <1>4, <1>18, <2>1, <2>2 DEF RunPreflight, Go, Stage, Item
  <1>19. ASSUME InstallArgo PROVE ValuesKept'
    BY <1>4, <1>19, WorkAt DEF InstallArgo, Go, Stage, Item
  <1>20. ASSUME ReuseVaultSecret \/ StoreVaultSecret PROVE ValuesKept'
    <2>1. /\ at = SecretsManagement /\ step # "prepare" /\ Set("rootToken", 1)
          /\ at' = at /\ step' = "record" /\ disk' = disk
      BY <1>20 DEF ReuseVaultSecret, StoreVaultSecret, Go
    <2>2. Provided(mem.val, at - 1)
      BY <2>1, ProvidedSoFar DEF Stage
    <2>3. Provided(mem'.val, at - 1) /\ mem'.val["rootToken"] # 0
      BY <2>1, <2>2, ProvidedSet, SetMem DEF Item
    <2>4. Provided(mem'.val, at)
      BY <2>1, <2>3 DEF Provided
    <2> QED
      BY <1>4, <2>1, <2>4 DEF Stage, Item
  <1>21. ASSUME NEW s \in TfStage, ApplyTf(s) PROVE ValuesKept'
    <2>1. /\ s \in Stage /\ at = s /\ step # "prepare" /\ at' = s /\ step' = "record"
          /\ disk' = disk
      BY <1>21, WorkAt DEF ApplyTf, Go, TfStage, Stage
    <2>2. Provided(mem.val, s - 1)
      BY <2>1, ProvidedSoFar
    <2>3. CASE s \in {UsersTf, CoreServicesTf}
      <3>1. mem' = mem
        BY <1>21, <2>3 DEF ApplyTf
      <3>2. Provided(mem.val, s)
        BY <2>2, <2>3 DEF Provided
      <3> QED
        BY <1>3, <2>1, <3>1, <3>2
    <2>4. ASSUME NEW i \in {"repoUrl", "cluster", "registry"}, Set(i, 1),
                 \/ s = VcsTf /\ i = "repoUrl"
                 \/ s = K8sTf /\ i = "cluster"
                 \/ s = SecretsTf /\ i = "registry"
          PROVE  ValuesKept'
      <3>1. i \in Item /\ mem'.val[i] # 0 /\ Provided(mem'.val, s - 1)
        BY <2>1, <2>2, <2>4, ProvidedSet, SetMem DEF Item, Stage
      <3>2. Provided(mem'.val, s)
        BY <2>4, <3>1 DEF Provided
      <3> QED
        BY <1>4, <2>1, <2>4, <3>1, <3>2
    <2>5. CASE s = VcsTf
      <3>1. Set("repoUrl", 1)
        BY <1>21, <2>5 DEF ApplyTf
      <3> QED
        BY <2>4, <2>5, <3>1
    <2>6. CASE s = K8sTf
      <3>1. Set("cluster", 1)
        BY <1>21, <2>6 DEF ApplyTf
      <3> QED
        BY <2>4, <2>6, <3>1
    <2>7. CASE s = SecretsTf
      <3>1. Set("registry", 1)
        BY <1>21, <2>7 DEF ApplyTf
      <3> QED
        BY <2>4, <2>7, <3>1
    <2> QED
      BY <2>3, <2>5, <2>6, <2>7 DEF TfStage
  <1>22. ASSUME TemplateAdvances \/ RebuildTree \/ UNCHANGED vars PROVE ValuesKept'
    <2>1. UNCHANGED <<at, step, mem, disk>>
      BY <1>22 DEF TemplateAdvances, RebuildTree, vars, control
    <2> QED
      BY <1>0, <2>1 DEF ValuesKept
  <1> QED
    BY <1>5, <1>6, <1>7, <1>8, <1>9, <1>11, <1>12, <1>13, <1>14, <1>15, <1>16, <1>17,
       <1>18, <1>19, <1>20, <1>21, <1>22
    DEF Next, Proceed

\* No step undoes an effect, but for a rebuilding that fails.
EffectsStay ==
    /\ tools => tools'
    /\ localTree.tpl # 0 => localTree'.tpl # 0 \/ RebuildMayFail
    /\ \A s \in TfStage : owner[s] # 0 => owner'[s] # 0
    /\ mainTree.tpl # 0 => mainTree'.tpl # 0 \/ RebuildMayFail
    /\ registryApp => registryApp'
    /\ vaultInit => vaultInit'
    /\ vaultSecret => vaultSecret'
    /\ hardened # {} => hardened' # {}

LEMMA EffectsStayStep ==
    ASSUME IInv, [Next]_vars
    PROVE  EffectsStay
  <1>0. EffectsKept
    BY DEF IInv
  <1>. USE DEF RepoPrep, VcsTf, K8sTf, GitopsVcs, SecretsTf, UsersTf, CoreServicesTf
  <1>1. ASSUME UNCHANGED <<tools, localTree, cloud, mainTree, registryApp, vaultSecret>>,
               vaultInit => vaultInit'
        PROVE  EffectsStay
    BY <1>1 DEF EffectsStay, cloud
  <1>2. ASSUME Launch \/ (\E c \in RestartFrom : LaunchFrom(c)) \/ Skip \/ RecordStage
               \/ Raise \/ ShowCredentials \/ KeepBucket \/ RunPreflight
               \/ PrepareParameters \/ CreateKeys \/ WaitVault \/ ReuseVaultSecret
               \/ MissVaultSecret \/ InitVault \/ Die \/ TemplateAdvances \/ UNCHANGED vars
        PROVE  EffectsStay
    BY <1>1, <1>2
    DEF Launch, LaunchFrom, Start, Skip, RecordStage, Raise, ShowCredentials, KeepBucket,
        RunPreflight, PrepareParameters, CreateKeys, WaitVault, ReuseVaultSecret,
        MissVaultSecret, InitVault, Die, TemplateAdvances, vars, local, cloud, git, cluster
  <1>3. ASSUME InstallDependencies \/ CreateStateStorage \/ CreateRegistryApp
               \/ InstallArgo \/ StoreVaultSecret
        PROVE  EffectsStay
    BY <1>3
    DEF EffectsStay, InstallDependencies, CreateStateStorage, InstallArgo,
        CreateRegistryApp, StoreVaultSecret, local, cloud, git, cluster
  <1>8. ASSUME (\E b \in 1..buckets : RediscoverBucket(b)) \/ ProtectStateStorage
        PROVE  EffectsStay
    <2>1. hardened # {} => hardened' # {}
      BY <1>8 DEF RediscoverBucket, ProtectStateStorage
    <2>2. UNCHANGED <<local, owner, git, cluster>>
      BY <1>8 DEF RediscoverBucket, ProtectStateStorage
    <2> QED
      BY <2>1, <2>2 DEF EffectsStay, local, git, cluster
  <1>4. ASSUME CloneAndBuild PROVE EffectsStay
    <2>1. localTree'.tpl = template /\ template # 0
      BY <1>4 DEF CloneAndBuild, IInv, TypeOK, GitType
    <2> QED
      BY <1>4, <2>1 DEF CloneAndBuild, EffectsStay, cloud, git, cluster
  <1>5. ASSUME ParametriseTf PROVE EffectsStay
    <2>1. localTree'.tpl = localTree.tpl
      BY <1>5 DEF ParametriseTf, IInv, TypeOK, LocalType, Tree
    <2> QED
      BY <1>5, <2>1 DEF ParametriseTf, EffectsStay, cloud, git, cluster
  <1>6. ASSUME NEW s \in TfStage, ApplyTf(s) \/ ApplyFails(s) PROVE EffectsStay
    <2>1. at = s /\ s > RepoPrep /\ localTree.tpl # 0
      <3>1. s \in Stage /\ Work(s)
        BY <1>6 DEF ApplyTf, ApplyFails, TfStage, Stage, Preflight, TfStoreHardening
      <3> QED
        BY <3>1, WorkAt DEF TfStage, Blocked
    <2>2. localTree.bucket # 0
      BY <1>0, <2>1 DEF EffectsKept
    <2>3. \A t \in TfStage : owner[t] # 0 => owner'[t] # 0
      BY <1>6, <2>2 DEF ApplyTf, ApplyFails, Provision, IInv, TypeOK, CloudType
    <2> QED
      BY <1>6, <2>3
      DEF ApplyTf, ApplyFails, Provision, EffectsStay, local, git, cluster
  <1>7. ASSUME UploadGitops PROVE EffectsStay
    <2>1. at > RepoPrep
      BY <1>7, WorkAt DEF UploadGitops, Stage, Preflight, TfStoreHardening
    <2>2. localTree.tpl # 0 \/ RebuildMayFail
      BY <1>0, <2>1 DEF EffectsKept
    <2> QED
      BY <1>7, <2>2 DEF UploadGitops, EffectsStay, local, cloud, cluster
  <1>9. ASSUME RebuildTree PROVE EffectsStay
    <2>1. localTree'.tpl # 0 \/ RebuildMayFail
      BY <1>9 DEF RebuildTree, IInv, TypeOK, GitType
    <2> QED
      BY <1>9, <2>1 DEF RebuildTree, EffectsStay, cloud, git, cluster
  <1> QED
    BY <1>2, <1>3, <1>4, <1>5, <1>6, <1>7, <1>8, <1>9 DEF Next, Proceed

\* The effects of the stages before the running one are in place.
LEMMA AchievedSoFar ==
    ASSUME IInv, at \in Stage
    PROVE  Achieved(at - 1)
  <1>1. Achieved(Len(disk.cps)) /\ Len(disk.cps) >= at - 1 /\ Len(disk.cps) \in Nat
    BY Numbers DEF IInv, EffectsKept, Positioned, Stage, Preflight, Off
  <1> QED
    BY <1>1 DEF Achieved, Stage, Preflight, Dependencies, RepoPrep, VcsTf, K8sTf, GitopsVcs,
        K8sDelivery, SecretsManagement, SecretsTf, UsersTf, CoreServicesTf, TfStoreHardening

\* The list on disk grows only when the stage being run is recorded.
LEMMA ListStep ==
    ASSUME IInv, [Next]_vars
    PROVE  \/ Len(disk'.cps) <= Len(disk.cps)
           \/ /\ at \in Stage /\ step = "record" /\ RecordStage
              /\ Len(disk.cps) = at - 1 /\ Len(disk'.cps) = at
  <1>1. CASE disk'.cps = disk.cps
    BY <1>1, Numbers
  <1>2. ASSUME NEW c \in RestartFrom, LaunchFrom(c)
        PROVE  Len(disk'.cps) <= Len(disk.cps)
    <2>1. Len(disk'.cps) = IF Len(disk.cps) >= c THEN c - 1 ELSE Len(disk.cps)
      BY <1>2, LaunchFromState DEF LaunchFrom
    <2>2. c \in Nat /\ Len(disk.cps) \in Nat
      BY Numbers, ConstantsAssumption DEF Stage, Preflight, TfStoreHardening
    <2> QED
      BY <2>1, <2>2
  <1>3. ASSUME RecordStage
        PROVE  \/ Len(disk'.cps) <= Len(disk.cps)
               \/ at \in Stage /\ step = "record" /\ Len(disk.cps) = at - 1
                  /\ Len(disk'.cps) = at
    <2>1. at \in Stage /\ step = "record" /\ mem.cps = disk.cps
      BY <1>3 DEF RecordStage, IInv, Positioned, Stage, Preflight, Off
    <2> QED
      BY <1>3, <2>1, RecordedState, Numbers DEF RecordStage, Stage, Preflight, TfStoreHardening
  <1>4. ASSUME NEW item \in Item, NEW v \in Nat, Set(item, v), disk' = mem', at # Off
        PROVE  disk'.cps = disk.cps
    BY <1>4, SetMem DEF IInv, Positioned
  <1>5. ASSUME (\E b \in 1..buckets : RediscoverBucket(b)) \/ PrepareParameters
        PROVE  disk'.cps = disk.cps
    <2>1. ASSUME NEW b \in 1..buckets, RediscoverBucket(b) PROVE disk'.cps = disk.cps
      <3>1. b \in Nat /\ at = Preflight /\ Set("bucket", b) /\ disk' = mem'
        BY <2>1, StoredNames DEF RediscoverBucket
      <3> QED
        BY <1>4, <3>1 DEF Item, Off, Preflight
    <2>2. ASSUME PrepareParameters PROVE disk'.cps = disk.cps
      BY <1>4, <2>2 DEF PrepareParameters, Item, Off, OneTimeSetup
    <2> QED
      BY <1>5, <2>1, <2>2
  <1>6. CASE UNCHANGED disk
    BY <1>1, <1>6
  <1>7. ASSUME Next, ~RecordStage, ~PrepareParameters,
               ~\E b \in 1..buckets : RediscoverBucket(b),
               ~\E c \in RestartFrom : LaunchFrom(c)
        PROVE  UNCHANGED disk
    BY <1>7
    DEF Next, Proceed, Launch, Start, Skip, Raise, ShowCredentials, KeepBucket, RunPreflight,
        InstallDependencies, CreateKeys, CreateStateStorage, CloneAndBuild, ParametriseTf,
        ApplyTf, ApplyFails, RebuildTree, UploadGitops, InstallArgo, CreateRegistryApp,
        WaitVault, ReuseVaultSecret, MissVaultSecret, InitVault, StoreVaultSecret,
        ProtectStateStorage, Die, TemplateAdvances
  <1>8. CASE UNCHANGED vars
    BY <1>6, <1>8 DEF vars
  <1> QED
    BY <1>1, <1>2, <1>3, <1>5, <1>6, <1>7, <1>8

\* No step falsifies what the invariant says of effects.
LEMMA EffectsStep ==
    ASSUME IInv, [Next]_vars
    PROVE  EffectsKept'
  <1>0. Positioned /\ ValuesKept /\ EffectsKept /\ EffectsStay
    BY EffectsStayStep DEF IInv
  <1>. USE DEF Show, Off, Preflight, Dependencies, OneTimeSetup, RepoPrep, VcsTf, K8sTf,
               GitopsVcs, K8sDelivery, SecretsManagement, SecretsTf, UsersTf,
               CoreServicesTf, TfStoreHardening
  <1>1. Achieved(Len(disk.cps))'
    <2>1. CASE Len(disk'.cps) <= Len(disk.cps)
      <3>1. Len(disk.cps) \in Nat /\ Len(disk'.cps) \in Nat /\ Achieved(Len(disk.cps))
        BY <1>0, Numbers, TypesStep DEF EffectsKept, TypeOK, StoreType, State
      <3>2. PICK n \in Nat : n = Len(disk'.cps)
        BY <3>1
      <3>3. Achieved(n)
        <4>1. PICK m \in Nat : m = Len(disk.cps)
          BY <3>1
        <4>2. n <= m /\ Achieved(m)
          BY <2>1, <3>1, <3>2, <4>1
        <4> QED
          BY <4>2 DEF Achieved
      <3>4. Achieved(n)'
        BY <1>0, <3>3 DEF Achieved, EffectsStay, TfStage
      <3> QED
        BY <3>2, <3>4
    <2>2. CASE at \in Stage /\ step = "record" /\ Len(disk'.cps) = at
      <3>1. Achieved(at)
        BY <1>0, <2>2 DEF EffectsKept
      <3> QED
        BY <1>0, <2>2, <3>1 DEF Achieved, EffectsStay, TfStage, Stage
    <2> QED
      BY <2>1, <2>2, ListStep
  <1>2. (vaultSecret \/ step = "secret" => vaultInit)'
    <2>1. ASSUME StoreVaultSecret \/ InitVault PROVE vaultInit'
      BY <1>0, <2>1 DEF StoreVaultSecret, InitVault, EffectsKept
    <2>2. ASSUME Next, ~StoreVaultSecret, ~InitVault
          PROVE  (step' # "secret" \/ UNCHANGED step) /\ UNCHANGED <<vaultSecret, vaultInit>>
      <3>1. UNCHANGED <<vaultSecret, vaultInit>>
        BY <2>2
        DEF Next, Proceed, Launch, LaunchFrom, Start, Skip, RecordStage, Raise,
            ShowCredentials, KeepBucket, RediscoverBucket, RunPreflight,
            InstallDependencies, PrepareParameters, CreateKeys, CreateStateStorage,
            CloneAndBuild, ParametriseTf, ApplyTf, ApplyFails, RebuildTree, UploadGitops,
            InstallArgo, CreateRegistryApp, WaitVault, ReuseVaultSecret, MissVaultSecret,
            ProtectStateStorage, Die, TemplateAdvances, cluster
      <3>2. step' # "secret" \/ UNCHANGED step
        BY <2>2
        DEF Next, Proceed, Launch, LaunchFrom, Start, Skip, RecordStage, Raise,
            ShowCredentials, KeepBucket, RediscoverBucket, RunPreflight,
            InstallDependencies, PrepareParameters, CreateKeys, CreateStateStorage,
            CloneAndBuild, ParametriseTf, ApplyTf, ApplyFails, RebuildTree, UploadGitops,
            InstallArgo, CreateRegistryApp, WaitVault, ReuseVaultSecret, MissVaultSecret,
            ProtectStateStorage, Die, TemplateAdvances, Exit, Go, Enter, control
      <3> QED
        BY <3>1, <3>2
    <2> QED
      BY <1>0, <2>1, <2>2 DEF EffectsKept, vars, control, cluster
  <1>. DEFINE Rendered == at > RepoPrep \/ step = "parametrise"
                            => localTree.tpl # 0 \/ RebuildMayFail
              Backed == at > RepoPrep /\ localTree.tpl # 0
                            => localTree.bucket = mem.val["bucket"] /\ localTree.bucket # 0
  <1>3. Rendered' /\ Backed'
    <2>0. Rendered /\ Backed
      BY <1>0 DEF EffectsKept
    <2>1. ASSUME at' <= RepoPrep, step' # "parametrise", at' \in 0..14
          PROVE  Rendered' /\ Backed'
      BY <2>1
    <2>2. ASSUME at \in Stage, at' = at \/ (at > RepoPrep /\ at' = at + 1), step' # "parametrise",
                 UNCHANGED localTree, mem'.val["bucket"] = mem.val["bucket"] \/ at <= RepoPrep
          PROVE  Rendered' /\ Backed'
      BY <2>0, <2>2 DEF Stage
    <2>3. ASSUME Raise \/ ShowCredentials \/ Die \/ (\E s \in TfStage : ApplyFails(s))
                 \/ Launch \/ (\E c \in RestartFrom : LaunchFrom(c)) \/ KeepBucket
                 \/ (\E b \in 1..buckets : RediscoverBucket(b)) \/ RunPreflight
                 \/ InstallDependencies \/ PrepareParameters \/ CreateKeys
                 \/ CreateStateStorage \/ CloneAndBuild
          PROVE  Rendered' /\ Backed'
      <3>1. at' \in {Off, Preflight, Dependencies, OneTimeSetup, RepoPrep}
        BY <2>3
        DEF Raise, ShowCredentials, Die, ApplyFails, Launch, LaunchFrom, Start, KeepBucket,
            RediscoverBucket, RunPreflight, InstallDependencies, PrepareParameters,
            CreateKeys, CreateStateStorage, CloneAndBuild, Exit, Go, Enter
      <3>2. step' # "parametrise"
        BY <2>3
        DEF Raise, ShowCredentials, Die, ApplyFails, Launch, LaunchFrom, Start, KeepBucket,
            RediscoverBucket, RunPreflight, InstallDependencies, PrepareParameters,
            CreateKeys, CreateStateStorage, CloneAndBuild, Exit, Go, Enter
      <3> QED
        BY <2>1, <3>1, <3>2
    <2>4. ASSUME UploadGitops \/ CreateRegistryApp \/ WaitVault \/ MissVaultSecret
                 \/ InitVault \/ ProtectStateStorage
          PROVE  Rendered' /\ Backed'
      <3>1. at \in Stage /\ at' = at /\ step' # "parametrise" /\ UNCHANGED <<localTree, mem>>
        BY <2>4, WorkAt
        DEF UploadGitops, CreateRegistryApp, WaitVault, MissVaultSecret, InitVault,
            ProtectStateStorage, Go, Stage, local
      <3> QED
        BY <2>2, <3>1
    <2>5. ASSUME InstallArgo \/ ReuseVaultSecret \/ StoreVaultSecret
          PROVE  Rendered' /\ Backed'
      <3>1. /\ at \in Stage /\ at' = at /\ step' # "parametrise" /\ UNCHANGED localTree
            /\ \E i \in {"argoCreds", "rootToken"} : Set(i, 1)
        BY <2>5, WorkAt
        DEF InstallArgo, ReuseVaultSecret, StoreVaultSecret, Go, Stage, local
      <3>2. mem'.val["bucket"] = mem.val["bucket"]
        BY <3>1, SetMem DEF Item
      <3> QED
        BY <2>2, <3>1, <3>2
    <2>6. ASSUME NEW s \in TfStage, ApplyTf(s) PROVE Rendered' /\ Backed'
      <3>1. /\ at \in Stage /\ at' = at /\ step' # "parametrise" /\ UNCHANGED localTree
            /\ UNCHANGED mem \/ \E i \in {"repoUrl", "cluster", "registry"} : Set(i, 1)
        BY <2>6, WorkAt DEF ApplyTf, TfStage, Go, Stage, local
      <3>2. mem'.val["bucket"] = mem.val["bucket"]
        BY <3>1, SetMem DEF Item
      <3> QED
        BY <2>2, <3>1, <3>2
    <2>7. ASSUME Skip PROVE Rendered' /\ Backed'
      <3>1. at \in Stage /\ ~Runs(at) /\ step = "enter"
        BY <2>7 DEF Skip
      <3>2. at # RepoPrep
        BY <3>1 DEF Runs, Always
      <3>3. at' = at + 1 /\ step' # "parametrise" /\ UNCHANGED <<localTree, mem>>
        BY <2>7 DEF Skip, Enter, Go, local
      <3> QED
        BY <2>1, <2>2, <3>1, <3>2, <3>3 DEF Stage
    <2>8. ASSUME RecordStage PROVE Rendered' /\ Backed'
      <3>1. /\ at \in Stage /\ step = "record" /\ mem'.val = mem.val /\ UNCHANGED localTree
            /\ \/ at = RepoPrep /\ at' = at /\ step' = "parametrise"
               \/ at # RepoPrep /\ at' = at + 1 /\ step' # "parametrise"
        BY <2>8, RecordedState DEF RecordStage, Enter, Go, local
      <3>2. CASE at = RepoPrep
        <4>1. localTree.tpl # 0 \/ RebuildMayFail
          BY <1>0, <3>1, <3>2 DEF EffectsKept, Achieved
        <4> QED
          BY <3>1, <3>2, <4>1
      <3>3. CASE at # RepoPrep
        BY <2>1, <2>2, <3>1, <3>3 DEF Stage
      <3> QED
        BY <3>2, <3>3
    <2>9. ASSUME ParametriseTf PROVE Rendered' /\ Backed'
      <3>1. /\ at = RepoPrep /\ at' = VcsTf /\ mem' = mem
            /\ localTree.tpl # 0 \/ RebuildMayFail
            /\ localTree' = [localTree EXCEPT !.bucket = mem.val["bucket"]]
        BY <1>0, <2>0, <2>9 DEF ParametriseTf, Enter, Go
      <3>2. localTree'.tpl = localTree.tpl /\ localTree'.bucket = mem.val["bucket"]
        BY <3>1 DEF IInv, TypeOK, LocalType, Tree
      <3>3. mem.val["bucket"] # 0
        BY <3>1, ProvidedSoFar DEF Provided, Stage
      <3> QED
        BY <3>1, <3>2, <3>3
    <2>10. ASSUME TemplateAdvances \/ UNCHANGED vars PROVE Rendered' /\ Backed'
      BY <2>0, <2>10 DEF TemplateAdvances, vars, control, local
    <2>11. ASSUME RebuildTree PROVE Rendered' /\ Backed'
      <3>1. UNCHANGED <<at, step, mem>> /\ at = GitopsVcs
        BY <2>11, WorkAt DEF RebuildTree, control, Stage
      <3>2. mem.val["bucket"] # 0
        BY <3>1, ProvidedSoFar DEF Provided, Stage
      <3>3. /\ localTree'.tpl # 0 \/ RebuildMayFail
            /\ localTree'.tpl # 0 => localTree'.bucket = mem.val["bucket"]
        BY <2>11 DEF RebuildTree, NoTree, IInv, TypeOK, GitType
      <3> QED
        BY <3>1, <3>2, <3>3
    <2> QED
      BY <2>3, <2>4, <2>5, <2>6, <2>7, <2>8, <2>9, <2>10, <2>11 DEF Next, Proceed
  <1>4. (step = "record" => Achieved(at))'
    <2>1. ASSUME at \in Stage, at' = at,
                 /\ at = Dependencies => tools'
                 /\ at = RepoPrep => localTree'.tpl # 0 \/ RebuildMayFail
                 /\ at \in TfStage => owner'[at] # 0
                 /\ at = GitopsVcs => mainTree'.tpl # 0 \/ RebuildMayFail
                 /\ at = K8sDelivery => registryApp'
                 /\ at = SecretsManagement => vaultSecret'
                 /\ at = TfStoreHardening => hardened' # {}
          PROVE  Achieved(at)'
      <3>1. Achieved(at - 1)
        BY <2>1, AchievedSoFar
      <3> QED
        BY <1>0, <2>1, <3>1 DEF Achieved, EffectsStay, TfStage, Stage
    <2>2. ASSUME RunPreflight \/ CreateStateStorage PROVE Achieved(at)'
      BY <2>1, <2>2, WorkAt DEF RunPreflight, CreateStateStorage, Go, Stage, TfStage
    <2>4. ASSUME InstallDependencies PROVE Achieved(at)'
      BY <2>1, <2>4, WorkAt DEF InstallDependencies, Go, Stage, TfStage
    <2>5. ASSUME CloneAndBuild PROVE Achieved(at)'
      <3>1. localTree'.tpl = template /\ template # 0
        BY <2>5 DEF CloneAndBuild, IInv, TypeOK, GitType
      <3> QED
        BY <2>1, <2>5, <3>1, WorkAt DEF CloneAndBuild, Go, Stage, TfStage
    <2>6. ASSUME UploadGitops PROVE Achieved(at)'
      <3>1. at = GitopsVcs /\ at' = at /\ mainTree' = localTree
        BY <2>6, WorkAt DEF UploadGitops, Go, Stage
      <3>2. localTree.tpl # 0 \/ RebuildMayFail
        BY <1>0, <3>1 DEF EffectsKept
      <3> QED
        BY <2>1, <3>1, <3>2 DEF Stage, TfStage
    <2>7. ASSUME CreateRegistryApp PROVE Achieved(at)'
      BY <2>1, <2>7 DEF CreateRegistryApp, Go, Stage, TfStage
    <2>8. ASSUME ReuseVaultSecret \/ StoreVaultSecret PROVE Achieved(at)'
      BY <2>1, <2>8 DEF ReuseVaultSecret, StoreVaultSecret, Go, Stage, TfStage, cluster
    <2>9. ASSUME ProtectStateStorage PROVE Achieved(at)'
      <3>1. hardened' # {}
        BY <2>9 DEF ProtectStateStorage
      <3> QED
        BY <2>1, <2>9, <3>1, WorkAt DEF ProtectStateStorage, Go, Stage, TfStage
    <2>3. ASSUME NEW s \in TfStage, ApplyTf(s) PROVE Achieved(at)'
      <3>0. s \in Stage /\ Work(s)
        BY <2>3 DEF ApplyTf, TfStage, Stage
      <3>1. at = s /\ s \in Stage /\ at' = s /\ localTree.bucket # 0
        BY <1>0, <2>3, <3>0, WorkAt DEF ApplyTf, Blocked, EffectsKept, TfStage, Go
      <3>2. owner'[s] # 0
        BY <2>3, <3>1 DEF ApplyTf, Provision, IInv, TypeOK, CloudType
      <3> QED
        BY <2>1, <3>1, <3>2 DEF TfStage
    <2>10. ASSUME Next, step' = "record"
           PROVE  \/ RunPreflight \/ CreateStateStorage \/ InstallDependencies
                  \/ CloneAndBuild \/ UploadGitops \/ CreateRegistryApp
                  \/ ReuseVaultSecret \/ StoreVaultSecret \/ ProtectStateStorage
                  \/ \E s \in TfStage : ApplyTf(s)
                  \/ TemplateAdvances \/ RebuildTree
      BY <2>10
      DEF Next, Proceed, Launch, LaunchFrom, Start, Skip, RecordStage, Raise,
          ShowCredentials, KeepBucket, RediscoverBucket, PrepareParameters, CreateKeys,
          ParametriseTf, ApplyFails, InstallArgo, WaitVault, MissVaultSecret, InitVault,
          Die, Exit, Go, Enter
    <2>11. ASSUME TemplateAdvances \/ RebuildTree \/ UNCHANGED vars, step' = "record"
           PROVE  Achieved(at)'
      <3>1. Achieved(at) /\ at \in 0..14 /\ at' = at
        BY <1>0, <2>11, Numbers DEF EffectsKept, TemplateAdvances, RebuildTree, vars, control
      <3> QED
        BY <1>0, <3>1 DEF Achieved, EffectsStay, TfStage
    <2> QED
      BY <2>2, <2>3, <2>4, <2>5, <2>6, <2>7, <2>8, <2>9, <2>10, <2>11
  <1> QED
    BY <1>1, <1>2, <1>3, <1>4 DEF EffectsKept

-----------------------------------------------------------------------------
(* Theorems of the specification *)

\* The strengthened invariant is inductive: recorded, in place, and held in
\* memory go together at every point of every run, whatever stops it.
THEOREM Inductive == Spec => []IInv
  <1>1. IInv /\ [Next]_vars => IInv'
    <2> SUFFICES ASSUME IInv, [Next]_vars PROVE IInv'
      OBVIOUS
    <2> QED
      BY TypesStep, NamesStep, OrderStep, ValuesStep, EffectsStep DEF IInv
  <1> QED
    BY InitIInv, <1>1, PTL DEF Spec

\* Every variable keeps to its type: keys, buckets and template versions that
\* are named exist, and the state file is always one that can be loaded.
THEOREM TypeCorrect == Spec => []TypeOK
  <1>1. IInv => TypeOK
    BY DEF IInv
  <1> QED
    BY Inductive, <1>1, PTL

\* The checkpoint lists are the first stages in their order, for every set of
\* restart points: set_checkpoint and remove_checkpoints_from never leave a gap.
THEOREM PrefixAlways == Spec => []CheckpointsArePrefix
  <1>1. IInv => CheckpointsArePrefix
    BY DEF IInv
  <1> QED
    BY Inductive, <1>1, PTL

\* What a stage subscripts was stored, for itself by prepare_parameters, and by
\* the stages before it.
LEMMA InputsReady ==
    ASSUME IInv
    PROVE  InputsPresent
  <1>1. SUFFICES ASSUME at \in Stage, step = "enter" PROVE Ready(at)
    BY DEF InputsPresent, Runs
  <1>2. Provided(mem.val, at - 1) /\ (at >= OneTimeSetup => mem.val["params"] # 0)
    BY <1>1, ProvidedSoFar
    DEF IInv, ValuesKept, Stage, Preflight, OneTimeSetup, TfStoreHardening
  <1>. USE DEF Preflight, Dependencies, OneTimeSetup, RepoPrep, VcsTf, K8sTf, GitopsVcs,
               K8sDelivery, SecretsManagement, SecretsTf, UsersTf, CoreServicesTf,
               TfStoreHardening
  <1>3. at \in {1, 2, 3, 4, 5, 6, 7, 8, 9, 10, 11, 12, 13}
    BY <1>1 DEF Stage
  <1>4. /\ Needs[1] = {} /\ Needs[2] = {} /\ Needs[4] = {}
        /\ Needs[3] = {"params"} /\ Needs[5] = {"params", "sshKey"} /\ Needs[6] = {"params"}
        /\ Needs[7] = {"repoUrl", "sshKey", "gitUser"}
    BY DEF Needs, Stage
  <1>5. /\ Needs[8] = {"params", "repoUrl", "sshKey", "cluster"}
        /\ Needs[9] = {"params", "cluster"}
        /\ Needs[10] = {"params", "sshKey", "repoUrl", "cluster", "rootToken"}
    BY DEF Needs, Stage
  <1>6. /\ Needs[11] = {"params", "rootToken"}
        /\ Needs[12] = {"params", "cluster", "rootToken", "registry"}
        /\ Needs[13] = {"bucket", "cluster"}
    BY DEF Needs, Stage
  <1>7. CASE at \in {1, 2, 3, 4, 5, 6}
    BY <1>2, <1>4, <1>7 DEF Ready, Provided
  <1>8. CASE at \in {7, 8, 9, 10}
    BY <1>2, <1>4, <1>5, <1>8 DEF Ready, Provided
  <1>9. CASE at \in {11, 12, 13}
    BY <1>2, <1>6, <1>9 DEF Ready, Provided
  <1> QED
    BY <1>3, <1>7, <1>8, <1>9

\* A stage about to run finds every value it reads in the state, although the
\* stages that compute them may have run in an earlier process.
THEOREM InputsAlways == Spec => []InputsPresent
  <1>1. IInv => InputsPresent
    BY InputsReady
  <1> QED
    BY Inductive, <1>1, PTL

\* Once secrets-management is recorded, Vault's root token is in the file and
\* in the cluster, whichever way the process went through the stage.
THEOREM TokenAlways == Spec => []TokenKept
  <1>1. ASSUME IInv PROVE TokenKept
    <2>1. SUFFICES ASSUME SecretsManagement \in Recorded(disk)
                   PROVE  disk.val["rootToken"] # 0 /\ vaultInit /\ vaultSecret
      BY DEF TokenKept
    <2>2. Len(disk.cps) >= SecretsManagement
      BY <1>1, <2>1, Numbers DEF Recorded, InOrder
    <2>3. disk.val["rootToken"] # 0
      BY <1>1, <2>2 DEF IInv, ValuesKept, Provided
    <2>4. vaultSecret
      BY <1>1, <2>2 DEF IInv, EffectsKept, Achieved
    <2>5. vaultInit
      BY <1>1, <2>4 DEF IInv, EffectsKept
    <2> QED
      BY <2>3, <2>4, <2>5
  <1> QED
    BY Inductive, <1>1, PTL

\* Terraform and Atlantis always find the backend of the state in the tree,
\* although the tree is built anew, without a backend, on every launch - as long
\* as no rebuilding before the upload fails.
THEOREM BackendAlways == ASSUME RebuildMayFail = FALSE PROVE Spec => []TreeNamesBackend
  <1>1. ASSUME IInv PROVE TreeNamesBackend
    BY <1>1
    DEF IInv, EffectsKept, TreeNamesBackend, TfStage, RepoPrep, VcsTf, K8sTf, GitopsVcs,
        SecretsTf, UsersTf, CoreServicesTf
  <1> QED
    BY Inductive, <1>1, PTL

-----------------------------------------------------------------------------
(* What the file holds of what the process holds, and how old the trees are *)

\* Outside one-time-setup the process and the file agree on the key and on the
\* bucket; the file never has a key without a bucket; and the keys of
\* one-time-setup are only made while it is not recorded.
Saved ==
    /\ disk.val["sshKey"] # 0 => disk.val["bucket"] # 0
    /\ step = "discover" => mem = disk
    /\ at = OneTimeSetup /\ step \in {"bucket", "record"} => Len(disk.cps) < OneTimeSetup
    /\ \/ at = Off
       \/ at = OneTimeSetup /\ step \in {"bucket", "record"}
       \/ mem.val["sshKey"] = disk.val["sshKey"]
    /\ \/ at = Off
       \/ at = OneTimeSetup /\ step = "record"
       \/ mem.val["bucket"] = disk.val["bucket"]

LEMMA InitSaved == Init => Saved
  BY BlankState DEF Init, Saved, Item, OneTimeSetup, Off

\* Setting a value other than the key and the bucket keeps both.
LEMMA SetOther ==
    ASSUME IInv, NEW i \in Item \ {"sshKey", "bucket"}, Set(i, 1)
    PROVE  /\ mem'.val["sshKey"] = mem.val["sshKey"]
           /\ mem'.val["bucket"] = mem.val["bucket"]
  BY SetMem DEF Item

\* The steps that leave the file, the key and the bucket alone.
Aside ==
    \/ Skip \/ KeepBucket \/ RunPreflight \/ InstallDependencies
    \/ CloneAndBuild \/ ParametriseTf \/ \E s \in TfStage : ApplyTf(s)
    \/ RebuildTree \/ UploadGitops \/ InstallArgo \/ CreateRegistryApp
    \/ WaitVault \/ ReuseVaultSecret \/ MissVaultSecret \/ InitVault \/ StoreVaultSecret
    \/ ProtectStateStorage \/ TemplateAdvances \/ UNCHANGED vars

LEMMA AsideStep ==
    ASSUME IInv, Aside
    PROVE  /\ UNCHANGED <<disk, keys, keyFile, buckets, tplAtLaunch>>
           /\ mem'.val["sshKey"] = mem.val["sshKey"]
           /\ mem'.val["bucket"] = mem.val["bucket"]
           /\ mem' = mem \/ \E i \in Item \ {"sshKey", "bucket"} : Set(i, 1)
           /\ at' = Off <=> at = Off
           /\ \/ at # OneTimeSetup \/ step = "enter" \/ UNCHANGED <<at, step>>
           /\ \/ UNCHANGED <<at, step, mem>>
              \/ step' # "discover" /\ (at' = OneTimeSetup => step' \in {"enter", "prepare"})
  <1>1. UNCHANGED <<disk, keys, keyFile, buckets, tplAtLaunch>>
    BY DEF Aside, Skip, KeepBucket, RunPreflight, InstallDependencies, CloneAndBuild,
           ParametriseTf, ApplyTf, Provision, RebuildTree, UploadGitops, InstallArgo,
           CreateRegistryApp, WaitVault, ReuseVaultSecret, MissVaultSecret, InitVault, StoreVaultSecret,
           ProtectStateStorage, TemplateAdvances, vars, local, cloud, git, cluster, env
  <1>2. mem' = mem \/ \E i \in Item \ {"sshKey", "bucket"} : Set(i, 1)
    BY DEF Aside, Skip, KeepBucket, RunPreflight, InstallDependencies, CloneAndBuild,
           ParametriseTf, ApplyTf, TfStage, RebuildTree, UploadGitops, InstallArgo,
           CreateRegistryApp, WaitVault, ReuseVaultSecret, MissVaultSecret, InitVault, StoreVaultSecret,
           ProtectStateStorage, TemplateAdvances, vars, Item
  <1>3. /\ mem'.val["sshKey"] = mem.val["sshKey"]
        /\ mem'.val["bucket"] = mem.val["bucket"]
    BY <1>2, SetOther
  <1>4. /\ at' = Off <=> at = Off
        /\ \/ at # OneTimeSetup \/ step = "enter" \/ UNCHANGED <<at, step>>
        /\ \/ UNCHANGED <<at, step, mem>>
           \/ step' # "discover" /\ (at' = OneTimeSetup => step' \in {"enter", "prepare"})
    <2>. USE DEF Go, Enter, Stage, Off, Preflight, Dependencies, OneTimeSetup, RepoPrep,
                 VcsTf, K8sTf, GitopsVcs, K8sDelivery, SecretsManagement, SecretsTf,
                 UsersTf, CoreServicesTf, TfStoreHardening
    <2>1. CASE Skip \/ KeepBucket \/ ParametriseTf
      BY <2>1 DEF Skip, KeepBucket, ParametriseTf
    <2>2. CASE \/ RunPreflight \/ InstallDependencies \/ CloneAndBuild
               \/ (\E s \in TfStage : ApplyTf(s))
               \/ UploadGitops \/ InstallArgo \/ WaitVault \/ ProtectStateStorage
      BY <2>2, WorkAt
      DEF RunPreflight, InstallDependencies, CloneAndBuild, ApplyTf, TfStage, UploadGitops,
          InstallArgo, WaitVault, ProtectStateStorage
    <2>3. CASE \/ CreateRegistryApp \/ ReuseVaultSecret \/ MissVaultSecret \/ InitVault
               \/ StoreVaultSecret
      BY <2>3
      DEF CreateRegistryApp, ReuseVaultSecret, MissVaultSecret, InitVault, StoreVaultSecret
    <2>4. CASE TemplateAdvances \/ RebuildTree \/ UNCHANGED vars
      BY <2>4 DEF TemplateAdvances, RebuildTree, vars, control
    <2> QED
      BY <2>1, <2>2, <2>3, <2>4 DEF Aside
  <1> QED
    BY <1>1, <1>2, <1>3, <1>4

\* All steps: those of Aside, the end of a process, its start, and the few that
\* write the file, the key or the bucket.
LEMMA StepCases ==
    ASSUME [Next]_vars
    PROVE  \/ Aside
           \/ Raise \/ ShowCredentials \/ Die \/ \E s \in TfStage : ApplyFails(s)
           \/ Launch \/ \E c \in RestartFrom : LaunchFrom(c)
           \/ RecordStage \/ PrepareParameters
           \/ \E b \in 1..buckets : RediscoverBucket(b)
           \/ CreateKeys \/ CreateStateStorage
  BY DEF Next, Proceed, Aside

LEMMA SavedStep ==
    ASSUME IInv, Saved, [Next]_vars
    PROVE  Saved'
  <1>0. Positioned /\ ValuesKept /\ Provided(disk.val, Len(disk.cps))
    BY DEF IInv, ValuesKept
  <1>. USE DEF Go, Enter, Off, Preflight, Dependencies, OneTimeSetup, RepoPrep, VcsTf, K8sTf,
               GitopsVcs, K8sDelivery, SecretsManagement, SecretsTf, UsersTf,
               CoreServicesTf, TfStoreHardening
  <1>1. CASE Aside
    BY <1>1, AsideStep DEF Saved
  <1>2. CASE Raise \/ ShowCredentials \/ Die \/ \E s \in TfStage : ApplyFails(s)
    <2>1. disk' = disk /\ at' = Off /\ step' = "idle"
      BY <1>2 DEF Raise, ShowCredentials, Die, ApplyFails, Exit
    <2> QED
      BY <2>1 DEF Saved
  <1>3. CASE Launch \/ \E c \in RestartFrom : LaunchFrom(c)
    <2>1. mem' = disk' /\ at' = Preflight /\ disk'.val = disk.val
      BY <1>3, LaunchFromState DEF Launch, LaunchFrom, Start
    <2> QED
      BY <2>1 DEF Saved
  <1>4. CASE RecordStage
    <2>1. /\ at \in Stage /\ step = "record" /\ disk' = mem' /\ mem'.val = mem.val
          /\ at # Off /\ step' # "discover"
          /\ at' = OneTimeSetup => step' \notin {"bucket", "record"}
      BY <1>4, RecordedState DEF RecordStage, Stage
    <2>2. mem.val["sshKey"] # 0 => mem.val["bucket"] # 0
      <3>1. CASE at >= OneTimeSetup
        BY <1>0, <2>1, <3>1 DEF ValuesKept, Provided
      <3>2. CASE at < OneTimeSetup
        BY <2>1, <3>2 DEF Saved, Stage
      <3> QED
        BY <2>1, <3>1, <3>2 DEF Stage
    <2> QED
      BY <2>1, <2>2 DEF Saved
  <1>5. CASE PrepareParameters
    <2>1. /\ at = OneTimeSetup /\ step = "prepare" /\ disk' = mem' /\ Set("params", 1)
          /\ at' = at /\ step' = "enter"
      BY <1>5 DEF PrepareParameters
    <2>2. /\ mem'.val["sshKey"] = mem.val["sshKey"]
          /\ mem'.val["bucket"] = mem.val["bucket"]
      BY <2>1, SetOther DEF Item
    <2> QED
      BY <2>1, <2>2 DEF Saved
  <1>6. ASSUME NEW b \in 1..buckets, RediscoverBucket(b) PROVE Saved'
    <2>1. /\ at = Preflight /\ step = "discover" /\ disk' = mem' /\ Set("bucket", b)
          /\ at' = at /\ step' = "enter" /\ b \in Nat \ {0}
      BY <1>6, StoredNames DEF RediscoverBucket
    <2>2. mem'.val["bucket"] = b
      BY <2>1, SetMem DEF Item
    <2> QED
      BY <2>1, <2>2 DEF Saved
  <1>7. CASE CreateKeys
    <2>1. /\ at = OneTimeSetup /\ step = "enter" /\ ~HasCheckpoint(mem.cps, OneTimeSetup)
          /\ at' = at /\ step' = "bucket" /\ disk' = disk /\ Set("sshKey", keys + 1)
      BY <1>7 DEF CreateKeys, Work, Runs, Always
    <2>2. Len(disk.cps) < OneTimeSetup
      BY <1>0, <2>1, RecordedByLength, Numbers DEF Positioned, Stage
    <2>3. mem'.val["bucket"] = mem.val["bucket"]
      BY <2>1, SetMem, StoredNames DEF Item
    <2> QED
      BY <2>1, <2>2, <2>3 DEF Saved
  <1>8. CASE CreateStateStorage
    <2>1. at = OneTimeSetup /\ step = "bucket" /\ at' = at /\ step' = "record" /\ disk' = disk
      BY <1>8 DEF CreateStateStorage
    <2> QED
      BY <2>1 DEF Saved
  <1> QED
    BY <1>1, <1>2, <1>3, <1>4, <1>5, <1>6, <1>7, <1>8, StepCases

\* Once setup is under way, whatever the running process holds of the values that
\* recorded stages computed is what the state file holds: no save is forgotten.
THEOREM SavedAlways == Spec => []Saved
  BY Inductive, InitSaved, SavedStep, PTL DEF Spec

-----------------------------------------------------------------------------
(* Setup implements ResumablePipeline *)

\* No effect comes into being in this step but that of stage k.
OnlyNew(k) ==
    /\ disk.val["gitUser"] # 0 \/ disk'.val["gitUser"] = 0 \/ k = Preflight
    /\ tools \/ ~tools' \/ k = Dependencies
    /\ \/ disk.val["sshKey"] # 0 /\ disk.val["bucket"] # 0
       \/ disk'.val["sshKey"] = 0 \/ disk'.val["bucket"] = 0 \/ k = OneTimeSetup
    /\ localTree.tpl # 0 \/ localTree'.tpl = 0 \/ k = RepoPrep
    /\ \A s \in TfStage : owner[s] # 0 \/ owner'[s] = 0 \/ k = s
    /\ mainTree.tpl # 0 \/ mainTree'.tpl = 0 \/ k = GitopsVcs
    /\ registryApp \/ ~registryApp' \/ k = K8sDelivery
    /\ vaultSecret \/ ~vaultSecret' \/ k = SecretsManagement
    /\ hardened # {} \/ hardened' = {} \/ k = TfStoreHardening

LEMMA OnlyNewInPlace ==
    ASSUME NEW k, OnlyNew(k), NEW s \in Stage, InPlace(s)', ~InPlace(s)
    PROVE  s = k
  BY DEF OnlyNew, InPlace

\* A step of a stage's own, or one with no effect at all, brings about only the
\* effect of that stage.
LEMMA OwnEffectOnly ==
    ASSUME RebuildMayFail = FALSE, IInv, Aside
    PROVE  OnlyNew(at)
  <1>. USE DEF Preflight, Dependencies, OneTimeSetup, RepoPrep, VcsTf, K8sTf, GitopsVcs,
               K8sDelivery, SecretsManagement, SecretsTf, UsersTf, CoreServicesTf,
               TfStoreHardening
  <1>1. UNCHANGED disk
    BY AsideStep
  <1>2. ASSUME UNCHANGED <<local, cloud, mainTree, registryApp, vaultSecret>>
        PROVE  OnlyNew(at)
    BY <1>1, <1>2 DEF OnlyNew, local, cloud
  <1>3. CASE \/ Skip \/ KeepBucket \/ RunPreflight \/ InstallArgo \/ WaitVault
             \/ ReuseVaultSecret \/ MissVaultSecret \/ InitVault \/ TemplateAdvances
             \/ UNCHANGED vars
    BY <1>2, <1>3
    DEF Skip, KeepBucket, RunPreflight, InstallArgo, WaitVault, ReuseVaultSecret,
        MissVaultSecret, InitVault, TemplateAdvances, vars, git, cluster
  <1>4. CASE InstallDependencies
    BY <1>1, <1>4, WorkAt DEF InstallDependencies, OnlyNew, Stage, cloud, git, cluster
  <1>5. CASE CloneAndBuild
    BY <1>1, <1>5, WorkAt DEF CloneAndBuild, OnlyNew, Stage, cloud, git, cluster
  <1>6. CASE ParametriseTf
    BY <1>1, <1>6 DEF ParametriseTf, OnlyNew, cloud, git, cluster
  <1>7. ASSUME NEW s \in TfStage, ApplyTf(s) PROVE OnlyNew(at)
    <2>1. at = s
      BY <1>7, WorkAt DEF ApplyTf, TfStage, Stage
    <2>2. \A t \in TfStage : t # s => owner'[t] = owner[t]
      BY <1>7 DEF ApplyTf, Provision, IInv, TypeOK, CloudType
    <2> QED
      BY <1>1, <1>7, <2>1, <2>2 DEF ApplyTf, Provision, OnlyNew, local, cluster
  <1>8. CASE UploadGitops
    BY <1>1, <1>8, WorkAt DEF UploadGitops, OnlyNew, Stage, local, cloud, cluster
  <1>9. CASE CreateRegistryApp
    BY <1>1, <1>9 DEF CreateRegistryApp, OnlyNew, local, cloud, git
  <1>10. CASE StoreVaultSecret
    BY <1>1, <1>10 DEF StoreVaultSecret, OnlyNew, local, cloud, git
  <1>11. CASE ProtectStateStorage
    BY <1>1, <1>11, WorkAt DEF ProtectStateStorage, OnlyNew, Stage, local, git, cluster
  <1>12. CASE RebuildTree
    <2>1. localTree.tpl # 0
      BY <1>12, WorkAt DEF RebuildTree, IInv, EffectsKept, Stage
    <2> QED
      BY <1>1, <1>12, <2>1 DEF RebuildTree, OnlyNew, cloud, git, cluster
  <1> QED
    BY <1>3, <1>4, <1>5, <1>6, <1>7, <1>8, <1>9, <1>10, <1>11, <1>12 DEF Aside

\* Values in the file, once there, stay.
LEMMA InPlaceStays ==
    ASSUME RebuildMayFail = FALSE, IInv, Saved, [Next]_vars, NEW s \in Stage, InPlace(s)
    PROVE  InPlace(s)'
  <1>1. EffectsStay
    BY EffectsStayStep
  <1>2. ASSUME NEW i \in {"gitUser", "sshKey", "bucket"}, disk.val[i] # 0
        PROVE  disk'.val[i] # 0
    <2>1. \A n \in Nat : n >= OneTimeSetup => (Provided(mem.val, n) => mem.val[i] # 0)
      BY <1>2 DEF Provided, OneTimeSetup, Preflight
    <2>2. CASE disk'.val = disk.val
      BY <1>2, <2>2
    <2>3. CASE RecordStage
      <3>1. /\ at \in Stage /\ step = "record" /\ disk'.val = mem.val /\ Provided(mem.val, at)
        BY <2>3, RecordedState DEF RecordStage, IInv, ValuesKept
      <3>2. CASE at >= OneTimeSetup
        BY <2>1, <3>1, <3>2 DEF Stage, Preflight, TfStoreHardening
      <3>3. CASE at < OneTimeSetup
        <4>1. /\ mem.val["sshKey"] = disk.val["sshKey"] /\ mem.val["bucket"] = disk.val["bucket"]
              /\ mem.val["gitUser"] # 0
          BY <3>1, <3>3 DEF Saved, Provided, Stage, Preflight, TfStoreHardening, OneTimeSetup, Off
        <4> QED
          BY <1>2, <3>1, <4>1
      <3> QED
        BY <3>1, <3>2, <3>3 DEF Stage, OneTimeSetup, Preflight, TfStoreHardening
    <2>4. CASE PrepareParameters
      <3>1. /\ at = OneTimeSetup /\ step = "prepare" /\ disk' = mem' /\ Set("params", 1)
        BY <2>4 DEF PrepareParameters
      <3>2. mem'.val[i] = mem.val[i]
        BY <3>1, SetMem DEF Item
      <3>3. mem.val["gitUser"] # 0
        BY <3>1, ProvidedSoFar DEF Provided, Stage, OneTimeSetup, Preflight, TfStoreHardening
      <3>4. /\ mem.val["sshKey"] = disk.val["sshKey"] /\ mem.val["bucket"] = disk.val["bucket"]
        BY <3>1 DEF Saved, OneTimeSetup, Off
      <3> QED
        BY <1>2, <3>1, <3>2, <3>3, <3>4
    <2>5. ASSUME NEW b \in 1..buckets, RediscoverBucket(b) PROVE disk'.val[i] # 0
      <3>1. /\ mem = disk /\ disk' = mem' /\ Set("bucket", b) /\ b \in Nat \ {0}
        BY <2>5, StoredNames DEF RediscoverBucket, Saved
      <3>2. mem'.val["bucket"] # 0 /\ (i # "bucket" => mem'.val[i] = mem.val[i])
        BY <3>1, SetMem DEF Item
      <3> QED
        BY <1>2, <3>1, <3>2
    <2>6. CASE \/ Aside \/ Raise \/ ShowCredentials \/ Die \/ \E t \in TfStage : ApplyFails(t)
               \/ Launch \/ CreateKeys \/ CreateStateStorage
               \/ \E c \in RestartFrom : LaunchFrom(c)
      <3>1. CASE Aside
        BY <2>2, <3>1, AsideStep
      <3>2. CASE \E c \in RestartFrom : LaunchFrom(c)
        BY <2>2, <3>2, LaunchFromState DEF LaunchFrom
      <3>3. CASE \/ Raise \/ ShowCredentials \/ Die \/ \E t \in TfStage : ApplyFails(t)
                 \/ Launch \/ CreateKeys \/ CreateStateStorage
        BY <2>2, <3>3
        DEF Raise, ShowCredentials, Die, ApplyFails, Launch, CreateKeys, CreateStateStorage
      <3> QED
        BY <2>6, <3>1, <3>2, <3>3
    <2> QED
      BY <2>3, <2>4, <2>5, <2>6, StepCases
  <1> QED
    BY <1>1, <1>2 DEF InPlace, EffectsStay

LEMMA InitPipeline == Init => Pipeline!Init
  BY BlankState
  DEF Init, NoTree, Pipeline!Init, InPlace, Item, TfStage, Stage

\* The stage a launch is at follows the recorded ones, or is one of them.
LEMMA AtMostNext ==
    ASSUME IInv
    PROVE  at # Off => at <= Len(disk.cps) + 1
  <1>1. at # Off => mem.cps = disk.cps /\ Len(mem.cps) >= at - 1
    BY DEF IInv, Positioned
  <1>2. at \in 0..14 /\ Len(disk.cps) \in 0..13
    BY Numbers
  <1>3. \A a \in 0..14 : \A n \in 0..13 : n >= a - 1 => a <= n + 1
    OBVIOUS
  <1> QED
    BY <1>1, <1>2, <1>3

\* Every step brings about the effect of one stage, that of the stage after
\* the recorded ones or of one of them, records it, or moves the record back.
LEMMA PipelineStep ==
    ASSUME RebuildMayFail = FALSE, IInv, Saved, [Next]_vars
    PROVE  [Pipeline!Next]_Pipeline!vars
  <1>. DEFINE Done == {s \in Stage : InPlace(s)}
              Goal == [Pipeline!Next]_Pipeline!vars
  <1>0. /\ Len(disk.cps) \in 0..TfStoreHardening /\ at \in 0..14
        /\ (at # Off => at <= Len(disk.cps) + 1)
        /\ Positioned /\ ValuesKept /\ EffectsKept
    BY Numbers, AtMostNext DEF IInv, TfStoreHardening
  <1>. USE DEF Go, Enter, Off, Preflight, Dependencies, OneTimeSetup, RepoPrep, VcsTf, K8sTf,
               GitopsVcs, K8sDelivery, SecretsManagement, SecretsTf, UsersTf,
               CoreServicesTf, TfStoreHardening
  <1>1. Done \subseteq Done'
    BY InPlaceStays
  <1>2. ASSUME disk'.cps = disk.cps, NEW k \in Stage, OnlyNew(k),
               k <= Len(disk.cps) + 1 \/ k = TfStoreHardening
        PROVE  Goal
    <2>1. Done' \subseteq Done \cup {k}
      BY <1>2, OnlyNewInPlace
    <2>2. Done' = Done \/ Done' = Done \cup {k}
      BY <1>1, <2>1
    <2> QED
      BY <1>2, <2>2 DEF Pipeline!Next, Pipeline!Perform, Pipeline!vars, Stage
  <1>3. ASSUME disk'.cps = disk.cps, NEW k, k \notin Stage, OnlyNew(k) PROVE Goal
    <2>1. Done' = Done
      BY <1>1, <1>3, OnlyNewInPlace
    <2> QED
      BY <1>3, <2>1 DEF Pipeline!vars
  <1>4. CASE Aside
    <2>1. OnlyNew(at) /\ disk'.cps = disk.cps
      BY <1>4, OwnEffectOnly, AsideStep
    <2>2. CASE at \in Stage
      BY <1>0, <1>2, <2>1, <2>2 DEF Stage
    <2> QED
      BY <1>3, <2>1, <2>2
  <1>5. ASSUME NEW s \in TfStage, ApplyFails(s) PROVE Goal
    <2>1. s \in Stage /\ at = s
      BY <1>5, WorkAt DEF ApplyFails, TfStage, Stage
    <2>2. \A t \in TfStage : t # s => owner'[t] = owner[t]
      BY <1>5 DEF ApplyFails, Provision, IInv, TypeOK, CloudType
    <2>3. OnlyNew(s) /\ disk'.cps = disk.cps
      BY <1>5, <2>2 DEF ApplyFails, Provision, OnlyNew, local, git, cluster
    <2> QED
      BY <1>0, <1>2, <2>1, <2>3 DEF Stage
  <1>6. CASE Raise \/ ShowCredentials \/ Die \/ Launch \/ CreateKeys \/ CreateStateStorage
    <2>1. OnlyNew(Off) /\ disk'.cps = disk.cps
      BY <1>6
      DEF Raise, ShowCredentials, Die, Exit, Launch, Start, CreateKeys, CreateStateStorage,
          OnlyNew, local, cloud, git, cluster
    <2> QED
      BY <1>3, <2>1 DEF Stage
  <1>7. ASSUME NEW b \in 1..buckets, RediscoverBucket(b) PROVE Goal
    <2>1. mem = disk /\ disk' = mem' /\ Set("bucket", b) /\ b \in Nat
      BY <1>7, StoredNames DEF RediscoverBucket, Saved
    <2>2. /\ disk'.cps = disk.cps /\ disk'.val["gitUser"] = disk.val["gitUser"]
          /\ disk'.val["sshKey"] = disk.val["sshKey"]
      BY <2>1, SetMem DEF Item
    <2>3. OnlyNew(TfStoreHardening)
      BY <1>7, <2>2 DEF RediscoverBucket, OnlyNew, Saved, local, git, cluster
    <2> QED
      BY <1>2, <2>2, <2>3 DEF Stage
  <1>8. CASE PrepareParameters
    <2>1. /\ at = OneTimeSetup /\ step = "prepare" /\ disk' = mem' /\ Set("params", 1)
      BY <1>8 DEF PrepareParameters
    <2>2. /\ mem.cps = disk.cps /\ mem.val["sshKey"] = disk.val["sshKey"]
          /\ mem.val["bucket"] = disk.val["bucket"]
      BY <1>0, <2>1 DEF Positioned, Saved
    <2>3. /\ disk'.cps = disk.cps /\ disk'.val["sshKey"] = disk.val["sshKey"]
          /\ disk'.val["bucket"] = disk.val["bucket"]
      BY <2>1, <2>2, SetMem DEF Item
    <2>4. disk.val["gitUser"] # 0
      BY <1>0, <2>1 DEF ValuesKept, Provided
    <2>5. OnlyNew(Off)
      BY <1>8, <2>3, <2>4 DEF PrepareParameters, OnlyNew, local, cloud, git, cluster
    <2> QED
      BY <1>3, <2>3, <2>5 DEF Stage
  <1>9. ASSUME NEW c \in RestartFrom, LaunchFrom(c) PROVE Goal
    <2>1. /\ disk'.val = disk.val /\ Len(disk'.cps) \in 0..Len(disk.cps)
      <3>1. c \in 1..13
        BY ConstantsAssumption DEF Stage
      <3> QED
        BY <1>0, <1>9, <3>1, LaunchFromState DEF LaunchFrom
    <2>2. OnlyNew(Off)
      BY <1>9, <2>1 DEF LaunchFrom, Start, OnlyNew, local, cloud, git, cluster
    <2>3. Done' = Done
      BY <1>1, <2>2, OnlyNewInPlace DEF Stage
    <2>4. CASE Len(disk'.cps) = Len(disk.cps)
      BY <2>3, <2>4 DEF Pipeline!vars
    <2>5. CASE Len(disk'.cps) < Len(disk.cps)
      <3>1. \E k \in 0..TfStoreHardening : k < Len(disk.cps) /\ Len(disk'.cps) = k
        <4>0. \A n \in 0..TfStoreHardening : \A m \in 0..n : m \in 0..TfStoreHardening
          OBVIOUS
        <4>1. Len(disk'.cps) \in 0..TfStoreHardening
          BY <1>0, <2>1, <4>0
        <4> QED
          BY <2>5, <4>1
      <3>2. Pipeline!Rewind
        BY <2>3, <3>1 DEF Pipeline!Rewind
      <3> QED
        BY <3>2 DEF Pipeline!Next
    <2> QED
      BY <1>0, <2>1, <2>4, <2>5
  <1>10. CASE RecordStage
    <2>1. /\ at \in Stage /\ step = "record" /\ disk'.val = mem.val
          /\ Len(disk'.cps) = IF Len(disk.cps) >= at THEN Len(disk.cps) ELSE at
          /\ Provided(mem.val, at) /\ Provided(disk.val, Len(disk.cps)) /\ Achieved(at)
      BY <1>0, <1>10, RecordedState
      DEF RecordStage, Positioned, ValuesKept, EffectsKept, Stage
    <2>2. UNCHANGED <<local, cloud, git, cluster>>
      BY <1>10 DEF RecordStage
    <2>3. at < OneTimeSetup => /\ disk'.val["sshKey"] = disk.val["sshKey"]
                               /\ disk'.val["bucket"] = disk.val["bucket"]
      BY <2>1 DEF Saved, Stage
    <2>4. CASE Len(disk.cps) >= at
      <3>1. OnlyNew(Off)
        BY <1>0, <2>1, <2>2, <2>3, <2>4
        DEF OnlyNew, Provided, Stage, local, cloud, git, cluster
      <3>2. Done' = Done
        BY <1>1, <3>1, OnlyNewInPlace DEF Stage
      <3> QED
        BY <2>1, <2>4, <3>2 DEF Pipeline!vars
    <2>5. CASE Len(disk.cps) < at
      <3>1. Len(disk.cps) = at - 1 /\ Len(disk'.cps) = at
        BY <1>0, <2>1, <2>5 DEF Stage
      <3>2. OnlyNew(at)
        BY <1>0, <2>1, <2>2, <2>3, <3>1
        DEF OnlyNew, Provided, Stage, local, cloud, git, cluster
      <3>3. PICK s \in Stage : s = at
        BY <2>1
      <3>4. InPlace(s)'
        <4>1. CASE s \in {Preflight, OneTimeSetup}
          BY <2>1, <3>3, <4>1 DEF InPlace, Provided
        <4>2. CASE s \in {Dependencies, RepoPrep, GitopsVcs, K8sDelivery, SecretsManagement,
                          TfStoreHardening}
          BY <2>1, <2>2, <3>3, <4>2 DEF InPlace, Achieved, local, cloud, git, cluster
        <4>3. CASE s \in TfStage
          BY <2>1, <2>2, <3>3, <4>3 DEF InPlace, Achieved, TfStage, cloud
        <4> QED
          BY <4>1, <4>2, <4>3 DEF Stage, TfStage
      <3>5. Done' \subseteq Done \cup {s} /\ s \in Done'
        BY <3>2, <3>3, <3>4, OnlyNewInPlace
      <3>6. Done' = Done \cup {at}
        BY <1>1, <3>3, <3>5
      <3> QED
        BY <1>0, <2>1, <3>1, <3>6 DEF Pipeline!Next, Pipeline!Record, Stage
    <2> QED
      BY <1>0, <2>1, <2>4, <2>5 DEF Stage
  <1> QED
    BY <1>4, <1>5, <1>6, <1>7, <1>8, <1>9, <1>10, StepCases

\* setup, seen through its checkpoints and what is in place, records its stages in
\* order, each only once carried out, and falls back only where the user asks it
\* to: every step of it is one of ResumablePipeline's, or leaves that unchanged.
\* (A rebuilding that fails would take the trees away again.)
THEOREM ImplementsPipeline == ASSUME RebuildMayFail = FALSE PROVE Spec => RefinesPipeline
  <1>1. IInv /\ Saved /\ [Next]_vars => [Pipeline!Next]_Pipeline!vars
    BY PipelineStep
  <1> QED
    BY Inductive, SavedAlways, InitPipeline, <1>1, PTL DEF Spec, RefinesPipeline, Pipeline!Spec

\* The pipeline records no stage before its effect is in place, and takes none away.
LEMMA PipelineKeeps ==
    LET Inv == Len(disk.cps) \in Nat /\ Pipeline!RecordedIsDone
    IN  Inv /\ [Pipeline!Next]_Pipeline!vars => Inv'
  <1> DEFINE n == Len(disk.cps)
             done == {s \in Stage : InPlace(s)}
  <1> SUFFICES ASSUME n \in Nat, 1..n \subseteq done, [Pipeline!Next]_Pipeline!vars
               PROVE  n' \in Nat /\ 1..n' \subseteq done'
    BY DEF Pipeline!RecordedIsDone
  <1>1. \/ n' = n /\ done \subseteq done'
        \/ n' = n + 1 /\ done' = done \cup {n + 1}
        \/ n' \in Nat /\ n' < n /\ done' = done
    BY DEF Pipeline!Next, Pipeline!vars, Pipeline!Perform, Pipeline!Record, Pipeline!Rewind
  <1> HIDE DEF n, done
  <1> QED
    BY <1>1

\* The pipeline keeps its promise, so setup does where it implements it: the stages
\* a launch skips are in place, whichever processes before it put them there.
THEOREM RecordedInPlaceAlways ==
    ASSUME RebuildMayFail = FALSE PROVE Spec => []Pipeline!RecordedIsDone
  <1>1. Init => Len(disk.cps) \in Nat /\ Pipeline!RecordedIsDone
    BY BlankState DEF Init, Pipeline!RecordedIsDone
  <1> QED
    BY ImplementsPipeline, <1>1, PipelineKeeps, PTL DEF Spec, RefinesPipeline, Pipeline!Spec

-----------------------------------------------------------------------------
(* The trees of a run are at least as new as the template it started with *)

\* From the moment a run has built its tree, the tree - and, once pushed, main -
\* is at least as new as the template was at its launch; main then has the
\* backend the running process knows.
Fresh ==
    /\ tplAtLaunch <= template
    /\ at > RepoPrep \/ (at = RepoPrep /\ step \in {"record", "parametrise"})
          => localTree.tpl >= tplAtLaunch
    /\ at > GitopsVcs \/ (at = GitopsVcs /\ step = "record")
          => mainTree.tpl >= tplAtLaunch /\ mainTree.bucket = mem.val["bucket"]

LEMMA FreshStep ==
    ASSUME RebuildMayFail = FALSE, IInv, Fresh, [Next]_vars
    PROVE  Fresh'
  <1>0. /\ at \in 0..14 /\ EffectsKept /\ Positioned
        /\ template \in Nat /\ tplAtLaunch \in Nat /\ localTree \in Tree
        /\ localTree.tpl \in Nat /\ mainTree.tpl \in Nat
    BY Numbers, ConstantsAssumption DEF IInv, TypeOK, LocalType, GitType, EnvType, Tree
  <1>. USE DEF Go, Enter, Off, Preflight, Dependencies, OneTimeSetup, RepoPrep, VcsTf, K8sTf,
               GitopsVcs, K8sDelivery, SecretsManagement, SecretsTf, UsersTf,
               CoreServicesTf, TfStoreHardening
  <1>1. ASSUME tplAtLaunch' <= template', at' <= RepoPrep,
               step' \notin {"record", "parametrise"} \/ at' < RepoPrep, at' \in Nat
        PROVE  Fresh'
    BY <1>1 DEF Fresh
  <1>2. ASSUME UNCHANGED <<tplAtLaunch, localTree, mainTree>>,
               template' \in {template, template + 1},
               mem'.val["bucket"] = mem.val["bucket"],
               \/ UNCHANGED <<at, step>>
               \/ at' = at /\ at \notin {RepoPrep, GitopsVcs}
               \/ /\ at' = at + 1 /\ (at = GitopsVcs => step = "record")
                  /\ at # RepoPrep /\ (at' = RepoPrep => step' = "enter")
                  /\ (at' = GitopsVcs => step' = "enter")
        PROVE  Fresh'
    BY <1>0, <1>2 DEF Fresh
  <1>3. CASE Raise \/ ShowCredentials \/ Die \/ \E s \in TfStage : ApplyFails(s)
    <2>1. at' = Off /\ tplAtLaunch' = 0 /\ template' = template
      BY <1>3 DEF Raise, ShowCredentials, Die, ApplyFails, Exit, git
    <2> QED
      BY <1>0, <1>1, <2>1
  <1>4. CASE Launch \/ \E c \in RestartFrom : LaunchFrom(c)
    <2>1. at' = Preflight /\ tplAtLaunch' = template /\ template' = template
      BY <1>4 DEF Launch, LaunchFrom, Start, git
    <2> QED
      BY <1>0, <1>1, <2>1
  <1>5. CASE \/ PrepareParameters \/ CreateKeys \/ CreateStateStorage
             \/ \E b \in 1..buckets : RediscoverBucket(b)
    <2>1. at' \in {Preflight, OneTimeSetup} /\ UNCHANGED <<tplAtLaunch, template>>
      BY <1>5 DEF PrepareParameters, CreateKeys, CreateStateStorage, RediscoverBucket, env, git
    <2> QED
      BY <1>1, <2>1 DEF Fresh
  <1>6. CASE RecordStage
    <2>1. /\ at \in Stage /\ step = "record" /\ mem'.val = mem.val
          /\ UNCHANGED <<tplAtLaunch, localTree, mainTree, template>>
          /\ \/ at = RepoPrep /\ at' = at /\ step' = "parametrise"
             \/ at # RepoPrep /\ at' = at + 1 /\ step' \in {"prepare", "enter"}
      BY <1>6, RecordedState DEF RecordStage, local, git, env
    <2>2. at' \in {RepoPrep, GitopsVcs} /\ at # RepoPrep => step' = "enter"
      BY <1>6 DEF RecordStage
    <2>3. CASE at = RepoPrep
      BY <1>0, <2>1, <2>3 DEF Fresh
    <2> QED
      BY <1>0, <1>2, <2>1, <2>2, <2>3
  <1>7. CASE CloneAndBuild
    <2>1. /\ at' = RepoPrep /\ localTree' = [tpl |-> template, bucket |-> 0]
          /\ UNCHANGED <<tplAtLaunch, template>>
      BY <1>7, WorkAt DEF CloneAndBuild, Stage, env, git
    <2> QED
      BY <1>0, <2>1 DEF Fresh
  <1>8. CASE ParametriseTf
    <2>1. /\ at = RepoPrep /\ step = "parametrise" /\ at' = VcsTf /\ step' = "enter"
          /\ localTree'.tpl = localTree.tpl /\ UNCHANGED <<tplAtLaunch, template>>
      BY <1>0, <1>8 DEF ParametriseTf, env, git, Tree
    <2> QED
      BY <1>0, <2>1 DEF Fresh
  <1>9. CASE UploadGitops
    <2>1. /\ at = GitopsVcs /\ at' = at /\ step' = "record" /\ mainTree' = localTree
          /\ UNCHANGED <<mem, localTree, tplAtLaunch, template>>
      BY <1>9, WorkAt DEF UploadGitops, Stage, local, env
    <2>2. localTree.tpl >= tplAtLaunch /\ localTree.bucket = mem.val["bucket"]
      BY <2>1 DEF Fresh, EffectsKept, IInv
    <2> QED
      BY <1>0, <2>1, <2>2 DEF Fresh
  <1>10. CASE Skip
    <2>1. at \in Stage /\ at \notin {RepoPrep, GitopsVcs}
      BY <1>10 DEF Skip, Runs, Always
    <2>2. /\ at' = at + 1 /\ (at' \in {RepoPrep, GitopsVcs} => step' = "enter")
          /\ UNCHANGED <<tplAtLaunch, localTree, mainTree, template, mem>>
      BY <1>10 DEF Skip, local, git, env
    <2> QED
      BY <1>0, <1>2, <2>1, <2>2
  <1>12. CASE RebuildTree
    <2>1. /\ at = GitopsVcs /\ step = "enter" /\ localTree'.tpl = template
          /\ UNCHANGED <<at, step, tplAtLaunch, mainTree, template>>
      BY <1>12, WorkAt DEF RebuildTree, Stage, control, git
    <2> QED
      BY <1>0, <2>1 DEF Fresh
  <1>11. CASE Aside /\ ~(CloneAndBuild \/ ParametriseTf \/ RebuildTree \/ UploadGitops \/ Skip)
    <2>1. UNCHANGED <<tplAtLaunch, localTree, mainTree>> /\ template' \in {template, template + 1}
      BY <1>11
      DEF Aside, KeepBucket, RunPreflight, InstallDependencies, ApplyTf, InstallArgo,
          CreateRegistryApp, WaitVault, ReuseVaultSecret, MissVaultSecret, InitVault,
          StoreVaultSecret, ProtectStateStorage, TemplateAdvances, vars, local, git, env
    <2>2. UNCHANGED <<at, step>> \/ (at' = at /\ at \notin {RepoPrep, GitopsVcs})
      <3>1. CASE \/ KeepBucket \/ CreateRegistryApp \/ ReuseVaultSecret \/ MissVaultSecret
                 \/ InitVault \/ StoreVaultSecret \/ TemplateAdvances \/ UNCHANGED vars
        BY <3>1 DEF KeepBucket, CreateRegistryApp, ReuseVaultSecret, MissVaultSecret, InitVault,
                    StoreVaultSecret, TemplateAdvances, vars, control
      <3>2. CASE \/ RunPreflight \/ InstallDependencies \/ (\E s \in TfStage : ApplyTf(s))
                 \/ InstallArgo \/ WaitVault \/ ProtectStateStorage
        BY <3>2, WorkAt
        DEF RunPreflight, InstallDependencies, ApplyTf, TfStage, InstallArgo, WaitVault,
            ProtectStateStorage, Stage
      <3> QED
        BY <1>11, <3>1, <3>2 DEF Aside
    <2>3. mem'.val["bucket"] = mem.val["bucket"]
      BY <1>11, AsideStep
    <2> QED
      BY <1>2, <2>1, <2>2, <2>3
  <1> QED
    BY <1>3, <1>4, <1>5, <1>6, <1>7, <1>8, <1>9, <1>10, <1>11, <1>12, StepCases

\* A run that reaches its end has published a tree at least as new as the
\* template it found, with the backend of the state, for every cloud, every
\* restart and every failing call but the swallowed one of a rebuilding:
\* repo-prep and gitops-vcs are never skipped.
THEOREM TemplateAlways == ASSUME RebuildMayFail = FALSE PROVE Spec => []TemplatePropagates
  <1>1. Init => Fresh
    BY DEF Init, Fresh, Off, RepoPrep, GitopsVcs
  <1>2. ASSUME Saved, Fresh PROVE TemplatePropagates
    BY <1>2
    DEF Saved, Fresh, TemplatePropagates, Show, Off, OneTimeSetup, GitopsVcs,
        TfStoreHardening
  <1>3. IInv /\ Fresh /\ [Next]_vars => Fresh'
    BY FreshStep
  <1> QED
    BY Inductive, SavedAlways, <1>1, <1>2, <1>3, PTL DEF Spec

-----------------------------------------------------------------------------
(* Restarts from repo-prep or later: one key and one bucket *)

\* --from-checkpoint is not used to carry out one-time-setup, or what comes
\* before it, a second time.
RestartsLater == \A c \in RestartFrom : c > OneTimeSetup

\* One key pair from one-time-setup on; before that none is in use; vcs-tf and
\* k8s-delivery hand it out before they are recorded.
OneKey ==
    /\ at = OneTimeSetup /\ step \in {"bucket", "record"} => keyFile = mem.val["sshKey"]
    /\ Len(disk.cps) < OneTimeSetup => deployKey = 0 /\ argoKey = 0
    /\ Len(disk.cps) >= OneTimeSetup =>
          /\ keyFile = disk.val["sshKey"]
          /\ deployKey \in {0, keyFile} /\ argoKey \in {0, keyFile}
    /\ Len(disk.cps) >= VcsTf \/ (at = VcsTf /\ step = "record") => deployKey # 0
    /\ Len(disk.cps) >= K8sDelivery \/ (at = K8sDelivery /\ step \in {"app", "record"})
          => argoKey # 0

LEMMA InitOneKey == Init => OneKey
  BY BlankState DEF Init, OneKey, Off, OneTimeSetup, VcsTf, K8sDelivery

\* A step that only starts or ends the process, or that saves values other
\* than the key, disturbs nothing of it.
LEMMA OneKeyFrame ==
    ASSUME IInv, OneKey, UNCHANGED <<keyFile, deployKey, argoKey>>,
           disk'.val["sshKey"] = disk.val["sshKey"],
           Len(disk'.cps) \in 0..Len(disk.cps),
           Len(disk.cps) >= OneTimeSetup => Len(disk'.cps) >= OneTimeSetup,
           at' \notin {VcsTf, K8sDelivery},
           at' = OneTimeSetup => step' \notin {"bucket", "record"}
    PROVE  OneKey'
  BY Numbers DEF OneKey, OneTimeSetup, VcsTf, K8sDelivery

LEMMA OneKeyAside ==
    ASSUME IInv, Saved, OneKey, Aside
    PROVE  OneKey'
  <1>0. /\ Len(disk.cps) \in 0..13 /\ at \in 0..14
        /\ (at # Off => at <= Len(disk.cps) + 1)
        /\ Provided(disk.val, Len(disk.cps))
    BY Numbers, AtMostNext DEF IInv, ValuesKept
  <1>. USE DEF Go, Enter, Off, Preflight, Dependencies, OneTimeSetup, RepoPrep, VcsTf, K8sTf,
               GitopsVcs, K8sDelivery, SecretsManagement, SecretsTf, UsersTf,
               CoreServicesTf, TfStoreHardening
  <1>1. at > OneTimeSetup => /\ mem.val["sshKey"] = keyFile /\ keyFile # 0
                             /\ Len(disk.cps) >= OneTimeSetup
    BY <1>0 DEF Saved, OneKey, Provided
  <1>2. CASE \E s \in TfStage : ApplyTf(s)
    <2>1. PICK s \in TfStage : ApplyTf(s)
      BY <1>2
    <2>2. /\ at = s /\ at' = s /\ step' = "record" /\ at > OneTimeSetup /\ at # K8sDelivery
          /\ deployKey' = (IF s = VcsTf THEN mem.val["sshKey"] ELSE deployKey)
          /\ UNCHANGED <<argoKey, keyFile, disk>>
      BY <2>1, WorkAt DEF ApplyTf, TfStage, Stage, local, cluster
    <2> QED
      BY <1>0, <1>1, <2>2 DEF OneKey
  <1>3. CASE InstallArgo
    <2>1. /\ at = K8sDelivery /\ at' = at /\ step' = "app"
          /\ argoKey' = (IF argoKey = 0 THEN mem.val["sshKey"] ELSE argoKey)
          /\ UNCHANGED <<deployKey, keyFile, disk>>
      BY <1>3, WorkAt DEF InstallArgo, Stage, local, git
    <2> QED
      BY <1>0, <1>1, <2>1 DEF OneKey
  <1>4. CASE ~InstallArgo /\ ~\E s \in TfStage : ApplyTf(s)
    <2>1. UNCHANGED <<deployKey, argoKey, keyFile, disk>>
      BY <1>4
      DEF Aside, Skip, KeepBucket, RunPreflight, InstallDependencies, CloneAndBuild,
          ParametriseTf, RebuildTree, UploadGitops, CreateRegistryApp, WaitVault,
          ReuseVaultSecret, MissVaultSecret, InitVault, StoreVaultSecret,
          ProtectStateStorage, TemplateAdvances, vars, local, cloud, git, cluster, env
    <2>2. /\ at' = VcsTf /\ step' = "record" => UNCHANGED <<at, step>>
          /\ at' = K8sDelivery /\ step' \in {"app", "record"}
                => at = K8sDelivery /\ step \in {"app", "record"}
      <3>1. CASE Skip \/ KeepBucket \/ ParametriseTf
        BY <3>1 DEF Skip, KeepBucket, ParametriseTf
      <3>2. CASE RunPreflight \/ InstallDependencies \/ CloneAndBuild
                 \/ UploadGitops \/ WaitVault \/ ProtectStateStorage
        BY <3>2, WorkAt
        DEF RunPreflight, InstallDependencies, CloneAndBuild, UploadGitops,
            WaitVault, ProtectStateStorage, Stage
      <3>3. CASE \/ CreateRegistryApp \/ ReuseVaultSecret \/ MissVaultSecret \/ InitVault
                 \/ StoreVaultSecret
        BY <3>3
        DEF CreateRegistryApp, ReuseVaultSecret, MissVaultSecret, InitVault, StoreVaultSecret
      <3>4. CASE TemplateAdvances \/ RebuildTree \/ UNCHANGED vars
        BY <3>4 DEF TemplateAdvances, RebuildTree, vars, control
      <3> QED
        BY <1>4, <3>1, <3>2, <3>3, <3>4 DEF Aside
    <2>3. at' = OneTimeSetup /\ step' \in {"bucket", "record"} => UNCHANGED <<at, step, mem>>
      BY AsideStep
    <2> QED
      BY <2>1, <2>2, <2>3 DEF OneKey
  <1> QED
    BY <1>2, <1>3, <1>4

\* With later restarts only, a list with one-time-setup keeps it.
LEMMA CutLater ==
    ASSUME IInv, RestartsLater, NEW c \in RestartFrom, LaunchFrom(c)
    PROVE  /\ disk'.val = disk.val /\ Len(disk'.cps) \in 0..Len(disk.cps)
           /\ Len(disk.cps) >= OneTimeSetup => Len(disk'.cps) >= OneTimeSetup
  <1>1. c \in 4..13 /\ Len(disk.cps) \in 0..13
    BY Numbers, ConstantsAssumption
    DEF RestartsLater, Stage, Preflight, OneTimeSetup, TfStoreHardening
  <1> QED
    BY <1>1, LaunchFromState DEF LaunchFrom, OneTimeSetup

\* What recording a stage makes of the file.
LEMMA RecordFile ==
    ASSUME IInv, RecordStage
    PROVE  /\ at \in 1..13 /\ step = "record" /\ disk'.val = mem.val /\ mem'.val = mem.val
           /\ Len(disk.cps) \in (at - 1)..13
           /\ Len(disk'.cps) = IF Len(disk.cps) >= at THEN Len(disk.cps) ELSE at
           /\ UNCHANGED <<local, cloud, git, cluster, env>>
           /\ at' \in {at, at + 1} /\ step' \in {"parametrise", "prepare", "enter"}
  <1>1. at \in Stage /\ step = "record" /\ UNCHANGED <<local, cloud, git, cluster, env>>
    BY DEF RecordStage
  <1>2. mem.cps = disk.cps
    BY <1>1 DEF IInv, Positioned, Stage, Off, Preflight
  <1>3. at' \in {at, at + 1} /\ step' \in {"parametrise", "prepare", "enter"}
    BY DEF RecordStage, Enter, Go
  <1>4. at \in 1..13 /\ Len(disk.cps) \in 0..13
    BY <1>1, Numbers DEF Stage, Preflight, TfStoreHardening
  <1>5. /\ disk' = mem' /\ mem'.val = mem.val /\ Len(mem.cps) >= at - 1
        /\ Len(mem'.cps) = IF Len(mem.cps) >= at THEN Len(mem.cps) ELSE at
    BY <1>1, RecordedState DEF RecordStage
  <1>6. Len(disk'.cps) = IF Len(disk.cps) >= at THEN Len(disk.cps) ELSE at
    BY <1>2, <1>5
  <1>7. \A n \in 0..13 : \A a \in 1..13 : n >= a - 1 => n \in (a - 1)..13
    OBVIOUS
  <1>8. Len(disk.cps) \in (at - 1)..13
    BY <1>2, <1>4, <1>5, <1>7
  <1> QED
    BY <1>1, <1>3, <1>4, <1>5, <1>6, <1>8

LEMMA OneKeyStep ==
    ASSUME RestartsLater, IInv, Saved, OneKey, [Next]_vars
    PROVE  OneKey'
  <1>0. Saved' /\ Len(disk.cps) \in 0..13
    BY SavedStep, Numbers
  <1>. USE DEF Go, Enter, Off, Preflight, Dependencies, OneTimeSetup, RepoPrep, VcsTf, K8sTf,
               GitopsVcs, K8sDelivery, SecretsManagement, SecretsTf, UsersTf,
               CoreServicesTf, TfStoreHardening
  <1>1. CASE Raise \/ ShowCredentials \/ Die \/ (\E s \in TfStage : ApplyFails(s)) \/ Launch
    <2>1. disk' = disk /\ at' \in {Off, Preflight} /\ UNCHANGED <<keyFile, deployKey, argoKey>>
      BY <1>1 DEF Raise, ShowCredentials, Die, ApplyFails, Exit, Launch, Start, local, git, cluster
    <2> QED
      BY <1>0, <2>1, OneKeyFrame
  <1>2. ASSUME NEW c \in RestartFrom, LaunchFrom(c) PROVE OneKey'
    <2>1. at' = Preflight /\ UNCHANGED <<keyFile, deployKey, argoKey>>
      BY <1>2 DEF LaunchFrom, Start, local, git, cluster
    <2> QED
      BY <1>2, <2>1, CutLater, OneKeyFrame
  <1>3. CASE PrepareParameters
    <2>1. /\ at = OneTimeSetup /\ step = "prepare" /\ disk' = mem' /\ Set("params", 1)
          /\ at' = at /\ step' = "enter" /\ UNCHANGED <<keyFile, deployKey, argoKey>>
      BY <1>3 DEF PrepareParameters, local, git, cluster
    <2>2. disk'.val["sshKey"] = mem.val["sshKey"] /\ disk'.cps = mem.cps
      BY <2>1, SetMem DEF Item
    <2>3. mem.cps = disk.cps /\ mem.val["sshKey"] = disk.val["sshKey"]
      BY <2>1 DEF IInv, Positioned, Saved
    <2> QED
      BY <1>0, <2>1, <2>2, <2>3, OneKeyFrame
  <1>4. ASSUME NEW b \in 1..buckets, RediscoverBucket(b) PROVE OneKey'
    <2>1. /\ mem = disk /\ disk' = mem' /\ Set("bucket", b) /\ b \in Nat
          /\ at' = Preflight /\ UNCHANGED <<keyFile, deployKey, argoKey>>
      BY <1>4, StoredNames DEF RediscoverBucket, Saved, local, git, cluster
    <2>2. disk'.val["sshKey"] = disk.val["sshKey"] /\ disk'.cps = disk.cps
      BY <2>1, SetMem DEF Item
    <2> QED
      BY <1>0, <2>1, <2>2, OneKeyFrame
  <1>5. CASE CreateKeys
    <2>1. /\ at' = OneTimeSetup /\ step' = "bucket" /\ disk' = disk
          /\ keyFile' = keys + 1 /\ Set("sshKey", keys + 1)
          /\ UNCHANGED <<deployKey, argoKey>>
      BY <1>5 DEF CreateKeys, git, cluster
    <2>2. mem'.val["sshKey"] = keyFile'
      BY <2>1, SetMem, StoredNames DEF Item
    <2>3. Len(disk'.cps) < OneTimeSetup
      BY <1>0, <2>1 DEF Saved
    <2> QED
      BY <1>0, <2>1, <2>2, <2>3 DEF OneKey
  <1>6. CASE CreateStateStorage
    <2>1. /\ at = OneTimeSetup /\ step = "bucket" /\ at' = at /\ step' = "record"
          /\ disk' = disk /\ Set("bucket", buckets + 1)
          /\ UNCHANGED <<keyFile, deployKey, argoKey>>
      BY <1>6 DEF CreateStateStorage, local, git, cluster
    <2>2. mem'.val["sshKey"] = mem.val["sshKey"]
      BY <2>1, SetMem, StoredNames DEF Item
    <2> QED
      BY <2>1, <2>2 DEF OneKey
  <1>7. CASE RecordStage
    <2>1. UNCHANGED <<keyFile, deployKey, argoKey>>
      BY <1>7, RecordFile DEF local, git, cluster
    <2>2. disk'.val["sshKey"] = keyFile \/ Len(disk'.cps) < OneTimeSetup
      BY <1>7, RecordFile DEF Saved, OneKey
    <2> QED
      BY <1>7, <2>1, <2>2, RecordFile DEF OneKey
  <1> QED
    BY <1>1, <1>2, <1>3, <1>4, <1>5, <1>6, <1>7, OneKeyAside, StepCases

\* As long as one-time-setup is not carried out again, one key pair is in use
\* from the moment ArgoCD is recorded: in the file, in the state, at the Git
\* provider and in ArgoCD, wherever runs stop and whichever stages are redone.
THEOREM OneKeyAlways == ASSUME RestartsLater PROVE Spec => []OneKeyInUse
  <1>1. ASSUME IInv, OneKey PROVE OneKeyInUse
    <2>1. K8sDelivery \in Recorded(disk) => Len(disk.cps) >= K8sDelivery
      BY <1>1, Numbers DEF Recorded, InOrder
    <2> QED
      BY <1>1, <2>1, Numbers DEF OneKey, OneKeyInUse, OneTimeSetup, K8sDelivery, VcsTf
  <1>2. IInv /\ Saved /\ OneKey /\ [Next]_vars => OneKey'
    BY OneKeyStep
  <1> QED
    BY Inductive, SavedAlways, InitOneKey, <1>1, <1>2, PTL DEF Spec

\* All Terraform state lies in the bucket the file names, and none is written
\* before one-time-setup is recorded.
OneBucket ==
    /\ \A s \in TfStage : owner[s] # 0 => Len(disk.cps) >= OneTimeSetup
    /\ StateNotOrphaned

LEMMA InitOneBucket == Init => OneBucket
  BY DEF Init, OneBucket, StateNotOrphaned

\* The bucket with a section's state is the only one with any, so it has the
\* most, and no other is discovered.
LEMMA DiscoverOwner ==
    ASSUME IInv, StateNotOrphaned, NEW b \in 1..buckets, Discoverable(b, FALSE),
           NEW s \in TfStage, owner[s] # 0
    PROVE  b = disk.val["bucket"]
  <1>. DEFINE B == disk.val["bucket"]
  <1>1. owner[s] = B /\ B \in 1..buckets
    BY DEF StateNotOrphaned, IInv, TypeOK, CloudType
  <1>2. \A c \in 1..buckets : StateObjects(c) \subseteq TfStage /\ IsFiniteSet(StateObjects(c))
    <2>1. IsFiniteSet(0..14)
      BY FS_Interval, 0 \in Int, 14 \in Int
    <2>2. TfStage \subseteq 0..14
      BY DEF TfStage, VcsTf, K8sTf, SecretsTf, UsersTf, CoreServicesTf
    <2>3. IsFiniteSet(TfStage)
      BY <2>1, <2>2, FS_Subset
    <2> QED
      BY <2>3, FS_Subset DEF StateObjects
  <1>3. Cardinality(StateObjects(B)) # 0
    BY <1>1, <1>2, FS_EmptySet DEF StateObjects
  <1>4. Cardinality(StateObjects(B)) <= Cardinality(StateObjects(b))
    BY <1>1 DEF Discoverable
  <1>5. StateObjects(b) # {}
    BY <1>1, <1>2, <1>3, <1>4, FS_EmptySet, FS_CardinalityType
  <1> QED
    BY <1>1, <1>5 DEF StateObjects, StateNotOrphaned

LEMMA OneBucketStep ==
    ASSUME RestartsLater, FlakyStorage = FALSE, IInv, Saved, OneBucket, [Next]_vars
    PROVE  OneBucket'
  <1>0. Len(disk.cps) \in 0..13 /\ Provided(disk.val, Len(disk.cps))
    BY Numbers DEF IInv, ValuesKept
  <1>. USE DEF Go, Enter, Off, Preflight, Dependencies, OneTimeSetup, RepoPrep, VcsTf, K8sTf,
               GitopsVcs, K8sDelivery, SecretsManagement, SecretsTf, UsersTf,
               CoreServicesTf, TfStoreHardening
  <1>1. ASSUME owner' = owner, disk'.val["bucket"] = disk.val["bucket"],
               Len(disk'.cps) \in 0..13,
               Len(disk.cps) >= OneTimeSetup => Len(disk'.cps) >= OneTimeSetup
        PROVE  OneBucket'
    BY <1>0, <1>1 DEF OneBucket, StateNotOrphaned
  <1>2. ASSUME NEW s \in TfStage, Provision(s), Work(s), disk' = disk PROVE OneBucket'
    <2>1. at = s /\ at > RepoPrep /\ at \in Stage
      BY <1>2, WorkAt DEF TfStage, Stage
    <2>2. localTree.bucket = disk.val["bucket"]
      <3>1. localTree.tpl # 0
        BY <1>2, <2>1, WorkAt DEF Blocked
      <3> QED
        BY <2>1, <3>1 DEF IInv, EffectsKept, Saved
    <2>3. Len(disk.cps) >= OneTimeSetup
      BY <2>1, Numbers DEF IInv, Positioned
    <2>4. \A t \in TfStage : owner'[t] \in {owner[t], disk.val["bucket"]}
      BY <1>2, <2>2 DEF Provision, IInv, TypeOK, CloudType
    <2> QED
      BY <1>2, <2>3, <2>4 DEF OneBucket, StateNotOrphaned
  <1>3. CASE Aside
    <2>1. CASE \E s \in TfStage : ApplyTf(s)
      BY <1>2, <1>3, <2>1, AsideStep DEF ApplyTf
    <2>2. CASE ~\E s \in TfStage : ApplyTf(s)
      <3>1. owner' = owner
        BY <1>3, <2>2
        DEF Aside, Skip, KeepBucket, RunPreflight, InstallDependencies, CloneAndBuild,
            ParametriseTf, RebuildTree, UploadGitops, InstallArgo, CreateRegistryApp,
            WaitVault, ReuseVaultSecret, MissVaultSecret, InitVault, StoreVaultSecret,
            ProtectStateStorage, TemplateAdvances, vars, cloud
      <3> QED
        BY <1>0, <1>1, <1>3, <3>1, AsideStep
    <2> QED
      BY <2>1, <2>2
  <1>4. ASSUME NEW s \in TfStage, ApplyFails(s) PROVE OneBucket'
    BY <1>2, <1>4 DEF ApplyFails
  <1>5. CASE Raise \/ ShowCredentials \/ Die \/ Launch \/ CreateKeys \/ CreateStateStorage
    <2>1. disk' = disk /\ owner' = owner
      BY <1>5
      DEF Raise, ShowCredentials, Die, Exit, Launch, Start, CreateKeys, CreateStateStorage, cloud
    <2> QED
      BY <1>0, <1>1, <2>1
  <1>6. ASSUME NEW c \in RestartFrom, LaunchFrom(c) PROVE OneBucket'
    <2>1. owner' = owner
      BY <1>6 DEF LaunchFrom, Start, cloud
    <2>2. \A n \in 0..13 : \A m \in 0..n : m \in 0..13
      OBVIOUS
    <2>3. Len(disk'.cps) \in 0..13
      BY <1>0, <1>6, <2>2, CutLater
    <2> QED
      BY <1>1, <1>6, <2>1, <2>3, CutLater
  <1>7. CASE PrepareParameters
    <2>1. /\ at = OneTimeSetup /\ step = "prepare" /\ disk' = mem' /\ Set("params", 1)
          /\ owner' = owner
      BY <1>7 DEF PrepareParameters, cloud
    <2>2. disk'.val["bucket"] = mem.val["bucket"] /\ disk'.cps = mem.cps
      BY <2>1, SetMem DEF Item
    <2>3. mem.cps = disk.cps /\ mem.val["bucket"] = disk.val["bucket"]
      BY <2>1 DEF IInv, Positioned, Saved
    <2> QED
      BY <1>0, <1>1, <2>1, <2>2, <2>3
  <1>8. ASSUME NEW b \in 1..buckets, RediscoverBucket(b) PROVE OneBucket'
    <2>1. /\ mem = disk /\ disk' = mem' /\ Set("bucket", b) /\ b \in Nat /\ owner' = owner
      BY <1>8, StoredNames DEF RediscoverBucket, Saved
    <2>2. PICK missed \in {FALSE, FlakyStorage} : Discoverable(b, missed)
      BY <1>8 DEF RediscoverBucket
    <2>3. Discoverable(b, FALSE)
      BY <2>2
    <2>4. disk'.val["bucket"] = b /\ disk'.cps = disk.cps
      BY <2>1, SetMem DEF Item
    <2>5. \A s \in TfStage : owner[s] # 0 => b = disk.val["bucket"]
      BY <2>3, DiscoverOwner DEF OneBucket
    <2> QED
      BY <2>1, <2>4, <2>5 DEF OneBucket, StateNotOrphaned
  <1>9. CASE RecordStage
    <2>0. \A n \in 0..13 : \A a \in 1..13 :
             (IF n >= a THEN n ELSE a) \in 0..13 /\ (IF n >= a THEN n ELSE a) >= n
      OBVIOUS
    <2>1. /\ owner' = owner /\ Len(disk'.cps) \in 0..13 /\ Len(disk'.cps) >= Len(disk.cps)
          /\ disk'.val["bucket"] = mem.val["bucket"] /\ at \in 1..13
      BY <1>0, <1>9, <2>0, RecordFile DEF cloud
    <2>2. disk'.val["bucket"] = disk.val["bucket"] \/ Len(disk.cps) < OneTimeSetup
      BY <1>9, <2>1, RecordFile DEF Saved
    <2>3. CASE Len(disk.cps) < OneTimeSetup
      <3>1. \A s \in TfStage : owner[s] = 0
        BY <1>0, <2>3 DEF OneBucket
      <3> QED
        BY <2>1, <3>1 DEF OneBucket, StateNotOrphaned
    <2> QED
      BY <1>0, <1>1, <2>1, <2>2, <2>3
  <1> QED
    BY <1>3, <1>4, <1>5, <1>6, <1>7, <1>8, <1>9, StepCases

\* As long as one-time-setup is not carried out again and every lookup sees the
\* objects that are there, no section's Terraform state is ever outside the
\* bucket the state file names, although that bucket may be looked up anew at
\* each launch and buckets without state may lie about.
THEOREM StateAlwaysFound ==
    ASSUME RestartsLater, FlakyStorage = FALSE PROVE Spec => []StateNotOrphaned
  <1>1. OneBucket => StateNotOrphaned
    BY DEF OneBucket
  <1>2. IInv /\ Saved /\ OneBucket /\ [Next]_vars => OneBucket'
    BY OneBucketStep
  <1> QED
    BY Inductive, SavedAlways, InitOneBucket, <1>1, <1>2, PTL DEF Spec

-----------------------------------------------------------------------------
(* What a launch can still raise at *)

LEMMA OnlyVaultThen ==
    ASSUME RebuildMayFail = FALSE, IInv, Saved, OneKey, OneBucket
    PROVE  OnlyVaultRaises
  <1>. SUFFICES ASSUME at \in Stage, Runs(at), Blocked(at)
                PROVE  FALSE
    BY DEF OnlyVaultRaises, Raises
  <1>. USE DEF Preflight, Dependencies, OneTimeSetup, RepoPrep, VcsTf, K8sTf, GitopsVcs,
               K8sDelivery, SecretsManagement, SecretsTf, UsersTf, CoreServicesTf,
               TfStoreHardening
  <1>1. /\ step = "enter" /\ at \in 1..13 /\ mem.cps = disk.cps /\ Ready(at)
        /\ Len(disk.cps) \in 0..13 /\ Len(disk.cps) >= at - 1
    BY InputsReady, Numbers DEF Runs, Stage, IInv, Positioned, Off, InputsPresent
  <1>2. CASE at = Preflight /\ owner[VcsTf] # 0
    <2>1. Len(disk.cps) >= OneTimeSetup
      BY <1>2 DEF OneBucket, TfStage
    <2>2. HasCheckpoint(mem.cps, Preflight)
      BY <1>1, <2>1, Numbers, RecordedByLength DEF Stage
    <2> QED
      BY <1>2, <2>2 DEF Runs, Always
  <1>3. CASE at \in TfStage /\ (localTree.tpl = 0 \/ TfConflict(at))
    <2>1. at > RepoPrep /\ localTree.tpl # 0
      BY <1>3 DEF TfStage, IInv, EffectsKept
    <2>2. localTree.bucket = mem.val["bucket"] /\ mem.val["bucket"] = disk.val["bucket"]
      BY <1>1, <2>1 DEF IInv, EffectsKept, Saved, Off
    <2>3. owner[at] \in {0, disk.val["bucket"]}
      BY <1>3 DEF OneBucket, StateNotOrphaned
    <2> QED
      BY <1>3, <2>1, <2>2, <2>3 DEF TfConflict
  <1>4. ASSUME at \in {GitopsVcs, SecretsManagement}
        PROVE  deployKey = keyFile /\ deployKey # 0
    BY <1>1, <1>4 DEF OneKey
  <1>5. CASE at = GitopsVcs /\ keyFile # deployKey
    BY <1>4, <1>5
  <1>6. CASE at = SecretsManagement /\ ~VaultDeployed
    <2>1. argoKey = keyFile
      BY <1>1, <1>6 DEF OneKey
    <2>2. registryApp /\ mainTree.tpl # 0
      BY <1>6, AchievedSoFar DEF Achieved
    <2> QED
      BY <1>4, <1>6, <2>1, <2>2 DEF VaultDeployed
  <1> QED
    BY <1>1, <1>2, <1>3, <1>5, <1>6 DEF Blocked

\* As long as one-time-setup is not carried out again, lookups see what is there
\* and no rebuilding of the tree fails, the one error that every later launch
\* meets again is the refusal of an initialised Vault whose secret was never
\* stored, wherever earlier launches stopped. With fairness, which only TLC can
\* treat, this is CompletesUnlessCut.
THEOREM OnlyVaultRaisesAlways ==
    ASSUME RestartsLater, FlakyStorage = FALSE, RebuildMayFail = FALSE
    PROVE  Spec => []OnlyVaultRaises
  <1>1. IInv /\ Saved /\ OneKey /\ OneBucket => OnlyVaultRaises
    BY OnlyVaultThen
  <1>2. IInv /\ Saved /\ OneKey /\ [Next]_vars => OneKey'
    BY OneKeyStep
  <1>3. IInv /\ Saved /\ OneBucket /\ [Next]_vars => OneBucket'
    BY OneBucketStep
  <1> QED
    BY Inductive, SavedAlways, InitOneKey, InitOneBucket, <1>1, <1>2, <1>3, PTL DEF Spec
=============================================================================
