-------------------------- MODULE StateFileProofs --------------------------
(***************************************************************************)
(* For any number of stops and restarts, and wherever a save is cut: what  *)
(* a launch reads in the state file is true.                               *)
(***************************************************************************)
EXTENDS StateFile, TLAPS

\* No stage is recorded twice, since setting a checkpoint is idempotent.
Distinct(cps) == \A i, j \in DOMAIN cps : cps[i] = cps[j] => i = j

\* Every recorded stage was carried out.
Honest(store) == Distinct(store.checkpoints) /\ Recorded(store) \subseteq done

\* Every recorded stage has left its values.
Filled(store) ==
    /\ Recorded(store) \cap IntoInternals \subseteq store.internal
    /\ Recorded(store) \cap IntoParams \subseteq store.params

\* A process at rest or at its end writes nothing, and one that writes has
\* somewhere to go.
Placed ==
    /\ at = 0 => step = "idle"
    /\ at = 14 => step = "enter"
    /\ at # 0 => goal # 0

\* Unless a save was cut, the file is all there whenever nobody writes it.
Saved ==
    ~torn => /\ exists /\ step # "write" => has = Section
             /\ Filled(mem) /\ Filled(data)

IInv == TypeOK /\ Placed /\ Honest(mem) /\ Honest(data) /\ Saved

-----------------------------------------------------------------------------
(* Lists of checkpoints *)

\* The first entry with the name is the only one.
LEMMA OnlyIndex ==
    ASSUME NEW cps \in Seq(Stage), Distinct(cps), NEW c, HasCheckpoint(cps, c)
    PROVE  IndexOf(cps, c) \in DOMAIN cps
  <1>1. PICK i \in DOMAIN cps : cps[i] = c
    BY DEF HasCheckpoint
  <1>2. \A j \in 1..(i - 1) : cps[j] # c
    BY <1>1 DEF Distinct
  <1> QED
    BY <1>1, <1>2 DEF IndexOf

\* The first part of a list records less.
LEMMA FirstPart ==
    ASSUME NEW cps \in Seq(Stage), Distinct(cps), NEW k \in 0..Len(cps)
    PROVE  LET cut == SubSeq(cps, 1, k)
           IN  /\ cut \in Seq(Stage) /\ Distinct(cut)
               /\ {cut[i] : i \in DOMAIN cut} \subseteq {cps[i] : i \in DOMAIN cps}
  <1> DEFINE cut == SubSeq(cps, 1, k)
  <1>1. cut \in Seq(Stage) /\ Len(cut) = k /\ \A i \in 1..k : cut[i] = cps[i]
    OBVIOUS
  <1>2. DOMAIN cut = 1..k /\ 1..k \subseteq DOMAIN cps
    BY <1>1
  <1> HIDE DEF cut
  <1>3. Distinct(cut)
    BY <1>1, <1>2 DEF Distinct
  <1>4. {cut[i] : i \in DOMAIN cut} \subseteq {cps[i] : i \in DOMAIN cps}
    BY <1>1, <1>2
  <1> QED
    BY <1>1, <1>3, <1>4 DEF cut

\* remove_checkpoints_from
LEMMA RemoveFromLess ==
    ASSUME NEW cps \in Seq(Stage), Distinct(cps), NEW c
    PROVE  LET cut == RemoveFrom(cps, c)
           IN  /\ cut \in Seq(Stage) /\ Distinct(cut)
               /\ {cut[i] : i \in DOMAIN cut} \subseteq {cps[i] : i \in DOMAIN cps}
  <1>1. CASE HasCheckpoint(cps, c)
    <2>1. IndexOf(cps, c) - 1 \in 0..Len(cps)
      BY <1>1, OnlyIndex
    <2>2. RemoveFrom(cps, c) = SubSeq(cps, 1, IndexOf(cps, c) - 1)
      BY <1>1 DEF RemoveFrom
    <2> QED
      BY <2>1, <2>2, FirstPart
  <1>2. CASE ~HasCheckpoint(cps, c)
    BY <1>2 DEF RemoveFrom
  <1> QED
    BY <1>1, <1>2

\* set_checkpoint
LEMMA SetCheckpointMore ==
    ASSUME NEW cps \in Seq(Stage), Distinct(cps), NEW c \in Stage
    PROVE  LET more == SetCheckpoint(cps, c)
           IN  /\ more \in Seq(Stage) /\ Distinct(more)
               /\ {more[i] : i \in DOMAIN more} \subseteq {cps[i] : i \in DOMAIN cps} \cup {c}
  <1>1. CASE HasCheckpoint(cps, c)
    BY <1>1 DEF SetCheckpoint
  <1>2. CASE ~HasCheckpoint(cps, c)
    <2> DEFINE more == Append(cps, c)
    <2>1. SetCheckpoint(cps, c) = more
      BY <1>2 DEF SetCheckpoint
    <2>2. /\ more \in Seq(Stage) /\ DOMAIN more = 1..(Len(cps) + 1)
          /\ more[Len(cps) + 1] = c /\ \A i \in DOMAIN cps : more[i] = cps[i]
      OBVIOUS
    <2>3. DOMAIN cps = 1..Len(cps) /\ Len(cps) \in Nat /\ \A i \in DOMAIN cps : cps[i] # c
      BY <1>2 DEF HasCheckpoint
    <2> HIDE DEF more
    <2>4. Distinct(more)
      BY <2>2, <2>3 DEF Distinct
    <2>5. {more[i] : i \in DOMAIN more} \subseteq {cps[i] : i \in DOMAIN cps} \cup {c}
      BY <2>2, <2>3
    <2> QED
      BY <2>1, <2>2, <2>4, <2>5
  <1> QED
    BY <1>1, <1>2

-----------------------------------------------------------------------------
(* Reading and writing *)

LEMMA SectionNames == Section = {"checkpoints", "input", "internal", "params"}
  <1>1. DOMAIN DumpOrder = {1, 2, 3, 4}
    BY DEF DumpOrder
  <1> QED
    BY <1>1 DEF Section, DumpOrder

LEMMA BlankStore ==
    /\ Blank \in Store /\ Blank.checkpoints = <<>>
    /\ Distinct(Blank.checkpoints) /\ Recorded(Blank) = {} /\ Filled(Blank)
  <1>1. Blank \in Store /\ Blank.checkpoints = <<>>
    BY DEF Blank, Store
  <1>2. DOMAIN Blank.checkpoints = {}
    BY <1>1
  <1> QED
    BY <1>1, <1>2 DEF Distinct, Recorded, Filled

\* A store that has nothing recorded that another has not.
Within(store, whole) ==
    /\ store \in Store /\ Distinct(store.checkpoints)
    /\ Recorded(store) \subseteq Recorded(whole)

\* What a launch reads is part of what is in the file, whatever is missing.
LEMMA LoadWithin ==
    ASSUME data \in Store, Distinct(data.checkpoints)
    PROVE  Within(Load, data)
  <1>. USE DEF Within, Recorded
  <1>1. CASE Load = Blank
    BY <1>1, BlankStore
  <1>2. CASE Load \in {[Blank EXCEPT !.checkpoints = data.checkpoints],
                       [Blank EXCEPT !.checkpoints = data.checkpoints, !.params = data.params],
                       [data EXCEPT !.input = "none"], data}
    <2>1. Load \in Store /\ Load.checkpoints = data.checkpoints
      BY <1>2 DEF Store, Blank
    <2> QED
      BY <2>1
  <1> QED
    BY <1>1, <1>2 DEF Load

\* And all of it, when nothing is missing.
LEMMA LoadFilled ==
    ASSUME exists => has = Section, Filled(data)
    PROVE  Filled(Load)
  <1>1. Load = Blank \/ Load = data
    BY SectionNames DEF Load
  <1> QED
    BY <1>1, BlankStore

\* A section that is cut has less in it.
LEMMA CutWithin ==
    ASSUME NEW store \in Store, Distinct(store.checkpoints), NEW name, NEW cut \in CutSection(store, name)
    PROVE  Within(cut, store)
  <1>1. CASE name = "checkpoints"
    <2>1. PICK k \in 1..Len(store.checkpoints) : cut = [store EXCEPT !.checkpoints = SubSeq(@, 1, k)]
      BY <1>1 DEF CutSection
    <2>2. store.checkpoints \in Seq(Stage) /\ k \in 0..Len(store.checkpoints)
      BY DEF Store
    <2>3. cut.checkpoints = SubSeq(store.checkpoints, 1, k)
      BY <2>1 DEF Store
    <2>4. cut.checkpoints \in Seq(Stage) /\ Distinct(cut.checkpoints) /\ Recorded(cut) \subseteq Recorded(store)
      BY <2>2, <2>3, FirstPart DEF Recorded
    <2>5. cut \in Store
      BY <2>1, <2>3, <2>4 DEF Store
    <2> QED
      BY <2>4, <2>5 DEF Within
  <1>2. CASE name # "checkpoints"
    <2>1. \/ \E s \in store.internal : cut = [store EXCEPT !.internal = @ \ {s}]
          \/ \E s \in store.params : cut = [store EXCEPT !.params = @ \ {s}]
          \/ cut = store
      BY <1>2 DEF CutSection
    <2>2. cut \in Store /\ cut.checkpoints = store.checkpoints
      BY <2>1 DEF Store
    <2> QED
      BY <2>2 DEF Within, Recorded
  <1> QED
    BY <1>1, <1>2

-----------------------------------------------------------------------------
(* The steps *)

LEMMA InitIInv == Init => IInv
  <1> SUFFICES ASSUME Init PROVE IInv
    OBVIOUS
  <1>1. TypeOK
    <2>1. at \in 0..14 /\ goal \in 0..14 /\ faults \in 0..MaxFaults /\ rewinds \in 0..MaxRewinds
      BY ConstantsAssumption DEF Init
    <2>2. has \subseteq Section /\ done \subseteq Stage
      BY DEF Init
    <2>3. mem \in Store /\ data \in Store
      BY BlankStore DEF Init
    <2>4. step = "idle" /\ exists = FALSE /\ torn = FALSE
      BY DEF Init
    <2>5. TfStoreHardening + 1 = 14
      BY DEF TfStoreHardening
    <2> QED
      BY <2>1, <2>2, <2>3, <2>4, <2>5 DEF TypeOK
  <1>2. Placed /\ Saved
    BY BlankStore DEF Init, Placed, Saved
  <1>3. Honest(mem) /\ Honest(data)
    BY BlankStore DEF Init, Honest
  <1> QED
    BY <1>1, <1>2, <1>3 DEF IInv

LEMMA Numbers ==
    ASSUME IInv
    PROVE  /\ at \in 0..14 /\ goal \in 0..14 /\ faults \in 0..MaxFaults /\ rewinds \in 0..MaxRewinds
           /\ MaxFaults \in Nat /\ MaxRewinds \in Nat
           /\ Stage = 1..13
  BY ConstantsAssumption DEF IInv, TypeOK, Stage, Preflight, TfStoreHardening

\* The process goes on at a stage, or at the end.
LEMMA EnterControl ==
    ASSUME NEW s \in 1..14, Enter(s)
    PROVE  /\ at' \in 0..14 /\ goal' \in 0..14 /\ step' \in {"idle", "enter", "open", "write"}
           /\ at' # 0 /\ Placed' /\ step' # "write"
  BY DEF Enter, Placed, OneTimeSetup, TfStoreHardening

\* The invariant, for the parts of the state that a step can change.
Control ==
    /\ at \in 0..14 /\ goal \in 0..14 /\ step \in {"idle", "enter", "open", "write"}
    /\ faults \in 0..MaxFaults /\ rewinds \in 0..MaxRewinds
    /\ Placed
Memory == mem \in Store /\ Honest(mem) /\ (~torn => Filled(mem))
File ==
    /\ data \in Store /\ Honest(data)
    /\ exists \in BOOLEAN /\ has \subseteq Section /\ torn \in BOOLEAN
    /\ ~torn => Filled(data) /\ (exists /\ step # "write" => has = Section)

LEMMA ThreeParts == IInv <=> Control /\ Memory /\ File /\ done \subseteq Stage
  BY DEF IInv, TypeOK, Saved, Control, Memory, File, TfStoreHardening

LEMMA ThreePartsNext == Control' /\ Memory' /\ File' /\ (done \subseteq Stage)' => IInv'
  BY DEF IInv, TypeOK, Saved, Control, Memory, File, TfStoreHardening

\* The file stays as it is, and nobody writes it.
LEMMA FileStays ==
    ASSUME File, UNCHANGED <<file, torn>>, done \subseteq done',
           step # "write" \/ step' = "write", at' # at \/ step' # "write" \/ step = "write"
    PROVE  File'
  BY DEF File, file, Honest, Filled, Recorded, Distinct

\* A store that is part of another, in memory or in the file.
LEMMA WithinHonest ==
    ASSUME NEW store, NEW whole, Honest(whole), Within(store, whole)
    PROVE  Distinct(store.checkpoints) /\ Recorded(store) \subseteq done
  BY DEF Within, Honest

LEMMA BlankMemory ==
    ASSUME mem' = Blank
    PROVE  Memory'
  BY BlankStore DEF Memory, Honest, Filled, Recorded, Distinct

LEMMA StartStep ==
    ASSUME IInv, NEW option \in Options, Start(option)
    PROVE  IInv'
  <1>0. Control /\ Memory /\ File /\ done \subseteq Stage
    BY ThreeParts
  <1>1. Control' /\ at' # 0 /\ step' # "write"
    BY <1>0, EnterControl DEF Start, Control, Preflight
  <1>2. step # "write"
    BY <1>0 DEF Start, Control, Placed
  <1>3. File'
    BY <1>0, <1>1, <1>2, FileStays DEF Start
  <1>4. Within(Load, data) /\ (~torn => Filled(Load))
    BY <1>0, <1>2, LoadWithin, LoadFilled DEF File, Honest
  <1>5. mem' \in Store /\ mem'.checkpoints = Load.checkpoints /\ mem'.internal = Load.internal
        /\ mem'.params = Load.params
    BY <1>4 DEF Start, Within, Store
  <1>6. Distinct(Load.checkpoints) /\ Recorded(Load) \subseteq done
    BY <1>0, <1>4, WithinHonest DEF File
  <1>7. Memory'
    BY <1>4, <1>5, <1>6 DEF Start, Memory, Honest, Filled, Recorded, Distinct
  <1> QED
    BY <1>0, <1>1, <1>3, <1>7, ThreePartsNext DEF Start

LEMMA StartFromStep ==
    ASSUME IInv, NEW option \in Options, NEW c \in RestartFrom, StartFrom(option, c)
    PROVE  IInv'
  <1>0. Control /\ Memory /\ File /\ done \subseteq Stage
    BY ThreeParts
  <1>1. Control' /\ step' # "write"
    BY <1>0, Numbers DEF StartFrom, Control, Placed, Preflight
  <1>2. step # "write"
    BY <1>0 DEF StartFrom, Control, Placed
  <1>3. File'
    BY <1>0, <1>1, <1>2, FileStays DEF StartFrom
  <1>4. Within(Load, data) /\ (~torn => Filled(Load))
    BY <1>0, <1>2, LoadWithin, LoadFilled DEF File, Honest
  <1>5. Load \in Store /\ Load.checkpoints \in Seq(Stage) /\ Distinct(Load.checkpoints)
    BY <1>4 DEF Within, Store
  <1>6. Recorded(Load) \subseteq done
    BY <1>0, <1>4, WithinHonest DEF File
  <1> DEFINE cut == RemoveFrom(Load.checkpoints, c)
  <1>7. /\ cut \in Seq(Stage) /\ Distinct(cut)
        /\ {cut[i] : i \in DOMAIN cut} \subseteq Recorded(Load)
    BY <1>5, RemoveFromLess DEF Recorded
  <1>8. /\ mem' = [Load EXCEPT !.input = option, !.checkpoints = cut]
        /\ UNCHANGED <<done, torn>>
    BY DEF StartFrom
  <1> HIDE DEF cut
  <1>9. mem' \in Store /\ mem'.checkpoints = cut /\ mem'.internal = Load.internal
        /\ mem'.params = Load.params
    BY <1>5, <1>7, <1>8 DEF Store
  <1>10. /\ Distinct(mem'.checkpoints)
         /\ {mem'.checkpoints[i] : i \in DOMAIN mem'.checkpoints} \subseteq Recorded(Load)
    BY <1>7, <1>9
  <1>11. Honest(mem)'
    BY <1>6, <1>8, <1>10 DEF Honest, Recorded, Distinct
  <1>12. ~torn' => Filled(mem)'
    BY <1>4, <1>8, <1>9, <1>10 DEF Filled, Recorded
  <1>13. Memory'
    BY <1>9, <1>11, <1>12 DEF Memory
  <1> QED
    BY <1>0, <1>1, <1>3, <1>8, <1>13, ThreePartsNext

LEMMA RunStep ==
    ASSUME IInv, Run
    PROVE  IInv'
  <1>0. Control /\ Memory /\ File /\ done \subseteq Stage
    BY ThreeParts
  <1>1. Control' /\ step' = "open"
    BY <1>0, Numbers DEF Run, Control, Placed
  <1>2. at \in Stage /\ step = "enter" /\ done' = done \cup {at} /\ UNCHANGED <<file, torn>>
    BY DEF Run
  <1>3. File'
    BY <1>0, <1>1, <1>2, FileStays
  <1> DEFINE more == SetCheckpoint(mem.checkpoints, at)
  <1>4. mem.checkpoints \in Seq(Stage) /\ Distinct(mem.checkpoints)
    BY <1>0 DEF Memory, Honest, Store
  <1>5. /\ more \in Seq(Stage) /\ Distinct(more)
        /\ {more[i] : i \in DOMAIN more} \subseteq Recorded(mem) \cup {at}
    BY <1>2, <1>4, SetCheckpointMore DEF Recorded
  <1>6. mem' = [mem EXCEPT !.checkpoints = more,
                           !.internal = @ \cup ({at} \cap IntoInternals),
                           !.params = @ \cup ({at} \cap IntoParams)]
    BY DEF Run
  <1> HIDE DEF more
  <1>7. /\ mem' \in Store /\ mem'.checkpoints = more
        /\ mem'.internal = mem.internal \cup ({at} \cap IntoInternals)
        /\ mem'.params = mem.params \cup ({at} \cap IntoParams)
    BY <1>0, <1>2, <1>5, <1>6 DEF Memory, Store
  <1>8. Recorded(mem') \subseteq Recorded(mem) \cup {at}
    BY <1>5, <1>7 DEF Recorded
  <1>9. Honest(mem)'
    <2>1. Distinct(mem'.checkpoints) /\ Recorded(mem') \subseteq done'
      BY <1>0, <1>2, <1>5, <1>7, <1>8 DEF Memory, Honest
    <2> QED
      BY <2>1 DEF Honest, Recorded, Distinct
  <1>10. ~torn' => Filled(mem)'
    <2>1. SUFFICES ASSUME ~torn' PROVE Filled(mem)'
      OBVIOUS
    <2>2. Filled(mem)
      BY <1>0, <1>2, <2>1 DEF Memory
    <2>3. /\ Recorded(mem') \cap IntoInternals \subseteq mem'.internal
          /\ Recorded(mem') \cap IntoParams \subseteq mem'.params
      BY <1>7, <1>8, <2>2 DEF Filled
    <2> QED
      BY <2>3 DEF Filled, Recorded
  <1> QED
    BY <1>0, <1>1, <1>2, <1>3, <1>7, <1>9, <1>10, ThreePartsNext DEF Memory

\* Nothing happens to the memory, the file and the world.
LEMMA SkipStep ==
    ASSUME IInv, Skip
    PROVE  IInv'
  <1>0. Control /\ Memory /\ File /\ done \subseteq Stage
    BY ThreeParts
  <1>1. Control' /\ step' # "write" /\ step = "enter"
    <2>1. at + 1 \in 1..14 /\ Enter(at + 1) /\ UNCHANGED <<faults, rewinds>>
      BY Numbers DEF Skip
    <2> QED
      BY <1>0, <2>1, EnterControl DEF Skip, Control
  <1>2. File'
    BY <1>0, <1>1, FileStays DEF Skip
  <1>3. Memory'
    BY <1>0 DEF Skip, Memory, Honest, Filled, Recorded, Distinct
  <1> QED
    BY <1>0, <1>1, <1>2, <1>3, ThreePartsNext DEF Skip

LEMMA EndStep ==
    ASSUME IInv, Raise \/ Finish
    PROVE  IInv'
  <1>0. Control /\ Memory /\ File /\ done \subseteq Stage
    BY ThreeParts
  <1>1. Stop /\ UNCHANGED <<file, done, faults, rewinds, torn>>
    BY DEF Raise, Finish
  <1>2. Control'
    BY <1>0, <1>1 DEF Stop, Control, Placed
  <1>3. Memory'
    BY <1>1, BlankMemory DEF Stop
  <1>4. step # "write"
    BY <1>0 DEF Raise, Finish, Control, Placed, TfStoreHardening
  <1>5. File'
    BY <1>0, <1>1, <1>4, FileStays DEF Stop
  <1> QED
    BY <1>0, <1>1, <1>2, <1>3, <1>5, ThreePartsNext

LEMMA TruncateStep ==
    ASSUME IInv, Truncate
    PROVE  IInv'
  <1>0. Control /\ Memory /\ File /\ done \subseteq Stage
    BY ThreeParts
  <1>1. Control'
    BY <1>0 DEF Truncate, Control, Placed
  <1>2. Memory'
    BY <1>0 DEF Truncate, Memory, Honest, Filled, Recorded, Distinct
  <1>3. File'
    BY <1>0 DEF Truncate, File, Honest, Filled, Recorded, Distinct
  <1> QED
    BY <1>0, <1>1, <1>2, <1>3, ThreePartsNext DEF Truncate

LEMMA WriteStep ==
    ASSUME IInv, Write
    PROVE  IInv'
  <1>0. Control /\ Memory /\ File /\ done \subseteq Stage
    BY ThreeParts
  <1>1. UNCHANGED <<mem, exists, done, faults, rewinds, torn>> /\ has' = Section /\ data' = mem
    BY DEF Write
  <1>2. Control'
    <2>1. CASE goal = at
      BY <1>0, <1>1, <2>1 DEF Write, Control, Placed
    <2>2. CASE goal # at
      <3>1. Enter(goal) /\ goal \in 1..14
        BY <1>0, <2>2 DEF Write, Control, Placed
      <3> QED
        BY <1>0, <1>1, <3>1, EnterControl DEF Control
    <2> QED
      BY <2>1, <2>2
  <1>3. Memory'
    BY <1>0, <1>1 DEF Memory, Honest, Filled, Recorded, Distinct
  <1>4. File'
    BY <1>0, <1>1 DEF Memory, File, Honest, Filled, Recorded, Distinct
  <1> QED
    BY <1>0, <1>1, <1>2, <1>3, <1>4, ThreePartsNext

LEMMA DieStep ==
    ASSUME IInv, Die
    PROVE  IInv'
  <1>0. Control /\ Memory /\ File /\ done \subseteq Stage
    BY ThreeParts
  <1>1. Stop /\ UNCHANGED <<exists, done, rewinds>> /\ faults' = faults + 1 /\ faults < MaxFaults
    BY DEF Die
  <1>2. Control'
    BY <1>0, <1>1, Numbers DEF Stop, Control, Placed
  <1>3. Memory'
    BY <1>1, BlankMemory DEF Stop
  <1>4. CASE step # "write" /\ UNCHANGED <<has, data, torn>>
    <2>1. File'
      BY <1>0, <1>1, <1>4, FileStays DEF file, Stop
    <2> QED
      BY <1>0, <1>1, <1>2, <1>3, <2>1, ThreePartsNext
  <1>5. ASSUME torn' = TRUE,
               NEW n \in 0..Len(DumpOrder),
               has' = {DumpOrder[i] : i \in 1..n},
               data' \in {mem} \cup CutSection(mem, DumpOrder[n])
        PROVE  IInv'
    <2>1. has' \subseteq Section
      BY <1>5 DEF DumpOrder, Section
    <2>2. mem \in Store /\ Distinct(mem.checkpoints)
      BY <1>0 DEF Memory, Honest
    <2>3. Within(data', mem)
      BY <1>5, <2>2, CutWithin DEF Within
    <2>4. data' \in Store /\ Distinct(data'.checkpoints) /\ Recorded(data') \subseteq done'
      BY <1>0, <1>1, <2>3, WithinHonest DEF Memory, Within
    <2>5. File'
      BY <1>0, <1>1, <1>5, <2>1, <2>4 DEF File, Honest, Recorded, Distinct
    <2> QED
      BY <1>0, <1>1, <1>2, <1>3, <2>5, ThreePartsNext
  <1>6. \/ step # "write" /\ UNCHANGED <<has, data, torn>>
        \/ torn' = TRUE /\ \E n \in 0..Len(DumpOrder) :
             /\ has' = {DumpOrder[i] : i \in 1..n}
             /\ data' \in {mem} \cup CutSection(mem, DumpOrder[n])
    <2>1. CASE step # "write"
      BY <2>1 DEF Die
    <2>2. CASE step = "write"
      <3>1. torn' = TRUE
        BY <2>2 DEF Die
      <3>2. PICK n \in 0..Len(DumpOrder) :
               /\ has' = {DumpOrder[i] : i \in 1..n}
               /\ n = 0 => data' = mem
               /\ n > 0 => data' \in {mem} \cup CutSection(mem, DumpOrder[n])
        BY <2>2 DEF Die
      <3>3. n = 0 \/ n > 0
        BY DEF DumpOrder
      <3> QED
        BY <3>1, <3>2, <3>3
    <2> QED
      BY <2>1, <2>2
  <1> QED
    BY <1>4, <1>5, <1>6

LEMMA StepIInv ==
    ASSUME IInv, [Next]_vars
    PROVE  IInv'
  <1>1. CASE UNCHANGED vars
    BY <1>1 DEF vars, IInv, TypeOK, Placed, Saved, Honest, Filled, Recorded, Distinct
  <1> QED
    BY <1>1, StartStep, StartFromStep, SkipStep, RunStep, EndStep, TruncateStep, WriteStep, DieStep
    DEF Next, Launch, LaunchFrom, Proceed

-----------------------------------------------------------------------------
(* The theorems *)

\* The record is honest, in memory and in the file.
THEOREM Inductive == Spec => []IInv
  <1>1. Init => IInv
    BY InitIInv
  <1>2. IInv /\ [Next]_vars => IInv'
    BY StepIInv
  <1> QED
    BY <1>1, <1>2, PTL DEF Spec

\* Every variable of the state file and its process keeps its type.
THEOREM TypeCorrect == Spec => []TypeOK
  <1>1. IInv => TypeOK
    BY DEF IInv
  <1> QED
    BY <1>1, Inductive, PTL

\* However often the process stops, and wherever a save is cut, a launch
\* believes in no stage that was not carried out (StateStore.__init__).
THEOREM RecordedWasDoneAlways == Spec => []RecordedWasDone
  <1>1. IInv => RecordedWasDone
    BY DEF IInv, Honest, RecordedWasDone
  <1> QED
    BY <1>1, Inductive, PTL

\* As long as no save was cut, a running process has the values of every stage
\* that is recorded (StateStore.save_checkpoint).
THEOREM ValuesOfRecordedAlways == Spec => []ValuesOfRecorded
  <1>1. IInv => ValuesOfRecorded
    BY DEF IInv, Saved, Filled, ValuesOfRecorded
  <1> QED
    BY <1>1, Inductive, PTL
-----------------------------------------------------------------------------
(* The record as the resumable pipeline has it *)

\* The checkpoints are the first stages, in their order.
Sorted(cps) == \A i \in DOMAIN cps : cps[i] = i

\* A process is never ahead of its list by more than the stage it is at, and
\* writes a list that is at most one stage longer than the one in the file.
Following ==
    /\ Sorted(mem.checkpoints) /\ Sorted(data.checkpoints)
    /\ step = "write" => exists
    /\ ~exists => has = {}
    /\ step = "enter" => at <= Len(mem.checkpoints) + 1 /\ OnRecord = mem.checkpoints
    /\ step \in {"open", "write"} => goal <= Len(mem.checkpoints) + 1
    /\ step = "open" => Len(mem.checkpoints) <= Len(OnRecord) + 1

\* In such a list "recorded" is a comparison with its length.
LEMMA SortedList ==
    ASSUME NEW cps \in Seq(Stage), Sorted(cps)
    PROVE  /\ Len(cps) \in 0..13
           /\ \A s \in Stage : HasCheckpoint(cps, s) <=> s <= Len(cps)
  <1>1. Stage = 1..13 /\ Len(cps) \in Nat /\ DOMAIN cps = 1..Len(cps)
    BY DEF Stage, Preflight, TfStoreHardening
  <1>2. CASE Len(cps) = 0
    BY <1>1, <1>2 DEF HasCheckpoint
  <1>3. CASE Len(cps) # 0
    <2>1. Len(cps) \in DOMAIN cps /\ cps[Len(cps)] = Len(cps) /\ cps[Len(cps)] \in Stage
      BY <1>1, <1>3 DEF Sorted
    <2>2. ASSUME NEW s \in Stage, HasCheckpoint(cps, s)
          PROVE  s <= Len(cps)
      <3>1. PICK i \in DOMAIN cps : cps[i] = s
        BY <2>2 DEF HasCheckpoint
      <3>2. s = i
        BY <3>1 DEF Sorted
      <3> QED
        BY <1>1, <3>1, <3>2
    <2>3. ASSUME NEW s \in Stage, s <= Len(cps)
          PROVE  HasCheckpoint(cps, s)
      <3>1. s \in DOMAIN cps
        BY <1>1, <2>3
      <3>2. cps[s] = s
        BY <3>1 DEF Sorted
      <3> QED
        BY <3>1, <3>2 DEF HasCheckpoint
    <2>4. Len(cps) \in 1..13
      BY <1>1, <2>1
    <2>5. Len(cps) \in 0..13
      <3>1. \A n \in 1..13 : n \in 0..13
        OBVIOUS
      <3> QED
        BY <2>4, <3>1
    <2> QED
      BY <2>2, <2>3, <2>5
  <1> QED
    BY <1>2, <1>3

LEMMA SortedCut ==
    ASSUME NEW cps \in Seq(Stage), Sorted(cps), NEW k \in 0..Len(cps)
    PROVE  SubSeq(cps, 1, k) \in Seq(Stage) /\ Sorted(SubSeq(cps, 1, k)) /\ Len(SubSeq(cps, 1, k)) = k
  <1> DEFINE cut == SubSeq(cps, 1, k)
  <1>1. cut \in Seq(Stage) /\ Len(cut) = k /\ \A i \in 1..k : cut[i] = cps[i]
    OBVIOUS
  <1>2. DOMAIN cut = 1..k /\ 1..k \subseteq DOMAIN cps
    BY <1>1
  <1> HIDE DEF cut
  <1> QED
    BY <1>1, <1>2 DEF Sorted, cut

LEMMA SortedRemove ==
    ASSUME NEW cps \in Seq(Stage), Sorted(cps), Distinct(cps), NEW c
    PROVE  /\ RemoveFrom(cps, c) \in Seq(Stage) /\ Sorted(RemoveFrom(cps, c))
           /\ Len(RemoveFrom(cps, c)) <= Len(cps)
  <1>1. CASE HasCheckpoint(cps, c)
    <2>1. IndexOf(cps, c) - 1 \in 0..Len(cps)
      BY <1>1, OnlyIndex
    <2>2. RemoveFrom(cps, c) = SubSeq(cps, 1, IndexOf(cps, c) - 1)
      BY <1>1 DEF RemoveFrom
    <2> QED
      BY <2>1, <2>2, SortedCut
  <1>2. CASE ~HasCheckpoint(cps, c)
    BY <1>2 DEF RemoveFrom
  <1> QED
    BY <1>1, <1>2

LEMMA SortedSet ==
    ASSUME NEW cps \in Seq(Stage), Sorted(cps), NEW s \in Stage, s <= Len(cps) + 1
    PROVE  LET more == SetCheckpoint(cps, s)
           IN  /\ more \in Seq(Stage) /\ Sorted(more)
               /\ Len(more) = IF s <= Len(cps) THEN Len(cps) ELSE Len(cps) + 1
  <1>1. CASE s <= Len(cps)
    BY <1>1, SortedList DEF SetCheckpoint
  <1>2. CASE ~(s <= Len(cps))
    <2> DEFINE more == Append(cps, s)
    <2>1. SetCheckpoint(cps, s) = more
      BY <1>2, SortedList DEF SetCheckpoint
    <2>2. s = Len(cps) + 1 /\ DOMAIN cps = 1..Len(cps) /\ Len(cps) \in Nat
      BY <1>2 DEF Stage, Preflight, TfStoreHardening
    <2>3. /\ more \in Seq(Stage) /\ Len(more) = Len(cps) + 1 /\ DOMAIN more = 1..(Len(cps) + 1)
          /\ more[Len(cps) + 1] = s /\ \A i \in DOMAIN cps : more[i] = cps[i]
      OBVIOUS
    <2> HIDE DEF more
    <2>4. Sorted(more)
      BY <2>2, <2>3 DEF Sorted
    <2> QED
      BY <1>2, <2>1, <2>3, <2>4
  <1> QED
    BY <1>1, <1>2

\* The lists are lists, so their lengths are numbers.
LEMMA Lists ==
    ASSUME IInv
    PROVE  /\ mem.checkpoints \in Seq(Stage) /\ data.checkpoints \in Seq(Stage)
           /\ Distinct(mem.checkpoints) /\ Distinct(data.checkpoints)
           /\ OnRecord \in Seq(Stage) /\ Len(mem.checkpoints) \in Nat /\ Len(OnRecord) \in Nat
           /\ <<>> \in Seq(Stage) /\ Sorted(<<>>)
  <1>1. /\ mem.checkpoints \in Seq(Stage) /\ data.checkpoints \in Seq(Stage)
        /\ Distinct(mem.checkpoints) /\ Distinct(data.checkpoints)
    BY DEF IInv, TypeOK, Store, Honest
  <1>2. <<>> \in Seq(Stage) /\ DOMAIN <<>> = {}
    OBVIOUS
  <1> QED
    BY <1>1, <1>2 DEF OnRecord, Sorted

\* A launch finds the list that is on record.
LEMMA LoadOnRecord ==
    ASSUME IInv, Following, Readable, at = 0
    PROVE  Load.checkpoints = OnRecord /\ Load \in Store /\ Sorted(OnRecord) /\ Distinct(OnRecord)
  <1>1. step # "write" /\ data \in Store /\ Distinct(data.checkpoints)
    BY DEF IInv, TypeOK, Placed, Honest
  <1>2. CASE ~exists
    BY <1>1, <1>2, BlankStore, Lists DEF Load, OnRecord, Following
  <1>3. CASE exists
    <2>1. "checkpoints" \in has /\ OnRecord = data.checkpoints
      BY <1>1, <1>3 DEF Readable, OnRecord
    <2>2. Load.checkpoints = data.checkpoints
      BY <1>1, <1>3 DEF Load, Blank, Store
    <2> QED
      BY <1>1, <2>1, <2>2, LoadWithin DEF Within, Following
  <1> QED
    BY <1>2, <1>3

-----------------------------------------------------------------------------
(* The steps of the pipeline *)

LEMMA InitFollowing == Init => Following /\ Pipeline!Init
  <1> SUFFICES ASSUME Init PROVE Following /\ Pipeline!Init
    OBVIOUS
  <1>1. mem.checkpoints = <<>> /\ data.checkpoints = <<>> /\ OnRecord = <<>>
    BY BlankStore DEF Init, OnRecord
  <1>2. Sorted(<<>>)
    <2>1. DOMAIN <<>> = {}
      OBVIOUS
    <2> QED
      BY <2>1 DEF Sorted
  <1> QED
    BY <1>1, <1>2 DEF Init, Following, Pipeline!Init

\* What a step does to the record, and to what was carried out.
PipelineStep ==
    \/ Len(OnRecord') = Len(OnRecord) /\ done' = done
    \/ Len(OnRecord') = Len(OnRecord) /\ \E k \in 1..(Len(OnRecord) + 1) \cap Stage : done' = done \cup {k}
    \/ Len(OnRecord') = Len(OnRecord) + 1 /\ Len(OnRecord') \in done /\ Len(OnRecord') \in 1..13 /\ done' = done
    \/ Len(OnRecord') \in 0..13 /\ Len(OnRecord') < Len(OnRecord) /\ done' = done

LEMMA PipelineStepIsOne ==
    ASSUME IInv, PipelineStep
    PROVE  [Pipeline!Next]_Pipeline!vars
  <1>1. Len(OnRecord) \in Nat
    BY Lists
  <1>2. CASE Len(OnRecord') = Len(OnRecord) /\ done' = done
    BY <1>2 DEF Pipeline!vars
  <1>3. CASE /\ Len(OnRecord') = Len(OnRecord)
             /\ \E k \in 1..(Len(OnRecord) + 1) \cap Stage : done' = done \cup {k}
    <2>1. PICK k \in 1..(Len(OnRecord) + 1) \cap Stage : done' = done \cup {k}
      BY <1>3
    <2>2. k \in 1..13 /\ k <= Len(OnRecord) + 1
      BY <1>1, <2>1 DEF Stage, Preflight, TfStoreHardening
    <2> QED
      BY <1>3, <2>1, <2>2 DEF Pipeline!Next, Pipeline!Perform, TfStoreHardening
  <1>4. CASE Len(OnRecord') = Len(OnRecord) + 1 /\ Len(OnRecord') \in done /\ Len(OnRecord') \in 1..13 /\ done' = done
    <2>1. Len(OnRecord) < 13 /\ done' = done \cup {Len(OnRecord) + 1}
      BY <1>1, <1>4
    <2> QED
      BY <1>4, <2>1 DEF Pipeline!Next, Pipeline!Record, TfStoreHardening
  <1>5. CASE Len(OnRecord') \in 0..13 /\ Len(OnRecord') < Len(OnRecord) /\ done' = done
    BY <1>5 DEF Pipeline!Next, Pipeline!Rewind, TfStoreHardening
  <1> QED
    BY <1>2, <1>3, <1>4, <1>5 DEF PipelineStep

LEMMA LaunchFollows ==
    ASSUME IInv, Following, Launch \/ LaunchFrom
    PROVE  Following' /\ PipelineStep
  <1>1. /\ at = 0 /\ Readable /\ UNCHANGED <<file, done>> /\ step # "write" /\ step' # "write"
        /\ at' = 1 /\ goal' = 1 /\ step' \in {"enter", "open"}
    BY DEF Launch, LaunchFrom, Start, StartFrom, Enter, IInv, Placed, Preflight, OneTimeSetup
  <1>2. OnRecord' = OnRecord /\ data' = data /\ exists' = exists /\ has' = has
    BY <1>1 DEF OnRecord, file
  <1>3. /\ Load.checkpoints = OnRecord /\ Load \in Store /\ Sorted(OnRecord) /\ Distinct(OnRecord)
        /\ OnRecord \in Seq(Stage)
    BY <1>1, LoadOnRecord, Lists
  <1>4. CASE Launch
    <2>1. mem'.checkpoints = OnRecord
      BY <1>3, <1>4 DEF Launch, Start, Store
    <2> QED
      BY <1>1, <1>2, <1>3, <2>1, Lists DEF Following, PipelineStep
  <1>5. ASSUME NEW option \in Options, NEW c \in RestartFrom, StartFrom(option, c)
        PROVE  Following' /\ PipelineStep
    <2> DEFINE cut == RemoveFrom(Load.checkpoints, c)
    <2>1. cut \in Seq(Stage) /\ Sorted(cut) /\ Len(cut) <= Len(OnRecord)
      BY <1>3, SortedRemove
    <2>2. mem' = [Load EXCEPT !.input = option, !.checkpoints = cut] /\ step' = "open"
      BY <1>5 DEF StartFrom
    <2> HIDE DEF cut
    <2>3. mem'.checkpoints = cut
      BY <1>3, <2>2 DEF Store
    <2>4. Len(cut) \in Nat /\ Len(OnRecord) \in Nat
      BY <2>1, Lists
    <2> QED
      BY <1>1, <1>2, <2>1, <2>2, <2>3, <2>4 DEF Following, PipelineStep
  <1> QED
    BY <1>4, <1>5 DEF LaunchFrom

LEMMA RunFollows ==
    ASSUME IInv, Following, Run
    PROVE  Following' /\ PipelineStep
  <1>1. /\ at \in Stage /\ step = "enter" /\ step' = "open" /\ goal' = at + 1 /\ UNCHANGED file
        /\ done' = done \cup {at}
    BY DEF Run
  <1>2. OnRecord' = OnRecord /\ data' = data /\ exists' = exists /\ has' = has
    BY <1>1 DEF OnRecord, file
  <1>3. at <= Len(mem.checkpoints) + 1 /\ OnRecord = mem.checkpoints /\ mem \in Store
    BY <1>1 DEF Following, IInv, TypeOK
  <1> DEFINE more == SetCheckpoint(mem.checkpoints, at)
  <1>4. /\ more \in Seq(Stage) /\ Sorted(more)
        /\ Len(more) = IF at <= Len(mem.checkpoints) THEN Len(mem.checkpoints) ELSE Len(mem.checkpoints) + 1
    BY <1>1, <1>3, Lists, SortedSet DEF Following
  <1> HIDE DEF more
  <1>5. mem'.checkpoints = more
    BY <1>3 DEF Run, Store, more
  <1>6. at \in 1..13 /\ Len(mem.checkpoints) \in Nat
    BY <1>1, Lists DEF Stage, Preflight, TfStoreHardening
  <1>7. Following'
    BY <1>1, <1>2, <1>3, <1>4, <1>5, <1>6 DEF Following
  <1>8. at \in 1..(Len(OnRecord) + 1) \cap Stage
    BY <1>1, <1>3, <1>6
  <1> QED
    BY <1>1, <1>2, <1>7, <1>8 DEF PipelineStep

LEMMA SkipFollows ==
    ASSUME IInv, Following, Skip
    PROVE  Following' /\ PipelineStep
  <1>1. /\ at \in Stage /\ step = "enter" /\ HasCheckpoint(mem.checkpoints, at) /\ Enter(at + 1)
        /\ UNCHANGED <<mem, file, done>>
    BY DEF Skip, Runs
  <1>2. /\ at' = at + 1 /\ goal' = at + 1 /\ step' \in {"enter", "open"}
        /\ data' = data /\ exists' = exists /\ has' = has /\ mem' = mem
    BY <1>1 DEF Enter, file
  <1>3. at <= Len(mem.checkpoints) /\ at \in 1..13 /\ Len(mem.checkpoints) \in Nat
    BY <1>1, Lists, SortedList DEF Following, Stage, Preflight, TfStoreHardening
  <1>4. OnRecord' = OnRecord /\ OnRecord = mem.checkpoints
    BY <1>1, <1>2 DEF OnRecord, Following
  <1> QED
    BY <1>1, <1>2, <1>3, <1>4 DEF Following, PipelineStep

LEMMA SaveFollows ==
    ASSUME IInv, Following, Truncate \/ Write
    PROVE  Following' /\ PipelineStep
  <1>0. /\ Len(mem.checkpoints) \in 0..13 /\ Len(OnRecord) \in Nat /\ at \in 0..14 /\ goal \in 0..14
        /\ mem.checkpoints \in Seq(Stage) /\ Len(mem.checkpoints) \in Nat
    BY Lists, SortedList, Numbers DEF Following
  <1>1. CASE Truncate
    <2>1. /\ step = "open" /\ step' = "write" /\ exists' = TRUE /\ has' = {}
          /\ UNCHANGED <<at, goal, mem, data, done>>
      BY <1>1 DEF Truncate
    <2>2. OnRecord' = mem.checkpoints
      BY <2>1 DEF OnRecord
    <2>3. Following'
      BY <2>1 DEF Following
    <2>4. Len(mem.checkpoints) # 0 => Len(mem.checkpoints) \in done
      <3>1. SUFFICES ASSUME Len(mem.checkpoints) # 0 PROVE Len(mem.checkpoints) \in done
        OBVIOUS
      <3>2. Len(mem.checkpoints) \in DOMAIN mem.checkpoints
        BY <1>0, <3>1
      <3>3. mem.checkpoints[Len(mem.checkpoints)] = Len(mem.checkpoints)
        BY <3>2 DEF Following, Sorted
      <3> QED
        BY <3>2, <3>3 DEF IInv, Honest, Recorded
    <2>5. Len(mem.checkpoints) <= Len(OnRecord) + 1
      BY <2>1 DEF Following
    <2> QED
      BY <1>0, <2>1, <2>2, <2>3, <2>4, <2>5 DEF PipelineStep
  <1>2. CASE Write
    <2>1. /\ step = "write" /\ has' = Section /\ data' = mem /\ UNCHANGED <<mem, exists, done>>
          /\ exists' = exists
      BY <1>2 DEF Write
    <2>2. /\ step' \in {"enter", "open"} /\ at' = goal /\ goal' = goal
      BY <1>2 DEF Write, Enter
    <2>3. OnRecord' = mem.checkpoints /\ OnRecord = mem.checkpoints
      BY <2>1, <2>2, SectionNames DEF OnRecord
    <2>4. exists
      BY <2>1 DEF Following
    <2>5. Following'
      BY <1>0, <2>1, <2>2, <2>3, <2>4 DEF Following
    <2> QED
      BY <2>1, <2>3, <2>5 DEF PipelineStep
  <1> QED
    BY <1>1, <1>2

LEMMA EndFollows ==
    ASSUME IInv, Following, Raise \/ Finish
    PROVE  Following' /\ PipelineStep
  <1>1. Stop /\ UNCHANGED <<file, done>> /\ step # "write"
    BY DEF Raise, Finish, IInv, Placed, TfStoreHardening
  <1>2. /\ step' = "idle" /\ mem' = Blank /\ data' = data /\ exists' = exists /\ has' = has
        /\ OnRecord' = OnRecord
    BY <1>1 DEF Stop, file, OnRecord
  <1>3. Following'
    BY <1>2, BlankStore, Lists DEF Following
  <1> QED
    BY <1>1, <1>2, <1>3 DEF PipelineStep

\* A save that is cut leaves part of the list, so it falls back.
LEMMA DieFollows ==
    ASSUME IInv, Following, Die
    PROVE  Following' /\ PipelineStep
  <1>1. /\ step' = "idle" /\ mem' = Blank /\ exists' = exists /\ done' = done
    BY DEF Die, Stop
  <1>2. Sorted(Blank.checkpoints)
    BY BlankStore, Lists
  <1>3. CASE step # "write"
    <2>1. data' = data /\ has' = has
      BY <1>3 DEF Die
    <2>2. OnRecord' = OnRecord
      BY <1>1, <1>3, <2>1 DEF OnRecord
    <2>3. Following'
      BY <1>1, <1>2, <2>1 DEF Following
    <2> QED
      BY <1>1, <2>2, <2>3 DEF PipelineStep
  <1>4. CASE step = "write"
    <2>0. mem \in Store /\ mem.checkpoints \in Seq(Stage) /\ Sorted(mem.checkpoints) /\ exists
      BY <1>4, Lists DEF IInv, TypeOK, Following
    <2>1. Len(mem.checkpoints) \in 0..13
      BY <2>0, SortedList
    <2>2. PICK n \in 0..Len(DumpOrder) :
            /\ has' = {DumpOrder[i] : i \in 1..n}
            /\ n = 0 => data' = mem
            /\ n > 0 => data' \in {mem} \cup CutSection(mem, DumpOrder[n])
      BY <1>4 DEF Die
    <2>3. n = 0 \/ n > 0
      BY DEF DumpOrder
    <2>4. \/ data'.checkpoints = mem.checkpoints
          \/ \E k \in 1..Len(mem.checkpoints) : data'.checkpoints = SubSeq(mem.checkpoints, 1, k)
      <3>1. CASE data' = mem
        BY <3>1
      <3>2. CASE data' \in CutSection(mem, DumpOrder[n])
        BY <2>0, <3>2 DEF CutSection, Store
      <3> QED
        BY <2>2, <2>3, <3>1, <3>2
    <2>5. /\ data'.checkpoints \in Seq(Stage) /\ Sorted(data'.checkpoints)
          /\ Len(data'.checkpoints) \in 0..Len(mem.checkpoints)
      <3>1. CASE data'.checkpoints = mem.checkpoints
        BY <2>0, <2>1, <3>1
      <3>2. ASSUME NEW k \in 1..Len(mem.checkpoints), data'.checkpoints = SubSeq(mem.checkpoints, 1, k)
            PROVE  /\ data'.checkpoints \in Seq(Stage) /\ Sorted(data'.checkpoints)
                   /\ Len(data'.checkpoints) \in 0..Len(mem.checkpoints)
        <4>1. k \in 0..Len(mem.checkpoints)
          BY <2>1
        <4> QED
          BY <2>0, <3>2, <4>1, SortedCut
      <3> QED
        BY <2>4, <3>1, <3>2
    <2>6. OnRecord = mem.checkpoints /\ OnRecord' \in {data'.checkpoints, <<>>}
      BY <1>1, <1>4 DEF OnRecord
    <2>7. Len(OnRecord') \in 0..Len(OnRecord)
      <3>1. Len(<<>>) = 0
        OBVIOUS
      <3> QED
        BY <2>1, <2>5, <2>6, <3>1
    <2>8. Following'
      BY <1>1, <1>2, <2>0, <2>5 DEF Following
    <2>9. Len(OnRecord) \in 0..13
      BY <2>1, <2>6
    <2>10. \/ Len(OnRecord') = Len(OnRecord)
           \/ Len(OnRecord') \in 0..13 /\ Len(OnRecord') < Len(OnRecord)
      <3>1. \A a \in 0..13 : \A b \in 0..a : b = a \/ (b \in 0..13 /\ b < a)
        OBVIOUS
      <3> QED
        BY <2>7, <2>9, <3>1
    <2>11. PipelineStep
      BY <1>1, <2>10 DEF PipelineStep
    <2> QED
      BY <2>8, <2>11
  <1> QED
    BY <1>3, <1>4

LEMMA StepFollows ==
    ASSUME IInv, Following, [Next]_vars
    PROVE  Following' /\ [Pipeline!Next]_Pipeline!vars
  <1>1. CASE UNCHANGED vars
    <2>1. OnRecord' = OnRecord
      BY <1>1 DEF vars, OnRecord
    <2> QED
      BY <1>1, <2>1 DEF vars, Following, Pipeline!vars
  <1>2. CASE Next
    <2>1. Following' /\ PipelineStep
      BY <1>2, LaunchFollows, RunFollows, SkipFollows, SaveFollows, EndFollows, DieFollows DEF Next, Proceed
    <2> QED
      BY <2>1, PipelineStepIsOne
  <1> QED
    BY <1>1, <1>2

\* The state file implements the resumable pipeline: wherever a save is cut, the
\* record only ever falls back, and no stage is on it that was not carried out.
THEOREM ImplementsPipeline == Spec => RefinesPipeline
  <1>1. IInv /\ Following /\ [Next]_vars => Following' /\ [Pipeline!Next]_Pipeline!vars
    BY StepFollows
  <1> QED
    BY Inductive, InitFollowing, <1>1, PTL DEF Spec, RefinesPipeline, Pipeline!Spec
-----------------------------------------------------------------------------
(* A launch always goes on *)

\* As long as no save was cut and the options are in a file, a launch can read
\* what it finds, and a stage has the values it subscripts.
Resumable ==
    ~torn => /\ at = 0 /\ "arguments" \notin Options => Readable
             /\ at \in Stage /\ step = "enter" => HasInputs(at)

\* A stage subscripts only what earlier stages leave.
LEMMA InputsAreEarlier ==
    ASSUME NEW s \in Stage
    PROVE  /\ FromInternals[s] \subseteq IntoInternals \cap 1..(s - 1)
           /\ FromParams[s] \subseteq IntoParams \cap 1..(s - 1)
  <1>1. s \in 1..13
    BY DEF Stage, Preflight, TfStoreHardening
  <1> QED
    BY <1>1 DEF FromInternals, FromParams, IntoInternals, IntoParams, Stage, Preflight, Dependencies,
         OneTimeSetup, RepoPrep, VcsTf, K8sTf, GitopsVcs, K8sDelivery, SecretsManagement, SecretsTf,
         UsersTf, CoreServicesTf, TfStoreHardening

LEMMA ResumableThen == IInv /\ Following => Resumable
  <1> SUFFICES ASSUME IInv, Following, ~torn PROVE Resumable
    BY DEF Resumable
  <1>1. ASSUME at = 0, "arguments" \notin Options
        PROVE  Readable
    <2>1. step # "write" /\ (exists => has = Section)
      BY <1>1 DEF IInv, Placed, Saved
    <2>2. data.input \in Options \cup {"none"}
      BY DEF IInv, TypeOK, Store
    <2> QED
      BY <1>1, <2>1, <2>2, SectionNames DEF Readable
  <1>2. ASSUME at \in Stage, step = "enter"
        PROVE  HasInputs(at)
    <2>1. at <= Len(mem.checkpoints) + 1 /\ mem.checkpoints \in Seq(Stage) /\ Sorted(mem.checkpoints)
      BY <1>2, Lists DEF Following
    <2>2. Filled(mem) /\ at \in 1..13 /\ Stage = 1..13
      BY <1>2, Numbers DEF IInv, Saved
    <2>3. ASSUME NEW s \in 1..(at - 1)
          PROVE  s \in Recorded(mem)
      <3>1. s \in Stage /\ s <= Len(mem.checkpoints)
        BY <2>1, <2>2, Lists
      <3>2. HasCheckpoint(mem.checkpoints, s)
        BY <2>1, <3>1, SortedList
      <3> QED
        BY <3>2 DEF HasCheckpoint, Recorded
    <2> QED
      BY <1>2, <2>2, <2>3, InputsAreEarlier DEF HasInputs, Filled
  <1> QED
    BY <1>1, <1>2 DEF Resumable

\* "allowing the command to be rerun if necessary": a launch that finds a file no
\* stop has cut can read it, and no stage of it misses a value an earlier process
\* had. This is what CompletesUnlessTorn needs besides fairness.
THEOREM ResumableAlways == Spec => []Resumable
  <1>1. IInv /\ Following /\ [Next]_vars => Following'
    BY StepFollows
  <1>2. IInv /\ Following => Resumable
    BY ResumableThen
  <1>3. Init => Following
    BY InitFollowing
  <1> QED
    BY Inductive, <1>1, <1>2, <1>3, PTL DEF Spec
=============================================================================
