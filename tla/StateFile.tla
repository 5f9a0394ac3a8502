----------------------------- MODULE StateFile -----------------------------
(***************************************************************************)
(* ~/.cgdevx/state.yaml as common/state_store.py writes and reads it, and  *)
(* the stages of setup as far as they leave values in it or take some.     *)
(* save_checkpoint empties the file ("w+") and then writes the sections in *)
(* the order of their names; StateStore() reads them in another order and  *)
(* gives up, silently, at the first one that is missing.                   *)
(***************************************************************************)
EXTENDS Stages, Sequences, StateStore

CONSTANTS
    Options,        \* where the options of a launch come from
    RestartFrom,    \* the stages the user gives to --from-checkpoint
    CanTear,        \* the process may stop while it writes the file
    MaxFaults,      \* bound: stops of the process
    MaxRewinds      \* bound: launches with --from-checkpoint

ASSUME ConstantsAssumption ==
    /\ Options \subseteq {"file", "arguments"}
    /\ RestartFrom \subseteq Stage
    /\ CanTear \in BOOLEAN
    /\ MaxFaults \in Nat /\ MaxRewinds \in Nat

\* In internals and parameters, the stages whose values are there; in input,
\* where its values are from: with "arguments", optional-services is a tuple.
Store == [checkpoints : Seq(Stage), internal : SUBSET Stage, params : SUBSET Stage,
          input : Options \cup {"none"}]

Blank == [checkpoints |-> <<>>, internal |-> {}, params |-> {}, input |-> "none"]

\* yaml.dump sorts the keys of the store (fragments, after checkpoints, are
\* left out: they only fill in text).
DumpOrder == <<"checkpoints", "input", "internal", "params">>
Section == {DumpOrder[i] : i \in DOMAIN DumpOrder}

VARIABLES
    at, step,       \* the stage the process is at, and where in it
    goal,           \* the stage it goes to after a save
    mem,            \* StateStore._store
    exists,         \* the file is there
    has, data,      \* its sections and what they hold
    done,           \* the stages carried out
    faults, rewinds,
    torn            \* history: a save was not written to its end

vars == <<at, step, goal, mem, exists, has, data, done, faults, rewinds, torn>>
file == <<exists, has, data>>

\* A stage number more than the last is the end of the run.
TypeOK ==
    /\ at \in 0..(TfStoreHardening + 1) /\ goal \in 0..(TfStoreHardening + 1)
    /\ step \in {"idle", "enter", "open", "write"}
    /\ mem \in Store /\ data \in Store
    /\ exists \in BOOLEAN /\ has \subseteq Section
    /\ done \subseteq Stage
    /\ faults \in 0..MaxFaults /\ rewinds \in 0..MaxRewinds /\ torn \in BOOLEAN

Init ==
    /\ at = 0 /\ step = "idle" /\ goal = 0
    /\ mem = Blank /\ data = Blank
    /\ exists = FALSE /\ has = {}
    /\ done = {}
    /\ faults = 0 /\ rewinds = 0 /\ torn = FALSE

-----------------------------------------------------------------------------
(* Reading *)

\* safe_load has no constructor for a tuple, and an empty file is no mapping:
\* neither error is a KeyError. A list of checkpoints that is there is a list.
Readable == exists => "checkpoints" \in has /\ ("input" \in has => data.input # "arguments")

\* Checkpoints, fragments, parameters, internals, input: a KeyError leaves
\* the sections after it as they are.
Load ==
    IF ~exists THEN Blank
    ELSE IF "params" \notin has THEN [Blank EXCEPT !.checkpoints = data.checkpoints]
    ELSE IF "internal" \notin has
         THEN [Blank EXCEPT !.checkpoints = data.checkpoints, !.params = data.params]
    ELSE IF "input" \notin has THEN [data EXCEPT !.input = "none"]
    ELSE data

\* prepare_parameters saves before one-time-setup, on every launch.
Enter(s) ==
    /\ at' = s /\ goal' = s
    /\ step' = IF s = OneTimeSetup THEN "open" ELSE "enter"

Start(option) ==
    /\ at = 0 /\ Readable
    /\ mem' = [Load EXCEPT !.input = option]
    /\ Enter(Preflight)
    /\ UNCHANGED <<file, done, faults, rewinds, torn>>

\* The shortened list is saved before anything else.
StartFrom(option, c) ==
    /\ at = 0 /\ Readable
    /\ rewinds < MaxRewinds /\ rewinds' = rewinds + 1
    /\ mem' = [Load EXCEPT !.input = option, !.checkpoints = RemoveFrom(@, c)]
    /\ at' = Preflight /\ goal' = Preflight /\ step' = "open"
    /\ UNCHANGED <<file, done, faults, torn>>

-----------------------------------------------------------------------------
(* The stages *)

\* The stages that leave something in internals, and in parameters (besides
\* what prepare_parameters derives from the input on every launch).
IntoInternals ==
    {Preflight, OneTimeSetup, VcsTf, K8sTf, K8sDelivery, SecretsManagement, SecretsTf,
     CoreServicesTf}
IntoParams == {Preflight, OneTimeSetup, VcsTf, K8sTf, CoreServicesTf}

\* The stages whose internals, and parameters, a stage subscripts.
FromInternals == [s \in Stage |->
    CASE s = GitopsVcs -> {Preflight, OneTimeSetup}
      [] s = K8sDelivery -> {OneTimeSetup, K8sTf}
      [] s = SecretsManagement -> {K8sTf}
      [] s = SecretsTf -> {OneTimeSetup, VcsTf, K8sTf, SecretsManagement}
      [] s = UsersTf -> {SecretsManagement}
      [] s = CoreServicesTf -> {K8sTf, SecretsManagement, SecretsTf}
      [] s = TfStoreHardening -> {OneTimeSetup}
      [] OTHER -> {}]
FromParams == [s \in Stage |->
    CASE s = VcsTf -> {OneTimeSetup}
      [] s \in {GitopsVcs, K8sDelivery} -> {VcsTf}
      [] s = TfStoreHardening -> {K8sTf}
      [] OTHER -> {}]

Runs(s) == s \in {RepoPrep, GitopsVcs} \/ ~HasCheckpoint(mem.checkpoints, s)
HasInputs(s) == FromInternals[s] \subseteq mem.internal /\ FromParams[s] \subseteq mem.params

Stop == at' = 0 /\ goal' = 0 /\ step' = "idle" /\ mem' = Blank

Skip ==
    /\ at \in Stage /\ step = "enter" /\ ~Runs(at)
    /\ Enter(at + 1)
    /\ UNCHANGED <<mem, file, done, faults, rewinds, torn>>

\* Slip: the values of a stage are not there yet when it is recorded.
RunWithoutValues ==
    /\ at \in Stage /\ step = "enter" /\ Runs(at) /\ HasInputs(at)
    /\ done' = done \cup {at}
    /\ mem' = [mem EXCEPT !.checkpoints = SetCheckpoint(@, at)]
    /\ step' = "open" /\ goal' = at + 1
    /\ UNCHANGED <<at, file, faults, rewinds, torn>>

\* Slip: the checkpoint is set and saved before the work.
RunRecordedFirst ==
    /\ at \in Stage /\ step = "enter" /\ Runs(at) /\ HasInputs(at)
    /\ done' = done \cup (1..(at - 1))
    /\ mem' = [mem EXCEPT !.checkpoints = SetCheckpoint(@, at),
                          !.internal = @ \cup ({at} \cap IntoInternals),
                          !.params = @ \cup ({at} \cap IntoParams)]
    /\ step' = "open" /\ goal' = at + 1
    /\ UNCHANGED <<at, file, faults, rewinds, torn>>

\* The work of a stage, then its checkpoint.
Run ==
    /\ at \in Stage /\ step = "enter" /\ Runs(at) /\ HasInputs(at)
    /\ done' = done \cup {at}
    /\ mem' = [mem EXCEPT !.checkpoints = SetCheckpoint(@, at),
                          !.internal = @ \cup ({at} \cap IntoInternals),
                          !.params = @ \cup ({at} \cap IntoParams)]
    /\ step' = "open" /\ goal' = at + 1
    /\ UNCHANGED <<at, file, faults, rewinds, torn>>

\* KeyError
Raise ==
    /\ at \in Stage /\ step = "enter" /\ Runs(at) /\ ~HasInputs(at)
    /\ Stop
    /\ UNCHANGED <<file, done, faults, rewinds, torn>>

Finish ==
    /\ at = TfStoreHardening + 1
    /\ Stop
    /\ UNCHANGED <<file, done, faults, rewinds, torn>>

-----------------------------------------------------------------------------
(* Writing *)

\* open(..., "w+")
Truncate ==
    /\ step = "open"
    /\ exists' = TRUE /\ has' = {}
    /\ step' = "write"
    /\ UNCHANGED <<at, goal, mem, data, done, faults, rewinds, torn>>

\* yaml.dump, and the file is closed.
Write ==
    /\ step = "write"
    /\ has' = Section /\ data' = mem
    /\ IF goal = at THEN step' = "enter" /\ UNCHANGED <<at, goal>> ELSE Enter(goal)
    /\ UNCHANGED <<mem, exists, done, faults, rewinds, torn>>

\* The last section of a file that is cut: a list or a mapping with its first
\* entries. A mapping cut anywhere lacks some values; which ones depends on
\* the names of the keys, so one stage at least is missing.
CutSection(store, name) ==
    CASE name = "checkpoints" ->
           {[store EXCEPT !.checkpoints = SubSeq(@, 1, k)] : k \in 1..Len(store.checkpoints)}
      [] name = "internal" -> {[store EXCEPT !.internal = @ \ {s}] : s \in store.internal}
      [] name = "params" -> {[store EXCEPT !.params = @ \ {s}] : s \in store.params}
      [] OTHER -> {store}

\* The process stops; the file it writes is cut in some section, or empty.
Die ==
    /\ at # 0
    /\ faults < MaxFaults /\ faults' = faults + 1
    /\ Stop
    /\ \/ step # "write" /\ UNCHANGED <<has, data, torn>>
       \/ step = "write" /\ CanTear /\ torn' = TRUE
            /\ \E n \in 0..Len(DumpOrder) :
                 /\ has' = {DumpOrder[i] : i \in 1..n}
                 /\ n = 0 => data' = mem
                 /\ n > 0 => data' \in {mem} \cup CutSection(mem, DumpOrder[n])
    /\ UNCHANGED <<exists, done, rewinds>>

Proceed == Skip \/ Run \/ Raise \/ Finish \/ Truncate \/ Write

Launch == \E option \in Options : Start(option)

LaunchFrom == \E option \in Options, c \in RestartFrom : StartFrom(option, c)

Next == Launch \/ LaunchFrom \/ Proceed \/ Die

Spec == Init /\ [][Next]_vars

\* "allowing the command to be rerun if necessary": and it is.
FairSpec == Spec /\ WF_vars(Proceed) /\ WF_vars(Launch)

-----------------------------------------------------------------------------
Recorded(store) == {store.checkpoints[i] : i \in DOMAIN store.checkpoints}

\* However the file was cut, a launch believes in no stage that was not
\* carried out: the checkpoints come first, and a list is cut at its end.
RecordedWasDone == Recorded(mem) \subseteq done

\* As long as every save was written to its end, a running process has the
\* values of every stage that is recorded, by whichever launch.
ValuesOfRecorded ==
    ~torn => /\ Recorded(mem) \cap IntoInternals \subseteq mem.internal
             /\ Recorded(mem) \cap IntoParams \subseteq mem.params

\* The list that is on record: the one that is being written, else the one a
\* launch would find, which is none in a file cut before its first section.
OnRecord ==
    IF step = "write" THEN mem.checkpoints
    ELSE IF "checkpoints" \in has THEN data.checkpoints ELSE <<>>

Pipeline == INSTANCE ResumablePipeline WITH
    N <- TfStoreHardening,
    Early <- {},
    recorded <- Len(OnRecord)

\* With the save in its two steps, and cut anywhere, setup still implements the
\* resumable pipeline: a save that is cut is to it what --from-checkpoint is, a
\* fall back to an earlier stage, and never skips one.
RefinesPipeline == Pipeline!Spec

\* "saving intermediate states to a local file for checkpointing, allowing the
\* command to be rerun if necessary": repeated launches reach the last stage.
Completes == <>[](data.checkpoints # <<>> /\ Recorded(data) = Stage)

\* And they do unless a save was cut.
CompletesUnlessTorn == []~torn => Completes
=============================================================================
