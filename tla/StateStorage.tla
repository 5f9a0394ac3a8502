---------------------------- MODULE StateStorage ----------------------------
(***************************************************************************)
(* The storage of the remote Terraform state - an S3 bucket, a GCS bucket, *)
(* or a container in a storage account in a resource group of its own -    *)
(* from its creation to its end, for several platforms that share a cloud  *)
(* account. Each has its engineer, who runs setup and destroy for it on a  *)
(* machine of their own; the clouds differ in what each call does.         *)
(***************************************************************************)
EXTENDS Integers, FiniteSets

CONSTANTS
    Platform,
    Stem,           \* platforms whose name, followed by "-", starts the other names
    LongName,       \* platforms whose names share their first 20 letters
    None,
    MaxFaults,      \* bound: stops, calls that fail, wrong answers of S3
    MaxRewinds,     \* bound: restarts from an earlier checkpoint
    MaxDestroys     \* bound: calls of destroy

ASSUME ConstantsAssumption ==
    /\ Stem \subseteq Platform /\ LongName \subseteq Platform
    /\ {MaxFaults, MaxRewinds, MaxDestroys} \subseteq Nat
    /\ None \notin [by : Platform, n : Nat]

\* Only a fault, a restart or a destroy makes a platform create a further one.
MaxStorages == 1 + MaxFaults + MaxRewinds + MaxDestroys

\* A name is the platform's with random letters behind it.
Storage == [by : Platform, n : 1..MaxStorages]

Principal == {"engineer", "role"} \X Platform
User(p) == <<"engineer", p>>
Role(p) == <<"role", p>>

VARIABLES
    cloud,
    there,      \* storages that exist
    ready,      \* those versioned (AWS), with a container (Azure), with a policy (GCP)
    holds,      \* whose Terraform state is in a storage
    allows,     \* who has access, on Azure with a role rather than with the key
    at,         \* the place of a platform's setup
    new, made,  \* the storage this launch has created, how many were before
    name,       \* TF_BACKEND_STORAGE_NAME in the state file
    level,      \* checkpoints of the state file, see below
    knows,      \* platforms whose state file has the role of the automation
    wanted,     \* the engineer wants the platform, and launches setup until it is done
    missed,     \* an answer of S3 was not what it should be
    faults, rewinds, destroys

storage == <<there, ready, holds, allows>>
local == <<at, new, made, name, level, knows, wanted>>
bounds == <<faults, rewinds, destroys>>
vars == <<cloud, storage, local, missed, bounds>>

\* What has been recorded: nothing, one-time-setup, the sections that apply
\* Terraform and learn the role of the automation, tf-store-hardening.
Level == 0..3
Places == {"off", "find", "create", "prepare", "record", "apply", "protect", "harden"}

TypeOK ==
    /\ cloud \in {"AWS", "Azure", "GCP"}
    /\ ready \subseteq there /\ there \subseteq Storage
    /\ holds \in [Storage -> SUBSET Platform]
    /\ allows \in [Storage -> SUBSET Principal]
    /\ at \in [Platform -> Places]
    /\ {new, name} \subseteq [Platform -> Storage \cup {None}]
    /\ made \in [Platform -> 0..MaxStorages]
    /\ level \in [Platform -> Level] /\ knows \subseteq Platform
    /\ wanted \in [Platform -> BOOLEAN] /\ missed \in BOOLEAN
    /\ faults \in 0..MaxFaults /\ rewinds \in 0..MaxRewinds /\ destroys \in 0..MaxDestroys

Init ==
    /\ cloud \in {"AWS", "Azure", "GCP"}
    /\ there = {} /\ ready = {}
    /\ holds = [s \in Storage |-> {}] /\ allows = [s \in Storage |-> {}]
    /\ at = [p \in Platform |-> "off"]
    /\ new = [p \in Platform |-> None] /\ name = new
    /\ made = [p \in Platform |-> 0]
    /\ level = [p \in Platform |-> 0] /\ knows = {}
    /\ wanted = [p \in Platform |-> FALSE] /\ missed = FALSE
    /\ faults = 0 /\ rewinds = 0 /\ destroys = 0

Goto(p, place) == at' = [at EXCEPT ![p] = place]

\* An S3 bucket obeys its policy; the owner of the account gets into the others.
Reaches(p, s) == s \in there /\ (cloud = "Azure" \/ User(p) \in allows[s])

-----------------------------------------------------------------------------
(* setup, up to the checkpoint one-time-setup *)

Launch(p) ==
    /\ at[p] = "off"
    /\ wanted' = [wanted EXCEPT ![p] = TRUE]
    /\ new' = [new EXCEPT ![p] = None]
    /\ Goto(p, "find")
    /\ UNCHANGED <<cloud, storage, made, name, level, knows, missed, bounds>>

AfterFind(p) == CASE level[p] = 0 -> "create" [] level[p] = 1 -> "apply"
                  [] level[p] = 2 -> "protect" [] level[p] = 3 -> "off"

Found(p) == cloud # "AWS" \/ (name[p] # None /\ Reaches(p, name[p]))

KeepName(p) ==
    /\ at[p] = "find" /\ Found(p)
    /\ Goto(p, AfterFind(p))
    /\ UNCHANGED <<cloud, storage, new, made, name, level, knows, wanted, missed, bounds>>

\* Slip: every bucket of the account.
LikeNamedAny(p, s) == TRUE

\* startswith("<name>-"), which longer names start with too.
LikeNamed(p, s) == s.by = p \/ p \in Stem

\* The accessible ones, with most Terraform states first; none is needed.
Candidates(p) == {s \in there : LikeNamed(p, s) /\ Reaches(p, s)}
Best(p, s) == s \in Candidates(p) /\ (holds[s] # {} \/ \A t \in Candidates(p) : holds[t] = {})

\* Who the policy names: the engineer at work and the role, once it is known.
Allowed(p) == {User(p)} \cup IF p \in knows THEN {Role(p)} ELSE {}

\* The name found is saved, and its policy replaced.
Discover(p, s) ==
    /\ name' = [name EXCEPT ![p] = s]
    /\ allows' = [allows EXCEPT ![s] = Allowed(p)]
    /\ UNCHANGED <<there, ready, holds>>

FindOther(p) ==
    /\ at[p] = "find" /\ ~Found(p)
    /\ \/ \E s \in Storage : Best(p, s) /\ Discover(p, s)
       \/ Candidates(p) = {} /\ UNCHANGED <<storage, name>>
    /\ Goto(p, AfterFind(p))
    /\ UNCHANGED <<cloud, new, made, level, knows, wanted, missed, bounds>>

\* Any error of S3 counts as "no such bucket", or "no such object"; a policy
\* that cannot be replaced is warned of.
FindMisses(p) ==
    /\ at[p] = "find" /\ cloud = "AWS" /\ faults < MaxFaults
    /\ faults' = faults + 1 /\ missed' = TRUE
    /\ \/ UNCHANGED <<storage, name>>
       \/ \E s \in Candidates(p) : Discover(p, s) \/ (name' = [name EXCEPT ![p] = s] /\ UNCHANGED storage)
    /\ Goto(p, AfterFind(p))
    /\ UNCHANGED <<cloud, new, made, level, knows, wanted, rewinds, destroys>>

\* random_string_generator: a name never used before.
Fresh(p) == [by |-> p, n |-> made[p] + 1]

\* Azure makes a resource group and an account, or goes on with those it finds.
\* Without a policy the engineers of the account have access.
Create(p) ==
    /\ at[p] = "create" /\ made[p] < MaxStorages
    /\ there' = there \cup {Fresh(p)}
    /\ allows' = [allows EXCEPT ![Fresh(p)] = {User(q) : q \in Platform}]
    /\ new' = [new EXCEPT ![p] = Fresh(p)] /\ made' = [made EXCEPT ![p] = @ + 1]
    /\ Goto(p, "prepare")
    /\ UNCHANGED <<cloud, ready, holds, name, level, knows, wanted, missed, bounds>>

\* GCP logs the error, returns False, and nobody looks.
CreateFails(p) ==
    /\ at[p] = "create" /\ cloud = "GCP" /\ faults < MaxFaults /\ made[p] < MaxStorages
    /\ faults' = faults + 1
    /\ new' = [new EXCEPT ![p] = Fresh(p)] /\ made' = [made EXCEPT ![p] = @ + 1]
    /\ Goto(p, "prepare")
    /\ UNCHANGED <<cloud, storage, name, level, knows, wanted, missed, rewinds, destroys>>

\* Slip: the storage is taken for prepared although it is not there.
PrepareUnseen(p) ==
    /\ at[p] = "prepare"
    /\ ready' = ready \cup {new[p]}
    /\ Goto(p, "record")
    /\ UNCHANGED <<cloud, there, holds, allows, new, made, name, level, knows, wanted, missed, bounds>>

\* Versioning on AWS, the container on Azure, the bindings of the policy on GCP.
Prepare(p) ==
    /\ at[p] = "prepare" /\ new[p] \in there
    /\ ready' = ready \cup {new[p]}
    /\ allows' = IF cloud = "GCP" THEN [allows EXCEPT ![new[p]] = {User(p)}] ELSE allows
    /\ Goto(p, "record")
    /\ UNCHANGED <<cloud, there, holds, new, made, name, level, knows, wanted, missed, bounds>>

Raise(p) == Goto(p, "off") /\ UNCHANGED <<cloud, storage, new, made, name, level, knows, wanted, missed, bounds>>

PrepareFails(p) == at[p] = "prepare" /\ new[p] \notin there /\ Raise(p)

Record(p) ==
    /\ at[p] = "record"
    /\ name' = [name EXCEPT ![p] = new[p]] /\ level' = [level EXCEPT ![p] = 1]
    /\ Goto(p, "apply")
    /\ UNCHANGED <<cloud, storage, new, made, knows, wanted, missed, bounds>>

-----------------------------------------------------------------------------
(* setup, from there on *)

\* The first 20 letters of a container's name are those of its group and account.
Group(s) == {t \in Storage : t = s \/ {s.by, t.by} \subseteq LongName}

\* Where there is no state yet the role is made anew. Azure goes by its id: what
\* the one before it was assigned is not the new one's.
RoleIsNew(p) == [s \in Storage |-> IF s \in Group(name[p]) THEN allows[s] \ {Role(p)} ELSE allows[s]]

Writes(p) ==
    /\ Reaches(p, name[p])
    /\ holds' = [holds EXCEPT ![name[p]] = @ \cup {p}]
    /\ allows' = IF cloud = "Azure" /\ p \notin holds[name[p]] THEN RoleIsNew(p) ELSE allows
    /\ UNCHANGED <<there, ready>>

\* vcs-tf to core-services-tf: each writes its state, then sets its checkpoint.
Apply(p) ==
    /\ at[p] = "apply" /\ Writes(p)
    /\ level' = [level EXCEPT ![p] = 2] /\ knows' = knows \cup {p}
    /\ Goto(p, "protect")
    /\ UNCHANGED <<cloud, new, made, name, wanted, missed, bounds>>

\* Slip: the policy names the engineer only.
ProtectForUser(p) ==
    /\ at[p] = "protect" /\ Reaches(p, name[p])
    /\ allows' = [allows EXCEPT ![name[p]] = {User(p)}]
    /\ Goto(p, "harden")
    /\ UNCHANGED <<cloud, there, ready, holds, new, made, name, level, knows, wanted, missed, bounds>>

\* The account knows the role already: "RoleAssignmentExists".
Assigned(p) == cloud = "Azure" /\ \E s \in Group(name[p]) \cap there : Role(p) \in allows[s]

\* Azure assigns a role, under a new id, in the account; the others replace a policy.
Assigning(p) == [s \in Storage |-> IF s \in Group(name[p]) THEN allows[s] \cup {Role(p)} ELSE allows[s]]
Replacing(p) == [allows EXCEPT ![name[p]] = Allowed(p)]

Protect(p) ==
    /\ at[p] = "protect" /\ Reaches(p, name[p]) /\ ~Assigned(p)
    /\ allows' = IF cloud = "Azure" THEN Assigning(p) ELSE Replacing(p)
    /\ Goto(p, "harden")
    /\ UNCHANGED <<cloud, there, ready, holds, new, made, name, level, knows, wanted, missed, bounds>>

\* The storage is out of reach, or Azure does not assign the role again.
BackendFails(p) ==
    /\ \/ at[p] \in {"apply", "protect"} /\ ~Reaches(p, name[p])
       \/ at[p] = "protect" /\ Assigned(p)
    /\ Raise(p)

Harden(p) ==
    /\ at[p] = "harden"
    /\ level' = [level EXCEPT ![p] = 3]
    /\ Goto(p, "off")
    /\ UNCHANGED <<cloud, storage, new, made, name, knows, wanted, missed, bounds>>

\* The process stops or a call fails, before its effect or after it.
Fail(p) ==
    /\ at[p] # "off" /\ faults < MaxFaults
    /\ faults' = faults + 1
    /\ Goto(p, "off")
    /\ UNCHANGED storage \/ (at[p] = "apply" /\ Writes(p))
    /\ UNCHANGED <<cloud, new, made, name, level, knows, wanted, missed, rewinds, destroys>>

-----------------------------------------------------------------------------
(* The engineers *)

\* setup --from-checkpoint.
Rewind(p, l) ==
    /\ at[p] = "off" /\ rewinds < MaxRewinds /\ l < level[p]
    /\ rewinds' = rewinds + 1
    /\ level' = [level EXCEPT ![p] = l]
    /\ wanted' = [wanted EXCEPT ![p] = TRUE]
    /\ new' = [new EXCEPT ![p] = None]
    /\ Goto(p, "find")
    /\ UNCHANGED <<cloud, storage, made, name, knows, missed, faults, destroys>>

\* AWS deletes the objects first. Azure deletes the group with all that is in
\* it. GCP does not delete a bucket with objects.
EmptiedBucket(p) == {s \in {name[p]} : Reaches(p, s)}
ResourceGroup(p) == Group(name[p])
EmptyBucket(p) == {s \in {name[p]} : Reaches(p, s) /\ holds[s] = {}}

Deleted(p) ==
    CASE cloud = "AWS" -> EmptiedBucket(p)
      [] cloud = "Azure" -> ResourceGroup(p)
      [] cloud = "GCP" -> EmptyBucket(p)

\* Or the call fails. With or without the storage the local folder is removed,
\* and a message names the one that stays. (The rest of the command: Destroy.)
DestroyPlatform(p) ==
    /\ at[p] = "off" /\ level[p] > 0 /\ destroys < MaxDestroys
    /\ destroys' = destroys + 1
    /\ \E gone \in {{}, Deleted(p)} :
         /\ there' = there \ gone /\ ready' = ready \ gone
         /\ holds' = [s \in Storage |-> IF s \in gone THEN {} ELSE holds[s]]
         /\ allows' = [s \in Storage |-> IF s \in gone THEN {} ELSE allows[s]]
    /\ name' = [name EXCEPT ![p] = None] /\ level' = [level EXCEPT ![p] = 0]
    /\ knows' = knows \ {p} /\ wanted' = [wanted EXCEPT ![p] = FALSE]
    /\ UNCHANGED <<cloud, at, new, made, missed, faults, rewinds>>

Proceed(p) ==
    \/ KeepName(p) \/ FindOther(p) \/ Create(p) \/ Prepare(p) \/ PrepareFails(p) \/ Record(p)
    \/ Apply(p) \/ Protect(p) \/ BackendFails(p) \/ Harden(p)

Engineer(p) == Launch(p) \/ DestroyPlatform(p) \/ \E l \in Level : Rewind(p, l)

Next == \E p \in Platform :
    Engineer(p) \/ Proceed(p) \/ FindMisses(p) \/ CreateFails(p) \/ Fail(p)

Spec == Init /\ [][Next]_vars

\* A running command goes on, and setup is launched again until it is done.
FairSpec ==
    /\ Spec
    /\ \A p \in Platform :
         WF_vars(Proceed(p)) /\ WF_vars(wanted[p] /\ level[p] < 3 /\ Launch(p))

-----------------------------------------------------------------------------
(* Properties *)

\* What one-time-setup recorded is there, prepared and open to the engineer;
\* after the applies it holds the platform's Terraform state, and after
\* tf-store-hardening the automation gets in: whatever stopped or failed on
\* either machine, as long as S3 did not deny an existing bucket.
Usable(p) ==
    level[p] >= 1 =>
        /\ name[p] \in ready /\ Reaches(p, name[p])
        /\ level[p] >= 2 => p \in holds[name[p]]
        /\ level[p] = 3 => \E s \in Group(name[p]) : Role(p) \in allows[s]
RecordedUsable == ~missed => \A p \in Platform : Usable(p)

\* The same, whatever S3 answers.
AlwaysUsable == \A p \in Platform : Usable(p)

\* Setup and destroy of one platform change no storage of another: not what is
\* in it, and not who gets in.
Works(p) == at'[p] # at[p] \/ level'[p] # level[p]
Undisturbed == [][\A s \in Storage :
    (s \in there) # (s \in there)' \/ holds'[s] # holds[s] \/ allows'[s] # allows[s] => Works(s.by)]_vars

\* "Discover the active Terraform remote state bucket for this platform": a name
\* found is one that the same platform created.
FindsOwn == [][\A p \in Platform : name'[p] \notin {name[p], None} => name'[p].by = p]_vars

\* Repeated launches get the state storage hardened, unless it is destroyed, or
\* on Azure the role is assigned but the checkpoint is not set.
Hardened == \A p \in Platform :
    wanted[p] ~> ~wanted[p] \/ level[p] = 3 \/ (level[p] = 2 /\ Assigned(p))

\* Without that exception.
AlwaysHardened == \A p \in Platform : wanted[p] ~> ~wanted[p] \/ level[p] = 3

=============================================================================
