--------------------------- MODULE Prerequisites ----------------------------
(***************************************************************************)
(* The first two sections of setup. Preflight: the credentials, and the    *)
(* ownership of the domain, shown by a TXT record that resolvers see.      *)
(* Dependencies: Terraform and kubectl, downloaded and unpacked. Both meet *)
(* what an earlier launch has left, and a world that is slow to follow.    *)
(***************************************************************************)
EXTENDS Naturals

CONSTANTS
    MaxLooks,       \* RETRY_COUNT: looks at the record in a launch (100)
    MaxAttempts,    \* max_retries: queries that fail in one look (5)
    MaxFaults,      \* bound: stops, calls that fail, damaged downloads
    MaxRewinds      \* bound: restarts from "dependencies"

ASSUME ConstantsAssumption ==
    /\ MaxLooks \in Nat \ {0} /\ MaxAttempts \in Nat \ {0}
    /\ MaxFaults \in Nat /\ MaxRewinds \in Nat

VARIABLES
    cloud,      \* the cloud, whose DNS service is the registrar
    session,    \* the credentials are those of an assumed role (AWS)
    permitted,  \* the credentials have the permissions that setup needs
    sufficient, \* evaluate_permissions says so
    zone,       \* the domain's DNS zone that is found first: its own, one like it, none
    delegated,  \* the domain's NS records are those of its own zone
    wildcard,   \* names below the domain exist, so that a missing record is no NXDOMAIN
    record,     \* the TXT record cgdevx-liveness
    answer,     \* what the public resolvers say of it
    tf, kubectl,    \* the files under ~/.cgdevx/tools
    runs,       \* those of them that are marked executable
    tmp,        \* the download under tools/.tmp
    at,         \* the place in setup
    looks, attempts,
    level,      \* checkpoints: 1 with preflight, 2 with dependencies
    ready,      \* a launch has run both tools
    faults, rewinds

world == <<cloud, session, permitted, sufficient, zone, delegated, wildcard>>
dns == <<record, answer>>
tools == <<tf, kubectl, runs, tmp>>
counts == <<looks, attempts>>
bounds == <<faults, rewinds>>
vars == <<world, dns, tools, at, counts, level, ready, bounds>>

Places == {"off", "permissions", "zone", "txt", "wait", "terraform", "fetch terraform", "unpack", "unpacking",
           "mark terraform", "kubectl", "fetch kubectl", "move", "mark kubectl", "recording", "run"}

TypeOK ==
    /\ cloud \in {"AWS", "Azure", "GCP"}
    /\ {session, permitted, sufficient, delegated, wildcard, ready} \subseteq BOOLEAN
    /\ zone \in {"own", "like", "shared", "none"}
    /\ record \in {"none", "other", "value", "unweighted"}
    /\ answer \in {"none", "empty", "other", "value"}
    /\ tf \in {"none", "torn", "damaged", "whole"} /\ kubectl \in {"none", "damaged", "whole"}
    /\ runs \subseteq {"terraform", "kubectl"} /\ tmp \in {"damaged", "whole"}
    /\ at \in Places
    /\ looks \in 0..MaxLooks /\ attempts \in 0..MaxAttempts
    /\ level \in 0..2
    /\ faults \in 0..MaxFaults /\ rewinds \in 0..MaxRewinds

\* AWS is asked to simulate the actions, but not about assumed roles.
SimulationSays(p) == p \/ session

\* On Azure the actions and the exceptions of everybody's roles are put together,
\* and a "*" counts at the end of a name only: neither answer is reliable.
RolesMaySay == BOOLEAN

\* GCP names the permissions it grants.
GrantsSay(p) == p

Judgements(p) == CASE cloud = "AWS" -> {SimulationSays(p)}
                   [] cloud = "Azure" -> RolesMaySay
                   [] cloud = "GCP" -> {GrantsSay(p)}

\* A zone of the domain's very name, in some resource group, or of the account.
ExactZones == {"own", "none"}

\* The first one that has the name in its own, as that of "dev.<domain>" has: with
\* other name servers, or with those of the domain's own zone.
ZonesByPart == {"own", "like", "shared", "none"}

\* Somebody's record, on AWS one that is not weighted, as setup's is.
Records == {"none", "other", "value"} \cup (IF cloud = "AWS" THEN {"unweighted"} ELSE {})

Answer(r) == CASE r = "none" -> (IF wildcard THEN "empty" ELSE "none")
               [] r = "unweighted" -> "other"
               [] r \in {"other", "value"} -> r

Init ==
    /\ cloud \in {"AWS", "Azure", "GCP"}
    /\ session \in BOOLEAN /\ (session => cloud = "AWS")
    /\ permitted \in BOOLEAN /\ sufficient \in Judgements(permitted)
    /\ delegated \in BOOLEAN /\ wildcard \in BOOLEAN
    /\ zone \in IF cloud = "GCP" THEN ZonesByPart ELSE ExactZones
    /\ record \in Records /\ answer = Answer(record)
    /\ tf = "none" /\ kubectl = "none" /\ runs = {} /\ tmp = "damaged"
    /\ at = "off" /\ looks = 0 /\ attempts = 0
    /\ level = 0 /\ ready = FALSE
    /\ faults = 0 /\ rewinds = 0

Goto(from, to) == at = from /\ at' = to
Raise == at' = "off" /\ UNCHANGED <<world, dns, tools, counts, level, ready, bounds>>

\* The caches of the resolvers run out.
Refresh ==
    /\ answer' = Answer(record)
    /\ UNCHANGED <<world, record, tools, at, counts, level, ready, bounds>>

\* Slip: what an earlier launch counted carries over to the next launch.
LaunchOn ==
    /\ at = "off"
    /\ at' = CASE level = 0 -> "permissions" [] level = 1 -> "terraform" [] level = 2 -> "run"
    /\ UNCHANGED <<world, dns, tools, counts, level, ready, bounds>>

Launch ==
    /\ at = "off"
    /\ at' = CASE level = 0 -> "permissions" [] level = 1 -> "terraform" [] level = 2 -> "run"
    /\ looks' = 0 /\ attempts' = 0
    /\ UNCHANGED <<world, dns, tools, level, ready, bounds>>

\* setup --from-checkpoint dependencies.
LaunchFrom ==
    /\ at = "off" /\ level = 2 /\ rewinds < MaxRewinds
    /\ rewinds' = rewinds + 1
    /\ level' = 1 /\ at' = "terraform"
    /\ UNCHANGED <<world, dns, tools, counts, ready, faults>>

-----------------------------------------------------------------------------
(* Preflight *)

CheckPermissions ==
    /\ Goto("permissions", "zone") /\ sufficient
    /\ UNCHANGED <<world, dns, tools, counts, level, ready, bounds>>

LacksPermissions == at = "permissions" /\ ~sufficient /\ Raise

\* Slip: a domain without NS records of its own is taken for verified.
AnyNameServers == zone # "none"

\* Every name server of the domain is one of the zone.
NameServersAreOurs == zone \in {"own", "shared"} /\ delegated

CheckZone ==
    /\ Goto("zone", "txt") /\ NameServersAreOurs
    /\ UNCHANGED <<world, dns, tools, counts, level, ready, bounds>>

\* "Domain not found", or "Could not verify domain ownership".
NotOwned == at = "zone" /\ ~NameServersAreOurs /\ Raise

\* Slip: CREATE instead of UPSERT, and the error ignored as on GCP.
CreatedOnly == IF record = "none" THEN "value" ELSE record

\* AWS looks for a name without the last dot, finds none, and always upserts.
Upserted == "value"

\* Azure gets the record first, and leaves one that is there.
Kept(r) == IF r = "none" THEN "value" ELSE r

\* GCP refuses to add one that is there, 409, and that is ignored.
Added(r) == IF r = "none" THEN "value" ELSE r

\* Beside a record that is not weighted, or in the zone of another name.
RecordRefused == record = "unweighted" \/ zone # "own"

RecordRaises == at = "txt" /\ RecordRefused /\ Raise

SetTxtRecord ==
    /\ Goto("txt", "wait") /\ ~RecordRefused
    /\ record' = CASE cloud = "AWS" -> Upserted [] cloud = "Azure" -> Kept(record) [] cloud = "GCP" -> Added(record)
    /\ UNCHANGED <<world, answer, tools, counts, level, ready, bounds>>

\* AWS: what is answered is a subset of what is expected, as nothing is too.
SubsetOfExpected == answer \in {"value", "empty"}

\* Azure and GCP: one of the answers has the value.
HasExpected == answer = "value"

Propagated == IF cloud = "AWS" THEN SubsetOfExpected ELSE HasExpected

SeeRecord ==
    /\ Goto("wait", "terraform") /\ looks < MaxLooks /\ Propagated
    /\ level' = 1
    /\ UNCHANGED <<world, dns, tools, counts, ready, bounds>>

LookAgain ==
    /\ at = "wait" /\ looks < MaxLooks /\ ~Propagated /\ answer # "none"
    /\ looks' = looks + 1 /\ attempts' = 0
    /\ UNCHANGED <<world, dns, tools, at, level, ready, bounds>>

\* NXDOMAIN is an error: the look is repeated after 30, 60, 120 ... seconds.
AskAgain ==
    /\ at = "wait" /\ looks < MaxLooks /\ answer = "none" /\ attempts < MaxAttempts
    /\ attempts' = attempts + 1
    /\ UNCHANGED <<world, dns, tools, at, looks, level, ready, bounds>>

\* "Max retries reached", or "Could not verify domain ownership".
NotPropagated ==
    /\ at = "wait" /\ (looks = MaxLooks \/ (answer = "none" /\ attempts = MaxAttempts))
    /\ Raise

-----------------------------------------------------------------------------
(* Dependencies *)

Executable(tool, file) == file = "whole" /\ tool \in runs

\* check_tf runs a Terraform that is there. What it says, a dictionary, equals
\* no version, so it is installed again.
CheckTf ==
    /\ Goto("terraform", "fetch terraform")
    /\ tf = "none" \/ Executable("terraform", tf)
    /\ UNCHANGED <<world, dns, tools, counts, level, ready, bounds>>

CheckTfRaises == at = "terraform" /\ tf # "none" /\ ~Executable("terraform", tf) /\ Raise

\* Slip: the checksum is not compared.
GenuineUnchecked == TRUE

Genuine == tmp = "whole"

Download(from, to) ==
    /\ Goto(from, to)
    /\ \/ tmp' = "whole" /\ UNCHANGED faults
       \/ tmp' = "damaged" /\ faults < MaxFaults /\ faults' = faults + 1
    /\ UNCHANGED <<world, dns, tf, kubectl, runs, counts, level, ready, rewinds>>

BadChecksum == at \in {"unpack", "move"} /\ ~Genuine /\ Raise

\* An old file keeps its mode, a new one is not executable.
UnzipTf ==
    /\ Goto("unpack", "unpacking") /\ Genuine
    /\ tf' = "torn"
    /\ UNCHANGED <<world, dns, kubectl, runs, tmp, counts, level, ready, bounds>>

UnzippedTf ==
    /\ Goto("unpacking", "mark terraform")
    /\ tf' = tmp
    /\ UNCHANGED <<world, dns, kubectl, runs, tmp, counts, level, ready, bounds>>

ChangePermissions(from, to, tool) ==
    /\ Goto(from, to)
    /\ runs' = runs \cup {tool}
    /\ UNCHANGED <<world, dns, tf, kubectl, tmp, counts, level, ready, bounds>>

\* A kubectl that exists is good enough.
CheckKubectl ==
    /\ at = "kubectl"
    /\ at' = IF kubectl = "none" THEN "fetch kubectl" ELSE "recording"
    /\ UNCHANGED <<world, dns, tools, counts, level, ready, bounds>>

MoveKubectl ==
    /\ Goto("move", "mark kubectl") /\ Genuine
    /\ kubectl' = tmp
    /\ UNCHANGED <<world, dns, tf, runs, tmp, counts, level, ready, bounds>>

Record ==
    /\ Goto("recording", "run")
    /\ level' = 2
    /\ UNCHANGED <<world, dns, tools, counts, ready, bounds>>

\* The rest of setup: every section runs Terraform, and kubectl initialises Vault.
RunTools ==
    /\ Goto("run", "off")
    /\ Executable("terraform", tf) /\ Executable("kubectl", kubectl)
    /\ ready' = TRUE
    /\ UNCHANGED <<world, dns, tools, counts, level, bounds>>

ToolsFail == at = "run" /\ ~(Executable("terraform", tf) /\ Executable("kubectl", kubectl)) /\ Raise

-----------------------------------------------------------------------------
(* The process stops, a service does not answer. *)
Fail ==
    /\ at # "off" /\ faults < MaxFaults
    /\ faults' = faults + 1 /\ at' = "off"
    /\ UNCHANGED <<world, dns, tools, counts, level, ready, rewinds>>

Proceed ==
    \/ CheckPermissions \/ LacksPermissions \/ CheckZone \/ NotOwned
    \/ RecordRaises \/ SetTxtRecord
    \/ SeeRecord \/ LookAgain \/ AskAgain \/ NotPropagated
    \/ CheckTf \/ CheckTfRaises \/ BadChecksum \/ UnzipTf \/ UnzippedTf
    \/ Download("fetch terraform", "unpack") \/ Download("fetch kubectl", "move")
    \/ ChangePermissions("mark terraform", "kubectl", "terraform")
    \/ ChangePermissions("mark kubectl", "recording", "kubectl")
    \/ CheckKubectl \/ MoveKubectl \/ Record \/ RunTools \/ ToolsFail

Next == Refresh \/ Launch \/ LaunchFrom \/ Proceed \/ Fail

Spec == Init /\ [][Next]_vars

\* A launch goes on, one that raised is repeated, caches run out.
FairSpec == Spec /\ WF_vars(Proceed) /\ WF_vars(~ready /\ Launch) /\ WF_vars(Refresh)

-----------------------------------------------------------------------------
(* Properties *)

\* The checkpoint preflight means what it says: the domain is delegated to the
\* zone found, its own, whose record has the value, and the permissions are there
\* where the check is exact. On AWS too, where an empty answer counts as seen.
PreflightVerified == level >= 1 =>
    /\ zone = "own" /\ delegated /\ record = "value"
    /\ permitted \/ session \/ cloud = "Azure"

\* With the checkpoint dependencies both tools are complete and as published,
\* and Terraform runs: whatever earlier launches left half done.
ToolsComplete == level = 2 => Executable("terraform", tf) /\ kubectl = "whole"

\* Nothing that setup or its user could change by launching again.
Refused ==
    \/ ~sufficient \/ zone # "own" \/ ~delegated
    \/ cloud # "AWS" /\ record = "other"
    \/ record = "unweighted"

\* Stopped between the unpacking, or the moving, of a tool and its mode.
Unmarked ==
    \/ tf # "none" /\ ~Executable("terraform", tf)
    \/ kubectl # "none" /\ "kubectl" \notin runs

\* Where a launch raises, as every later one will: the caches of the resolvers are
\* up to date, and no call fails.
Obstructed ==
    \/ at = "permissions" /\ ~sufficient
    \/ at = "zone" /\ ~NameServersAreOurs
    \/ at = "txt" /\ RecordRefused
    \/ at = "wait" /\ answer = Answer(record) /\ ~Propagated
    \/ at = "terraform" /\ tf # "none" /\ ~Executable("terraform", tf)
    \/ at = "run" /\ ~(Executable("terraform", tf) /\ Executable("kubectl", kubectl))

\* No launch is stopped by the TXT record or the download of an earlier one: only
\* by the world, and by a tool that a stop left without its mode.
OnlyRefusalsObstruct == Obstructed => Refused \/ Unmarked

\* Repeated launches get through both sections, unless the world refuses, or one
\* has stopped while a tool was there but not yet executable.
Prepared == at # "off" ~> ready \/ Refused \/ Unmarked

\* "It should resume from the step when it failed previously."
Resumes == at # "off" ~> ready \/ Refused

=============================================================================
