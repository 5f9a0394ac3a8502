----------------------------- MODULE ArgoInstall -----------------------------
(***************************************************************************)
(* The stage k8s-delivery of setup, against the cluster it talks to: a job *)
(* applies the manifests of Argo CD under a role made for it; the command  *)
(* waits for the job, takes the role away, waits for the components and    *)
(* creates the first application. Every wait ends at its deadline as if    *)
(* what it waits for had happened. The command may stop anywhere; the      *)
(* cluster goes on, and the next launch begins the stage anew.             *)
(***************************************************************************)
EXTENDS Naturals, FiniteSetsExt

CONSTANTS
    Parts,      \* of the manifests, applied in this order
    Needed,     \* the part that has the components the command waits for
    MaxFaults,  \* bound: stops, failing calls and pods, deadlines that pass
    MaxRewinds  \* bound: restarts from k8s-delivery

ASSUME InstallConstants ==
    /\ Parts \in Nat \ {0} /\ Needed \in 1..Parts
    /\ {MaxFaults, MaxRewinds} \subseteq Nat

Component == {"argocd-server", "argocd-repo-server"}
Rbac == {"account", "role", "binding"}

\* A job makes a second pod for one that failed (backoff_limit = 1).
BackoffLimit == 1

VARIABLES
    place,          \* place in the stage
    recorded,       \* k8s-delivery is in the list of checkpoints
    rbac,           \* the service account argocd-bootstrap, its role and binding
    job,            \* the job kustomize-apply-argocd
    pod, failures,  \* its pod, a set of at most one, and those that failed
    orphans,        \* pods of deleted jobs; a pod is the number of parts it applied
    applied,        \* parts in the cluster
    ready,          \* components that are
    app,            \* the application "registry" exists
    faults, rewinds,
    unnoticed,      \* history: this launch went on without the job's success
    told            \* it said that the clean-up is left to the user

cli == <<place, recorded>>
cluster == <<job, pod, failures, orphans, applied, ready>>
said == <<unnoticed, told>>
installVars == <<cli, rbac, cluster, app, faults, rewinds, said>>

InstallTypeOK ==
    /\ place \in {"off", "rbac", "job", "recreate", "wait", "cleanup", "get", "ready", "token",
                  "app", "record"}
    /\ recorded \in BOOLEAN
    /\ rbac \subseteq Rbac
    /\ job \in {"none", "active", "succeeded", "failed", "deleting"}
    /\ pod \subseteq 0..Parts /\ (pod # {} => job = "active") /\ failures \in 0..BackoffLimit + 1
    /\ orphans \subseteq 0..Parts
    /\ applied \in 0..Parts /\ \A n \in pod \cup orphans : n <= applied
    /\ ready \subseteq Component /\ (ready # {} => applied >= Needed)
    /\ app \in BOOLEAN
    /\ faults \in 0..MaxFaults /\ rewinds \in 0..MaxRewinds
    /\ {unnoticed, told} \subseteq BOOLEAN

InstallInit ==
    /\ place = "off" /\ recorded = FALSE
    /\ rbac = {} /\ job = "none" /\ pod = {} /\ failures = 0 /\ orphans = {}
    /\ applied = 0 /\ ready = {} /\ app = FALSE
    /\ faults = 0 /\ rewinds = 0 /\ unnoticed = FALSE /\ told = FALSE

Fault == faults < MaxFaults /\ faults' = faults + 1

-----------------------------------------------------------------------------
(* The cluster *)

Authorised == rbac = Rbac

\* No pod is made without its service account.
StartPod ==
    /\ job = "active" /\ pod = {} /\ "account" \in rbac
    /\ pod' = {0}
    /\ UNCHANGED <<cli, rbac, job, failures, orphans, applied, ready, app, faults, rewinds, said>>

\* kubectl apply, of parts that may be there already.
PodApplies ==
    /\ Authorised
    /\ \E n \in pod \ {Parts} : pod' = {n + 1} /\ applied' = Max({applied, n + 1})
    /\ UNCHANGED <<cli, rbac, job, failures, orphans, ready, app, faults, rewinds, said>>

PodSucceeds ==
    /\ Parts \in pod
    /\ pod' = {} /\ job' = "succeeded"
    /\ UNCHANGED <<cli, rbac, failures, orphans, applied, ready, app, faults, rewinds, said>>

\* For good once its role is gone, else for any reason.
PodFails ==
    /\ pod # {} /\ Parts \notin pod
    /\ IF Authorised THEN Fault ELSE UNCHANGED faults
    /\ pod' = {} /\ failures' = failures + 1
    /\ job' = IF failures < BackoffLimit THEN "active" ELSE "failed"
    /\ UNCHANGED <<cli, rbac, orphans, applied, ready, app, rewinds, said>>

OrphanApplies ==
    /\ Authorised
    /\ \E n \in orphans \ {Parts} :
         orphans' = (orphans \ {n}) \cup {n + 1} /\ applied' = Max({applied, n + 1})
    /\ UNCHANGED <<cli, rbac, job, pod, failures, ready, app, faults, rewinds, said>>

OrphanEnds ==
    /\ \E n \in orphans : orphans' = orphans \ {n}
    /\ UNCHANGED <<cli, rbac, job, pod, failures, applied, ready, app, faults, rewinds, said>>

JobGone ==
    /\ job = "deleting"
    /\ job' = "none"
    /\ UNCHANGED <<cli, rbac, pod, failures, orphans, applied, ready, app, faults, rewinds, said>>

BecomesReady(c) ==
    /\ applied >= Needed /\ c \notin ready
    /\ ready' = ready \cup {c}
    /\ UNCHANGED <<cli, rbac, job, pod, failures, orphans, applied, app, faults, rewinds, said>>

-----------------------------------------------------------------------------
(* The command *)

Begin == place = "off" /\ place' = "rbac" /\ unnoticed' = FALSE /\ told' = FALSE

Launch ==
    /\ ~recorded /\ Begin
    /\ UNCHANGED <<recorded, rbac, cluster, app, faults, rewinds>>

LaunchFrom ==
    /\ recorded /\ Begin
    /\ recorded' = FALSE
    /\ rewinds < MaxRewinds /\ rewinds' = rewinds + 1
    /\ UNCHANGED <<rbac, cluster, app, faults>>

Goto(p) == place' = p /\ UNCHANGED recorded

\* Account, role and binding, in this order, each created if it is not found.
CreateRbac(x) ==
    /\ place = "rbac"
    /\ \/ x = "account"
       \/ x = "role" /\ "account" \in rbac
       \/ x = "binding" /\ {"account", "role"} \subseteq rbac
    /\ x \notin rbac
    /\ rbac' = rbac \cup {x}
    /\ UNCHANGED <<cli, cluster, app, faults, rewinds, said>>

RbacExists ==
    /\ place = "rbac" /\ rbac = Rbac
    /\ Goto("job")
    /\ UNCHANGED <<rbac, cluster, app, faults, rewinds, said>>

\* Slip: a job that exists is the one that was to be created.
KeepJob ==
    /\ place = "job"
    /\ Goto(IF job = "none" THEN "recreate" ELSE "wait")
    /\ UNCHANGED <<rbac, cluster, app, faults, rewinds, said>>

\* A job that exists is deleted; its pod is not (orphaned, the default of
\* batch/v1).
DeleteJob ==
    /\ place = "job"
    /\ IF job = "none" THEN UNCHANGED cluster
       ELSE /\ job' = "deleting" /\ pod' = {} /\ orphans' = orphans \cup pod
            /\ UNCHANGED <<failures, applied, ready>>
    /\ Goto("recreate")
    /\ UNCHANGED <<rbac, app, faults, rewinds, said>>

CreateJob ==
    /\ place = "recreate" /\ job = "none"
    /\ job' = "active" /\ failures' = 0
    /\ Goto("wait")
    /\ UNCHANGED <<rbac, pod, orphans, applied, ready, app, faults, rewinds, said>>

\* Slip: the job is started and not waited for.
DoNotWait ==
    /\ place = "wait"
    /\ Goto("cleanup")
    /\ UNCHANGED <<rbac, cluster, app, faults, rewinds, said>>

\* Only success ends the wait before its deadline. A job that failed, and one
\* that is slow, end it at the deadline, and the command goes on.
WaitForJob ==
    /\ place = "wait"
    /\ \/ job = "succeeded" /\ UNCHANGED <<unnoticed, faults>>
       \/ job = "failed" /\ unnoticed' = TRUE /\ UNCHANGED faults
       \/ job = "active" /\ unnoticed' = TRUE /\ Fault
    /\ Goto("cleanup")
    /\ UNCHANGED <<rbac, cluster, app, rewinds, told>>

\* Account, role, binding, in this order.
RemoveRbac(x) ==
    /\ place = "cleanup"
    /\ \/ x = "account"
       \/ x = "role" /\ "account" \notin rbac
       \/ x = "binding" /\ rbac = {"binding"}
    /\ x \in rbac
    /\ rbac' = rbac \ {x}
    /\ UNCHANGED <<cli, cluster, app, faults, rewinds, said>>

\* Slip: the three removals are independent.
LeaveRbac ==
    /\ place = "cleanup"
    /\ \/ rbac = {} /\ UNCHANGED faults
       \/ rbac # {} /\ Fault
    /\ Goto("get")
    /\ UNCHANGED <<rbac, cluster, app, rewinds, said>>

\* The first removal that fails ends the clean-up, with a message.
RbacRemoved ==
    /\ place = "cleanup"
    /\ \/ rbac = {} /\ UNCHANGED <<told, faults>>
       \/ rbac # {} /\ told' = TRUE /\ Fault
    /\ Goto("get")
    /\ UNCHANGED <<rbac, cluster, app, rewinds, unnoticed>>

\* Read, with a bounded number of retries.
GetComponents ==
    /\ place = "get" /\ applied >= Needed
    /\ Goto("ready")
    /\ UNCHANGED <<rbac, cluster, app, faults, rewinds, said>>

\* wait_for_stateful_set, wait_for_deployment; again a deadline is no error.
WaitForComponents ==
    /\ place = "ready"
    /\ IF ready = Component THEN UNCHANGED faults ELSE Fault
    /\ Goto("token")
    /\ UNCHANGED <<rbac, cluster, app, rewinds, said>>

\* The password, and a token from a pod of argocd-server that runs, ready or
\* not: an answer without a token is taken too.
GetToken ==
    /\ place = "token"
    /\ Goto("app")
    /\ UNCHANGED <<rbac, cluster, app, faults, rewinds, said>>

\* The project "core" and the application, unless they exist.
CreateApp ==
    /\ place = "app"
    /\ app' = TRUE
    /\ Goto("record")
    /\ UNCHANGED <<rbac, cluster, faults, rewinds, said>>

Record ==
    /\ place = "record"
    /\ place' = "off" /\ recorded' = TRUE
    /\ UNCHANGED <<rbac, cluster, app, faults, rewinds, said>>

\* AlreadyExists: 30 seconds were not enough for the deletion. Retries that are
\* used up. No pod that runs, or one that runs and does not answer yet.
Raise ==
    /\ \/ place = "recreate" /\ job = "deleting" /\ Fault
       \/ place = "get" /\ applied < Needed /\ UNCHANGED faults
       \/ place = "token" /\ "argocd-server" \notin ready /\ UNCHANGED faults
    /\ Goto("off")
    /\ UNCHANGED <<rbac, cluster, app, rewinds, said>>

Die ==
    /\ place # "off" /\ Fault
    /\ Goto("off")
    /\ UNCHANGED <<rbac, cluster, app, rewinds, said>>

Proceed ==
    \/ \E x \in Rbac : CreateRbac(x) \/ RemoveRbac(x)
    \/ RbacExists
    \/ DeleteJob \/ CreateJob \/ WaitForJob
    \/ RbacRemoved
    \/ GetComponents \/ WaitForComponents \/ GetToken
    \/ CreateApp \/ Record
    \/ Raise

JobRuns == StartPod \/ PodApplies \/ PodSucceeds \/ PodFails
OrphansRun == OrphanApplies \/ OrphanEnds
ComponentsStart == \E c \in Component : BecomesReady(c)

InstallNext ==
    \/ Proceed \/ Die
    \/ Launch \/ LaunchFrom
    \/ JobRuns \/ OrphansRun \/ JobGone \/ ComponentsStart

InstallSpec == InstallInit /\ [][InstallNext]_installVars

\* The process and the cluster go on, and the user launches setup again until
\* it gets past the stage.
InstallFairSpec ==
    /\ InstallSpec
    /\ WF_installVars(Proceed) /\ WF_installVars(Launch)
    /\ WF_installVars(JobRuns) /\ WF_installVars(JobGone) /\ WF_installVars(ComponentsStart)

-----------------------------------------------------------------------------
\* The stage is recorded with all of Argo CD in the cluster, or its job did not
\* succeed before the deadline. Jobs and orphaned pods of earlier launches, and
\* components they left, are not taken for this launch's.
InstalledUnlessUnnoticed == recorded => applied = Parts \/ unnoticed

\* The role, which may do anything, is gone when the stage is recorded, or the
\* user was told to remove it.
RoleRemoved == recorded => rbac = {} \/ told

\* Launched again and again, setup gets past the stage.
Completes == []<>recorded

\* "wait for additional ArgoCD Pods to transition to Running [...] this can
\* cause future steps to break since the registry app may never apply".
AppsAfterReady == [][app' /\ ~app => ready = Component]_installVars
=============================================================================
