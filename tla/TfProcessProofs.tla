-------------------------- MODULE TfProcessProofs --------------------------
(***************************************************************************)
(* For every size of the pipes and any amount of output: a command's       *)
(* answer is whole, and it cannot stop half way unless its errors overflow *)
(* stderr while stdout is empty.  After that, the job that installs        *)
(* Argo CD (module ArgoInstall).                                           *)
(***************************************************************************)
EXTENDS TfProcess, ArgoInstall, TLAPS

\* saved_output is empty before a tracked command: no caller gives two.
SavedOnce ==
    /\ command \in {"init", "version"} => saved = 0
    /\ command \in Tracked /\ at = "ready" => saved = 0
    /\ at \in {"plan", "monitor"} => command \in Tracked /\ stdout = saved
    /\ at = "list" => command \notin Tracked
    /\ command = "init" => goal \in Tracked

\* What is in a pipe is what was written and not yet read, and the wrapper
\* leaves a pipe only when the process has ended.
Conserved ==
    /\ at \in Reading \cup {"communicate", "answered"} =>
           /\ wroteOut = out + stdout /\ wroteErr = err + stderr
           /\ wroteErr <= MaxErr /\ (child = "err" => wroteErr < MaxErr)
           /\ child # "none" /\ command # "none"
    /\ at \in {"communicate", "answered"} => child = "exited" /\ out = 0
    /\ at = "answered" => err = 0
    /\ at = "ready" => code = 0 /\ child \in {"none", "exited"}
    /\ at = "raised" => child = "exited"

IInv == TypeOK /\ SavedOnce /\ Conserved

LEMMA InitIInv == Init => IInv
  BY ConstantsAssumption DEF Init, IInv, TypeOK, SavedOnce, Conserved, Reading, Places,
                             Goals, Commands, First, Tracked

LEMMA StepIInv == IInv /\ [Next]_vars => IInv'
  <1> SUFFICES ASSUME IInv, [Next]_vars PROVE IInv'
    OBVIOUS
  <1>. USE ConstantsAssumption DEF IInv, TypeOK, SavedOnce, Conserved, Reading, Places,
                                   Goals, Commands, Tracked
  <1>1. ASSUME NEW to \in {"out", "err", "exited"}, Turn(to) PROVE IInv'
    BY <1>1 DEF Turn, wrapper, pipes
  <1>2. CASE WriteOut
    BY <1>2 DEF WriteOut, wrapper
  <1>3. CASE WriteErr
    BY <1>3 DEF WriteErr, wrapper
  <1>4. CASE Execute
    BY <1>4 DEF Execute, Reader
  <1>5. CASE ReadLine
    BY <1>5 DEF ReadLine, process
  <1>6. CASE EndOfStdout
    BY <1>6 DEF EndOfStdout, StdoutEnded, process, pipes
  <1>7. CASE Communicate
    BY <1>7 DEF Communicate, process
  <1>8. CASE GetResult
    BY <1>8 DEF GetResult, process, pipes
  <1>9. CASE Return
    BY <1>9 DEF Return, After, process, pipes
  <1>10. CASE UNCHANGED vars
    BY <1>10 DEF vars, wrapper, process, pipes
  <1> QED
    BY <1>1, <1>2, <1>3, <1>4, <1>5, <1>6, <1>7, <1>8, <1>9, <1>10 DEF Next, Terraform, TfWrapper

\* In every reachable state pipes and counts agree.
THEOREM Inductive == Spec => []IInv
  BY InitIInv, StepIInv, PTL DEF Spec

\* Every variable keeps to its type, whatever the constants.
THEOREM TypeCorrect == Spec => []TypeOK
  BY Inductive, PTL DEF IInv

\* run_terraform_command returns all of its own command's output and of no
\* other's, for pipes of any size.
THEOREM AnswersWholeAlways == Spec => []AnswersWhole
  <1>1. IInv => AnswersWhole
    BY DEF IInv, TypeOK, Conserved, AnswersWhole, Reading
  <1> QED
    BY <1>1, Inductive, PTL

\* A command that can go no further has a full stderr under an empty stdout.
THEOREM OnlyStderrJamsAlways == Spec => []OnlyStderrJams
  <1>1. IInv => OnlyStderrJams
    BY ConstantsAssumption DEF IInv, TypeOK, Conserved, OnlyStderrJams, Stuck, Jammed, Reading, Places
  <1> QED
    BY <1>1, Inductive, PTL

\* So a Terraform whose errors fit the pipe is never stopped by the wrapper.
THEOREM FittingErrorsNeverStick ==
    ASSUME MaxErr <= ErrCapacity
    PROVE  Spec => []~Stuck
  <1>1. IInv => ~Stuck
    <2> SUFFICES ASSUME IInv, Stuck PROVE FALSE
      OBVIOUS
    <2>1. Jammed
      BY ConstantsAssumption DEF IInv, TypeOK, Conserved, Stuck, Jammed, Reading, Places
    <2>2. err < ErrCapacity
      BY <2>1, ConstantsAssumption DEF IInv, TypeOK, Conserved, Jammed, Reading
    <2> QED
      BY <2>1, <2>2, ConstantsAssumption DEF IInv, TypeOK, Jammed
  <1> QED
    BY <1>1, Inductive, PTL

-----------------------------------------------------------------------------
(***************************************************************************)
(* The section k8s-delivery, the other place where the program starts a    *)
(* worker and waits for it: the job that installs Argo CD.  Its names are  *)
(* its own (place for at), so that one module can extend both.             *)
(***************************************************************************)

\* From here on the job was seen to succeed, and then that its role is gone.
Past == {"cleanup", "get", "ready", "token", "app", "record"}

Installed ==
    /\ job = "succeeded" => applied = Parts
    /\ place \in Past \/ recorded => applied = Parts \/ unnoticed
    /\ place \in Past \ {"cleanup"} \/ recorded => rbac = {} \/ told
    /\ recorded => place = "off"

\* A job that goes on has attempts left.
Attempts == job = "active" => failures <= BackoffLimit

AI == InstallTypeOK /\ Installed /\ Attempts

LEMMA MaxOfTwo ==
    ASSUME NEW a \in Nat, NEW b \in Nat
    PROVE  Max({a, b}) \in {a, b} /\ Max({a, b}) >= a /\ Max({a, b}) >= b
  <1>1. \E x \in {a, b} : \A y \in {a, b} : x >= y
    BY a >= b \/ b >= a
  <1> QED
    BY <1>1 DEF Max

LEMMA InitAI == InstallInit => AI
  <1> SUFFICES ASSUME InstallInit PROVE AI
    OBVIOUS
  <1>1. /\ 0 \in 0..Parts /\ 0 \in 0..MaxFaults /\ 0 \in 0..MaxRewinds /\ 0 \in 0..BackoffLimit + 1
    BY InstallConstants DEF BackoffLimit
  <1>2. recorded \in BOOLEAN /\ app \in BOOLEAN /\ {unnoticed, told} \subseteq BOOLEAN /\ ~recorded
    BY DEF InstallInit
  <1>3. InstallTypeOK
    BY <1>1, <1>2 DEF InstallInit, InstallTypeOK
  <1> QED
    BY <1>2, <1>3 DEF InstallInit, AI, Installed, Past, Attempts

LEMMA InstallSteps ==
    ASSUME [InstallNext]_installVars
    PROVE  \/ UNCHANGED installVars
           \/ (\E x \in Rbac : CreateRbac(x)) \/ (\E x \in Rbac : RemoveRbac(x)) \/ RbacExists
           \/ DeleteJob \/ CreateJob \/ WaitForJob \/ RbacRemoved \/ GetComponents
           \/ WaitForComponents \/ GetToken \/ CreateApp \/ Record \/ Raise \/ Die
           \/ Launch \/ LaunchFrom
           \/ StartPod \/ PodApplies \/ PodSucceeds \/ PodFails \/ OrphanApplies \/ OrphanEnds
           \/ JobGone \/ (\E c \in Component : BecomesReady(c))
  BY DEF InstallNext, Proceed, JobRuns, OrphansRun, ComponentsStart

\* A pod that applies one more part: the cluster has that part, and loses none.
LEMMA OneMore ==
    ASSUME InstallTypeOK, NEW n \in (pod \cup orphans) \ {Parts}
    PROVE  /\ n + 1 \in 0..Parts /\ Max({applied, n + 1}) \in 0..Parts
           /\ Max({applied, n + 1}) >= applied /\ Max({applied, n + 1}) >= n + 1
  <1>1. n \in 0..Parts /\ n # Parts /\ applied \in 0..Parts /\ Parts \in Nat
    BY InstallConstants DEF InstallTypeOK
  <1>2. n + 1 \in 0..Parts /\ n + 1 \in Nat /\ applied \in Nat
    BY <1>1
  <1>3. Max({applied, n + 1}) \in {applied, n + 1}
        /\ Max({applied, n + 1}) >= applied /\ Max({applied, n + 1}) >= n + 1
    BY <1>2, MaxOfTwo
  <1> QED
    BY <1>1, <1>2, <1>3

\* Only launches and faults count towards the bounds.
LEMMA BoundsStep ==
    ASSUME InstallTypeOK, [InstallNext]_installVars
    PROVE  faults' \in 0..MaxFaults /\ rewinds' \in 0..MaxRewinds
  <1>1. /\ faults \in 0..MaxFaults /\ rewinds \in 0..MaxRewinds
        /\ MaxFaults \in Nat /\ MaxRewinds \in Nat
    BY InstallConstants DEF InstallTypeOK
  <1>2. UNCHANGED faults \/ Fault
    BY InstallSteps DEF installVars, CreateRbac, RemoveRbac, RbacExists, DeleteJob, CreateJob, WaitForJob,
       RbacRemoved, GetComponents, WaitForComponents, GetToken, CreateApp, Record, Raise, Die, Launch,
       LaunchFrom, StartPod, PodApplies, PodSucceeds, PodFails, OrphanApplies, OrphanEnds, JobGone,
       BecomesReady
  <1>3. UNCHANGED rewinds \/ (rewinds < MaxRewinds /\ rewinds' = rewinds + 1)
    BY InstallSteps DEF installVars, CreateRbac, RemoveRbac, RbacExists, DeleteJob, CreateJob, WaitForJob,
       RbacRemoved, GetComponents, WaitForComponents, GetToken, CreateApp, Record, Raise, Die, Launch,
       LaunchFrom, StartPod, PodApplies, PodSucceeds, PodFails, OrphanApplies, OrphanEnds, JobGone,
       BecomesReady
  <1> QED
    BY <1>1, <1>2, <1>3 DEF Fault

\* The types of what the cluster has, and of what the command knows.
ClusterTypes ==
    /\ job \in {"none", "active", "succeeded", "failed", "deleting"}
    /\ pod \subseteq 0..Parts /\ (pod # {} => job = "active") /\ failures \in 0..BackoffLimit + 1
    /\ orphans \subseteq 0..Parts
    /\ applied \in 0..Parts /\ \A n \in pod \cup orphans : n <= applied
    /\ ready \subseteq Component /\ (ready # {} => applied >= Needed)

CliTypes ==
    /\ place \in {"off", "rbac", "job", "recreate", "wait", "cleanup", "get", "ready", "token", "app",
               "record"}
    /\ recorded \in BOOLEAN /\ rbac \subseteq Rbac /\ app \in BOOLEAN
    /\ unnoticed \in BOOLEAN /\ told \in BOOLEAN

LEMMA ClusterStep ==
    ASSUME AI, [InstallNext]_installVars
    PROVE  ClusterTypes' /\ Attempts' /\ applied' >= applied /\ (job' = "succeeded" => applied' = Parts)
  <1>. USE DEF cluster, Attempts
  <1>0. ClusterTypes /\ InstallTypeOK /\ Parts \in Nat /\ Needed \in Nat /\ applied >= applied
        /\ (job = "succeeded" => applied = Parts) /\ Attempts
    BY InstallConstants DEF AI, Installed, InstallTypeOK, ClusterTypes
  <1>1. CASE UNCHANGED cluster
    BY <1>0, <1>1 DEF ClusterTypes
  <1>2. CASE DeleteJob
    BY <1>0, <1>1, <1>2 DEF DeleteJob, ClusterTypes
  <1>3. CASE CreateJob
    BY <1>0, <1>3 DEF CreateJob, ClusterTypes, BackoffLimit
  <1>4. CASE StartPod
    BY <1>0, <1>4 DEF StartPod, ClusterTypes
  <1>5. CASE PodApplies
    <2>1. PICK n \in pod \ {Parts} : pod' = {n + 1} /\ applied' = Max({applied, n + 1})
      BY <1>5 DEF PodApplies
    <2>2. /\ n + 1 \in 0..Parts /\ applied' \in 0..Parts /\ applied' >= applied /\ applied' >= n + 1
      BY <1>0, <2>1, OneMore
    <2>3. UNCHANGED <<job, failures, orphans, ready>>
      BY <1>5 DEF PodApplies
    <2>4. \A m \in pod' \cup orphans' : m <= applied'
      BY <1>0, <2>1, <2>2, <2>3 DEF ClusterTypes
    <2>5. pod # {} /\ (ready' # {} => applied' >= Needed)
      BY <1>0, <2>1, <2>2, <2>3 DEF ClusterTypes
    <2> QED
      BY <1>0, <2>1, <2>2, <2>3, <2>4, <2>5 DEF ClusterTypes
  <1>6. CASE PodSucceeds
    <2>1. applied = Parts
      BY <1>0, <1>6 DEF PodSucceeds, ClusterTypes
    <2> QED
      BY <1>0, <1>6, <2>1 DEF PodSucceeds, ClusterTypes
  <1>7. CASE PodFails
    <2>1. job = "active" /\ failures \in 0..1
      BY <1>0, <1>7 DEF PodFails, ClusterTypes, BackoffLimit
    <2>2. failures' \in 0..2 /\ job' = IF failures < 1 THEN "active" ELSE "failed"
      BY <1>7, <2>1 DEF PodFails, BackoffLimit
    <2>3. Attempts' /\ failures' \in 0..BackoffLimit + 1
      BY <1>7, <2>1, <2>2 DEF PodFails, BackoffLimit
    <2> QED
      BY <1>0, <1>7, <2>2, <2>3 DEF PodFails, ClusterTypes
  <1>8. CASE OrphanApplies
    <2>1. PICK n \in orphans \ {Parts} :
             orphans' = (orphans \ {n}) \cup {n + 1} /\ applied' = Max({applied, n + 1})
      BY <1>8 DEF OrphanApplies
    <2>2. /\ n + 1 \in 0..Parts /\ applied' \in 0..Parts /\ applied' >= applied /\ applied' >= n + 1
      BY <1>0, <2>1, OneMore
    <2>3. UNCHANGED <<job, pod, failures, ready>>
      BY <1>8 DEF OrphanApplies
    <2>4. \A m \in pod' \cup orphans' : m <= applied'
      BY <1>0, <2>1, <2>2, <2>3 DEF ClusterTypes
    <2>5. ready' # {} => applied' >= Needed
      BY <1>0, <2>1, <2>2, <2>3 DEF ClusterTypes
    <2>6. job = "succeeded" => applied' = Parts
      BY <1>0, <2>2
    <2> QED
      BY <1>0, <2>1, <2>2, <2>3, <2>4, <2>5, <2>6 DEF ClusterTypes
  <1>9. CASE OrphanEnds
    BY <1>0, <1>9 DEF OrphanEnds, ClusterTypes
  <1>10. CASE JobGone
    BY <1>0, <1>10 DEF JobGone, ClusterTypes
  <1>11. CASE \E c \in Component : BecomesReady(c)
    BY <1>0, <1>11 DEF BecomesReady, ClusterTypes
  <1> QED
    BY <1>1, <1>2, <1>3, <1>4, <1>5, <1>6, <1>7, <1>8, <1>9, <1>10, <1>11, InstallSteps
    DEF installVars, CreateRbac, RemoveRbac, RbacExists, WaitForJob, RbacRemoved, GetComponents,
        WaitForComponents, GetToken, CreateApp, Record, Raise, Die, Launch, LaunchFrom

\* What the launch knows of the job, the role and the record.
LEMMA CliStep ==
    ASSUME AI, [InstallNext]_installVars
    PROVE  CliTypes' /\ Installed'
  <1>. USE DEF cli, said, Goto, Past, Rbac
  <1>0. CliTypes /\ Installed
    BY DEF AI, InstallTypeOK, CliTypes
  <1>c. /\ applied = Parts => applied' = Parts
        /\ job' = "succeeded" => applied' = Parts
    <2>1. applied \in Nat /\ applied' \in 0..Parts /\ applied' >= applied /\ Parts \in Nat
      BY InstallConstants, ClusterStep DEF AI, InstallTypeOK, ClusterTypes
    <2> QED
      BY <2>1, ClusterStep
  <1>. USE <1>0, <1>c DEF CliTypes, Installed
  <1>1. CASE UNCHANGED installVars
    BY <1>1 DEF installVars
  <1>2. CASE \E x \in Rbac : CreateRbac(x)
    BY <1>2 DEF CreateRbac
  <1>3. CASE \E x \in Rbac : RemoveRbac(x)
    BY <1>3 DEF RemoveRbac
  <1>4. CASE RbacExists
    BY <1>4 DEF RbacExists
  <1>5. CASE DeleteJob
    BY <1>5 DEF DeleteJob
  <1>6. CASE CreateJob
    BY <1>6 DEF CreateJob
  <1>7. CASE WaitForJob
    BY <1>7 DEF WaitForJob, cluster
  <1>8. CASE RbacRemoved
    BY <1>8 DEF RbacRemoved
  <1>9. CASE GetComponents
    BY <1>9 DEF GetComponents
  <1>10. CASE WaitForComponents
    BY <1>10 DEF WaitForComponents
  <1>11. CASE GetToken
    BY <1>11 DEF GetToken
  <1>12. CASE CreateApp
    BY <1>12 DEF CreateApp
  <1>13. CASE Record
    BY <1>13 DEF Record
  <1>14. CASE Raise \/ Die
    <2>1. place' = "off" /\ place # "off" /\ UNCHANGED <<recorded, rbac, app, said>>
      BY <1>14 DEF Raise, Die
    <2> QED
      BY <2>1
  <1>15. CASE Launch \/ LaunchFrom
    <2>1. place' = "rbac" /\ unnoticed' = FALSE /\ told' = FALSE /\ recorded' = FALSE
      BY <1>15 DEF Launch, LaunchFrom, Begin
    <2>2. UNCHANGED <<rbac, app>>
      BY <1>15 DEF Launch, LaunchFrom
    <2> QED
      BY <2>1, <2>2
  <1>16. CASE StartPod \/ PodApplies \/ PodSucceeds \/ PodFails \/ OrphanApplies \/ OrphanEnds \/ JobGone
              \/ \E c \in Component : BecomesReady(c)
    <2>1. UNCHANGED <<cli, rbac, app, said>>
      BY <1>16 DEF StartPod, PodApplies, PodSucceeds, PodFails, OrphanApplies, OrphanEnds, JobGone,
                   BecomesReady
    <2> QED
      BY <2>1
  <1> QED
    BY <1>1, <1>2, <1>3, <1>4, <1>5, <1>6, <1>7, <1>8, <1>9, <1>10, <1>11, <1>12, <1>13, <1>14,
       <1>15, <1>16, InstallSteps

\* In every reachable state.
THEOREM InstallInductive == InstallSpec => []AI
  <1>1. AI /\ [InstallNext]_installVars => AI'
    <2> SUFFICES ASSUME AI, [InstallNext]_installVars PROVE AI'
      OBVIOUS
    <2>1. ClusterTypes' /\ Attempts' /\ CliTypes' /\ Installed'
          /\ faults' \in 0..MaxFaults /\ rewinds' \in 0..MaxRewinds
      BY ClusterStep, CliStep, BoundsStep DEF AI
    <2> QED
      BY <2>1 DEF AI, InstallTypeOK, ClusterTypes, CliTypes
  <1> QED
    BY InitAI, <1>1, PTL DEF InstallSpec

\* Every variable of the stage and of the cluster keeps to its type.
THEOREM InstallTypeCorrect == InstallSpec => []InstallTypeOK
  <1>1. AI => InstallTypeOK
    BY DEF AI
  <1> QED
    BY InstallInductive, <1>1, PTL

\* The stage is recorded with all parts in the cluster, or after a deadline that
\* went unnoticed: for any number of parts, launches and leftovers of launches.
THEOREM InstalledUnlessUnnoticedAlways == InstallSpec => []InstalledUnlessUnnoticed
  <1>1. AI => InstalledUnlessUnnoticed
    BY DEF AI, Installed, InstalledUnlessUnnoticed
  <1> QED
    BY InstallInductive, <1>1, PTL

\* It is recorded with the role gone, or the user told to remove it.
THEOREM RoleRemovedAlways == InstallSpec => []RoleRemoved
  <1>1. AI => RoleRemoved
    BY DEF AI, Installed, RoleRemoved
  <1> QED
    BY InstallInductive, <1>1, PTL
=============================================================================
