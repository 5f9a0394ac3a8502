------------------------ MODULE PrerequisitesProofs -------------------------
(***************************************************************************)
(* The first two sections of setup, for any number of looks, stops and     *)
(* restarts.                                                               *)
(***************************************************************************)
EXTENDS Prerequisites, TLAPS

FirstPlaces == {"permissions", "zone", "txt", "wait"}
ToolPlaces == {"terraform", "fetch terraform", "unpack", "unpacking", "mark terraform", "kubectl",
               "fetch kubectl", "move", "mark kubectl", "recording"}

\* What each place of preflight has made sure of.
PreflightSoFar ==
    /\ sufficient => permitted \/ session \/ cloud = "Azure"
    /\ at \in {"zone", "txt", "wait"} => sufficient
    /\ at \in {"txt", "wait"} => NameServersAreOurs
    /\ at = "wait" => zone = "own" /\ record \notin {"none", "unweighted"}
    /\ at = "wait" /\ cloud = "AWS" => record = "value"
    /\ answer = "value" => record = "value"
    /\ at \in FirstPlaces => level = 0

\* What each place of dependencies has made sure of.
ToolsSoFar ==
    /\ at \in ToolPlaces => level = 1
    /\ at = "run" => level = 2
    /\ kubectl \in {"none", "whole"}
    /\ at = "unpacking" => tmp = "whole"
    /\ at = "mark terraform" => tf = "whole"
    /\ at \in {"kubectl", "fetch kubectl", "move", "mark kubectl", "recording"} => Executable("terraform", tf)
    /\ at \in {"mark kubectl", "recording"} => kubectl = "whole"

IInv == TypeOK /\ PreflightSoFar /\ ToolsSoFar /\ PreflightVerified /\ ToolsComplete

LEMMA InitIInv == Init => IInv
  <1> SUFFICES ASSUME Init PROVE IInv
    OBVIOUS
  <1>1. 0 \in 0..MaxLooks /\ 0 \in 0..MaxAttempts /\ 0 \in 0..MaxFaults /\ 0 \in 0..MaxRewinds
    BY ConstantsAssumption
  <1>2. sufficient \in BOOLEAN /\ (sufficient => permitted \/ session \/ cloud = "Azure")
    BY DEF Init, Judgements, SimulationSays, RolesMaySay, GrantsSay
  <1>3. answer \in {"none", "empty", "other", "value"} /\ (answer = "value" => record = "value")
    <2>1. record \in {"none", "other", "value", "unweighted"}
      BY DEF Init, Records
    <2> QED
      BY <2>1 DEF Init, Answer
  <1>4. TypeOK
    <2>1. at \in Places
      BY DEF Init, Places
    <2>2. {session, permitted, sufficient, delegated, wildcard, ready} \subseteq BOOLEAN
      BY <1>2, Zenon DEF Init
    <2>3. record \in {"none", "other", "value", "unweighted"}
      BY DEF Init, Records
    <2>4. zone \in {"own", "like", "shared", "none"}
      BY DEF Init, ExactZones, ZonesByPart
    <2> QED
      BY <1>1, <1>3, <2>1, <2>2, <2>3, <2>4 DEF Init, TypeOK
  <1>5. PreflightSoFar /\ ToolsSoFar
    BY <1>2, <1>3 DEF Init, PreflightSoFar, ToolsSoFar, FirstPlaces, ToolPlaces
  <1> QED
    BY <1>4, <1>5 DEF Init, IInv, PreflightVerified, ToolsComplete

LEMMA MoreFaults ==
    ASSUME TypeOK, faults < MaxFaults
    PROVE  faults + 1 \in 0..MaxFaults
  BY ConstantsAssumption DEF TypeOK

LEMMA Levels ==
    ASSUME TypeOK
    PROVE  level = 0 \/ level = 1 \/ level = 2
  BY DEF TypeOK

\* A step that only goes somewhere else.
LEMMA Elsewhere ==
    ASSUME TypeOK, at' \in Places, UNCHANGED <<world, dns, tools, counts, level, ready, bounds>>
    PROVE  TypeOK'
  BY DEF TypeOK, world, dns, tools, counts, bounds

LEMMA MarkTypeOK ==
    ASSUME TypeOK, NEW from, NEW to \in Places, NEW tool \in {"terraform", "kubectl"},
           ChangePermissions(from, to, tool)
    PROVE  TypeOK'
  <1>1. at' \in Places /\ runs' \subseteq {"terraform", "kubectl"}
    BY DEF ChangePermissions, Goto, TypeOK
  <1>2. UNCHANGED <<world, dns, tf, kubectl, tmp, counts, level, ready, bounds>>
    BY DEF ChangePermissions
  <1> QED
    BY <1>1, <1>2 DEF TypeOK, world, dns, counts, bounds

LEMMA StepTypeOK ==
    ASSUME TypeOK, [Next]_vars
    PROVE  TypeOK'
  <1>. USE ConstantsAssumption DEF TypeOK, Goto, world, dns, tools, counts, bounds
  <1>1. CASE UNCHANGED vars
    BY <1>1 DEF vars
  <1>2. CASE Refresh
    BY <1>2 DEF Refresh, Answer
  <1>3. CASE Launch
    <2>1. at' \in Places
      <3>1. at' \in {"permissions", "terraform", "run"}
        BY <1>3, Levels DEF Launch
      <3> QED
        BY <3>1 DEF Places
    <2>2. looks' \in 0..MaxLooks /\ attempts' \in 0..MaxAttempts
      BY <1>3 DEF Launch
    <2> QED
      BY <1>3, <2>1, <2>2 DEF Launch
  <1>4. CASE LaunchFrom
    BY <1>4 DEF LaunchFrom, Places
  <1>5. CASE Raise
    <2>1. at' \in Places
      BY <1>5 DEF Raise, Places
    <2> QED
      BY <1>5, <2>1, Elsewhere DEF Raise
  <1>6. CASE CheckPermissions
    <2>1. at' \in Places
      BY <1>6 DEF CheckPermissions, Places
    <2> QED
      BY <1>6, <2>1, Elsewhere DEF CheckPermissions
  <1>7. CASE CheckZone
    <2>1. at' \in Places
      BY <1>7 DEF CheckZone, Places
    <2> QED
      BY <1>7, <2>1, Elsewhere DEF CheckZone
  <1>8. CASE SetTxtRecord
    BY <1>8 DEF SetTxtRecord, Upserted, Kept, Added, Places
  <1>9. CASE SeeRecord
    BY <1>9 DEF SeeRecord, Propagated, SubsetOfExpected, HasExpected, Places
  <1>10. CASE LookAgain
    BY <1>10 DEF LookAgain
  <1>11. CASE AskAgain
    BY <1>11 DEF AskAgain
  <1>12. CASE CheckTf
    <2>1. at' \in Places
      BY <1>12 DEF CheckTf, Places
    <2> QED
      BY <1>12, <2>1, Elsewhere DEF CheckTf
  <1>13. CASE Download("fetch terraform", "unpack") \/ Download("fetch kubectl", "move")
    <2>1. at' \in Places
      BY <1>13 DEF Download, Places
    <2>2. tmp' \in {"damaged", "whole"} /\ (faults' = faults \/ (faults < MaxFaults /\ faults' = faults + 1))
      BY <1>13 DEF Download
    <2>3. UNCHANGED <<world, dns, tf, kubectl, runs, counts, level, ready, rewinds>>
      BY <1>13 DEF Download
    <2>4. faults' \in 0..MaxFaults
      BY <2>2, MoreFaults
    <2> QED
      BY <2>1, <2>2, <2>3, <2>4
  <1>14. CASE UnzipTf
    BY <1>14 DEF UnzipTf, Genuine, Places
  <1>15. CASE UnzippedTf
    <2>1. at' \in Places
      BY <1>15 DEF UnzippedTf, Goto, Places
    <2>2. tf' = tmp
      BY <1>15 DEF UnzippedTf
    <2>3. UNCHANGED <<world, dns, kubectl, runs, tmp, counts, level, ready, bounds>>
      BY <1>15 DEF UnzippedTf
    <2> QED
      BY <2>1, <2>2, <2>3
  <1>16. CASE ChangePermissions("mark terraform", "kubectl", "terraform")
    <2>1. "kubectl" \in Places
      BY DEF Places
    <2> QED
      BY <1>16, <2>1, MarkTypeOK
  <1>17. CASE ChangePermissions("mark kubectl", "recording", "kubectl")
    <2>1. "recording" \in Places
      BY DEF Places
    <2> QED
      BY <1>17, <2>1, MarkTypeOK
  <1>18. CASE CheckKubectl
    <2>1. at' \in {"fetch kubectl", "recording"}
      BY <1>18 DEF CheckKubectl
    <2>2. at' \in Places
      BY <2>1 DEF Places
    <2> QED
      BY <1>18, <2>2, Elsewhere DEF CheckKubectl
  <1>19. CASE MoveKubectl
    <2>1. at' \in Places
      BY <1>19 DEF MoveKubectl, Goto, Places
    <2>2. kubectl' = tmp
      BY <1>19 DEF MoveKubectl
    <2>3. UNCHANGED <<world, dns, tf, runs, tmp, counts, level, ready, bounds>>
      BY <1>19 DEF MoveKubectl
    <2> QED
      BY <2>1, <2>2, <2>3
  <1>20. CASE Record
    BY <1>20 DEF Record, Places
  <1>21. CASE RunTools
    BY <1>21 DEF RunTools, Places
  <1>22. CASE Fail
    <2>1. at' \in Places
      BY <1>22 DEF Fail, Places
    <2>2. faults' \in 0..MaxFaults
      BY <1>22, MoreFaults DEF Fail
    <2>3. UNCHANGED <<world, dns, tools, counts, level, ready, rewinds>>
      BY <1>22 DEF Fail
    <2> QED
      BY <2>1, <2>2, <2>3
  <1> QED
    BY <1>1, <1>2, <1>3, <1>4, <1>5, <1>6, <1>7, <1>8, <1>9, <1>10, <1>11, <1>12, <1>13, <1>14,
       <1>15, <1>16, <1>17, <1>18, <1>19, <1>20, <1>21, <1>22
    DEF Next, Proceed, LacksPermissions, NotOwned, RecordRaises, NotPropagated, CheckTfRaises, BadChecksum, ToolsFail

LEMMA StepPreflight ==
    ASSUME TypeOK, PreflightSoFar, PreflightVerified, ToolsSoFar, [Next]_vars
    PROVE  PreflightSoFar' /\ PreflightVerified'
  <1>. USE DEF TypeOK, PreflightSoFar, PreflightVerified, ToolsSoFar, Goto, world, dns, tools, Places,
           FirstPlaces, ToolPlaces, NameServersAreOurs
  <1>1. CASE UNCHANGED vars
    BY <1>1 DEF vars
  <1>2. CASE Refresh
    BY <1>2 DEF Refresh, Answer
  <1>3. CASE Launch
    BY <1>3 DEF Launch
  <1>4. CASE LaunchFrom
    BY <1>4 DEF LaunchFrom
  <1>5. CASE Raise
    BY <1>5 DEF Raise
  <1>6. CASE CheckPermissions
    BY <1>6 DEF CheckPermissions
  <1>7. CASE CheckZone
    BY <1>7 DEF CheckZone
  <1>8. CASE SetTxtRecord
    BY <1>8 DEF SetTxtRecord, RecordRefused, Upserted, Kept, Added
  <1>9. CASE SeeRecord
    BY <1>9 DEF SeeRecord, Propagated, SubsetOfExpected, HasExpected
  <1>10. CASE LookAgain
    BY <1>10 DEF LookAgain
  <1>11. CASE AskAgain
    BY <1>11 DEF AskAgain
  <1>12. CASE CheckTf
    BY <1>12 DEF CheckTf
  <1>13. CASE Download("fetch terraform", "unpack") \/ Download("fetch kubectl", "move")
    <2>1. UNCHANGED <<world, dns, kubectl, level>> /\ at' \in {"unpack", "move"} /\ level = 1
      BY <1>13 DEF Download
    <2> QED
      BY <2>1
  <1>14. CASE UnzipTf
    BY <1>14 DEF UnzipTf, Genuine
  <1>15. CASE UnzippedTf
    BY <1>15 DEF UnzippedTf
  <1>16. CASE ChangePermissions("mark terraform", "kubectl", "terraform")
    BY <1>16 DEF ChangePermissions
  <1>17. CASE ChangePermissions("mark kubectl", "recording", "kubectl")
    BY <1>17 DEF ChangePermissions
  <1>18. CASE CheckKubectl
    BY <1>18 DEF CheckKubectl
  <1>19. CASE MoveKubectl
    BY <1>19 DEF MoveKubectl, Genuine
  <1>20. CASE Record
    BY <1>20 DEF Record
  <1>21. CASE RunTools
    BY <1>21 DEF RunTools
  <1>22. CASE Fail
    BY <1>22 DEF Fail
  <1> QED
    BY <1>1, <1>2, <1>3, <1>4, <1>5, <1>6, <1>7, <1>8, <1>9, <1>10, <1>11, <1>12, <1>13, <1>14,
       <1>15, <1>16, <1>17, <1>18, <1>19, <1>20, <1>21, <1>22
    DEF Next, Proceed, LacksPermissions, NotOwned, RecordRaises, NotPropagated, CheckTfRaises, BadChecksum, ToolsFail

LEMMA StepTools ==
    ASSUME TypeOK, PreflightSoFar, ToolsSoFar, ToolsComplete, [Next]_vars
    PROVE  ToolsSoFar' /\ ToolsComplete'
  <1>. USE DEF TypeOK, PreflightSoFar, ToolsSoFar, ToolsComplete, Goto, world, dns, tools, Places,
           FirstPlaces, ToolPlaces, Executable
  <1>1. CASE UNCHANGED vars
    BY <1>1 DEF vars
  <1>2. CASE Refresh
    BY <1>2 DEF Refresh, Answer
  <1>3. CASE Launch
    <2>1. UNCHANGED <<tf, kubectl, runs, tmp, level>> /\ at = "off"
      BY <1>3 DEF Launch
    <2>2. CASE level = 2
      <3>1. at' = "run"
        BY <1>3, <2>2 DEF Launch
      <3> QED
        BY <2>1, <2>2, <3>1
    <2>3. CASE level = 1
      <3>1. at' = "terraform"
        BY <1>3, <2>3 DEF Launch
      <3> QED
        BY <2>1, <2>3, <3>1
    <2>4. CASE level = 0
      <3>1. at' = "permissions"
        BY <1>3, <2>4 DEF Launch
      <3> QED
        BY <2>1, <2>4, <3>1
    <2> QED
      BY <2>2, <2>3, <2>4, Levels
  <1>4. CASE LaunchFrom
    BY <1>4 DEF LaunchFrom
  <1>5. CASE Raise
    BY <1>5 DEF Raise
  <1>6. CASE CheckPermissions
    BY <1>6 DEF CheckPermissions
  <1>7. CASE CheckZone
    BY <1>7 DEF CheckZone
  <1>8. CASE SetTxtRecord
    BY <1>8 DEF SetTxtRecord, RecordRefused, Upserted, Kept, Added
  <1>9. CASE SeeRecord
    BY <1>9 DEF SeeRecord, Propagated, SubsetOfExpected, HasExpected
  <1>10. CASE LookAgain
    BY <1>10 DEF LookAgain
  <1>11. CASE AskAgain
    BY <1>11 DEF AskAgain
  <1>12. CASE CheckTf
    BY <1>12 DEF CheckTf
  <1>13. CASE Download("fetch terraform", "unpack") \/ Download("fetch kubectl", "move")
    BY <1>13 DEF Download
  <1>14. CASE UnzipTf
    BY <1>14 DEF UnzipTf, Genuine
  <1>15. CASE UnzippedTf
    BY <1>15 DEF UnzippedTf
  <1>16. CASE ChangePermissions("mark terraform", "kubectl", "terraform")
    BY <1>16 DEF ChangePermissions
  <1>17. CASE ChangePermissions("mark kubectl", "recording", "kubectl")
    BY <1>17 DEF ChangePermissions
  <1>18. CASE CheckKubectl
    BY <1>18 DEF CheckKubectl
  <1>19. CASE MoveKubectl
    BY <1>19 DEF MoveKubectl, Genuine
  <1>20. CASE Record
    BY <1>20 DEF Record
  <1>21. CASE RunTools
    BY <1>21 DEF RunTools
  <1>22. CASE Fail
    BY <1>22 DEF Fail
  <1> QED
    BY <1>1, <1>2, <1>3, <1>4, <1>5, <1>6, <1>7, <1>8, <1>9, <1>10, <1>11, <1>12, <1>13, <1>14,
       <1>15, <1>16, <1>17, <1>18, <1>19, <1>20, <1>21, <1>22
    DEF Next, Proceed, LacksPermissions, NotOwned, RecordRaises, NotPropagated, CheckTfRaises, BadChecksum, ToolsFail

\* What every place of the two sections has made sure of.
THEOREM Inductive == Spec => []IInv
  <1>1. IInv /\ [Next]_vars => IInv'
    BY StepTypeOK, StepPreflight, StepTools DEF IInv
  <1> QED
    BY InitIInv, <1>1, PTL DEF Spec

\* The types.
THEOREM TypeCorrect == Spec => []TypeOK
  BY Inductive, PTL DEF IInv

\* No launch sets the checkpoint preflight for a domain that is not shown to be
\* owned, whatever resolvers have cached.
THEOREM PreflightVerifiedAlways == Spec => []PreflightVerified
  BY Inductive, PTL DEF IInv

\* No damaged or half unpacked tool survives the checkpoint dependencies.
THEOREM ToolsCompleteAlways == Spec => []ToolsComplete
  BY Inductive, PTL DEF IInv

LEMMA OnlyRefusalsThen ==
    ASSUME IInv
    PROVE  OnlyRefusalsObstruct
  <1>1. CASE at = "permissions" /\ ~sufficient
    BY <1>1 DEF OnlyRefusalsObstruct, Refused
  <1>2. CASE at = "zone" /\ ~NameServersAreOurs
    BY <1>2 DEF OnlyRefusalsObstruct, Refused, NameServersAreOurs
  <1>3. CASE at = "wait" /\ answer = Answer(record) /\ ~Propagated
    <2>1. record \in {"none", "other", "value", "unweighted"} /\ cloud \in {"AWS", "Azure", "GCP"}
      BY DEF IInv, TypeOK
    <2>2. record # "value" /\ cloud # "AWS"
      BY <1>3 DEF IInv, PreflightSoFar, Propagated, SubsetOfExpected, HasExpected, Answer
    <2>3. record \notin {"none", "unweighted"}
      BY <1>3 DEF IInv, PreflightSoFar
    <2> QED
      BY <2>1, <2>2, <2>3 DEF OnlyRefusalsObstruct, Refused
  <1>4. CASE at = "terraform" /\ tf # "none" /\ ~Executable("terraform", tf)
    BY <1>4 DEF OnlyRefusalsObstruct, Unmarked
  <1>5. CASE at = "run" /\ ~(Executable("terraform", tf) /\ Executable("kubectl", kubectl))
    <2>1. Executable("terraform", tf) /\ kubectl = "whole"
      BY <1>5 DEF IInv, ToolsSoFar, ToolsComplete
    <2> QED
      BY <1>5, <2>1 DEF OnlyRefusalsObstruct, Unmarked, Executable
  <1>6. CASE at = "txt" /\ RecordRefused
    BY <1>6 DEF OnlyRefusalsObstruct, Refused, RecordRefused
  <1> QED
    BY <1>1, <1>2, <1>3, <1>4, <1>5, <1>6 DEF OnlyRefusalsObstruct, Obstructed

\* A launch that would raise meets a refusal of the world, or a tool that a stop
\* left without its mode: the part of Prepared that needs no fairness.
THEOREM OnlyRefusalsObstructAlways == Spec => []OnlyRefusalsObstruct
  BY Inductive, OnlyRefusalsThen, PTL
=============================================================================
