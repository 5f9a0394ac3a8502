------------------------- MODULE StateStorageProofs -------------------------
(***************************************************************************)
(* The state storages of any number of platforms in one cloud account.     *)
(***************************************************************************)
EXTENDS StateStorage, TLAPS

LEMMA StorageNames ==
    /\ None \notin Storage
    /\ \A s \in Storage : s.by \in Platform
  <1>1. 1..MaxStorages \subseteq Nat
    OBVIOUS
  <1> QED
    BY <1>1, ConstantsAssumption DEF Storage

LEMMA NumberIsNat == \A s \in Storage : s.n \in Nat
  <1>1. 1..MaxStorages \subseteq Nat
    OBVIOUS
  <1> QED
    BY <1>1 DEF Storage

LEMMA FreshIsOwn ==
    ASSUME TypeOK, NEW p \in Platform, made[p] < MaxStorages
    PROVE  /\ Fresh(p) \in Storage /\ Fresh(p).by = p
           /\ made[p] + 1 \in 0..MaxStorages
  <1>1. MaxStorages \in Nat
    BY ConstantsAssumption DEF MaxStorages
  <1>2. made[p] \in 0..MaxStorages
    BY DEF TypeOK
  <1> QED
    BY <1>1, <1>2 DEF Fresh, Storage

LEMMA Principals ==
    /\ \A p \in Platform : User(p) \in Principal /\ Role(p) \in Principal
    /\ \A p \in Platform : Allowed(p) \subseteq Principal
    /\ {User(q) : q \in Platform} \subseteq Principal
  BY DEF User, Role, Principal, Allowed

LEMMA Places1 ==
    ASSUME TypeOK, NEW p \in Platform
    PROVE  AfterFind(p) \in Places
  BY DEF TypeOK, AfterFind, Places, Level

-----------------------------------------------------------------------------
(* Types *)

LEMMA InitTypeOK == Init => TypeOK
  <1> SUFFICES ASSUME Init PROVE TypeOK
    OBVIOUS
  <1>1. 0 \in 0..MaxStorages /\ 0 \in 0..MaxFaults /\ 0 \in 0..MaxRewinds /\ 0 \in 0..MaxDestroys
    BY ConstantsAssumption DEF MaxStorages
  <1>2. /\ there = {} /\ ready \subseteq there /\ knows = {}
        /\ holds \in [Storage -> SUBSET Platform] /\ allows \in [Storage -> SUBSET Principal]
    BY DEF Init
  <1>3. /\ {new, name} \subseteq [Platform -> Storage \cup {None}]
        /\ made \in [Platform -> 0..MaxStorages] /\ at \in [Platform -> Places]
        /\ level \in [Platform -> Level] /\ wanted \in [Platform -> BOOLEAN]
    BY <1>1 DEF Init, Places, Level
  <1> QED
    BY <1>1, <1>2, <1>3 DEF Init, TypeOK

LEMMA DiscoverTypeOK ==
    ASSUME TypeOK, NEW p \in Platform, NEW s \in Storage, Discover(p, s)
    PROVE  /\ name' \in [Platform -> Storage \cup {None}]
           /\ allows' \in [Storage -> SUBSET Principal]
           /\ UNCHANGED <<there, ready, holds>>
  BY Principals DEF Discover, TypeOK

LEMMA WritesTypeOK ==
    ASSUME TypeOK, NEW p \in Platform, Writes(p)
    PROVE  /\ holds' \in [Storage -> SUBSET Platform]
           /\ allows' \in [Storage -> SUBSET Principal] /\ UNCHANGED <<there, ready>>
  BY DEF Writes, RoleIsNew, TypeOK

LEMMA StepTypeOK ==
    ASSUME TypeOK, [Next]_vars
    PROVE  TypeOK'
  <1>. USE DEF Goto
  <1>0. CASE UNCHANGED vars
    BY <1>0 DEF vars, storage, local, bounds, TypeOK
  <1>1. ASSUME NEW p \in Platform, Launch(p) PROVE TypeOK'
    BY <1>1 DEF Launch, TypeOK, Places, storage, bounds
  <1>2. ASSUME NEW p \in Platform, DestroyPlatform(p) PROVE TypeOK'
    BY <1>2, ConstantsAssumption DEF DestroyPlatform, TypeOK, Level
  <1>3. ASSUME NEW p \in Platform, NEW l \in Level, Rewind(p, l) PROVE TypeOK'
    BY <1>3, ConstantsAssumption DEF Rewind, TypeOK, Places, storage
  <1>4. ASSUME NEW p \in Platform, KeepName(p) PROVE TypeOK'
    BY <1>4, Places1 DEF KeepName, TypeOK, storage, bounds
  <1>5. ASSUME NEW p \in Platform, FindOther(p) PROVE TypeOK'
    <2>1. CASE \E s \in Storage : Best(p, s) /\ Discover(p, s)
      BY <1>5, <2>1, Places1, DiscoverTypeOK DEF FindOther, TypeOK, bounds
    <2>2. CASE UNCHANGED <<storage, name>>
      BY <1>5, <2>2, Places1 DEF FindOther, TypeOK, storage, bounds
    <2> QED
      BY <1>5, <2>1, <2>2 DEF FindOther
  <1>6. ASSUME NEW p \in Platform, Create(p) PROVE TypeOK'
    BY <1>6, FreshIsOwn, Principals DEF Create, TypeOK, Places, bounds
  <1>7. ASSUME NEW p \in Platform, Prepare(p) PROVE TypeOK'
    <2>1. [allows EXCEPT ![new[p]] = {User(p)}] \in [Storage -> SUBSET Principal]
      BY Principals DEF TypeOK
    <2> QED
      BY <1>7, <2>1 DEF Prepare, TypeOK, Places, bounds
  <1>8. ASSUME NEW p \in Platform, Raise(p) PROVE TypeOK'
    BY <1>8 DEF Raise, TypeOK, Places, storage, bounds
  <1>9. ASSUME NEW p \in Platform, Record(p) PROVE TypeOK'
    BY <1>9 DEF Record, TypeOK, Places, Level, storage, bounds
  <1>10. ASSUME NEW p \in Platform, Apply(p) PROVE TypeOK'
    BY <1>10, WritesTypeOK DEF Apply, TypeOK, Places, Level, bounds
  <1>11. ASSUME NEW p \in Platform, Protect(p) PROVE TypeOK'
    <2>1. allows' \in [Storage -> SUBSET Principal]
      BY <1>11, Principals DEF Protect, Assigning, Replacing, TypeOK
    <2> QED
      BY <1>11, <2>1 DEF Protect, Assigning, Replacing, TypeOK, Places, bounds
  <1>12. ASSUME NEW p \in Platform, Harden(p) PROVE TypeOK'
    BY <1>12 DEF Harden, TypeOK, Places, Level, storage, bounds
  <1>13. ASSUME NEW p \in Platform, FindMisses(p) PROVE TypeOK'
    <2>1. faults' \in 0..MaxFaults
      BY <1>13, ConstantsAssumption DEF FindMisses, TypeOK
    <2>2. CASE UNCHANGED <<storage, name>>
      BY <1>13, <2>1, <2>2, Places1 DEF FindMisses, TypeOK, storage
    <2>3. ASSUME NEW s \in Candidates(p), Discover(p, s) PROVE TypeOK'
      BY <1>13, <2>1, <2>3, Places1, DiscoverTypeOK DEF FindMisses, TypeOK, Candidates
    <2>4. ASSUME NEW s \in Candidates(p), name' = [name EXCEPT ![p] = s], UNCHANGED storage PROVE TypeOK'
      BY <1>13, <2>1, <2>4, Places1 DEF FindMisses, TypeOK, Candidates, storage
    <2> QED
      BY <1>13, <2>2, <2>3, <2>4 DEF FindMisses
  <1>14. ASSUME NEW p \in Platform, CreateFails(p) PROVE TypeOK'
    BY <1>14, FreshIsOwn, ConstantsAssumption DEF CreateFails, TypeOK, Places, storage
  <1>15. ASSUME NEW p \in Platform, Fail(p) PROVE TypeOK'
    <2>1. faults' \in 0..MaxFaults /\ at' \in [Platform -> Places]
      BY <1>15, ConstantsAssumption DEF Fail, TypeOK, Places
    <2>2. CASE UNCHANGED storage
      BY <1>15, <2>1, <2>2 DEF Fail, TypeOK, storage
    <2>3. CASE Writes(p)
      BY <1>15, <2>1, <2>3, WritesTypeOK DEF Fail, TypeOK
    <2> QED
      BY <1>15, <2>2, <2>3 DEF Fail
  <1> QED
    BY <1>0, <1>1, <1>2, <1>3, <1>4, <1>5, <1>6, <1>7, <1>8, <1>9, <1>10, <1>11, <1>12, <1>13,
       <1>14, <1>15 DEF Next, Engineer, Proceed, PrepareFails, BackendFails

\* The types, and that what is prepared exists.
THEOREM TypeCorrect == Spec => []TypeOK
  <1>1. TypeOK /\ [Next]_vars => TypeOK'
    BY StepTypeOK
  <1> QED
    BY InitTypeOK, <1>1, PTL DEF Spec

-----------------------------------------------------------------------------
(* A storage of one's own *)

\* No name starts another one, and no two names begin alike.
Apart == Stem = {} /\ \A p, q \in LongName : p = q

\* What the names of a platform are about, wherever its setup is.
Owns(p) ==
    /\ name[p] \in Storage => name[p].by = p
    /\ new[p] \in Storage => new[p].by = p
    /\ level[p] >= 1 => name[p] \in Storage
    /\ level[p] >= 2 => p \in knows
    /\ at[p] \in {"create", "prepare", "record"} => level[p] = 0
    /\ at[p] \in {"prepare", "record"} => new[p] \in Storage
    /\ at[p] = "apply" => level[p] = 1
    /\ at[p] \in {"protect", "harden"} => level[p] = 2
    /\ \A s \in there : s.by = p => s.n <= made[p]

\* What setup has done to its storage when the next checkpoint is set.
Readies(p) ==
    /\ at[p] = "prepare" /\ new[p] \in there => User(p) \in allows[new[p]]
    /\ at[p] = "record" => new[p] \in ready /\ User(p) \in allows[new[p]]
    /\ at[p] = "harden" => \E s \in Group(name[p]) : Role(p) \in allows[s]

IInv == TypeOK /\ \A p \in Platform : Owns(p) /\ Readies(p) /\ (~missed => Usable(p))

\* What a step of platform p leaves alone of platform q.
Apart2(p, q) ==
    /\ at'[q] = at[q] /\ new'[q] = new[q] /\ made'[q] = made[q] /\ name'[q] = name[q] /\ level'[q] = level[q]
    /\ q \in knows' <=> q \in knows
    /\ \A s \in Storage : s.by = q =>
         /\ s \in there' <=> s \in there
         /\ s \in ready' <=> s \in ready
         /\ holds'[s] = holds[s] /\ allows'[s] = allows[s]

LEMMA GroupIsOwn ==
    ASSUME Apart, NEW s \in Storage
    PROVE  s \in Group(s) /\ \A t \in Group(s) : t \in Storage /\ t.by = s.by
  BY DEF Apart, Group

Steps(p) ==
    \/ Engineer(p) \/ Proceed(p) \/ FindMisses(p) \/ CreateFails(p) \/ Fail(p)

LEMMA StepKeepsOthers ==
    ASSUME Apart, TypeOK, NEW p \in Platform, Owns(p), Steps(p), NEW q \in Platform, q # p
    PROVE  Apart2(p, q)
  <1>. USE DEF Goto
  <1>1. CASE Launch(p)
    BY <1>1 DEF Launch, Apart2, TypeOK, storage
  <1>2. CASE DestroyPlatform(p)
    <2>1. name[p] \in Storage /\ name[p].by = p
      BY <1>2 DEF DestroyPlatform, Owns, TypeOK, Level
    <2>2. \A s \in Deleted(p) : s.by = p
      BY <2>1, GroupIsOwn DEF Deleted, EmptiedBucket, ResourceGroup, EmptyBucket, TypeOK
    <2> QED
      BY <1>2, <2>2 DEF DestroyPlatform, Apart2, TypeOK
  <1>3. ASSUME NEW l \in Level, Rewind(p, l) PROVE Apart2(p, q)
    BY <1>3 DEF Rewind, Apart2, TypeOK, storage
  <1>4. CASE KeepName(p)
    BY <1>4 DEF KeepName, Apart2, TypeOK, storage
  <1>d. ASSUME NEW s \in Storage, s.by = p, Discover(p, s), Goto(p, AfterFind(p)), UNCHANGED <<new, made, level, knows>>
        PROVE  Apart2(p, q)
    BY <1>d DEF Discover, Apart2, TypeOK
  <1>c. \A s \in Candidates(p) : s \in Storage /\ s.by = p
    BY DEF Candidates, LikeNamed, Apart, TypeOK
  <1>5. CASE FindOther(p)
    <2>1. ASSUME NEW s \in Storage, Best(p, s), Discover(p, s) PROVE Apart2(p, q)
      BY <1>5, <2>1, <1>c, <1>d DEF FindOther, Best
    <2>2. CASE UNCHANGED <<storage, name>>
      BY <1>5, <2>2 DEF FindOther, Apart2, TypeOK, storage
    <2> QED
      BY <1>5, <2>1, <2>2 DEF FindOther
  <1>6. CASE Create(p)
    <2>1. Fresh(p).by = p
      BY DEF Fresh
    <2> QED
      BY <1>6, <2>1 DEF Create, Apart2, TypeOK
  <1>7. CASE Prepare(p)
    <2>1. new[p] \in Storage /\ new[p].by = p
      BY <1>7 DEF Prepare, Owns
    <2> QED
      BY <1>7, <2>1 DEF Prepare, Apart2, TypeOK
  <1>8. CASE Raise(p)
    BY <1>8 DEF Raise, Apart2, TypeOK, storage
  <1>9. CASE Record(p)
    BY <1>9 DEF Record, Apart2, TypeOK, storage
  <1>w. ASSUME Writes(p), at'[q] = at[q], level'[q] = level[q], q \in knows' <=> q \in knows, UNCHANGED <<new, made, name>>
        PROVE  Apart2(p, q)
    <2>1. name[p] \in Storage /\ name[p].by = p
      BY <1>w DEF Writes, Reaches, TypeOK, Owns
    <2>2. \A s \in Storage : s.by = q => s # name[p] /\ s \notin Group(name[p])
      BY <2>1, GroupIsOwn
    <2>3. \A s \in Storage : s.by = q => allows'[s] = allows[s]
      BY <1>w, <2>2 DEF Writes, RoleIsNew
    <2> QED
      BY <1>w, <2>2, <2>3 DEF Writes, Apart2, TypeOK
  <1>10. CASE Apply(p)
    BY <1>10, <1>w DEF Apply, TypeOK
  <1>11. CASE Protect(p)
    <2>1. name[p] \in Storage /\ name[p].by = p
      BY <1>11 DEF Protect, Assigning, Replacing, Reaches, TypeOK, Owns
    <2>2. \A s \in Storage : s.by = q => s # name[p] /\ s \notin Group(name[p])
      BY <2>1, GroupIsOwn
    <2> QED
      BY <1>11, <2>2 DEF Protect, Assigning, Replacing, Apart2, TypeOK
  <1>12. CASE Harden(p)
    BY <1>12 DEF Harden, Apart2, TypeOK, storage
  <1>13. CASE FindMisses(p)
    <2>1. CASE UNCHANGED <<storage, name>>
      BY <1>13, <2>1 DEF FindMisses, Apart2, TypeOK, storage
    <2>2. ASSUME NEW s \in Candidates(p), Discover(p, s) PROVE Apart2(p, q)
      BY <1>13, <2>2, <1>c, <1>d DEF FindMisses
    <2>3. ASSUME NEW s \in Candidates(p), name' = [name EXCEPT ![p] = s], UNCHANGED storage PROVE Apart2(p, q)
      BY <1>13, <2>3 DEF FindMisses, Apart2, TypeOK, storage
    <2> QED
      BY <1>13, <2>1, <2>2, <2>3 DEF FindMisses
  <1>14. CASE CreateFails(p)
    BY <1>14 DEF CreateFails, Apart2, TypeOK, storage
  <1>15. CASE Fail(p)
    <2>1. CASE UNCHANGED storage
      BY <1>15, <2>1 DEF Fail, Apart2, TypeOK, storage
    <2>2. CASE Writes(p)
      BY <1>15, <2>2, <1>w DEF Fail, TypeOK
    <2> QED
      BY <1>15, <2>1, <2>2 DEF Fail
  <1> QED
    BY <1>1, <1>2, <1>3, <1>4, <1>5, <1>6, <1>7, <1>8, <1>9, <1>10, <1>11, <1>12, <1>13,
       <1>14, <1>15 DEF Steps, Engineer, Proceed, PrepareFails, BackendFails

\* The cloud stays, and answers that were wrong stay noted.
LEMMA StepKeepsCloud ==
    ASSUME NEW p \in Platform, Steps(p)
    PROVE  cloud' = cloud /\ (missed => missed')
  BY DEF Steps, Engineer, Proceed, FindMisses, CreateFails, Fail, Launch, DestroyPlatform, Rewind,
         KeepName, FindOther, Create, Prepare, PrepareFails, Record, Apply, Protect,
         BackendFails, Harden, Raise

LEMMA OthersStay ==
    ASSUME Apart, TypeOK, TypeOK', NEW p \in Platform, Steps(p), NEW q \in Platform, Apart2(p, q),
           Owns(q), Readies(q), ~missed => Usable(q)
    PROVE  Owns(q)' /\ Readies(q)' /\ (~missed => Usable(q))'
  <1>. USE StepKeepsCloud
  <1>1. Owns(q)'
    <2>1. \A s \in there' : s.by = q => s.n <= made'[q]
      BY DEF Owns, Apart2, TypeOK
    <2> QED
      BY <2>1 DEF Owns, Apart2
  <1>g. ASSUME name[q] \in Storage, name[q].by = q, \E s \in Group(name[q]) : Role(q) \in allows[s]
        PROVE  (\E s \in Group(name[q]) : Role(q) \in allows[s])'
    <2>1. PICK s \in Group(name[q]) : Role(q) \in allows[s]
      BY <1>g
    <2>2. s \in Storage /\ s.by = q
      BY <1>g, GroupIsOwn
    <2>3. Group(name'[q]) = Group(name[q])
      BY DEF Apart2
    <2> QED
      BY <2>1, <2>2, <2>3 DEF Apart2, Group
  <1>2. Readies(q)'
    <2>1. ASSUME at[q] \in {"prepare", "record"} PROVE new[q] \in Storage /\ new[q].by = q
      BY <2>1 DEF Owns
    <2>2. ASSUME at[q] = "harden" PROVE name[q] \in Storage /\ name[q].by = q
      BY <2>2 DEF Owns
    <2> QED
      BY <2>1, <2>2, <1>g DEF Readies, Apart2
  <1>3. (~missed => Usable(q))'
    <2>1. SUFFICES ASSUME ~missed, level[q] >= 1, Usable(q) PROVE Usable(q)'
      BY DEF Usable, Apart2
    <2>2. name[q] \in Storage /\ name[q].by = q
      BY <2>1 DEF Owns
    <2>3. /\ name'[q] \in ready' /\ Reaches(q, name[q])'
          /\ level'[q] >= 2 => q \in holds'[name'[q]]
      BY <2>1, <2>2 DEF Usable, Apart2, Reaches
    <2>4. (level[q] = 3 => \E s \in Group(name[q]) : Role(q) \in allows[s])'
      BY <2>1, <2>2, <1>g DEF Usable, Apart2
    <2> QED
      BY <2>3, <2>4 DEF Usable
  <1> QED
    BY <1>1, <1>2, <1>3

Mine(p) == Owns(p) /\ Readies(p) /\ (~missed => Usable(p))

\* Storage and state file as they were, setup somewhere that expects no more.
LEMMA Steady ==
    ASSUME NEW p \in Platform, Mine(p), UNCHANGED <<cloud, storage, made, name>>,
           missed => missed', level'[p] = level[p], p \in knows => p \in knows',
           new'[p] \in {new[p], None},
           \/ at'[p] \in {"off", "find"}
           \/ at'[p] = "create" /\ level[p] = 0
           \/ at'[p] = "apply" /\ level[p] = 1
           \/ at'[p] = "protect" /\ level[p] = 2
    PROVE  Mine(p)'
  <1>1. Owns(p)'
    BY StorageNames DEF Mine, Owns, storage
  <1>2. Readies(p)'
    BY DEF Readies
  <1>3. (~missed => Usable(p))'
    BY DEF Mine, Usable, Reaches, storage, Group
  <1> QED
    BY <1>1, <1>2, <1>3 DEF Mine

LEMMA AfterFindIs ==
    ASSUME TypeOK, NEW p \in Platform
    PROVE  \/ AfterFind(p) = "off"
           \/ AfterFind(p) = "create" /\ level[p] = 0
           \/ AfterFind(p) = "apply" /\ level[p] = 1
           \/ AfterFind(p) = "protect" /\ level[p] = 2
  BY DEF AfterFind, TypeOK, Level

LEMMA FindKeepsMine ==
    ASSUME Apart, TypeOK, NEW p \in Platform, Mine(p), FindOther(p) \/ FindMisses(p)
    PROVE  Mine(p)'
  <1>. USE DEF Goto
  <1>0. /\ UNCHANGED <<cloud, there, new, made, level, knows>> /\ at' = [at EXCEPT ![p] = AfterFind(p)]
        /\ at[p] = "find" /\ (missed => missed')
    BY DEF FindOther, FindMisses, Discover, storage
  <1>1. at'[p] = AfterFind(p) /\ at'[p] \notin {"prepare", "record", "harden", "find"}
    BY <1>0, AfterFindIs DEF TypeOK
  <1>2. CASE UNCHANGED <<storage, name>>
    BY <1>0, <1>1, <1>2, AfterFindIs, Steady
  <1>3. ASSUME NEW s \in Candidates(p), name' = [name EXCEPT ![p] = s] PROVE Owns(p)' /\ Readies(p)'
    <2>1. s \in Storage /\ s.by = p
      BY <1>3 DEF Candidates, LikeNamed, Apart, TypeOK
    <2>2. name'[p] = s
      BY <1>3 DEF TypeOK
    <2>3. Owns(p)'
      BY <1>0, <1>1, <2>1, <2>2, AfterFindIs DEF Mine, Owns
    <2> QED
      BY <1>1, <2>3 DEF Readies
  <1>4. CASE FindMisses(p)
    <2>1. missed'
      BY <1>4 DEF FindMisses
    <2> QED
      BY <1>2, <1>3, <1>4, <2>1 DEF FindMisses, Discover, Mine
  <1>5. ASSUME FindOther(p), NEW s \in Storage, Best(p, s), Discover(p, s) PROVE Mine(p)'
    <2>1. s \in Candidates(p) /\ name' = [name EXCEPT ![p] = s]
      BY <1>5 DEF Best, Discover
    <2>2. ~missed => level[p] = 0
      BY <1>5, StorageNames DEF FindOther, Found, Mine, Usable, TypeOK, Level
    <2>3. (~missed)' => level'[p] = 0
      BY <1>0, <2>2
    <2>4. Owns(p)' /\ Readies(p)'
      BY <1>3, <2>1
    <2> QED
      BY <2>3, <2>4 DEF Mine, Usable
  <1> QED
    BY <1>2, <1>4, <1>5 DEF FindOther

LEMMA CreateKeepsMine ==
    ASSUME TypeOK, NEW p \in Platform, Mine(p), Create(p) \/ CreateFails(p)
    PROVE  Mine(p)'
  <1>. USE DEF Goto
  <1>1. /\ UNCHANGED <<cloud, name, level, knows>> /\ at'[p] = "prepare" /\ level[p] = 0
        /\ made[p] < MaxStorages /\ new'[p] = Fresh(p)
    BY DEF Create, CreateFails, TypeOK, Mine, Owns
  <1>2. Fresh(p) \in Storage /\ Fresh(p).by = p
    BY <1>1, FreshIsOwn
  <1>n. Fresh(p).n = made[p] + 1 /\ made[p] \in Nat
    BY DEF Fresh, TypeOK
  <1>f. \A s \in there : s.by = p => s.n <= made[p]
    BY DEF Mine, Owns
  <1>m. made'[p] = made[p] + 1 /\ there' \subseteq there \cup {Fresh(p)}
    BY DEF Create, CreateFails, TypeOK, storage
  <1>b. \A s \in there' : s.by = p => s.n <= made'[p]
    BY <1>n, <1>m, <1>f, NumberIsNat DEF TypeOK
  <1>3. Owns(p)'
    BY <1>1, <1>2, <1>b DEF Mine, Owns
  <1>4. User(p) \in allows'[Fresh(p)] \/ Fresh(p) \notin there'
    <2>1. CASE Create(p)
      BY <1>2, <2>1 DEF Create, TypeOK
    <2>2. CASE CreateFails(p)
      <3>1. Fresh(p) \notin there
        BY <1>2, <1>n, <1>f
      <3> QED
        BY <2>2, <3>1 DEF CreateFails, storage
    <2> QED
      BY <2>1, <2>2
  <1>5. Readies(p)'
    BY <1>1, <1>4 DEF Readies
  <1> QED
    BY <1>1, <1>3, <1>5 DEF Mine, Usable

LEMMA StepKeepsMine ==
    ASSUME Apart, TypeOK, NEW p \in Platform, Mine(p), Steps(p)
    PROVE  Mine(p)'
  <1>. USE DEF Goto
  <1>1. CASE Launch(p)
    BY <1>1, Steady DEF Launch, TypeOK
  <1>2. CASE DestroyPlatform(p)
    <2>1. /\ level'[p] = 0 /\ name'[p] = None /\ UNCHANGED <<at, new, made, cloud>>
          /\ at[p] = "off" /\ there' \subseteq there
      BY <1>2 DEF DestroyPlatform, TypeOK
    <2> QED
      BY <2>1, StorageNames DEF Mine, Owns, Readies, Usable
  <1>3. ASSUME NEW l \in Level, Rewind(p, l) PROVE Mine(p)'
    <2>1. /\ level'[p] = l /\ l < level[p] /\ level[p] \in Level /\ at'[p] = "find" /\ new'[p] = None
          /\ UNCHANGED <<cloud, storage, made, name, knows, missed>>
      BY <1>3 DEF Rewind, TypeOK
    <2>2. Owns(p)' /\ Readies(p)'
      BY <2>1, StorageNames DEF Mine, Owns, Readies, Level, storage
    <2>3. (~missed => Usable(p))'
      BY <2>1 DEF Mine, Usable, Reaches, Level, storage
    <2> QED
      BY <2>2, <2>3 DEF Mine
  <1>4. CASE KeepName(p)
    BY <1>4, AfterFindIs, Steady DEF KeepName, TypeOK
  <1>5. CASE FindOther(p) \/ FindMisses(p)
    BY <1>5, FindKeepsMine
  <1>6. CASE Create(p) \/ CreateFails(p)
    BY <1>6, CreateKeepsMine
  <1>7. CASE Prepare(p)
    <2>1. /\ at[p] = "prepare" /\ new[p] \in there /\ at'[p] = "record" /\ ready' = ready \cup {new[p]}
          /\ UNCHANGED <<cloud, there, holds, new, made, name, level, knows, missed>> /\ level[p] = 0
      BY <1>7 DEF Prepare, TypeOK, Mine, Owns
    <2>2. User(p) \in allows[new[p]]
      BY <2>1 DEF Mine, Readies
    <2>3. User(p) \in allows'[new[p]]
      BY <1>7, <2>1, <2>2 DEF Prepare, TypeOK
    <2>4. Owns(p)' /\ Readies(p)'
      BY <2>1, <2>3 DEF Mine, Owns, Readies
    <2> QED
      BY <2>1, <2>4 DEF Mine, Usable
  <1>8. CASE Raise(p)
    BY <1>8, Steady DEF Raise, TypeOK
  <1>9. CASE Record(p)
    <2>1. /\ at[p] = "record" /\ at'[p] = "apply" /\ name'[p] = new[p] /\ level'[p] = 1
          /\ UNCHANGED <<cloud, there, ready, holds, allows, new, made, knows, missed>>
      BY <1>9 DEF Record, TypeOK, storage
    <2>2. new[p] \in Storage /\ new[p].by = p /\ new[p] \in ready /\ User(p) \in allows[new[p]]
      BY <2>1 DEF Mine, Owns, Readies
    <2>3. Owns(p)' /\ Readies(p)'
      BY <2>1, <2>2 DEF Mine, Owns, Readies
    <2>4. Usable(p)'
      BY <2>1, <2>2 DEF Usable, Reaches, TypeOK
    <2> QED
      BY <2>3, <2>4 DEF Mine
  <1>w. ASSUME Writes(p), UNCHANGED <<cloud, new, made, name, missed>>, level[p] = 1,
               \/ at'[p] = "off" /\ level'[p] = 1 /\ knows' = knows
               \/ at'[p] = "protect" /\ level'[p] = 2 /\ knows' = knows \cup {p}
        PROVE  Mine(p)'
    <2>1. /\ name[p] \in Storage /\ holds' = [holds EXCEPT ![name[p]] = @ \cup {p}]
          /\ UNCHANGED <<there, ready>> /\ Reaches(p, name[p])
          /\ cloud = "Azure" \/ allows' = allows
      BY <1>w DEF Writes, Mine, Owns
    <2>2. Owns(p)' /\ Readies(p)'
      BY <1>w, <2>1 DEF Mine, Owns, Readies
    <2>3. (~missed => Usable(p))'
      BY <1>w, <2>1 DEF Mine, Usable, Reaches, TypeOK
    <2> QED
      BY <2>2, <2>3 DEF Mine
  <1>10. CASE Apply(p)
    BY <1>10, <1>w DEF Apply, TypeOK, Mine, Owns
  <1>11. CASE Protect(p)
    <2>1. /\ at[p] = "protect" /\ at'[p] = "harden" /\ Reaches(p, name[p]) /\ level[p] = 2
          /\ UNCHANGED <<cloud, there, ready, holds, new, made, name, level, knows, missed>>
      BY <1>11 DEF Protect, Assigning, Replacing, TypeOK, Mine, Owns
    <2>2. /\ name[p] \in Storage /\ name[p] \in Group(name[p])
          /\ p \in knows
      BY <2>1, GroupIsOwn DEF Mine, Owns
    <2>3. User(p) \in allows'[name[p]] \/ cloud = "Azure"
      BY <1>11, <2>2 DEF Protect, Assigning, Replacing, Allowed, TypeOK
    <2>4. Role(p) \in allows'[name[p]]
      BY <1>11, <2>2 DEF Protect, Assigning, Replacing, Allowed, TypeOK
    <2>5. Owns(p)' /\ Readies(p)'
      BY <2>1, <2>2, <2>4 DEF Mine, Owns, Readies, Group
    <2>6. (~missed => Usable(p))'
      BY <2>1, <2>3 DEF Mine, Usable, Reaches
    <2> QED
      BY <2>5, <2>6 DEF Mine
  <1>12. CASE Harden(p)
    <2>1. /\ at[p] = "harden" /\ at'[p] = "off" /\ level[p] = 2 /\ level'[p] = 3
          /\ UNCHANGED <<cloud, there, ready, holds, allows, new, made, name, knows, missed>>
      BY <1>12 DEF Harden, TypeOK, Mine, Owns, storage
    <2>2. Owns(p)' /\ Readies(p)'
      BY <2>1 DEF Mine, Owns, Readies
    <2>3. (~missed => Usable(p))'
      BY <2>1 DEF Mine, Usable, Readies, Reaches, Group
    <2> QED
      BY <2>2, <2>3 DEF Mine
  <1>13. CASE Fail(p)
    <2>1. /\ at' = [at EXCEPT ![p] = "off"] /\ UNCHANGED <<cloud, new, made, name, level, knows, missed>>
      BY <1>13 DEF Fail
    <2>2. CASE UNCHANGED storage
      BY <2>1, <2>2, Steady DEF TypeOK
    <2>3. CASE at[p] = "apply" /\ Writes(p)
      BY <2>1, <2>3, <1>w DEF TypeOK, Mine, Owns
    <2> QED
      BY <1>13, <2>2, <2>3 DEF Fail
  <1> QED
    BY <1>1, <1>2, <1>3, <1>4, <1>5, <1>6, <1>7, <1>8, <1>9, <1>10, <1>11, <1>12, <1>13
    DEF Steps, Engineer, Proceed, PrepareFails, BackendFails

-----------------------------------------------------------------------------
(* The theorems *)

LEMMA InitIInv == Init => IInv
  <1> SUFFICES ASSUME Init PROVE IInv
    OBVIOUS
  <1>1. TypeOK
    BY InitTypeOK
  <1>2. ASSUME NEW p \in Platform PROVE Owns(p) /\ Readies(p) /\ Usable(p)
    <2>1. at[p] = "off" /\ new[p] = None /\ name[p] = None /\ level[p] = 0 /\ there = {}
      BY DEF Init
    <2> QED
      BY <2>1, StorageNames DEF Owns, Readies, Usable
  <1> QED
    BY <1>1, <1>2 DEF IInv

LEMMA StepIInv ==
    ASSUME Apart, IInv, [Next]_vars
    PROVE  IInv'
  <1>1. TypeOK'
    BY StepTypeOK DEF IInv
  <1>2. CASE UNCHANGED vars
    BY <1>1, <1>2 DEF vars, storage, local, IInv, Owns, Readies, Usable, Reaches, Group
  <1>3. ASSUME NEW p \in Platform, Steps(p), NEW q \in Platform PROVE Mine(q)'
    <2>1. CASE q = p
      BY <1>3, <2>1, StepKeepsMine DEF IInv, Mine
    <2>2. CASE q # p
      BY <1>1, <1>3, <2>2, StepKeepsOthers, OthersStay DEF IInv, Mine
    <2> QED
      BY <2>1, <2>2
  <1>4. CASE Next
    <2>1. \E p \in Platform : Steps(p)
      BY <1>4 DEF Next, Steps
    <2> QED
      BY <1>1, <1>3, <2>1 DEF IInv, Mine
  <1> QED
    BY <1>2, <1>4

\* Every step of a platform is seen in its place or its checkpoints.
LEMMA StepMoves ==
    ASSUME TypeOK, NEW p \in Platform, Steps(p)
    PROVE  at'[p] # at[p] \/ level'[p] # level[p]
  <1>1. at[p] \in Places /\ level[p] \in Level /\ AfterFind(p) # "find"
    BY AfterFindIs DEF TypeOK
  <1> QED
    BY <1>1 DEF Steps, Engineer, Proceed, FindMisses, CreateFails, Fail, Launch, DestroyPlatform, Rewind,
         KeepName, FindOther, Create, Prepare, PrepareFails, Record, Apply, Protect,
         BackendFails, Harden, Raise, Goto, TypeOK, Level

\* Names, places and checkpoints of every platform fit its storage.
THEOREM Inductive == ASSUME Apart PROVE Spec => []IInv
  <1>1. IInv /\ [Next]_vars => IInv'
    BY StepIInv
  <1> QED
    BY InitIInv, <1>1, PTL DEF Spec

\* Where names tell platforms apart, what the checkpoints say of a storage is so
\* on every cloud, through any stops, restarts and destroys.
THEOREM RecordedUsableAlways == ASSUME Apart PROVE Spec => []RecordedUsable
  <1>1. IInv => RecordedUsable
    BY DEF IInv, RecordedUsable
  <1> QED
    BY <1>1, Inductive, PTL

\* A step changes storages of the platform that takes it only.
THEOREM UndisturbedAlways == ASSUME Apart PROVE Spec => Undisturbed
  <1>1. IInv /\ [Next]_vars =>
          [\A s \in Storage : (s \in there) # (s \in there)' \/ holds'[s] # holds[s] \/ allows'[s] # allows[s]
             => Works(s.by)]_vars
    <2> SUFFICES ASSUME IInv, Next, NEW s \in Storage, ~Works(s.by)
                 PROVE  (s \in there <=> s \in there') /\ holds'[s] = holds[s] /\ allows'[s] = allows[s]
      BY DEF vars
    <2>1. PICK p \in Platform : Steps(p)
      BY DEF Next, Steps
    <2>2. CASE s.by # p
      BY <2>1, <2>2, StorageNames, StepKeepsOthers DEF IInv, Apart2
    <2>3. CASE s.by = p /\ at'[p] # at[p]
      BY <2>3 DEF Works
    <2>4. CASE s.by = p /\ level'[p] # level[p]
      BY <2>4 DEF Works
    <2>5. CASE at'[p] = at[p] /\ level'[p] = level[p]
      BY <2>1, <2>5, StepMoves DEF IInv
    <2> QED
      BY <2>2, <2>3, <2>4, <2>5
  <1> QED
    BY <1>1, Inductive, PTL DEF Spec, Undisturbed

-----------------------------------------------------------------------------
(* What a launch meets, and what it leaves behind *)

\* Where names tell platforms apart, Terraform and the policy reach the storage the
\* state file names, unless S3 denied one that exists: of the two errors of
\* BackendFails, only the assigned role is one that a launch can meet.
THEOREM BackendReachedAlways ==
    ASSUME Apart
    PROVE  Spec => [](~missed => \A p \in Platform :
                        at[p] \in {"apply", "protect"} => Reaches(p, name[p]))
  <1>1. IInv => (~missed => \A p \in Platform :
                    at[p] \in {"apply", "protect"} => Reaches(p, name[p]))
    <2> SUFFICES ASSUME IInv, ~missed, NEW p \in Platform, at[p] \in {"apply", "protect"}
                 PROVE  Reaches(p, name[p])
      OBVIOUS
    <2>1. level[p] >= 1
      BY DEF IInv, Owns
    <2> QED
      BY <2>1 DEF IInv, Usable
  <1> QED
    BY <1>1, Inductive, PTL

\* What may have made a platform start over.
Spent == faults + rewinds + destroys

\* A platform has created at most one storage more than it was made to start
\* over, and none more as long as it has none recorded or at hand.
Frugal(p) ==
    /\ at[p] \in {"create", "prepare", "record"} => level[p] = 0
    /\ at[p] \in {"apply", "protect", "harden"} => level[p] >= 1
    /\ made[p] <= Spent + 1
    /\ level[p] = 0 /\ at[p] \in {"off", "find", "create"} => made[p] <= Spent
    /\ at[p] = "prepare" => new[p] \in there \/ made[p] <= Spent

LEMMA SpentIsNat ==
    ASSUME TypeOK
    PROVE  /\ Spent \in Nat /\ faults \in Nat /\ rewinds \in Nat /\ destroys \in Nat
           /\ Spent < MaxStorages
           /\ MaxStorages \in Nat
           /\ \A p \in Platform : made[p] \in Nat /\ level[p] \in 0..3 /\ at[p] \in Places
  <1>1. /\ MaxFaults \in Nat /\ MaxRewinds \in Nat /\ MaxDestroys \in Nat
        /\ faults \in 0..MaxFaults /\ rewinds \in 0..MaxRewinds /\ destroys \in 0..MaxDestroys
    BY ConstantsAssumption DEF TypeOK
  <1>2. MaxStorages \in Nat
    BY <1>1 DEF MaxStorages
  <1>3. Spent <= MaxFaults + MaxRewinds + MaxDestroys
    BY <1>1 DEF Spent
  <1>4. ASSUME NEW p \in Platform PROVE made[p] \in Nat /\ level[p] \in 0..3 /\ at[p] \in Places
    <2>1. made[p] \in 0..MaxStorages /\ level[p] \in 0..3 /\ at[p] \in Places
      BY DEF TypeOK, Level
    <2> QED
      BY <1>2, <2>1
  <1> QED
    BY <1>1, <1>2, <1>3, <1>4 DEF MaxStorages, Spent

\* What is spent is a number, before a step and after it.
LEMMA SumIsNat == ASSUME NEW f \in Nat, NEW r \in Nat, NEW d \in Nat PROVE f + r + d \in Nat
  OBVIOUS

LEMMA SpentStaysNat == ASSUME TypeOK' PROVE Spent' \in Nat
  <1>1. faults' \in 0..MaxFaults /\ rewinds' \in 0..MaxRewinds /\ destroys' \in 0..MaxDestroys
    BY DEF TypeOK
  <1>2. faults' \in Nat /\ rewinds' \in Nat /\ destroys' \in Nat
    BY <1>1, ConstantsAssumption
  <1>3. faults' + rewinds' + destroys' \in Nat
    BY <1>2, SumIsNat
  <1> QED
    BY <1>3 DEF Spent

\* A step of another platform: storages only come, or go by a destroy.
LEMMA FrugalOther ==
    ASSUME TypeOK, TypeOK', NEW p \in Platform, Frugal(p),
           at'[p] = at[p], level'[p] = level[p], made'[p] = made[p], new'[p] = new[p],
           Spent' = Spent + 1 \/ (Spent' >= Spent /\ there \subseteq there')
    PROVE  Frugal(p)'
  <1>1. Spent \in Nat /\ made[p] \in Nat
    BY SpentIsNat
  <1>2. Spent' \in Nat
    BY SpentStaysNat
  <1> HIDE DEF Spent
  <1> QED
    BY <1>1, <1>2 DEF Frugal

LEMMA FrugalStep ==
    ASSUME TypeOK, TypeOK', \A q \in Platform : Frugal(q), NEW p \in Platform, Steps(p)
    PROVE  \A q \in Platform : Frugal(q)'
  <1>. USE DEF Goto
  <1>0. /\ Spent \in Nat /\ Spent' \in Nat /\ made[p] \in Nat /\ level[p] \in 0..3
        /\ faults \in Nat /\ rewinds \in Nat /\ destroys \in Nat
    BY SpentIsNat, SpentStaysNat
  <1>1. ASSUME NEW q \in Platform, q # p
        PROVE  at'[q] = at[q] /\ level'[q] = level[q] /\ made'[q] = made[q] /\ new'[q] = new[q]
    BY <1>1 DEF Steps, Engineer, Proceed, FindMisses, CreateFails, Fail, Launch, DestroyPlatform, Rewind,
         KeepName, FindOther, Create, Prepare, PrepareFails, Record, Apply, Protect,
         BackendFails, Harden, Raise, TypeOK
  <1>2. ASSUME Spent' = Spent + 1 \/ (Spent' >= Spent /\ there \subseteq there'), Frugal(p)'
        PROVE  \A q \in Platform : Frugal(q)'
    BY <1>1, <1>2, FrugalOther
  <1>3. Frugal(p)
    OBVIOUS
  <1>4. ASSUME UNCHANGED <<there, bounds>>, Frugal(p)' PROVE \A q \in Platform : Frugal(q)'
    BY <1>0, <1>2, <1>4 DEF bounds, Spent
  <1>5. ASSUME Spent' = Spent + 1, Frugal(p)' PROVE \A q \in Platform : Frugal(q)'
    BY <1>2, <1>5
  <1>6. UNCHANGED bounds => Spent' = Spent
    BY DEF bounds, Spent
  <1>7. CASE Launch(p)
    <2>1. /\ at'[p] = "find" /\ level'[p] = level[p] /\ made'[p] = made[p] /\ at[p] = "off"
          /\ UNCHANGED <<there, bounds>>
      BY <1>7 DEF Launch, TypeOK, storage
    <2> QED
      BY <1>3, <1>4, <1>6, <2>1 DEF Frugal
  <1>8. CASE KeepName(p) \/ FindOther(p)
    <2>1. /\ at'[p] = AfterFind(p) /\ level'[p] = level[p] /\ made'[p] = made[p] /\ at[p] = "find"
          /\ UNCHANGED <<there, bounds>>
      BY <1>8 DEF KeepName, FindOther, Discover, TypeOK, storage
    <2> QED
      BY <1>0, <1>3, <1>4, <1>6, <2>1, AfterFindIs DEF Frugal
  <1>9. CASE Prepare(p)
    <2>1. /\ at'[p] = "record" /\ level'[p] = level[p] /\ made'[p] = made[p] /\ at[p] = "prepare"
          /\ UNCHANGED <<there, bounds>>
      BY <1>9 DEF Prepare, TypeOK
    <2> QED
      BY <1>0, <1>3, <1>4, <1>6, <2>1 DEF Frugal
  <1>10. CASE Record(p) \/ Apply(p) \/ Protect(p) \/ Harden(p)
    <2>1. /\ at'[p] \in {"apply", "protect", "harden", "off"} /\ level'[p] >= 1 /\ made'[p] = made[p]
          /\ UNCHANGED <<there, bounds>>
      BY <1>0, <1>3, <1>10 DEF Record, Apply, Protect, Harden, Writes, TypeOK, Frugal, storage
    <2> QED
      BY <1>0, <1>3, <1>4, <1>6, <2>1 DEF Frugal
  <1>11. CASE PrepareFails(p)
    <2>1. /\ at'[p] = "off" /\ level'[p] = level[p] /\ made'[p] = made[p]
          /\ at[p] = "prepare" /\ new[p] \notin there /\ UNCHANGED <<there, bounds>>
      BY <1>11 DEF PrepareFails, Raise, TypeOK, storage
    <2> QED
      BY <1>0, <1>3, <1>4, <1>6, <2>1 DEF Frugal
  <1>12. CASE BackendFails(p)
    <2>1. /\ at'[p] = "off" /\ level'[p] = level[p] /\ made'[p] = made[p]
          /\ at[p] \in {"apply", "protect"} /\ UNCHANGED <<there, bounds>>
      BY <1>12 DEF BackendFails, Raise, TypeOK, storage
    <2> QED
      BY <1>0, <1>3, <1>4, <1>6, <2>1 DEF Frugal
  <1>13. CASE Create(p)
    <2>1. /\ at[p] = "create" /\ at'[p] = "prepare" /\ level'[p] = level[p]
          /\ made'[p] = made[p] + 1 /\ new'[p] = Fresh(p) /\ there' = there \cup {Fresh(p)}
          /\ UNCHANGED bounds
      BY <1>13 DEF Create, TypeOK
    <2>2. Spent' >= Spent /\ there \subseteq there'
      BY <1>0, <1>6, <2>1
    <2> QED
      BY <1>0, <1>2, <1>3, <1>6, <2>1, <2>2 DEF Frugal
  <1>14. CASE FindMisses(p) \/ CreateFails(p) \/ Fail(p) \/ DestroyPlatform(p) \/ \E l \in Level : Rewind(p, l)
    <2>1. Spent' = Spent + 1
      BY <1>0, <1>14 DEF FindMisses, CreateFails, Fail, DestroyPlatform, Rewind, Spent
    <2>2. CASE FindMisses(p)
      <3>1. at'[p] = AfterFind(p) /\ level'[p] = level[p] /\ made'[p] = made[p] /\ at[p] = "find"
        BY <2>2 DEF FindMisses, TypeOK
      <3> QED
        BY <1>0, <1>3, <1>5, <2>1, <3>1, AfterFindIs DEF Frugal
    <2>3. CASE CreateFails(p)
      <3>1. at'[p] = "prepare" /\ level'[p] = level[p] /\ made'[p] = made[p] + 1 /\ at[p] = "create"
        BY <2>3 DEF CreateFails, TypeOK
      <3> QED
        BY <1>0, <1>3, <1>5, <2>1, <3>1 DEF Frugal
    <2>4. CASE Fail(p) \/ DestroyPlatform(p)
      <3>1. at'[p] = "off" /\ made'[p] = made[p]
        BY <2>4 DEF Fail, DestroyPlatform, TypeOK
      <3> QED
        BY <1>0, <1>3, <1>5, <2>1, <3>1 DEF Frugal
    <2>5. CASE \E l \in Level : Rewind(p, l)
      <3>1. at'[p] = "find" /\ made'[p] = made[p]
        BY <2>5 DEF Rewind, TypeOK
      <3> QED
        BY <1>0, <1>3, <1>5, <2>1, <3>1 DEF Frugal
    <2> QED
      BY <1>14, <2>2, <2>3, <2>4, <2>5
  <1> QED
    BY <1>7, <1>8, <1>9, <1>10, <1>11, <1>12, <1>13, <1>14 DEF Steps, Engineer, Proceed

\* What setup leaves in the cloud account is bounded by what went wrong: a new
\* storage is created only after a fault, a restart or a destroy. The guard of
\* Create, made[p] < MaxStorages, therefore cuts off no behaviour.
THEOREM FrugalAlways ==
    Spec => [](\A p \in Platform : /\ made[p] <= 1 + faults + rewinds + destroys
                                   /\ at[p] = "create" => made[p] < MaxStorages)
  <1>. DEFINE AllFrugal == \A p \in Platform : Frugal(p)
              Bounded == \A p \in Platform : /\ made[p] <= 1 + faults + rewinds + destroys
                                             /\ at[p] = "create" => made[p] < MaxStorages
  <1>1. Init => AllFrugal
    <2> SUFFICES ASSUME Init, NEW p \in Platform PROVE Frugal(p)
      OBVIOUS
    <2>1. at[p] = "off" /\ level[p] = 0 /\ made[p] = 0 /\ Spent = 0
      BY DEF Init, Spent
    <2> QED
      BY <2>1 DEF Frugal
  <1>2. TypeOK /\ AllFrugal /\ [Next]_vars => AllFrugal'
    <2> SUFFICES ASSUME TypeOK, AllFrugal, [Next]_vars PROVE AllFrugal'
      OBVIOUS
    <2>1. TypeOK'
      BY StepTypeOK
    <2>2. CASE UNCHANGED vars
      BY <2>2 DEF vars, local, storage, bounds, Frugal, Spent
    <2>3. CASE Next
      <3>1. PICK p \in Platform : Steps(p)
        BY <2>3 DEF Next, Steps
      <3> QED
        BY <2>1, <3>1, FrugalStep
    <2> QED
      BY <2>2, <2>3
  <1>3. TypeOK /\ AllFrugal => Bounded
    <2> SUFFICES ASSUME TypeOK, NEW p \in Platform, Frugal(p)
                 PROVE  /\ made[p] <= 1 + faults + rewinds + destroys
                        /\ at[p] = "create" => made[p] < MaxStorages
      OBVIOUS
    <2>1. /\ Spent \in Nat /\ made[p] \in Nat /\ MaxStorages \in Nat /\ Spent < MaxStorages
          /\ faults \in Nat /\ rewinds \in Nat /\ destroys \in Nat
      BY SpentIsNat
    <2>2. made[p] <= Spent + 1 /\ (at[p] = "create" => made[p] <= Spent)
      BY DEF Frugal
    <2> QED
      BY <2>1, <2>2 DEF Spent
  <1> QED
    BY TypeCorrect, <1>1, <1>2, <1>3, PTL DEF Spec
=============================================================================
