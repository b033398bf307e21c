-------------------------- MODULE RoleStoreProofs --------------------------
(***************************************************************************)
(* The file of the role store follows the memory, for any number of         *)
(* requests, users, roles, crashes and failures.                            *)
(*                                                                         *)
(* Every change is owed: by the request that made it, until it starts its   *)
(* task, and then by the task, until it takes the gate.  While a write is   *)
(* under way, either something is owed, or all that has been written is     *)
(* what the memory holds.                                                   *)
(***************************************************************************)
EXTENDS RoleStore, TLAPS

Owed == pending > 0 \/ \E t \in Threads : Owes(t)

Shape ==
    /\ writer = "nobody" => cur = None
    /\ cur = None => written = {} /\ ~shifted
    /\ cur \notin export
    /\ \A e \in written : e[1] = cur
    /\ phase = "down" => writer = "nobody"
    /\ \A t \in Threads : removed[t] => pc[t] = "purging"

\* A purge that shifts a list under the serialiser owes a write.
ShiftOwed == shifted => Owed

\* What has not been written is blank.
Blank ==
    writer # "nobody" =>
        \A e \in Entries : e[1] \in export \/ (e[1] = cur /\ e \notin written) =>
            image[e] = "none"

\* What has been written is what the memory holds.
Faithful ==
    writer # "nobody" /\ ~Owed =>
        \A e \in Entries : e[1] \notin export /\ (e[1] = cur => e \in written) =>
            image[e] = roles[e]

FileFaithful == phase = "up" /\ writer = "nobody" /\ ~failed /\ ~Owed => Saved

SaveInv == Shape /\ ShiftOwed /\ Blank /\ Faithful /\ FileFaithful

IInv == TypeOK /\ SaveInv

-----------------------------------------------------------------------------
(* Type correctness *)

LEMMA EmptyIsList == Empty \in Lists
  BY DEF Empty, Lists, States

\* The requests of a process that has just begun.
LEMMA FreshCalls ==
    /\ [t \in Threads |-> "idle"] \in [Threads -> {"idle", "purging", "changed"}]
    /\ [t \in Threads |-> {}] \in [Threads -> SUBSET Users]
    /\ [t \in Threads |-> FALSE] \in [Threads -> BOOLEAN]
  OBVIOUS

LEMMA InitTypes == Init => TypeOK
  <1> SUFFICES ASSUME Init
               PROVE  TypeOK
    OBVIOUS
  <1>1. /\ pc \in [Threads -> {"idle", "purging", "changed"}]
        /\ purge \in [Threads -> SUBSET Users]
        /\ removed \in [Threads -> BOOLEAN]
    BY FreshCalls, Zenon DEF Init
  <1> QED
    BY <1>1, EmptyIsList DEF Init, TypeOK, Writers

LEMMA ConstructorTypes == TypeOK /\ Constructor => TypeOK'
  <1> SUFFICES ASSUME TypeOK, Constructor
               PROVE  TypeOK'
    OBVIOUS
  <1> USE DEF TypeOK, bounds, calls, saving, disk
  <1>1. CASE Load
    BY <1>1, EmptyIsList, RoleStoreAssumption DEF Load, RoleStoreAssumption
  <1>2. CASE Seeded
    BY <1>2 DEF Seeded
  <1>3. ASSUME NEW e \in Entries, Seed(e)
        PROVE  TypeOK'
    BY <1>3 DEF Seed, Lists, States
  <1> QED
    BY <1>1, <1>2, <1>3 DEF Constructor

LEMMA RequestTypes == ASSUME TypeOK, NEW t \in Threads, Request(t)
                      PROVE  TypeOK'
  <1> USE DEF TypeOK, process, saving, disk, Start
  <1>1. ASSUME NEW e \in Entries, AddToRole(t, e) \/ RestoreRole(t, e) \/ RemoveFromRole(t, e)
        PROVE  TypeOK'
    BY <1>1 DEF AddToRole, RestoreRole, RemoveFromRole, Lists, States
  <1>2. ASSUME NEW u \in Users, RemoveUser(t, u)
        PROVE  TypeOK'
    BY <1>2 DEF RemoveUser, Lists, States
  <1>3. CASE PurgeBegin(t)
    BY <1>3 DEF PurgeBegin
  <1> QED
    BY <1>1, <1>2, <1>3 DEF Request

LEMMA ContinueTypes == ASSUME TypeOK, NEW t \in Threads, Continue(t)
                       PROVE  TypeOK'
  <1> USE DEF TypeOK, process, saving, disk, bounds
  <1>1. CASE PurgeEnd(t)
    BY <1>1 DEF PurgeEnd
  <1>2. CASE StartTask(t)
    BY <1>2 DEF StartTask, Started
  <1>3. ASSUME NEW u \in Users, PurgeList(t, u)
        PROVE  TypeOK'
    BY <1>3 DEF PurgeList, Purged, Lists, States
  <1> QED
    BY <1>1, <1>2, <1>3 DEF Continue

LEMMA SaveTypes == TypeOK /\ (Save \/ Overrun \/ OpenFails \/ WriteFails) => TypeOK'
  <1> SUFFICES ASSUME TypeOK, Save \/ Overrun \/ OpenFails \/ WriteFails
               PROVE  TypeOK'
    OBVIOUS
  <1> USE DEF TypeOK, process, calls, bounds, disk, Writers
  <1>1. CASE SaveBegin
    BY <1>1, EmptyIsList DEF SaveBegin, Take
  <1>2. ASSUME NEW u \in Users, ListBegin(u)
        PROVE  TypeOK'
    BY <1>2 DEF ListBegin
  <1>3. ASSUME NEW e \in Entries, WriteEntry(e)
        PROVE  TypeOK'
    BY <1>3 DEF WriteEntry, Lists, States
  <1>4. CASE ListEnd
    BY <1>4 DEF ListEnd
  <1>5. CASE SaveEnd
    BY <1>5, EmptyIsList DEF SaveEnd, Release
  <1>6. CASE Overrun
    BY <1>6, EmptyIsList DEF Overrun, Release
  <1>7. CASE OpenFails
    BY <1>7 DEF OpenFails, Fail, saving
  <1>8. CASE WriteFails
    <2>1. failures' \in Nat /\ failed' = TRUE /\ UNCHANGED <<ops, crashes, file, torn>>
      BY <1>8 DEF WriteFails, Fail
    <2>2. phase' \in {"up", phase} /\ writer' = "nobody"
      BY <1>8 DEF WriteFails, Release
    <2>3. /\ export' = {} /\ cur' = None /\ written' = {} /\ shifted' = FALSE
          /\ image' \in Lists
      BY <1>8, EmptyIsList DEF WriteFails, Release
    <2>4. UNCHANGED <<seeds, roles, calls, pending>>
      BY <1>8 DEF WriteFails
    <2> QED
      BY <2>1, <2>2, <2>3, <2>4
  <1> QED
    BY <1>1, <1>2, <1>3, <1>4, <1>5, <1>6, <1>7, <1>8 DEF Save

LEMMA NextTypes == TypeOK /\ [Next]_vars => TypeOK'
  <1> SUFFICES ASSUME TypeOK, [Next]_vars
               PROVE  TypeOK'
    OBVIOUS
  <1>1. CASE Crash
    <2>1. /\ pc' \in [Threads -> {"idle", "purging", "changed"}]
          /\ purge' \in [Threads -> SUBSET Users]
          /\ removed' \in [Threads -> BOOLEAN]
      BY <1>1, FreshCalls, Zenon DEF Crash
    <2>2. /\ phase' = "down" /\ seeds' = {} /\ pending' = 0 /\ writer' = "nobody"
          /\ export' = {} /\ cur' = None /\ written' = {} /\ shifted' = FALSE
          /\ failed' = FALSE
      BY <1>1 DEF Crash
    <2>3. roles' \in Lists /\ image' \in Lists /\ file' \in Lists
      BY <1>1, EmptyIsList DEF Crash, TypeOK
    <2>4. torn' \in BOOLEAN /\ ops' \in Nat /\ crashes' \in Nat /\ failures' \in Nat
      BY <1>1 DEF Crash, TypeOK
    <2> QED
      BY <2>1, <2>2, <2>3, <2>4 DEF TypeOK, Writers
  <1>2. CASE UNCHANGED vars
    BY <1>2 DEF TypeOK, vars, process, calls, saving, disk, bounds
  <1>3. CASE Rest
    BY <1>2, <1>3 DEF Rest
  <1> QED
    BY <1>1, <1>2, <1>3, ConstructorTypes, RequestTypes, ContinueTypes, SaveTypes DEF Next

THEOREM TypeCorrect == Spec => []TypeOK
  BY InitTypes, NextTypes, PTL DEF Spec

-----------------------------------------------------------------------------
(* The file follows the memory *)

LEMMA EntryParts == \A e \in Entries : e[1] \in Users
  BY DEF Entries

LEMMA InitSaves == Init => SaveInv
  BY DEF Init, SaveInv, Shape, ShiftOwed, Blank, Faithful, FileFaithful

\* A step of a request or of the constructor that owes a write afterwards.
LEMMA OwingStep ==
    ASSUME Shape, Blank, Owed',
           UNCHANGED <<writer, export, cur, written, image>>,
           phase' = phase,
           shifted' => shifted \/ cur # None,
           \A t \in Threads : removed'[t] => pc'[t] = "purging"
    PROVE  SaveInv'
  BY DEF SaveInv, Shape, ShiftOwed, Blank, Faithful, FileFaithful

\* A step that changes neither memory nor file, and settles no debt.
LEMMA IdleStep ==
    ASSUME SaveInv, Owed => Owed',
           UNCHANGED <<saving, roles, disk>>,
           phase' = phase \/ phase' \in {"seeding", "saving"},
           \A t \in Threads : removed'[t] => pc'[t] = "purging"
    PROVE  SaveInv'
  BY DEF SaveInv, Shape, ShiftOwed, Blank, Faithful, FileFaithful, saving, disk, Saved

\* Whoever asks for a change owes it at once.
LEMMA RequestSaves ==
    ASSUME TypeOK, SaveInv, NEW t \in Threads, Request(t)
    PROVE  SaveInv'
  <1>1. /\ UNCHANGED <<saving, pending, phase, disk>>
        /\ pc[t] = "idle"
        /\ \A s \in Threads : s # t => pc'[s] = pc[s] /\ removed'[s] = removed[s]
    BY DEF Request, AddToRole, RestoreRole, RemoveFromRole, RemoveUser, PurgeBegin, Start,
       process, TypeOK
  <1>2. ~removed[t] /\ ~removed'[t]
    BY <1>1 DEF Request, AddToRole, RestoreRole, RemoveFromRole, RemoveUser, PurgeBegin,
       SaveInv, Shape, TypeOK
  <1>3. \A s \in Threads : removed'[s] => pc'[s] = "purging"
    BY <1>1, <1>2 DEF SaveInv, Shape
  <1>4. CASE PurgeBegin(t)
    <2>1. roles' = roles /\ pc'[t] = "purging"
      BY <1>4 DEF PurgeBegin, TypeOK
    <2>2. Owed => Owed'
      BY <1>1, <1>2, <2>1 DEF Owed, Owes
    <2> QED
      BY <1>1, <1>3, <2>1, <2>2, IdleStep
  <1>5. CASE ~PurgeBegin(t)
    <2>1. pc'[t] = "changed"
      BY <1>5 DEF Request, AddToRole, RestoreRole, RemoveFromRole, RemoveUser, TypeOK
    <2>2. Owed'
      BY <2>1 DEF Owed, Owes
    <2> QED
      BY <1>1, <1>3, <2>2, OwingStep DEF SaveInv, saving
  <1> QED
    BY <1>4, <1>5

\* A purge owes from the first entry it removes; a task takes the debt over.
LEMMA ContinueSaves ==
    ASSUME TypeOK, SaveInv, NEW t \in Threads, Continue(t)
    PROVE  SaveInv'
  <1>1. CASE PurgeEnd(t)
    <2>1. /\ UNCHANGED <<saving, roles, disk, phase, pending>>
          /\ \A s \in Threads : s # t => pc'[s] = pc[s] /\ removed'[s] = removed[s]
          /\ removed[t] => pc'[t] = "changed"
          /\ pc[t] = "purging" /\ ~removed'[t]
      BY <1>1 DEF PurgeEnd, process, TypeOK
    <2>2. Owed => Owed'
      BY <2>1 DEF Owed, Owes
    <2>3. \A s \in Threads : removed'[s] => pc'[s] = "purging"
      BY <2>1 DEF SaveInv, Shape
    <2> QED
      BY <2>1, <2>2, <2>3, IdleStep
  <1>2. CASE StartTask(t)
    <2>1. /\ UNCHANGED <<saving, roles, disk, phase, removed>>
          /\ pending' > 0
          /\ \A s \in Threads : s # t => pc'[s] = pc[s]
          /\ pc[t] = "changed"
      BY <1>2 DEF StartTask, Started, process, TypeOK
    <2>2. Owed'
      BY <2>1 DEF Owed
    <2>3. \A s \in Threads : removed'[s] => pc'[s] = "purging"
      BY <2>1 DEF SaveInv, Shape
    <2> QED
      BY <2>1, <2>2, <2>3, IdleStep
  <1>3. ASSUME NEW u \in Users, PurgeList(t, u)
        PROVE  SaveInv'
    <2> PICK doomed \in SUBSET {e \in ListOf(u) : roles[e] = "deleted"} :
          /\ roles' = [e \in Entries |-> IF e \in doomed THEN "none" ELSE roles[e]]
          /\ removed' = [removed EXCEPT ![t] = Purged(t, doomed)]
          /\ shifted' = (shifted \/ (u = cur /\ doomed # {}))
      BY <1>3 DEF PurgeList
    <2>1. /\ UNCHANGED <<writer, export, cur, written, image, disk, phase, pc, pending>>
          /\ pc[t] = "purging"
      BY <1>3 DEF PurgeList, process
    <2>2. \A s \in Threads : removed'[s] => pc'[s] = "purging"
      BY <2>1 DEF SaveInv, Shape, TypeOK
    <2>3. CASE doomed = {}
      <3>1. roles' = roles
        BY <2>3 DEF TypeOK, Lists
      <3>2. shifted' = shifted
        BY <2>3 DEF TypeOK
      <3>3. Owed => Owed'
        BY <2>1, <2>3 DEF Owed, Owes, Purged, TypeOK
      <3> QED
        BY <2>1, <2>2, <3>1, <3>2, <3>3, IdleStep DEF saving
    <2>4. CASE doomed # {}
      <3>1. removed'[t]
        BY <2>4 DEF Purged, TypeOK
      <3>2. Owed'
        BY <3>1 DEF Owed, Owes
      <3>3. shifted' => shifted \/ cur # None
        BY RoleStoreAssumption DEF RoleStoreAssumption
      <3> QED
        BY <2>1, <2>2, <3>2, <3>3, OwingStep DEF SaveInv
    <2> QED
      BY <2>3, <2>4
  <1> QED
    BY <1>1, <1>2, <1>3 DEF Continue

\* Before the process is up nothing is claimed of the file.
LEMMA ConstructorSaves == TypeOK /\ SaveInv /\ Constructor => SaveInv'
  <1> SUFFICES ASSUME TypeOK, SaveInv, Constructor
               PROVE  SaveInv'
    OBVIOUS
  <1>1. CASE Load
    BY <1>1 DEF Load, calls, saving, disk, SaveInv, Shape, ShiftOwed, Blank, Faithful,
       FileFaithful
  <1>2. CASE Seeded
    <2>1. UNCHANGED <<saving, roles, disk, calls, pending>> /\ phase' = "saving"
      BY <1>2 DEF Seeded
    <2>2. Owed' <=> Owed
      BY <2>1 DEF Owed, Owes, calls
    <2>3. \A s \in Threads : removed'[s] => pc'[s] = "purging"
      BY <2>1 DEF calls, SaveInv, Shape
    <2> QED
      BY <2>1, <2>2, <2>3, IdleStep
  <1>3. ASSUME NEW e \in Entries, Seed(e)
        PROVE  SaveInv'
    <2>1. UNCHANGED <<saving, disk, calls, phase>>
      BY <1>3 DEF Seed
    <2>2. \A s \in Threads : removed'[s] => pc'[s] = "purging"
      BY <2>1 DEF calls, SaveInv, Shape
    <2>3. CASE UNCHANGED <<roles, pending>>
      <3>1. Owed' <=> Owed
        BY <2>1, <2>3 DEF Owed, Owes, calls
      <3> QED
        BY <2>1, <2>2, <2>3, <3>1, IdleStep
    <2>4. CASE pending' = pending + 1
      <3>1. Owed'
        BY <2>4 DEF Owed, TypeOK
      <3> QED
        BY <2>1, <2>2, <3>1, OwingStep DEF SaveInv, saving
    <2> QED
      BY <1>3, <2>3, <2>4 DEF Seed
  <1> QED
    BY <1>1, <1>2, <1>3 DEF Constructor

\* The steps of a write.
LEMMA SaveSaves == TypeOK /\ SaveInv /\ Save => SaveInv'
  <1> SUFFICES ASSUME TypeOK, SaveInv, Save
               PROVE  SaveInv'
    OBVIOUS
  <1>0. CASE SaveBegin
    <2>1. /\ writer = "nobody" /\ writer' # "nobody"
          /\ export' \in {s \in SUBSET Users : \A u \in Users : ListOf(u) # {} => u \in s}
          /\ image' = Empty
          /\ UNCHANGED <<process, roles, calls, cur, written, shifted>>
      BY <1>0 DEF SaveBegin, Take
    <2>2. cur = None /\ written = {} /\ ~shifted
      BY <2>1 DEF SaveInv, Shape
    <2>3. Shape'
      <3>1. phase # "down"
        BY <1>0 DEF SaveBegin, Take
      <3> QED
        BY <2>1, <2>2, <3>1, RoleStoreAssumption DEF SaveInv, Shape, process, calls,
           RoleStoreAssumption
    <2>4. \A e \in Entries : e[1] \notin export' => roles[e] = "none"
      BY <2>1, EntryParts DEF ListOf
    <2>5. Blank' /\ Faithful'
      BY <2>1, <2>2, <2>4, EntryParts, RoleStoreAssumption DEF Blank, Faithful, Empty,
         RoleStoreAssumption
    <2> QED
      BY <2>1, <2>2, <2>3, <2>5 DEF SaveInv, ShiftOwed, FileFaithful
  <1> USE DEF Owed, Owes, calls, process
  <1>1. ASSUME NEW u \in Users, ListBegin(u)
        PROVE  SaveInv'
    <2>1. /\ writer # "nobody" /\ cur = None /\ u \in export
          /\ export' = export \ {u} /\ cur' = u /\ written' = {} /\ shifted' = FALSE
          /\ UNCHANGED <<process, roles, calls, pending, writer, image>>
      BY <1>1 DEF ListBegin
    <2>2. Shape' /\ ShiftOwed' /\ FileFaithful'
      BY <2>1, RoleStoreAssumption DEF SaveInv, Shape, ShiftOwed, FileFaithful,
         RoleStoreAssumption
    <2>3. Blank'
      BY <2>1 DEF SaveInv, Blank
    <2>4. Faithful'
      BY <2>1, EntryParts, RoleStoreAssumption DEF SaveInv, Faithful, RoleStoreAssumption
    <2> QED
      BY <2>2, <2>3, <2>4 DEF SaveInv
  <1>2. ASSUME NEW e \in Entries, WriteEntry(e)
        PROVE  SaveInv'
    <2>1. /\ image' = [image EXCEPT ![e] = roles[e]]
          /\ written' = written \cup {e}
          /\ e[1] = cur /\ cur # None /\ e \notin written
          /\ UNCHANGED <<process, roles, calls, pending, writer, export, cur, shifted>>
      BY <1>2 DEF WriteEntry, ListOf
    <2>2. Shape' /\ ShiftOwed' /\ FileFaithful'
      BY <2>1 DEF SaveInv, Shape, ShiftOwed, FileFaithful
    <2>3. Blank'
      BY <2>1 DEF SaveInv, Shape, Blank, TypeOK, Lists
    <2>4. Faithful'
      BY <2>1 DEF SaveInv, Faithful, TypeOK, Lists
    <2> QED
      BY <2>2, <2>3, <2>4 DEF SaveInv
  <1>3. CASE ListEnd
    <2>1. /\ cur # None /\ cur' = None /\ written' = {} /\ shifted' = FALSE
          /\ ListOf(cur) \subseteq written \/ shifted
          /\ UNCHANGED <<process, roles, calls, pending, writer, export, image>>
      BY <1>3 DEF ListEnd
    <2>2. Shape' /\ ShiftOwed' /\ FileFaithful' /\ Blank'
      BY <2>1, EntryParts, RoleStoreAssumption DEF SaveInv, Shape, ShiftOwed, FileFaithful,
         Blank, TypeOK, RoleStoreAssumption
    <2>3. ASSUME ~Owed, NEW e \in Entries, e[1] \notin export, writer # "nobody"
          PROVE  image[e] = roles[e]
      <3>1. CASE e[1] = cur /\ e \notin written
        <4>1. roles[e] = "none"
          BY <2>1, <2>3, <3>1 DEF ListOf, SaveInv, ShiftOwed
        <4> QED
          BY <2>3, <3>1, <4>1 DEF SaveInv, Blank
      <3> QED
        BY <2>3, <3>1 DEF SaveInv, Faithful
    <2>4. Faithful'
      BY <2>1, <2>3 DEF Faithful
    <2> QED
      BY <2>2, <2>4 DEF SaveInv
  <1>4. CASE SaveEnd
    <2>1. /\ writer # "nobody" /\ cur = None /\ export = {}
          /\ file' = image /\ torn' = FALSE
          /\ writer' = "nobody" /\ cur' = None /\ export' = {} /\ written' = {} /\ ~shifted'
          /\ UNCHANGED <<roles, calls, pending>>
          /\ phase' \in {"up", phase}
      BY <1>4 DEF SaveEnd, Release
    <2>2. ASSUME ~Owed
          PROVE  file' = roles'
      <3>1. \A e \in Entries : image[e] = roles[e]
        BY <2>1, <2>2, EntryParts, RoleStoreAssumption DEF SaveInv, Faithful,
           RoleStoreAssumption
      <3> QED
        BY <2>1, <3>1 DEF TypeOK, Lists
    <2> QED
      BY <2>1, <2>2 DEF SaveInv, Shape, ShiftOwed, Blank, Faithful, FileFaithful, Saved
  <1> QED
    BY <1>0, <1>1, <1>2, <1>3, <1>4 DEF Save

\* Writes that fail, and the end of the process.
LEMMA FailureSaves ==
    TypeOK /\ SaveInv /\ (Overrun \/ OpenFails \/ WriteFails \/ Crash) => SaveInv'
  <1> SUFFICES ASSUME TypeOK, SaveInv, Overrun \/ OpenFails \/ WriteFails \/ Crash
               PROVE  SaveInv'
    OBVIOUS
  <1> USE DEF SaveInv, Shape, ShiftOwed, Blank, Faithful, FileFaithful, Owed, Owes, calls
  <1>1. CASE Overrun
    BY <1>1 DEF Overrun, Release
  <1>2. CASE OpenFails
    BY <1>2 DEF OpenFails, Fail, saving
  <1>3. CASE WriteFails
    BY <1>3 DEF WriteFails, Fail, Release
  <1>4. CASE Crash
    BY <1>4 DEF Crash
  <1> QED
    BY <1>1, <1>2, <1>3, <1>4

LEMMA NextSaves == IInv /\ [Next]_vars => IInv'
  <1> SUFFICES ASSUME TypeOK, SaveInv, [Next]_vars
               PROVE  SaveInv'
    BY NextTypes DEF IInv
  <1>1. CASE UNCHANGED vars
    BY <1>1 DEF vars, process, calls, saving, disk, SaveInv, Shape, ShiftOwed, Blank,
       Faithful, FileFaithful, Owed, Owes, Saved
  <1>2. CASE Rest
    BY <1>1, <1>2 DEF Rest
  <1> QED
    BY <1>1, <1>2, ConstructorSaves, RequestSaves, ContinueSaves, SaveSaves, FailureSaves
    DEF Next

THEOREM Invariance == Spec => []IInv
  <1>1. Init => IInv
    BY InitTypes, InitSaves DEF IInv
  <1> QED
    BY <1>1, NextSaves, PTL DEF Spec

\* When nobody is at work and the last write did not fail, the file holds what the
\* memory holds (InMemoryRoleStore.cs:325-336).
THEOREM QuietStoreIsSaved == Spec => []QuietIsSaved
  <1>1. IInv => QuietIsSaved
    BY DEF IInv, TypeOK, SaveInv, Shape, FileFaithful, QuietIsSaved, Quiet, Owed, Owes, Saved
  <1> QED
    BY <1>1, Invariance, PTL
=============================================================================
