----------------------------- MODULE RoleStore -----------------------------
(***************************************************************************)
(* PersistentRoleStore (InMemoryRoleStore.cs): the roles of every user in   *)
(* memory, and a JSON file that follows them.                               *)
(*                                                                         *)
(* An operation changes the list of a user under the lock of that list,     *)
(* and then starts a task that writes everything to the file.  The tasks    *)
(* take turns at a gate.  A write truncates the file and serialises the     *)
(* live lists, which it does not lock; a failure is logged at most.  The    *)
(* process may end at any point: the file stays as it is, and the next      *)
(* process loads it, adds the roles of the configuration, and writes it.    *)
(*                                                                         *)
(* Which deleted entries are old enough to be purged is a choice.  An add   *)
(* that the directory rejects changes nothing and is left out, but for the  *)
(* roles of the configuration, which may be rejected as well.               *)
(***************************************************************************)
EXTENDS Integers, FiniteSets

CONSTANTS
    Threads,    \* requests that change roles
    Users,
    Roles,
    Seeds,      \* pairs of user and role in the configuration
    None,
    MaxOps,     \* bound: operations in a behaviour
    MaxCrashes, \* bound: ends of the process
    MaxFailures \* bound: writes that fail

Entries == Users \X Roles

ASSUME RoleStoreAssumption ==
    /\ Seeds \subseteq Entries
    /\ None \notin Users
    /\ MaxOps \in Nat
    /\ MaxCrashes \in Nat
    /\ MaxFailures \in Nat

VARIABLES
    phase,    \* of the process: down, seeding, saving (the constructor), up
    seeds,    \* roles of the configuration that are still to be added
    roles,    \* _userRoles: roles[<<u, r>>] is none, active or deleted
    pc,       \* pc[t]: where request t is
    purge,    \* purge[t]: users whose lists it has still to look at
    removed,  \* removed[t]: whether it has purged anything
    pending,  \* tasks that have not taken _persistGate
    writer,   \* who holds the gate: None, task, constructor
    export,   \* users whose lists have still to be written
    cur,      \* the user whose list is being written
    written,  \* its entries that have been written
    shifted,  \* entries of that list were removed meanwhile
    image,    \* what has been written, until the file is closed
    file,     \* the file, when it can be read
    torn,     \* the file cannot be read
    failed,   \* the last write failed
    ops, crashes, failures

process == <<phase, seeds>>
calls   == <<pc, purge, removed>>
saving  == <<writer, export, cur, written, shifted, image>>
disk    == <<file, torn, failed>>
bounds  == <<ops, crashes, failures>>
vars    == <<process, roles, calls, pending, saving, disk, bounds>>

States == {"none", "active", "deleted"}
Lists  == [Entries -> States]
Empty  == [e \in Entries |-> "none"]

Writers == {"nobody", "task", "constructor"}

TypeOK ==
    /\ phase \in {"down", "seeding", "saving", "up"}
    /\ seeds \in SUBSET Entries
    /\ roles \in Lists
    /\ pc \in [Threads -> {"idle", "purging", "changed"}]
    /\ purge \in [Threads -> SUBSET Users]
    /\ removed \in [Threads -> BOOLEAN]
    /\ pending \in Nat
    /\ writer \in Writers
    /\ export \in SUBSET Users
    /\ cur \in Users \cup {None}
    /\ written \in SUBSET Entries
    /\ shifted \in BOOLEAN
    /\ image \in Lists
    /\ file \in Lists
    /\ torn \in BOOLEAN
    /\ failed \in BOOLEAN
    /\ ops \in Nat /\ crashes \in Nat /\ failures \in Nat

ListOf(u) == {e \in Entries : e[1] = u /\ roles[e] # "none"}

Init ==
    /\ phase = "down"
    /\ seeds = {}
    /\ roles = Empty
    /\ pc = [t \in Threads |-> "idle"]
    /\ purge = [t \in Threads |-> {}]
    /\ removed = [t \in Threads |-> FALSE]
    /\ pending = 0
    /\ writer = "nobody"
    /\ export = {}
    /\ cur = None
    /\ written = {}
    /\ shifted = FALSE
    /\ image = Empty
    /\ file \in Lists
    /\ torn = FALSE
    /\ failed = FALSE
    /\ ops = 0 /\ crashes = 0 /\ failures = 0

-----------------------------------------------------------------------------
(* The constructor *)

\* A file that is torn, or cannot be opened, counts as none.
Load ==
    /\ phase = "down"
    /\ phase' = "seeding"
    /\ seeds' = Seeds
    /\ \/ /\ ~torn
          /\ roles' = file
          /\ UNCHANGED failures
       \/ /\ torn
          /\ roles' = Empty
          /\ UNCHANGED failures
       \/ /\ failures < MaxFailures
          /\ failures' = failures + 1
          /\ roles' = Empty
    /\ UNCHANGED <<calls, pending, saving, disk, ops, crashes>>

\* AddToRole of the constructor: starts a task, or is rejected by the directory.
Seed(e) ==
    /\ phase = "seeding"
    /\ e \in seeds
    /\ seeds' = seeds \ {e}
    /\ \/ /\ roles' = [roles EXCEPT ![e] = "active"]
          /\ pending' = pending + 1
       \/ UNCHANGED <<roles, pending>>
    /\ UNCHANGED <<phase, calls, saving, disk, bounds>>

\* The constructor goes on to Persist.
Seeded ==
    /\ phase = "seeding"
    /\ seeds = {}
    /\ phase' = "saving"
    /\ UNCHANGED <<seeds, roles, calls, pending, saving, disk, bounds>>

-----------------------------------------------------------------------------
(* The operations.  What an operation leaves behind is in the list of u at  *)
(* once; the task is started later, outside the lock.                       *)

Start(t) == phase = "up" /\ pc[t] = "idle" /\ ops < MaxOps /\ ops' = ops + 1

\* AddToRole starts a task even if nothing has changed.
AddToRole(t, e) ==
    /\ Start(t)
    /\ roles' = [roles EXCEPT ![e] = "active"]
    /\ pc' = [pc EXCEPT ![t] = "changed"]
    /\ UNCHANGED <<process, purge, removed, pending, saving, disk, crashes, failures>>

\* RestoreRole
RestoreRole(t, e) ==
    /\ Start(t)
    /\ roles[e] = "deleted"
    /\ roles' = [roles EXCEPT ![e] = "active"]
    /\ pc' = [pc EXCEPT ![t] = "changed"]
    /\ UNCHANGED <<process, purge, removed, pending, saving, disk, crashes, failures>>

\* RemoveFromRole
RemoveFromRole(t, e) ==
    /\ Start(t)
    /\ roles[e] = "active"
    /\ roles' = [roles EXCEPT ![e] = "deleted"]
    /\ pc' = [pc EXCEPT ![t] = "changed"]
    /\ UNCHANGED <<process, purge, removed, pending, saving, disk, crashes, failures>>

\* RemoveUser
RemoveUser(t, u) ==
    /\ Start(t)
    /\ \E e \in ListOf(u) : roles[e] = "active"
    /\ roles' = [e \in Entries |->
                   IF e[1] = u /\ roles[e] = "active" THEN "deleted" ELSE roles[e]]
    /\ pc' = [pc EXCEPT ![t] = "changed"]
    /\ UNCHANGED <<process, purge, removed, pending, saving, disk, crashes, failures>>

\* PurgeDeleted looks at one list after the other.
PurgeBegin(t) ==
    /\ Start(t)
    /\ pc' = [pc EXCEPT ![t] = "purging"]
    /\ purge' = [purge EXCEPT ![t] = Users]
    /\ removed' = [removed EXCEPT ![t] = FALSE]
    /\ UNCHANGED <<process, roles, pending, saving, disk, crashes, failures>>

\* Mutant: only what the last list held counts.
PurgedMutant(t, doomed) == doomed # {}

Purged(t, doomed) == removed[t] \/ doomed # {}

PurgeList(t, u) ==
    /\ pc[t] = "purging"
    /\ u \in purge[t]
    /\ purge' = [purge EXCEPT ![t] = @ \ {u}]
    /\ \E doomed \in SUBSET {e \in ListOf(u) : roles[e] = "deleted"} :
         /\ roles' = [e \in Entries |-> IF e \in doomed THEN "none" ELSE roles[e]]
         /\ removed' = [removed EXCEPT ![t] = Purged(t, doomed)]
         /\ shifted' = (shifted \/ (u = cur /\ doomed # {}))
    /\ UNCHANGED <<process, pc, pending, writer, export, cur, written, image, disk,
                   bounds>>

PurgeEnd(t) ==
    /\ pc[t] = "purging"
    /\ purge[t] = {}
    /\ pc' = [pc EXCEPT ![t] = IF removed[t] THEN "changed" ELSE "idle"]
    /\ removed' = [removed EXCEPT ![t] = FALSE]
    /\ UNCHANGED <<process, roles, purge, pending, saving, disk, bounds>>

\* Mutant: no task is started while another writes.
StartedMutant == IF writer = "nobody" THEN pending + 1 ELSE pending

Started == pending + 1

\* Task.Run(() => Persist(null))
StartTask(t) ==
    /\ pc[t] = "changed"
    /\ pc' = [pc EXCEPT ![t] = "idle"]
    /\ pending' = Started
    /\ UNCHANGED <<process, roles, purge, removed, saving, disk, bounds>>

-----------------------------------------------------------------------------
(* Persist *)

\* Who takes the gate: one of the tasks, or the constructor.
Take ==
    /\ phase # "down"
    /\ writer = "nobody"
    /\ \/ /\ pending > 0
          /\ pending' = pending - 1
          /\ writer' = "task"
       \/ /\ phase = "saving"
          /\ writer' = "constructor"
          /\ UNCHANGED pending

\* The lists are collected, and the file is truncated.  A list that is empty is
\* written or not: it comes to the same.
SaveBegin ==
    /\ Take
    /\ export' \in {s \in SUBSET Users : \A u \in Users : ListOf(u) # {} => u \in s}
    /\ image' = Empty
    /\ torn' = TRUE
    /\ UNCHANGED <<process, roles, calls, cur, written, shifted, file, failed, bounds>>

ListBegin(u) ==
    /\ writer # "nobody"
    /\ cur = None
    /\ u \in export
    /\ export' = export \ {u}
    /\ cur' = u
    /\ written' = {}
    /\ shifted' = FALSE
    /\ UNCHANGED <<process, roles, calls, pending, writer, image, disk, bounds>>

WriteEntry(e) ==
    /\ cur # None
    /\ e \in ListOf(cur) \ written
    /\ image' = [image EXCEPT ![e] = roles[e]]
    /\ written' = written \cup {e}
    /\ UNCHANGED <<process, roles, calls, pending, writer, export, cur, shifted, disk,
                   bounds>>

\* The serialiser counts with an index: once entries have been removed it may miss
\* some of those that are left.
ListEnd ==
    /\ cur # None
    /\ ListOf(cur) \subseteq written \/ shifted
    /\ cur' = None
    /\ written' = {}
    /\ shifted' = FALSE
    /\ UNCHANGED <<process, roles, calls, pending, writer, export, image, disk, bounds>>

Release ==
    /\ writer' = "nobody"
    /\ phase' = IF writer = "constructor" THEN "up" ELSE phase
    /\ export' = {}
    /\ cur' = None
    /\ written' = {}
    /\ shifted' = FALSE
    /\ image' = Empty

SaveEnd ==
    /\ writer # "nobody"
    /\ cur = None
    /\ export = {}
    /\ Release
    /\ file' = image
    /\ torn' = FALSE
    /\ failed' = FALSE
    /\ UNCHANGED <<seeds, roles, calls, pending, bounds>>

\* The index runs past the end of a list that has shrunk: the exception leaves the
\* file torn.
Overrun ==
    /\ cur # None
    /\ shifted
    /\ Release
    /\ UNCHANGED <<seeds, roles, calls, pending, disk, bounds>>

Fail == failures < MaxFailures /\ failures' = failures + 1 /\ failed' = TRUE

\* The file cannot be opened.
OpenFails ==
    /\ writer = "nobody"
    /\ Fail
    /\ \/ /\ pending > 0
          /\ pending' = pending - 1
          /\ UNCHANGED phase
       \/ /\ phase = "saving"
          /\ phase' = "up"
          /\ UNCHANGED pending
    /\ UNCHANGED <<seeds, roles, calls, saving, file, torn, ops, crashes>>

WriteFails ==
    /\ writer # "nobody"
    /\ Fail
    /\ Release
    /\ UNCHANGED <<seeds, roles, calls, pending, file, torn, ops, crashes>>

-----------------------------------------------------------------------------
(* The process ends: memory, tasks and requests are gone, the file stays as  *)
(* it is.                                                                    *)

Crash ==
    /\ phase # "down"
    /\ crashes < MaxCrashes
    /\ crashes' = crashes + 1
    /\ phase' = "down"
    /\ seeds' = {}
    /\ roles' = Empty
    /\ pc' = [t \in Threads |-> "idle"]
    /\ purge' = [t \in Threads |-> {}]
    /\ removed' = [t \in Threads |-> FALSE]
    /\ pending' = 0
    /\ writer' = "nobody"
    /\ export' = {}
    /\ cur' = None
    /\ written' = {}
    /\ shifted' = FALSE
    /\ image' = Empty
    /\ failed' = FALSE
    /\ UNCHANGED <<file, torn, ops, failures>>

Owes(t) == pc[t] = "changed" \/ removed[t]

Quiet ==
    /\ phase = "up"
    /\ \A t \in Threads : pc[t] = "idle"
    /\ pending = 0
    /\ writer = "nobody"

\* Nobody asks for anything.
Rest == Quiet /\ UNCHANGED vars

Constructor == Load \/ Seeded \/ \E e \in Entries : Seed(e)

Request(t) ==
    \/ \E e \in Entries : AddToRole(t, e) \/ RestoreRole(t, e) \/ RemoveFromRole(t, e)
    \/ \E u \in Users : RemoveUser(t, u)
    \/ PurgeBegin(t)

Continue(t) == PurgeEnd(t) \/ StartTask(t) \/ \E u \in Users : PurgeList(t, u)

Save ==
    \/ SaveBegin
    \/ \E u \in Users : ListBegin(u)
    \/ \E e \in Entries : WriteEntry(e)
    \/ ListEnd
    \/ SaveEnd

Next ==
    \/ Constructor
    \/ \E t \in Threads : Request(t) \/ Continue(t)
    \/ Save
    \/ Overrun
    \/ OpenFails
    \/ WriteFails
    \/ Crash
    \/ Rest

Spec == Init /\ [][Next]_vars

(***************************************************************************)
(* Fairness: the constructor and a request that has begun go on, and the    *)
(* thread pool runs the tasks.  Nobody has to ask for anything.             *)
(***************************************************************************)
FairSpec ==
    /\ Spec
    /\ WF_vars(Constructor)
    /\ \A t \in Threads : WF_vars(Continue(t))
    /\ WF_vars(Save)

-----------------------------------------------------------------------------
(***************************************************************************)
(* Properties.                                                              *)
(***************************************************************************)

\* Whatever changed while the lists were being written, once nobody is at work
\* the file holds what the memory holds, unless the last write failed: a write
\* that was overtaken is followed by another one (InMemoryRoleStore.cs:325-336).
QuietIsSaved == Quiet /\ ~failed => ~torn /\ file = roles

Saved == ~torn /\ file = roles

\* A change reaches the file in the end, unless a write fails or the process ends
\* first: no task is lost at the gate, and no purge forgets to start one
\* (InMemoryRoleStore.cs:333, 336).
ChangesAreSaved == phase = "up" /\ ~Saved ~> Saved \/ failed \/ phase = "down"
=============================================================================
