----------------------------- MODULE LocalStore -----------------------------
(***************************************************************************)
(* git_store.Store: the object store of one state branch, shared by the    *)
(* processes of a machine.  Users read and write under a shared flock,     *)
(* rebuild the store once when it fails and may start maintenance; cache   *)
(* prune moves a namespace nobody used aside, and maintains the others.    *)
(* The lock files live in the namespace that is moved, so a lock can       *)
(* outlive the path it was taken on.  A definition whose comment starts    *)
(* with "Fault" is no part of the model: a property must catch it.         *)
(***************************************************************************)
EXTENDS Naturals

CONSTANTS
    Users,   \* calls of mutate, read and the other entry points
    Pruners  \* calls of prune_cache

ASSUME ProcessAssumption == Users \cap Pruners = {}

Procs == Users \cup Pruners

VARIABLES
    space,  \* the namespace directory at the path
    spaces, \* directories made so far
    stores, \* stores made so far
    proc    \* where each process is, with its locals and its locks

diskVars == <<space, spaces, stores>>
vars == <<diskVars, proc>>

\* id and store are 0 for none.  lockFresh and storeFresh: store.lock and the
\* store directory are younger than the cutoff of a prune.  blamed, recent and
\* backdated are history: an operation failed on the store; a process used the
\* namespace after that cutoff; and a prune has put the stamp back since then.
Space == [id : Nat, lockFile : BOOLEAN, store : Nat, lockFresh : BOOLEAN, storeFresh : BOOLEAN,
          blamed : BOOLEAN, recent : BOOLEAN, backdated : BOOLEAN]

Files == {"store", "maintenance"}

Ended == {"done", "failed", "dead"}

\* fd is the namespace whose lock file the process opened last, staging the one
\* it makes a store in, active the store it found under its lock (active_id),
\* found whether prune saw a lock file before it locked (lock_existed).
Process ==
    [pc : {"start", "mkdir", "open", "lock", "check", "store", "rename", "work", "aside", "inspect",
           "discard", "guard", "repack"} \cup Ended,
     task : {"prepare", "use", "repair", "prune", "guard", "maintain"},
     fd : Nat, held : SUBSET (Files \X Nat), staging : Nat, active : Nat,
     repaired : BOOLEAN, found : BOOLEAN]

TypeOK ==
    /\ space \in Space
    /\ spaces \in Nat /\ space.id <= spaces
    /\ stores \in Nat /\ space.store <= stores
    /\ proc \in [Procs -> Process]

\* A directory as mkdir leaves it.
EmptySpace(n) ==
    [id |-> n, lockFile |-> FALSE, store |-> 0, lockFresh |-> FALSE, storeFresh |-> FALSE,
     blamed |-> FALSE, recent |-> FALSE, backdated |-> FALSE]

NoSpace == EmptySpace(0)

Fresh(label, t) ==
    [pc |-> label, task |-> t, fd |-> 0, held |-> {}, staging |-> 0, active |-> 0,
     repaired |-> FALSE, found |-> FALSE]

\* Nothing yet, a namespace from before the store, or one with a store; unused
\* for long.
Init ==
    /\ \/ space = NoSpace
       \/ \E b \in BOOLEAN, s \in {0, 1} : space = [EmptySpace(1) EXCEPT !.lockFile = b, !.store = s]
    /\ spaces = space.id
    /\ stores = space.store
    /\ proc = [p \in Procs |-> Fresh("start", IF p \in Users THEN "prepare" ELSE "prune")]

Exists == space.store # 0

-----------------------------------------------------------------------------
\* Control

Become(p, r) == proc' = [proc EXCEPT ![p] = r]

Goto(p, label) == Become(p, [proc[p] EXCEPT !.pc = label])

\* Enter _flock for a task: the lock file is opened at the path.
Seek(p, t) == Become(p, [proc[p] EXCEPT !.pc = "mkdir", !.task = t])

\* A call, or its part under locks, is over: its locals go with it, and closing
\* its files releases its locks.
End(p, label) == Become(p, Fresh(label, proc[p].task))

\* Fault: the directory made is not a new one to whoever kept a lock in it.
RemakeSpace ==
    /\ space' = IF space.id = 0 THEN EmptySpace(spaces + 1) ELSE space
    /\ UNCHANGED <<spaces, stores>>

\* The path as mkdir(exist_ok=True) leaves it.
MakeSpace ==
    /\ space' = IF space.id = 0 THEN EmptySpace(spaces + 1) ELSE space
    /\ spaces' = IF space.id = 0 THEN spaces + 1 ELSE spaces
    /\ UNCHANGED stores

-----------------------------------------------------------------------------
\* _flock

LockOf(p) == <<IF proc[p].task = "guard" THEN "maintenance" ELSE "store", proc[p].fd>>

Blocking(p) == proc[p].task \in {"use", "repair", "maintain"}

\* Fault: maintenance asks for the shared lock its docstring speaks of.
SharedMaintenance(p) == proc[p].task \in {"use", "maintain"}

Shared(p) == proc[p].task = "use"

\* flock is per open file: a lock of the process itself stands in its way too.
Compatible(p) ==
    \A q \in Procs : LockOf(p) \in proc[q].held => Shared(p) /\ Shared(q)

MakeDirectory(p) ==
    /\ proc[p].pc = "mkdir"
    /\ MakeSpace
    /\ Goto(p, "open")

\* os.open creates the file.
OpenLock(p) ==
    /\ proc[p].pc = "open"
    /\ space.id # 0
    /\ Become(p, [proc[p] EXCEPT !.pc = "lock", !.fd = space.id])
    /\ space' = IF proc[p].task = "guard" \/ space.lockFile
                THEN space
                ELSE [space EXCEPT !.lockFile = TRUE, !.lockFresh = TRUE]
    /\ UNCHANGED <<spaces, stores>>

\* It does not create the directory: a prune since mkdir makes it fail, and
\* nothing handles the error.
OpenFails(p) ==
    /\ proc[p].pc = "open"
    /\ space.id = 0
    /\ End(p, "failed")
    /\ UNCHANGED diskVars

Lock(p) ==
    /\ proc[p].pc = "lock"
    /\ Compatible(p)
    /\ Become(p, [proc[p] EXCEPT !.pc = "check", !.held = proc[p].held \cup {LockOf(p)}])
    /\ UNCHANGED diskVars

\* A non-blocking lock that is taken: prune skips the namespace, and the
\* maintenance that is running already is enough.
Busy(p) ==
    /\ proc[p].pc = "lock"
    /\ ~Blocking(p)
    /\ ~Compatible(p)
    /\ End(p, "done")
    /\ UNCHANGED diskVars

\* Fault: a lock is used wherever its file has gone.
NoRecheck(p) == TRUE

\* The path still leads to the file that is locked.
Current(p) == space.id = proc[p].fd

\* _flock yields True.
Locked(p, t) == proc[p].pc = "check" /\ proc[p].task = t /\ Current(p)

Reopen(p) ==
    /\ proc[p].pc = "check"
    /\ ~Current(p)
    /\ Become(p, [proc[p] EXCEPT !.pc = "mkdir", !.held = proc[p].held \ {LockOf(p)}, !.fd = 0])
    /\ UNCHANGED diskVars

-----------------------------------------------------------------------------
\* Store.open

\* The store is missing: init makes one in a staging directory.
Stage(p) ==
    /\ proc[p].pc = "store"
    /\ ~Exists
    /\ MakeSpace
    /\ Become(p, [proc[p] EXCEPT !.pc = "rename", !.staging = space'.id])

\* The rename onto store.git: another process may have been first, and the
\* staging directory may have been moved away with its namespace.
RenameStore(p) ==
    /\ proc[p].pc = "rename"
    /\ Exists \/ proc[p].staging = space.id
    /\ Become(p, [proc[p] EXCEPT !.pc = "store", !.staging = 0])
    /\ space' = IF Exists
                THEN space
                ELSE [space EXCEPT !.store = stores + 1, !.storeFresh = TRUE, !.blamed = FALSE]
    /\ stores' = IF Exists THEN stores ELSE stores + 1
    /\ UNCHANGED spaces

RenameFails(p) ==
    /\ proc[p].pc = "rename"
    /\ ~Exists
    /\ proc[p].staging # space.id
    /\ End(p, "failed")
    /\ UNCHANGED diskVars

\* open returns.
Open(p, t) == proc[p].pc = "store" /\ proc[p].task = t /\ Exists

-----------------------------------------------------------------------------
\* Users

\* mutate and read open the store before they lock it; an offline read goes to
\* a store that exists.
Start(p) ==
    /\ p \in Users
    /\ proc[p].pc = "start"
    /\ Goto(p, "store") \/ (Exists /\ Seek(p, "use"))
    /\ UNCHANGED diskVars

Opened(p) ==
    /\ Open(p, "prepare")
    /\ Seek(p, "use")
    /\ UNCHANGED diskVars

\* using: the lock file's time records the use.
Touch(p) ==
    /\ Locked(p, "use")
    /\ Goto(p, "store")
    /\ space' = [space EXCEPT !.lockFresh = TRUE, !.recent = TRUE, !.backdated = FALSE]
    /\ UNCHANGED <<spaces, stores>>

Enter(p) ==
    /\ Open(p, "use")
    /\ Become(p, [proc[p] EXCEPT !.pc = "work", !.active = space.store])
    /\ UNCHANGED diskVars

\* The operation ends, and maybe_maintain may find enough slack.
Leave(p) ==
    /\ proc[p].pc = "work"
    /\ End(p, "done") \/ End(p, "guard")
    /\ UNCHANGED diskVars

\* Fault: the repair is asked for inside using.
RepairInside(p) ==
    /\ proc[p].pc = "work"
    /\ \/ End(p, "failed") \/ End(p, "guard")
       \/ ~proc[p].repaired /\ Seek(p, "repair")
    /\ space' = [space EXCEPT !.blamed = TRUE]
    /\ UNCHANGED <<spaces, stores>>

\* A StoreError: mutate and read repair the first one; the other entry points,
\* and a second error, end the call, and mutate still offers maintenance.
StoreError(p) ==
    /\ proc[p].pc = "work"
    /\ \/ End(p, "failed") \/ End(p, "guard")
       \/ /\ ~proc[p].repaired
          /\ Become(p, [proc[p] EXCEPT !.pc = "mkdir", !.task = "repair", !.held = {}, !.fd = 0])
    /\ space' = [space EXCEPT !.blamed = TRUE]
    /\ UNCHANGED <<spaces, stores>>

-----------------------------------------------------------------------------
\* repair

EnterRepair(p) ==
    /\ Locked(p, "repair")
    /\ Goto(p, "aside")
    /\ UNCHANGED diskVars

\* Fault: whatever store is there is moved aside.
AnyStore(p) == Exists

\* The store at the path is the one the operation failed on.
FailedStore(p) == Exists /\ space.store = proc[p].active

MoveAside(p) ==
    /\ proc[p].pc = "aside"
    /\ Goto(p, "store")
    /\ space' = IF FailedStore(p)
              THEN [space EXCEPT !.store = 0, !.storeFresh = FALSE, !.blamed = FALSE]
              ELSE space
    /\ UNCHANGED <<spaces, stores>>

Rebuilt(p) ==
    /\ Open(p, "repair")
    /\ Become(p, [proc[p] EXCEPT !.pc = "mkdir", !.task = "use", !.held = {}, !.fd = 0, !.repaired = TRUE])
    /\ UNCHANGED diskVars

-----------------------------------------------------------------------------
\* maintain

\* The maintenance lock comes first, without waiting.
Guard(p) ==
    /\ proc[p].pc = "guard"
    /\ IF Exists THEN Seek(p, "guard") ELSE End(p, "done")
    /\ UNCHANGED diskVars

Guarded(p) ==
    /\ Locked(p, "guard")
    /\ Seek(p, "maintain")
    /\ UNCHANGED diskVars

EnterMaintain(p) ==
    /\ Locked(p, "maintain")
    /\ IF Exists THEN Goto(p, "repack") ELSE End(p, "done")
    /\ UNCHANGED diskVars

Repack(p) ==
    /\ proc[p].pc = "repack"
    /\ End(p, "done")
    /\ UNCHANGED diskVars

-----------------------------------------------------------------------------
\* prune_cache

\* The namespace is listed, and its lock file looked for, before it is locked.
List(p) ==
    /\ p \in Pruners
    /\ proc[p].pc = "start"
    /\ IF space.id = 0
       THEN End(p, "done")
       ELSE Become(p, [proc[p] EXCEPT !.pc = "mkdir", !.found = space.lockFile])
    /\ UNCHANGED diskVars

\* A lock file prune created itself does not make the namespace look used; one
\* that a user created since prune looked does not, either.
Inspect(p) ==
    /\ Locked(p, "prune")
    /\ Goto(p, "inspect")
    /\ space' = IF proc[p].found
                THEN space
                ELSE [space EXCEPT !.lockFresh = FALSE, !.backdated = space.recent]
    /\ UNCHANGED <<spaces, stores>>

\* Fault: a namespace is judged by its store directory alone.
StoreUnused == ~space.storeFresh

\* _last_used: the latest of the lock file and the store.
Unused == ~space.lockFresh /\ ~space.storeFresh

Judge(p) ==
    /\ proc[p].pc = "inspect"
    /\ IF Unused THEN Goto(p, "discard") ELSE End(p, "guard")
    /\ UNCHANGED diskVars

Discard(p) ==
    /\ proc[p].pc = "discard"
    /\ End(p, "done")
    /\ space' = NoSpace
    /\ UNCHANGED <<spaces, stores>>

-----------------------------------------------------------------------------
\* The machine

\* A process dies: the kernel releases its locks.
Crash(p) ==
    /\ proc[p].pc \notin Ended
    /\ End(p, "dead")
    /\ UNCHANGED diskVars

\* The cutoff, a day away at least, passes over what is not in use.
Age ==
    /\ \A p \in Procs : <<"store", space.id>> \notin proc[p].held
    /\ space' = [space EXCEPT !.lockFresh = FALSE, !.storeFresh = FALSE,
                                !.recent = FALSE, !.backdated = FALSE]
    /\ UNCHANGED <<spaces, stores, proc>>

Step(p) ==
    \/ MakeDirectory(p) \/ OpenLock(p) \/ OpenFails(p) \/ Lock(p) \/ Busy(p) \/ Reopen(p)
    \/ Stage(p) \/ RenameStore(p) \/ RenameFails(p)
    \/ Start(p) \/ Opened(p) \/ Touch(p) \/ Enter(p) \/ Leave(p) \/ StoreError(p)
    \/ EnterRepair(p) \/ MoveAside(p) \/ Rebuilt(p)
    \/ Guard(p) \/ Guarded(p) \/ EnterMaintain(p) \/ Repack(p)
    \/ List(p) \/ Inspect(p) \/ Judge(p) \/ Discard(p)

AllEnded == \A p \in Procs : proc[p].pc \in Ended

Next ==
    \/ \E p \in Procs : Step(p) \/ Crash(p)
    \/ Age
    \/ AllEnded /\ UNCHANGED vars

\* A process that can move does: every Git command under a lock has a timeout.
Fairness == \A p \in Procs : WF_vars(Step(p))

Spec == Init /\ [][Next]_vars /\ Fairness

-----------------------------------------------------------------------------
\* Properties

\* An operation works on the store it found: as long as it runs, the path leads
\* to the namespace it locked and to that store.
StoreStaysUnderUser ==
    \A p \in Procs : proc[p].pc = "work" => space.id = proc[p].fd /\ space.store = proc[p].active

\* Maintenance repacks a store that nobody is using, rebuilding or removing.
RepackAlone ==
    \A p, q \in Procs :
        (proc[p].pc = "repack" /\ p # q) =>
            /\ Exists
            /\ proc[q].pc \notin {"work", "aside", "inspect", "discard", "repack"}

\* Only a store some operation failed on is taken away while its namespace
\* stays: never the store that already replaced it.
RebuildsOnlyFailed ==
    [][(space'.id = space.id /\ Exists /\ space'.store # space.store) => space.blamed]_vars

\* The path stops leading to a namespace.
Removed == space.id # 0 /\ space'.id # space.id

\* Prune removes no namespace that was used after its cutoff, unless a prune has
\* put the stamp of that use back: one that saw no lock file before it locked
\* takes the file of a user for its own (git_store.py:777-789).
PruneSparesUsed == [][Removed => ~space.recent \/ space.backdated]_vars

\* Every call comes back: no process waits for a lock nobody will release.
EveryCallEnds == \A p \in Procs : <>(proc[p].pc \in Ended)
=============================================================================
