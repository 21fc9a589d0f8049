--------------------------- MODULE LocalStoreProofs ---------------------------
(***************************************************************************)
(* Proofs about LocalStore for any number of users and prunes: a process   *)
(* inside the store lock is at the path it locked, two of them there are   *)
(* both users, and only a failed store is replaced.                        *)
(***************************************************************************)
EXTENDS LocalStore, TLAPS

\* The states in which a process acts under the store lock.
Inside(p) ==
    \/ proc[p].pc \in {"work", "aside", "inspect", "discard", "repack"}
    \/ proc[p].pc \in {"store", "rename"} /\ proc[p].task # "prepare"

\* What each process wants where it is.
TaskFits(p) ==
    /\ proc[p].pc = "work" => proc[p].task = "use"
    /\ proc[p].pc = "aside" => proc[p].task = "repair"
    /\ proc[p].pc \in {"inspect", "discard"} => proc[p].task = "prune"
    /\ proc[p].pc = "repack" => proc[p].task = "maintain"
    /\ proc[p].pc \in {"store", "rename"} => proc[p].task \in {"prepare", "use", "repair"}
    /\ proc[p].pc \in {"mkdir", "open", "lock", "check"} \/ p \in Pruners => proc[p].task # "prepare"
    /\ proc[p].pc = "start" /\ p \notin Pruners => proc[p].task = "prepare"

\* What it has locked there.
LocksFit(p) ==
    /\ proc[p].task = "prepare" \/ proc[p].pc \in {"start", "guard"} => proc[p].held = {}
    /\ proc[p].task = "guard" => \A n \in Nat : <<"store", n>> \notin proc[p].held
    /\ proc[p].pc \in {"lock", "check"} => proc[p].fd # 0
    /\ proc[p].pc = "check" => LockOf(p) \in proc[p].held
    /\ Inside(p) =>
        /\ space.id = proc[p].fd
        /\ proc[p].fd # 0
        /\ <<"store", proc[p].fd>> \in proc[p].held

\* The store a process found.
StoreFits(p) ==
    /\ proc[p].active <= stores
    /\ proc[p].pc = "work" => Exists /\ proc[p].active = space.store
    /\ proc[p].pc = "repack" => Exists
    /\ (proc[p].task = "repair" /\ Exists /\ proc[p].active = space.store) => space.blamed

\* Two processes hold the lock of one file only to share it.
Exclusive(p, q) ==
    \A n \in Nat :
        (<<"store", n>> \in proc[p].held /\ <<"store", n>> \in proc[q].held) => Shared(p) /\ Shared(q)

LockInv ==
    /\ TypeOK
    /\ \A p \in Procs : TaskFits(p) /\ LocksFit(p) /\ StoreFits(p)
    /\ \A p, q \in Procs : p # q => Exclusive(p, q)

-----------------------------------------------------------------------------
\* Types

\* A process changes nothing but its own record.
LEMMA Becomes ==
    ASSUME TypeOK, NEW p \in Procs, NEW r \in Process, Become(p, r)
    PROVE  /\ proc' \in [Procs -> Process]
           /\ proc'[p] = r
           /\ \A q \in Procs : q # p => proc'[q] = proc[q]
  BY DEF TypeOK, Become

\* Every step of a process leaves it a record of the same kind.
LEMMA StepProcess ==
    ASSUME TypeOK, NEW p \in Procs, Step(p) \/ Crash(p), space' \in Space
    PROVE  \E r \in Process : Become(p, r)
  <1>1. proc[p] \in Process /\ space.id \in Nat /\ space.store \in Nat /\ space.lockFile \in BOOLEAN
    BY DEF TypeOK, Space
  <1>2. space'.id \in Nat
    BY DEF Space
  <1>3. \A label \in {"start", "mkdir", "open", "lock", "check", "store", "rename", "work", "aside",
                      "inspect", "discard", "guard", "repack"} \cup Ended :
          /\ [proc[p] EXCEPT !.pc = label] \in Process
          /\ Fresh(label, proc[p].task) \in Process
    BY <1>1 DEF Process, Fresh
  <1>4. \A t \in {"prepare", "use", "repair", "prune", "guard", "maintain"} :
          [proc[p] EXCEPT !.pc = "mkdir", !.task = t] \in Process
    BY <1>1 DEF Process
  <1>5. LockOf(p) \in Files \X Nat
    BY <1>1 DEF Process, LockOf, Files
  <1> USE DEF Goto, Seek, End, Ended
  <1>6. CASE OpenLock(p)
    <2>1. [proc[p] EXCEPT !.pc = "lock", !.fd = space.id] \in Process
      BY <1>1, <1>2, <1>5 DEF Process
    <2> QED
      BY <1>3, <1>6, <2>1 DEF OpenLock
  <1>7. CASE Lock(p)
    <2>1. [proc[p] EXCEPT !.pc = "check", !.held = proc[p].held \cup {LockOf(p)}] \in Process
      BY <1>1, <1>2, <1>5 DEF Process
    <2> QED
      BY <1>3, <1>7, <2>1 DEF Lock
  <1>8. CASE Reopen(p)
    <2>1. [proc[p] EXCEPT !.pc = "mkdir", !.held = proc[p].held \ {LockOf(p)}, !.fd = 0] \in Process
      BY <1>1, <1>2, <1>5 DEF Process
    <2> QED
      BY <1>3, <1>8, <2>1 DEF Reopen
  <1>9. CASE Stage(p)
    <2>1. [proc[p] EXCEPT !.pc = "rename", !.staging = space'.id] \in Process
      BY <1>1, <1>2, <1>5 DEF Process
    <2> QED
      BY <1>3, <1>9, <2>1 DEF Stage
  <1>10. CASE RenameStore(p)
    <2>1. [proc[p] EXCEPT !.pc = "store", !.staging = 0] \in Process
      BY <1>1, <1>2, <1>5 DEF Process
    <2> QED
      BY <1>3, <1>10, <2>1 DEF RenameStore
  <1>11. CASE Enter(p)
    <2>1. [proc[p] EXCEPT !.pc = "work", !.active = space.store] \in Process
      BY <1>1, <1>2, <1>5 DEF Process
    <2> QED
      BY <1>3, <1>11, <2>1 DEF Enter
  <1>12. CASE StoreError(p)
    <2>1. [proc[p] EXCEPT !.pc = "mkdir", !.task = "repair", !.held = {}, !.fd = 0] \in Process
      BY <1>1, <1>2, <1>5 DEF Process
    <2> QED
      BY <1>3, <1>12, <2>1 DEF StoreError
  <1>13. CASE Rebuilt(p)
    <2>1. [proc[p] EXCEPT !.pc = "mkdir", !.task = "use", !.held = {}, !.fd = 0, !.repaired = TRUE] \in Process
      BY <1>1, <1>2, <1>5 DEF Process
    <2> QED
      BY <1>3, <1>13, <2>1 DEF Rebuilt
  <1>14. CASE List(p)
    <2>1. [proc[p] EXCEPT !.pc = "mkdir", !.found = space.lockFile] \in Process
      BY <1>1, <1>2, <1>5 DEF Process
    <2> QED
      BY <1>3, <1>14, <2>1 DEF List
  <1>15. CASE \/ MakeDirectory(p) \/ OpenFails(p) \/ Busy(p) \/ RenameFails(p) \/ Start(p) \/ Opened(p)
              \/ Touch(p) \/ Leave(p) \/ EnterRepair(p) \/ MoveAside(p) \/ Guard(p) \/ Guarded(p)
              \/ EnterMaintain(p) \/ Repack(p) \/ Inspect(p) \/ Judge(p) \/ Discard(p) \/ Crash(p)
    BY <1>3, <1>4, <1>15
       DEF MakeDirectory, OpenFails, Busy, RenameFails, Start, Opened, Touch, Leave, EnterRepair,
           MoveAside, Guard, Guarded, EnterMaintain, Repack, Inspect, Judge, Discard, Crash
  <1> QED
    BY <1>6, <1>7, <1>8, <1>9, <1>10, <1>11, <1>12, <1>13, <1>14, <1>15 DEF Step

\* A directory as mkdir leaves it is one.
LEMMA EmptySpaces ==
    \A n \in Nat : EmptySpace(n) \in Space /\ EmptySpace(n).id = n /\ EmptySpace(n).store = 0
  BY DEF EmptySpace, Space

\* A step leaves a namespace at the path, numbered with the others.
LEMMA StepDisk ==
    ASSUME TypeOK, NEW p \in Procs, Step(p) \/ Crash(p)
    PROVE  /\ space' \in Space
           /\ spaces' \in Nat /\ space'.id <= spaces'
           /\ stores' \in Nat /\ space'.store <= stores'
           /\ stores <= stores'
  <1>1. /\ space \in Space
        /\ spaces \in Nat /\ space.id \in Nat /\ space.id <= spaces
        /\ stores \in Nat /\ stores + 1 \in Nat /\ space.store \in Nat /\ space.store <= stores
        /\ proc[p].found \in BOOLEAN /\ space.lockFresh \in BOOLEAN /\ space.recent \in BOOLEAN
    BY DEF TypeOK, Space, Process
  <1>2. CASE MakeSpace
    BY <1>1, <1>2, EmptySpaces DEF MakeSpace
  <1>3. CASE OpenLock(p)
    <2> DEFINE s == [space EXCEPT !.lockFile = TRUE, !.lockFresh = TRUE]
    <2>1. s \in Space /\ s.id = space.id /\ s.store = space.store
      BY <1>1 DEF Space
    <2>2. /\ spaces' = spaces
          /\ (space' = s /\ stores' = stores) \/ (space' = space /\ stores' = stores)
      BY <1>3 DEF OpenLock
    <2> HIDE DEF s
    <2> QED
      BY <1>1, <2>1, <2>2
  <1>4. CASE RenameStore(p)
    <2> DEFINE s == [space EXCEPT !.store = stores + 1, !.storeFresh = TRUE, !.blamed = FALSE]
    <2>1. s \in Space /\ s.id = space.id /\ s.store = stores + 1
      BY <1>1 DEF Space
    <2>2. /\ spaces' = spaces
          /\ (space' = s /\ stores' = stores + 1) \/ (space' = space /\ stores' = stores)
      BY <1>4 DEF RenameStore
    <2> HIDE DEF s
    <2> QED
      BY <1>1, <2>1, <2>2
  <1>5. CASE Touch(p)
    <2> DEFINE s == [space EXCEPT !.lockFresh = TRUE, !.recent = TRUE, !.backdated = FALSE]
    <2>1. s \in Space /\ s.id = space.id /\ s.store = space.store
      BY <1>1 DEF Space
    <2>2. /\ spaces' = spaces
          /\ (space' = s /\ stores' = stores) \/ (space' = space /\ stores' = stores)
      BY <1>5 DEF Touch
    <2> HIDE DEF s
    <2> QED
      BY <1>1, <2>1, <2>2
  <1>6. CASE StoreError(p)
    <2> DEFINE s == [space EXCEPT !.blamed = TRUE]
    <2>1. s \in Space /\ s.id = space.id /\ s.store = space.store
      BY <1>1 DEF Space
    <2>2. /\ spaces' = spaces
          /\ (space' = s /\ stores' = stores) \/ (space' = space /\ stores' = stores)
      BY <1>6 DEF StoreError
    <2> HIDE DEF s
    <2> QED
      BY <1>1, <2>1, <2>2
  <1>7. CASE MoveAside(p)
    <2> DEFINE s == [space EXCEPT !.store = 0, !.storeFresh = FALSE, !.blamed = FALSE]
    <2>1. s \in Space /\ s.id = space.id /\ s.store = 0
      BY <1>1 DEF Space
    <2>2. /\ spaces' = spaces
          /\ (space' = s /\ stores' = stores) \/ (space' = space /\ stores' = stores)
      BY <1>7 DEF MoveAside
    <2> HIDE DEF s
    <2> QED
      BY <1>1, <2>1, <2>2
  <1>8. CASE Inspect(p)
    <2> DEFINE s == [space EXCEPT !.lockFresh = FALSE, !.backdated = space.recent]
    <2>1. s \in Space /\ s.id = space.id /\ s.store = space.store
      BY <1>1 DEF Space
    <2>2. /\ spaces' = spaces
          /\ (space' = s /\ stores' = stores) \/ (space' = space /\ stores' = stores)
      BY <1>8 DEF Inspect
    <2> HIDE DEF s
    <2> QED
      BY <1>1, <2>1, <2>2
  <1>9. CASE Discard(p)
    BY <1>1, <1>9, EmptySpaces DEF Discard, NoSpace
  <1>10. CASE UNCHANGED diskVars
    BY <1>1, <1>10 DEF diskVars
  <1> QED
    BY <1>2, <1>3, <1>4, <1>5, <1>6, <1>7, <1>8, <1>9, <1>10
       DEF Step, MakeDirectory, OpenFails, Lock, Busy, Reopen, Stage, RenameFails, Start, Opened,
           Enter, Leave, EnterRepair, Rebuilt, Guard, Guarded, EnterMaintain, Repack, List, Judge,
           Crash

\* The initial state has the types.
LEMMA InitTypes ==
    ASSUME Init
    PROVE  TypeOK
  <1>1. space \in Space
    <2>1. CASE space = NoSpace
      BY <2>1, EmptySpaces DEF NoSpace
    <2>2. ASSUME NEW b \in BOOLEAN, NEW s \in {0, 1}, space = [EmptySpace(1) EXCEPT !.lockFile = b, !.store = s]
          PROVE  space \in Space
      <3> DEFINE e == EmptySpace(1)
      <3>1. e \in Space /\ s \in Nat
        BY EmptySpaces
      <3> HIDE DEF e
      <3>2. [e EXCEPT !.lockFile = b, !.store = s] \in Space
        BY <3>1 DEF Space
      <3> QED
        BY <2>2, <3>2 DEF e
    <2> QED
      BY <2>1, <2>2 DEF Init
  <1>2. space.id \in Nat /\ space.store \in Nat
    BY <1>1 DEF Space
  <1>3. proc \in [Procs -> Process]
    BY DEF Init, Fresh, Process
  <1>4. spaces \in Nat /\ space.id <= spaces /\ stores \in Nat /\ space.store <= stores
    <2>1. spaces = space.id /\ stores = space.store
      BY DEF Init
    <2> QED
      BY <1>2, <2>1
  <1> QED
    BY <1>1, <1>3, <1>4 DEF TypeOK

\* Every step keeps the types.
LEMMA NextTypes ==
    ASSUME TypeOK, [Next]_vars
    PROVE  TypeOK'
  <1>1. ASSUME NEW p \in Procs, Step(p) \/ Crash(p)
        PROVE  TypeOK'
    <2>1. space' \in Space
      BY <1>1, StepDisk
    <2>2. PICK r \in Process : Become(p, r)
      BY <1>1, <2>1, StepProcess
    <2> QED
      BY <1>1, <2>2, Becomes, StepDisk DEF TypeOK
  <1>2. CASE Age
    <2> DEFINE s == [space EXCEPT !.lockFresh = FALSE, !.storeFresh = FALSE,
                                  !.recent = FALSE, !.backdated = FALSE]
    <2>1. s \in Space /\ s.id = space.id /\ s.store = space.store
      BY DEF TypeOK, Space
    <2>2. space' = s /\ UNCHANGED <<spaces, stores, proc>>
      BY <1>2 DEF Age
    <2> HIDE DEF s
    <2> QED
      BY <2>1, <2>2 DEF TypeOK
  <1>3. CASE UNCHANGED vars
    BY <1>3 DEF vars, diskVars, TypeOK
  <1> QED
    BY <1>1, <1>2, <1>3 DEF Next

\* Namespaces, locks and calls keep their kinds, whatever fails or dies.
THEOREM TypeCorrect == Spec => []TypeOK
  <1>1. Init => TypeOK
    BY InitTypes
  <1>2. TypeOK /\ [Next]_vars => TypeOK'
    BY NextTypes
  <1> QED
    BY <1>1, <1>2, PTL DEF Spec

-----------------------------------------------------------------------------
\* Locks

\* What a step may do to the namespace while another process is where it is.
Spared(q) ==
    /\ Inside(q) => space'.id = space.id /\ (Exists => space'.store = space.store)
    /\ \/ space'.store = space.store /\ (space.blamed => space'.blamed)
       \/ space'.store = 0
       \/ space'.store = stores + 1

\* Such a step keeps the invariant of the other processes.
LEMMA Others ==
    ASSUME LockInv, NEW q \in Procs, proc'[q] = proc[q], stores' \in Nat, stores <= stores', Spared(q)
    PROVE  TaskFits(q)' /\ LocksFit(q)' /\ StoreFits(q)'
  <1>1. TaskFits(q) /\ LocksFit(q) /\ StoreFits(q)
    BY DEF LockInv
  <1>2. TaskFits(q)'
    BY <1>1 DEF TaskFits
  <1>3. LocksFit(q)'
    BY <1>1 DEF LocksFit, LockOf, Inside, Spared
  <1>4. StoreFits(q)'
    <2>1. proc[q].active \in Nat /\ stores \in Nat /\ space.store \in Nat
      BY DEF LockInv, TypeOK, Process, Space
    <2>2. proc[q].active <= stores'
      BY <1>1, <2>1 DEF StoreFits
    <2>3. proc[q].active <= stores /\ proc[q].active # stores + 1
      BY <1>1, <2>1 DEF StoreFits
    <2> QED
      BY <1>1, <2>1, <2>2, <2>3 DEF StoreFits, Inside, Exists, Spared
  <1> QED
    BY <1>2, <1>3, <1>4

\* The invariant after a step of p, from what the step does to p.
LEMMA StepFits ==
    ASSUME LockInv, NEW p \in Procs, TypeOK',
           \A q \in Procs : q # p => proc'[q] = proc[q] /\ Spared(q) /\ Exclusive(p, q)',
           stores <= stores',
           TaskFits(p)', LocksFit(p)', StoreFits(p)'
    PROVE  LockInv'
  <1>1. stores' \in Nat
    BY DEF TypeOK
  <1>2. \A q \in Procs : TaskFits(q)' /\ LocksFit(q)' /\ StoreFits(q)'
    BY <1>1, Others
  <1>3. \A q, r \in Procs : q # r => Exclusive(q, r)'
    BY DEF Exclusive, Shared, LockInv
  <1> QED
    BY <1>2, <1>3 DEF LockInv

\* The namespace and its store stay as they are to the others.
LEMMA SparedSame ==
    ASSUME space'.id = space.id, space'.store = space.store, space.blamed => space'.blamed, NEW q \in Procs
    PROVE  Spared(q)
  BY DEF Spared

\* Nobody is inside a namespace that is missing.
LEMMA SparedMake ==
    ASSUME LockInv, MakeSpace, NEW q \in Procs
    PROVE  Spared(q)
  <1>1. CASE space.id = 0
    <2>1. ~Inside(q)
      BY <1>1 DEF LockInv, LocksFit
    <2>2. space'.store = 0
      BY <1>1, EmptySpaces DEF MakeSpace, LockInv, TypeOK
    <2> QED
      BY <2>1, <2>2 DEF Spared
  <1>2. CASE space.id # 0
    <2>1. space' = space
      BY <1>2 DEF MakeSpace
    <2> QED
      BY <2>1 DEF Spared
  <1> QED
    BY <1>1, <1>2

\* Who is inside without sharing is there alone.
LEMMA AloneInside ==
    ASSUME LockInv, NEW p \in Procs, NEW q \in Procs, p # q, Inside(p), ~Shared(p)
    PROVE  ~Inside(q)
  <1>1. SUFFICES ASSUME Inside(q)
                 PROVE  FALSE
    OBVIOUS
  <1>2. /\ space.id \in Nat
        /\ <<"store", space.id>> \in proc[p].held
        /\ <<"store", space.id>> \in proc[q].held
    BY <1>1 DEF LockInv, LocksFit, TypeOK, Space
  <1> QED
    BY <1>2 DEF LockInv, Exclusive

\* A process that locks nothing more, and does not stop sharing what it holds,
\* disturbs nobody.
LEMMA ExclusiveKept ==
    ASSUME LockInv, NEW p \in Procs, NEW q \in Procs, p # q, proc'[q] = proc[q],
           \A n \in Nat : <<"store", n>> \in proc'[p].held =>
              <<"store", n>> \in proc[p].held /\ (Shared(p) => Shared(p)')
    PROVE  Exclusive(p, q)'
  BY DEF LockInv, Exclusive, Shared

\* The part of its record that matters to the locks.
Now(p, label, t, h, f, a) ==
    /\ proc'[p].pc = label
    /\ proc'[p].task = t
    /\ proc'[p].held = h
    /\ proc'[p].fd = f
    /\ proc'[p].active = a

\* A call that ends leaves nothing behind.
LEMMA EndStep ==
    ASSUME LockInv, NEW p \in Procs, NEW label \in Ended \cup {"guard"}, End(p, label), TypeOK',
           space'.id = space.id, space'.store = space.store, space.blamed => space'.blamed, stores' = stores
    PROVE  LockInv'
  <1>1. Now(p, label, proc[p].task, {}, 0, 0)
    BY DEF LockInv, TypeOK, End, Become, Fresh, Now
  <1>2. TaskFits(p)
    BY DEF LockInv
  <1>3. TaskFits(p)' /\ LocksFit(p)' /\ StoreFits(p)'
    BY <1>1, <1>2 DEF Now, Ended, TaskFits, LocksFit, StoreFits, Inside, LockOf, Exists, TypeOK
  <1>4. \A q \in Procs : q # p => proc'[q] = proc[q]
    BY DEF LockInv, TypeOK, End, Become
  <1>5. \A q \in Procs : q # p => Spared(q) /\ Exclusive(p, q)'
    BY <1>1, SparedSame DEF Exclusive, Now
  <1>6. stores <= stores'
    BY DEF LockInv, TypeOK
  <1> QED
    BY <1>3, <1>4, <1>5, <1>6, StepFits

\* Every step keeps the locks, the tasks and the stores in order.
LEMMA LockStep ==
    ASSUME LockInv, NEW p \in Procs, Step(p) \/ Crash(p), TypeOK'
    PROVE  LockInv'
  <1>a. /\ proc \in [Procs -> Process] /\ proc[p] \in Process /\ space \in Space
        /\ TaskFits(p) /\ LocksFit(p) /\ StoreFits(p)
    BY DEF LockInv, TypeOK
  <1>b. /\ space' \in Space /\ stores' \in Nat /\ stores <= stores'
        /\ space.id \in Nat /\ space.store \in Nat /\ stores \in Nat /\ space.store <= stores
    BY <1>a, StepDisk DEF LockInv, TypeOK, Space
  <1>c. PICK r \in Process : Become(p, r)
    BY <1>b, StepProcess DEF LockInv
  <1>d. /\ proc'[p] = r
        /\ \A q \in Procs : q # p => proc'[q] = proc[q]
    BY <1>c, Becomes DEF LockInv
  <1>1. CASE MakeDirectory(p)
    <2>1. Now(p, "open", proc[p].task, proc[p].held, proc[p].fd, proc[p].active)
      BY <1>a, <1>1 DEF MakeDirectory, Goto, Seek, Become, Now, Process
    <2>2. space' = space \/ (space.id = 0 /\ space'.store = 0)
      BY <1>1, EmptySpaces DEF MakeDirectory, MakeSpace, LockInv, TypeOK
    <2>3. \A q \in Procs : q # p => Spared(q)
      BY <1>1, SparedMake DEF MakeDirectory
    <2>4. TaskFits(p)' /\ LocksFit(p)' /\ StoreFits(p)'
      <3>1. TaskFits(p)'
        BY <1>a, <1>1, <2>1 DEF MakeDirectory, Now, TaskFits, Locked, Open
      <3>2. LocksFit(p)'
        BY <1>a, <1>1, <2>1, <2>2 DEF MakeDirectory, Now, LocksFit, Inside, LockOf, TaskFits
      <3>3. StoreFits(p)'
        <4>1. proc[p].active \in Nat /\ proc[p].active <= stores /\ proc[p].active <= stores'
          BY <1>a, <1>b DEF StoreFits, Process
        <4> QED
          BY <1>a, <1>b, <1>1, <2>1, <2>2, <4>1 DEF MakeDirectory, Now, StoreFits, Exists
      <3> QED
        BY <3>1, <3>2, <3>3
    <2>5. \A q \in Procs : q # p => Exclusive(p, q)'
      BY <1>a, <1>d, <1>1, <2>1, ExclusiveKept DEF MakeDirectory, Now, LocksFit, Shared, Locked
    <2> QED
      BY <1>b, <1>d, <2>3, <2>4, <2>5, StepFits
  <1>2. CASE OpenLock(p)
    <2>1. Now(p, "lock", proc[p].task, proc[p].held, space.id, proc[p].active)
      BY <1>a, <1>2 DEF OpenLock, Goto, Seek, Become, Now, Process
    <2>2. space'.id = space.id /\ space'.store = space.store /\ space'.blamed = space.blamed /\ stores' = stores
      BY <1>a, <1>2 DEF OpenLock, Space
    <2>3. \A q \in Procs : q # p => Spared(q)
      BY <2>2, SparedSame
    <2>4. TaskFits(p)' /\ LocksFit(p)' /\ StoreFits(p)'
      BY <1>a, <1>b, <1>2, <2>1, <2>2
         DEF OpenLock, Now, TaskFits, LocksFit, StoreFits, Inside, LockOf, Exists, Locked, Open,
             Current
    <2>5. \A q \in Procs : q # p => Exclusive(p, q)'
      BY <1>a, <1>d, <1>2, <2>1, ExclusiveKept DEF OpenLock, Now, LocksFit, Shared, Locked
    <2> QED
      BY <1>b, <1>d, <2>3, <2>4, <2>5, StepFits
  <1>3. CASE Lock(p)
    <2>1. Now(p, "check", proc[p].task, proc[p].held \cup {LockOf(p)}, proc[p].fd, proc[p].active)
      BY <1>a, <1>3 DEF Lock, Goto, Seek, Become, Now, Process
    <2>2. space' = space /\ stores' = stores
      BY <1>3 DEF Lock, diskVars
    <2>3. \A q \in Procs : q # p => Spared(q)
      BY <2>2, SparedSame
    <2>4. TaskFits(p)' /\ LocksFit(p)' /\ StoreFits(p)'
      <3>1. TaskFits(p)'
        BY <1>a, <1>3, <2>1 DEF Lock, Now, TaskFits, Locked, Open
      <3>2. LocksFit(p)'
        BY <1>a, <1>3, <2>1, <2>2 DEF Lock, Now, LocksFit, Inside, LockOf, TaskFits
      <3>3. StoreFits(p)'
        <4>1. proc[p].active \in Nat /\ proc[p].active <= stores /\ proc[p].active <= stores'
          BY <1>a, <1>b DEF StoreFits, Process
        <4> QED
          BY <1>a, <1>b, <1>3, <2>1, <2>2, <4>1 DEF Lock, Now, StoreFits, Exists
      <3> QED
        BY <3>1, <3>2, <3>3
    <2>5. \A q \in Procs : q # p => Exclusive(p, q)'
      <3>1. SUFFICES ASSUME NEW q \in Procs, q # p, NEW n \in Nat,
                            <<"store", n>> \in proc'[p].held, <<"store", n>> \in proc'[q].held
                     PROVE  Shared(p) /\ Shared(q)
        BY <1>d, <2>1 DEF Exclusive, Shared, Now
      <3>2. <<"store", n>> \in proc[q].held
        BY <1>d, <3>1
      <3>3. CASE <<"store", n>> \in proc[p].held
        BY <3>1, <3>2, <3>3 DEF LockInv, Exclusive
      <3>4. CASE <<"store", n>> = LockOf(p)
        BY <1>3, <3>1, <3>2, <3>4 DEF Lock, Compatible
      <3> QED
        BY <2>1, <3>1, <3>3, <3>4 DEF Now
    <2> QED
      BY <1>b, <1>d, <2>3, <2>4, <2>5, StepFits
  <1>4. CASE Reopen(p)
    <2>1. Now(p, "mkdir", proc[p].task, proc[p].held \ {LockOf(p)}, 0, proc[p].active)
      BY <1>a, <1>4 DEF Reopen, Goto, Seek, Become, Now, Process
    <2>2. space' = space /\ stores' = stores
      BY <1>4 DEF Reopen, diskVars
    <2>3. \A q \in Procs : q # p => Spared(q)
      BY <2>2, SparedSame
    <2>4. TaskFits(p)' /\ LocksFit(p)' /\ StoreFits(p)'
      BY <1>a, <1>b, <1>4, <2>1, <2>2
         DEF Reopen, Now, TaskFits, LocksFit, StoreFits, Inside, LockOf, Exists, Locked, Open,
             Current
    <2>5. \A q \in Procs : q # p => Exclusive(p, q)'
      BY <1>a, <1>d, <1>4, <2>1, ExclusiveKept DEF Reopen, Now, LocksFit, Shared, Locked
    <2> QED
      BY <1>b, <1>d, <2>3, <2>4, <2>5, StepFits
  <1>5. CASE Stage(p)
    <2>1. Now(p, "rename", proc[p].task, proc[p].held, proc[p].fd, proc[p].active)
      BY <1>a, <1>5 DEF Stage, Goto, Seek, Become, Now, Process
    <2>2. space' = space \/ (space.id = 0 /\ space'.store = 0)
      BY <1>5, EmptySpaces DEF Stage, MakeSpace, LockInv, TypeOK
    <2>3. \A q \in Procs : q # p => Spared(q)
      BY <1>5, SparedMake DEF Stage
    <2>4. TaskFits(p)' /\ LocksFit(p)' /\ StoreFits(p)'
      <3>1. TaskFits(p)'
        BY <1>a, <1>5, <2>1 DEF Stage, Now, TaskFits, Locked, Open
      <3>2. LocksFit(p)'
        BY <1>a, <1>5, <2>1, <2>2 DEF Stage, Now, LocksFit, Inside, LockOf, TaskFits
      <3>3. StoreFits(p)'
        <4>1. proc[p].active \in Nat /\ proc[p].active <= stores /\ proc[p].active <= stores'
          BY <1>a, <1>b DEF StoreFits, Process
        <4> QED
          BY <1>a, <1>b, <1>5, <2>1, <2>2, <4>1 DEF Stage, Now, StoreFits, Exists
      <3> QED
        BY <3>1, <3>2, <3>3
    <2>5. \A q \in Procs : q # p => Exclusive(p, q)'
      BY <1>a, <1>d, <1>5, <2>1, ExclusiveKept DEF Stage, Now, LocksFit, Shared, Locked
    <2> QED
      BY <1>b, <1>d, <2>3, <2>4, <2>5, StepFits
  <1>6. CASE RenameStore(p)
    <2>1. Now(p, "store", proc[p].task, proc[p].held, proc[p].fd, proc[p].active)
      BY <1>a, <1>6 DEF RenameStore, Goto, Seek, Become, Now, Process
    <2>2. \/ Exists /\ space' = space
          \/ ~Exists /\ space'.id = space.id /\ space'.store = stores + 1
      BY <1>a, <1>6 DEF RenameStore, Space
    <2>3. \A q \in Procs : q # p => Spared(q)
      BY <2>2 DEF Spared
    <2>4. TaskFits(p)' /\ LocksFit(p)' /\ StoreFits(p)'
      <3>1. TaskFits(p)'
        BY <1>a, <1>6, <2>1 DEF RenameStore, Now, TaskFits, Locked, Open
      <3>2. LocksFit(p)'
        BY <1>a, <1>6, <2>1, <2>2 DEF RenameStore, Now, LocksFit, Inside, LockOf, TaskFits
      <3>3. StoreFits(p)'
        <4>1. proc[p].active \in Nat /\ proc[p].active <= stores /\ proc[p].active <= stores'
          BY <1>a, <1>b DEF StoreFits, Process
        <4> QED
          BY <1>a, <1>b, <1>6, <2>1, <2>2, <4>1 DEF RenameStore, Now, StoreFits, Exists
      <3> QED
        BY <3>1, <3>2, <3>3
    <2>5. \A q \in Procs : q # p => Exclusive(p, q)'
      BY <1>a, <1>d, <1>6, <2>1, ExclusiveKept DEF RenameStore, Now, LocksFit, Shared, Locked
    <2> QED
      BY <1>b, <1>d, <2>3, <2>4, <2>5, StepFits
  <1>7. CASE Opened(p)
    <2>1. Now(p, "mkdir", "use", proc[p].held, proc[p].fd, proc[p].active)
      BY <1>a, <1>7 DEF Opened, Goto, Seek, Become, Now, Process
    <2>2. space' = space /\ stores' = stores
      BY <1>7 DEF Opened, diskVars
    <2>3. \A q \in Procs : q # p => Spared(q)
      BY <2>2, SparedSame
    <2>4. TaskFits(p)' /\ LocksFit(p)' /\ StoreFits(p)'
      BY <1>a, <1>b, <1>7, <2>1, <2>2
         DEF Opened, Now, TaskFits, LocksFit, StoreFits, Inside, LockOf, Exists, Locked, Open,
             Current
    <2>5. \A q \in Procs : q # p => Exclusive(p, q)'
      BY <1>a, <1>d, <1>7, <2>1, ExclusiveKept DEF Opened, Now, LocksFit, Shared, Locked
    <2> QED
      BY <1>b, <1>d, <2>3, <2>4, <2>5, StepFits
  <1>8. CASE Touch(p)
    <2>1. Now(p, "store", proc[p].task, proc[p].held, proc[p].fd, proc[p].active)
      BY <1>a, <1>8 DEF Touch, Goto, Seek, Become, Now, Process
    <2>2. space'.id = space.id /\ space'.store = space.store /\ space'.blamed = space.blamed /\ stores' = stores
      BY <1>a, <1>8 DEF Touch, Space
    <2>3. \A q \in Procs : q # p => Spared(q)
      BY <2>2, SparedSame
    <2>4. TaskFits(p)' /\ LocksFit(p)' /\ StoreFits(p)'
      BY <1>a, <1>b, <1>8, <2>1, <2>2
         DEF Touch, Now, TaskFits, LocksFit, StoreFits, Inside, LockOf, Exists, Locked, Open,
             Current
    <2>5. \A q \in Procs : q # p => Exclusive(p, q)'
      BY <1>a, <1>d, <1>8, <2>1, ExclusiveKept DEF Touch, Now, LocksFit, Shared, Locked
    <2> QED
      BY <1>b, <1>d, <2>3, <2>4, <2>5, StepFits
  <1>9. CASE Enter(p)
    <2>1. Now(p, "work", proc[p].task, proc[p].held, proc[p].fd, space.store)
      BY <1>a, <1>9 DEF Enter, Goto, Seek, Become, Now, Process
    <2>2. space' = space /\ stores' = stores
      BY <1>9 DEF Enter, diskVars
    <2>3. \A q \in Procs : q # p => Spared(q)
      BY <2>2, SparedSame
    <2>4. TaskFits(p)' /\ LocksFit(p)' /\ StoreFits(p)'
      BY <1>a, <1>b, <1>9, <2>1, <2>2
         DEF Enter, Now, TaskFits, LocksFit, StoreFits, Inside, LockOf, Exists, Locked, Open,
             Current
    <2>5. \A q \in Procs : q # p => Exclusive(p, q)'
      BY <1>a, <1>d, <1>9, <2>1, ExclusiveKept DEF Enter, Now, LocksFit, Shared, Locked
    <2> QED
      BY <1>b, <1>d, <2>3, <2>4, <2>5, StepFits
  <1>10. CASE EnterRepair(p)
    <2>1. Now(p, "aside", proc[p].task, proc[p].held, proc[p].fd, proc[p].active)
      BY <1>a, <1>10 DEF EnterRepair, Goto, Seek, Become, Now, Process
    <2>2. space' = space /\ stores' = stores
      BY <1>10 DEF EnterRepair, diskVars
    <2>3. \A q \in Procs : q # p => Spared(q)
      BY <2>2, SparedSame
    <2>4. TaskFits(p)' /\ LocksFit(p)' /\ StoreFits(p)'
      BY <1>a, <1>b, <1>10, <2>1, <2>2
         DEF EnterRepair, Now, TaskFits, LocksFit, StoreFits, Inside, LockOf, Exists, Locked, Open,
             Current
    <2>5. \A q \in Procs : q # p => Exclusive(p, q)'
      BY <1>a, <1>d, <1>10, <2>1, ExclusiveKept DEF EnterRepair, Now, LocksFit, Shared, Locked
    <2> QED
      BY <1>b, <1>d, <2>3, <2>4, <2>5, StepFits
  <1>11. CASE MoveAside(p)
    <2>1. Now(p, "store", proc[p].task, proc[p].held, proc[p].fd, proc[p].active)
      BY <1>a, <1>11 DEF MoveAside, Goto, Seek, Become, Now, Process
    <2>2. space'.id = space.id /\ (space' = space \/ space'.store = 0) /\ stores' = stores
      BY <1>a, <1>11 DEF MoveAside, Space
    <2>3. \A q \in Procs : q # p => Spared(q)
      <3>1. Inside(p) /\ ~Shared(p)
        BY <1>a, <1>11 DEF MoveAside, Inside, Shared, TaskFits
      <3>2. \A q \in Procs : q # p => ~Inside(q)
        BY <3>1, AloneInside
      <3> QED
        BY <2>2, <3>2 DEF Spared
    <2>4. TaskFits(p)' /\ LocksFit(p)' /\ StoreFits(p)'
      BY <1>a, <1>b, <1>11, <2>1, <2>2
         DEF MoveAside, Now, TaskFits, LocksFit, StoreFits, Inside, LockOf, Exists, Locked, Open,
             Current
    <2>5. \A q \in Procs : q # p => Exclusive(p, q)'
      BY <1>a, <1>d, <1>11, <2>1, ExclusiveKept DEF MoveAside, Now, LocksFit, Shared, Locked
    <2> QED
      BY <1>b, <1>d, <2>3, <2>4, <2>5, StepFits
  <1>12. CASE Rebuilt(p)
    <2>1. Now(p, "mkdir", "use", {}, 0, proc[p].active)
      BY <1>a, <1>12 DEF Rebuilt, Goto, Seek, Become, Now, Process
    <2>2. space' = space /\ stores' = stores
      BY <1>12 DEF Rebuilt, diskVars
    <2>3. \A q \in Procs : q # p => Spared(q)
      BY <2>2, SparedSame
    <2>4. TaskFits(p)' /\ LocksFit(p)' /\ StoreFits(p)'
      BY <1>a, <1>b, <1>12, <2>1, <2>2
         DEF Rebuilt, Now, TaskFits, LocksFit, StoreFits, Inside, LockOf, Exists, Locked, Open,
             Current
    <2>5. \A q \in Procs : q # p => Exclusive(p, q)'
      BY <1>a, <1>d, <1>12, <2>1, ExclusiveKept DEF Rebuilt, Now, LocksFit, Shared, Locked
    <2> QED
      BY <1>b, <1>d, <2>3, <2>4, <2>5, StepFits
  <1>13. CASE Guarded(p)
    <2>1. Now(p, "mkdir", "maintain", proc[p].held, proc[p].fd, proc[p].active)
      BY <1>a, <1>13 DEF Guarded, Goto, Seek, Become, Now, Process
    <2>2. space' = space /\ stores' = stores
      BY <1>13 DEF Guarded, diskVars
    <2>3. \A q \in Procs : q # p => Spared(q)
      BY <2>2, SparedSame
    <2>4. TaskFits(p)' /\ LocksFit(p)' /\ StoreFits(p)'
      <3>1. TaskFits(p)'
        BY <1>a, <1>13, <2>1 DEF Guarded, Now, TaskFits, Locked, Open
      <3>2. LocksFit(p)'
        BY <1>a, <1>13, <2>1, <2>2 DEF Guarded, Now, LocksFit, Inside, LockOf, TaskFits
      <3>3. StoreFits(p)'
        <4>1. proc[p].active \in Nat /\ proc[p].active <= stores /\ proc[p].active <= stores'
          BY <1>a, <1>b DEF StoreFits, Process
        <4> QED
          BY <1>a, <1>b, <1>13, <2>1, <2>2, <4>1 DEF Guarded, Now, StoreFits, Exists
      <3> QED
        BY <3>1, <3>2, <3>3
    <2>5. \A q \in Procs : q # p => Exclusive(p, q)'
      BY <1>a, <1>d, <1>13, <2>1, ExclusiveKept DEF Guarded, Now, LocksFit, Shared, Locked
    <2> QED
      BY <1>b, <1>d, <2>3, <2>4, <2>5, StepFits
  <1>14. CASE Inspect(p)
    <2>1. Now(p, "inspect", proc[p].task, proc[p].held, proc[p].fd, proc[p].active)
      BY <1>a, <1>14 DEF Inspect, Goto, Seek, Become, Now, Process
    <2>2. space'.id = space.id /\ space'.store = space.store /\ space'.blamed = space.blamed /\ stores' = stores
      BY <1>a, <1>14 DEF Inspect, Space
    <2>3. \A q \in Procs : q # p => Spared(q)
      BY <2>2, SparedSame
    <2>4. TaskFits(p)' /\ LocksFit(p)' /\ StoreFits(p)'
      BY <1>a, <1>b, <1>14, <2>1, <2>2
         DEF Inspect, Now, TaskFits, LocksFit, StoreFits, Inside, LockOf, Exists, Locked, Open,
             Current
    <2>5. \A q \in Procs : q # p => Exclusive(p, q)'
      BY <1>a, <1>d, <1>14, <2>1, ExclusiveKept DEF Inspect, Now, LocksFit, Shared, Locked
    <2> QED
      BY <1>b, <1>d, <2>3, <2>4, <2>5, StepFits
  <1>15. CASE Start(p)
    <2>1. CASE Goto(p, "store")
      <3>1. Now(p, "store", proc[p].task, proc[p].held, proc[p].fd, proc[p].active)
        BY <1>a, <2>1 DEF Goto, Seek, Become, Now, Process
      <3>2. space' = space /\ stores' = stores
        BY <1>15 DEF Start, diskVars
      <3>3. \A q \in Procs : q # p => Spared(q)
        BY <3>2, SparedSame
      <3>4. TaskFits(p)' /\ LocksFit(p)' /\ StoreFits(p)'
        BY <1>a, <1>b, <1>15, <2>1, ProcessAssumption, <3>1, <3>2
           DEF Start, Now, TaskFits, LocksFit, StoreFits, Inside, LockOf, Exists, Locked, Current
      <3>5. \A q \in Procs : q # p => Exclusive(p, q)'
        BY <1>a, <1>d, <1>15, <2>1, ProcessAssumption, <3>1, ExclusiveKept
           DEF Start, Now, LocksFit, TaskFits, Shared, Locked
      <3> QED
        BY <1>b, <1>d, <3>3, <3>4, <3>5, StepFits
    <2>2. CASE Exists /\ Seek(p, "use")
      <3>1. Now(p, "mkdir", "use", proc[p].held, proc[p].fd, proc[p].active)
        BY <1>a, <2>2 DEF Goto, Seek, Become, Now, Process
      <3>2. space' = space /\ stores' = stores
        BY <1>15 DEF Start, diskVars
      <3>3. \A q \in Procs : q # p => Spared(q)
        BY <3>2, SparedSame
      <3>4. TaskFits(p)' /\ LocksFit(p)' /\ StoreFits(p)'
        BY <1>a, <1>b, <1>15, <2>2, ProcessAssumption, <3>1, <3>2
           DEF Start, Now, TaskFits, LocksFit, StoreFits, Inside, LockOf, Exists, Locked, Current
      <3>5. \A q \in Procs : q # p => Exclusive(p, q)'
        BY <1>a, <1>d, <1>15, <2>2, ProcessAssumption, <3>1, ExclusiveKept
           DEF Start, Now, LocksFit, TaskFits, Shared, Locked
      <3> QED
        BY <1>b, <1>d, <3>3, <3>4, <3>5, StepFits
    <2> QED
      BY <1>15, <2>1, <2>2 DEF Start
  <1>16. CASE List(p)
    <2>1. CASE Become(p, [proc[p] EXCEPT !.pc = "mkdir", !.found = space.lockFile])
      <3>1. Now(p, "mkdir", proc[p].task, proc[p].held, proc[p].fd, proc[p].active)
        BY <1>a, <2>1 DEF Goto, Seek, Become, Now, Process
      <3>2. space' = space /\ stores' = stores
        BY <1>16 DEF List, diskVars
      <3>3. \A q \in Procs : q # p => Spared(q)
        BY <3>2, SparedSame
      <3>4. TaskFits(p)' /\ LocksFit(p)' /\ StoreFits(p)'
        BY <1>a, <1>b, <1>16, <2>1, <3>1, <3>2
           DEF List, Now, TaskFits, LocksFit, StoreFits, Inside, LockOf, Exists, Locked, Current
      <3>5. \A q \in Procs : q # p => Exclusive(p, q)'
        BY <1>a, <1>d, <1>16, <2>1, <3>1, ExclusiveKept
           DEF List, Now, LocksFit, TaskFits, Shared, Locked
      <3> QED
        BY <1>b, <1>d, <3>3, <3>4, <3>5, StepFits
    <2>2. CASE End(p, "done")
      <3>1. space' = space /\ stores' = stores
        BY <1>16 DEF List, diskVars
      <3> QED
        BY <2>2, <3>1, EndStep DEF Ended
    <2> QED
      BY <1>16, <2>1, <2>2 DEF List
  <1>17. CASE Leave(p)
    <2>1. CASE End(p, "done")
      <3>1. space' = space /\ stores' = stores
        BY <1>17 DEF Leave, diskVars
      <3> QED
        BY <2>1, <3>1, EndStep DEF Ended
    <2>2. CASE End(p, "guard")
      <3>1. space' = space /\ stores' = stores
        BY <1>17 DEF Leave, diskVars
      <3> QED
        BY <2>2, <3>1, EndStep DEF Ended
    <2> QED
      BY <1>17, <2>1, <2>2 DEF Leave
  <1>18. CASE StoreError(p)
    <2>1. CASE Become(p, [proc[p] EXCEPT !.pc = "mkdir", !.task = "repair", !.held = {}, !.fd = 0])
      <3>1. Now(p, "mkdir", "repair", {}, 0, proc[p].active)
        BY <1>a, <2>1 DEF Goto, Seek, Become, Now, Process
      <3>2. space'.id = space.id /\ space'.store = space.store /\ space'.blamed /\ stores' = stores
        BY <1>a, <1>18 DEF StoreError, Space
      <3>3. \A q \in Procs : q # p => Spared(q)
        BY <3>2, SparedSame
      <3>4. TaskFits(p)' /\ LocksFit(p)' /\ StoreFits(p)'
        BY <1>a, <1>b, <1>18, <2>1, <3>1, <3>2
           DEF StoreError, Now, TaskFits, LocksFit, StoreFits, Inside, LockOf, Exists, Locked,
               Current
      <3>5. \A q \in Procs : q # p => Exclusive(p, q)'
        BY <1>a, <1>d, <1>18, <2>1, <3>1, ExclusiveKept
           DEF StoreError, Now, LocksFit, TaskFits, Shared, Locked
      <3> QED
        BY <1>b, <1>d, <3>3, <3>4, <3>5, StepFits
    <2>2. CASE End(p, "failed")
      <3>1. space'.id = space.id /\ space'.store = space.store /\ space'.blamed /\ stores' = stores
        BY <1>a, <1>18 DEF StoreError, Space
      <3> QED
        BY <2>2, <3>1, EndStep DEF Ended
    <2>3. CASE End(p, "guard")
      <3>1. space'.id = space.id /\ space'.store = space.store /\ space'.blamed /\ stores' = stores
        BY <1>a, <1>18 DEF StoreError, Space
      <3> QED
        BY <2>3, <3>1, EndStep DEF Ended
    <2> QED
      BY <1>18, <2>1, <2>2, <2>3 DEF StoreError
  <1>19. CASE Guard(p)
    <2>1. CASE Seek(p, "guard")
      <3>1. Now(p, "mkdir", "guard", proc[p].held, proc[p].fd, proc[p].active)
        BY <1>a, <2>1 DEF Goto, Seek, Become, Now, Process
      <3>2. space' = space /\ stores' = stores
        BY <1>19 DEF Guard, diskVars
      <3>3. \A q \in Procs : q # p => Spared(q)
        BY <3>2, SparedSame
      <3>4. TaskFits(p)' /\ LocksFit(p)' /\ StoreFits(p)'
        BY <1>a, <1>b, <1>19, <2>1, <3>1, <3>2
           DEF Guard, Now, TaskFits, LocksFit, StoreFits, Inside, LockOf, Exists, Locked, Current
      <3>5. \A q \in Procs : q # p => Exclusive(p, q)'
        BY <1>a, <1>d, <1>19, <2>1, <3>1, ExclusiveKept
           DEF Guard, Now, LocksFit, TaskFits, Shared, Locked
      <3> QED
        BY <1>b, <1>d, <3>3, <3>4, <3>5, StepFits
    <2>2. CASE End(p, "done")
      <3>1. space' = space /\ stores' = stores
        BY <1>19 DEF Guard, diskVars
      <3> QED
        BY <2>2, <3>1, EndStep DEF Ended
    <2> QED
      BY <1>19, <2>1, <2>2 DEF Guard
  <1>20. CASE EnterMaintain(p)
    <2>1. CASE Exists /\ Goto(p, "repack")
      <3>1. Now(p, "repack", proc[p].task, proc[p].held, proc[p].fd, proc[p].active)
        BY <1>a, <2>1 DEF Goto, Seek, Become, Now, Process
      <3>2. space' = space /\ stores' = stores
        BY <1>20 DEF EnterMaintain, diskVars
      <3>3. \A q \in Procs : q # p => Spared(q)
        BY <3>2, SparedSame
      <3>4. TaskFits(p)' /\ LocksFit(p)' /\ StoreFits(p)'
        BY <1>a, <1>b, <1>20, <2>1, <3>1, <3>2
           DEF EnterMaintain, Now, TaskFits, LocksFit, StoreFits, Inside, LockOf, Exists, Locked,
               Current
      <3>5. \A q \in Procs : q # p => Exclusive(p, q)'
        BY <1>a, <1>d, <1>20, <2>1, <3>1, ExclusiveKept
           DEF EnterMaintain, Now, LocksFit, TaskFits, Shared, Locked
      <3> QED
        BY <1>b, <1>d, <3>3, <3>4, <3>5, StepFits
    <2>2. CASE End(p, "done")
      <3>1. space' = space /\ stores' = stores
        BY <1>20 DEF EnterMaintain, diskVars
      <3> QED
        BY <2>2, <3>1, EndStep DEF Ended
    <2> QED
      BY <1>20, <2>1, <2>2 DEF EnterMaintain
  <1>21. CASE Judge(p)
    <2>1. CASE Goto(p, "discard")
      <3>1. Now(p, "discard", proc[p].task, proc[p].held, proc[p].fd, proc[p].active)
        BY <1>a, <2>1 DEF Goto, Seek, Become, Now, Process
      <3>2. space' = space /\ stores' = stores
        BY <1>21 DEF Judge, diskVars
      <3>3. \A q \in Procs : q # p => Spared(q)
        BY <3>2, SparedSame
      <3>4. TaskFits(p)' /\ LocksFit(p)' /\ StoreFits(p)'
        BY <1>a, <1>b, <1>21, <2>1, <3>1, <3>2
           DEF Judge, Now, TaskFits, LocksFit, StoreFits, Inside, LockOf, Exists, Locked, Current
      <3>5. \A q \in Procs : q # p => Exclusive(p, q)'
        BY <1>a, <1>d, <1>21, <2>1, <3>1, ExclusiveKept
           DEF Judge, Now, LocksFit, TaskFits, Shared, Locked
      <3> QED
        BY <1>b, <1>d, <3>3, <3>4, <3>5, StepFits
    <2>2. CASE End(p, "guard")
      <3>1. space' = space /\ stores' = stores
        BY <1>21 DEF Judge, diskVars
      <3> QED
        BY <2>2, <3>1, EndStep DEF Ended
    <2> QED
      BY <1>21, <2>1, <2>2 DEF Judge
  <1>22. CASE OpenFails(p) \/ Busy(p) \/ RenameFails(p) \/ Repack(p) \/ Crash(p)
    <2>1. space' = space /\ stores' = stores
      BY <1>22 DEF OpenFails, Busy, RenameFails, Repack, Crash, diskVars
    <2>2. PICK label \in Ended : End(p, label)
      BY <1>22 DEF OpenFails, Busy, RenameFails, Repack, Crash, Ended
    <2> QED
      BY <2>1, <2>2, EndStep
  <1>23. CASE Discard(p)
    <2>1. Now(p, "done", proc[p].task, {}, 0, 0)
      BY <1>a, <1>23 DEF Discard, End, Become, Fresh, Now
    <2>2. space'.store = 0 /\ stores' = stores
      BY <1>23, EmptySpaces DEF Discard, NoSpace
    <2>3. Inside(p) /\ ~Shared(p)
      BY <1>a, <1>23 DEF Discard, Inside, Shared, TaskFits
    <2>4. \A q \in Procs : q # p => Spared(q)
      BY <2>2, <2>3, AloneInside DEF Spared
    <2>5. TaskFits(p)' /\ LocksFit(p)' /\ StoreFits(p)'
      BY <1>a, <1>b, <2>1, <2>2 DEF Now, TaskFits, LocksFit, StoreFits, Inside, LockOf, Exists
    <2>6. \A q \in Procs : Exclusive(p, q)'
      BY <2>1 DEF Now, Exclusive
    <2> QED
      BY <1>b, <1>d, <2>4, <2>5, <2>6, StepFits
  <1> QED
    BY <1>1, <1>2, <1>3, <1>4, <1>5, <1>6, <1>7, <1>8, <1>9, <1>10, <1>11, <1>12, <1>13, <1>14,
       <1>15, <1>16, <1>17, <1>18, <1>19, <1>20, <1>21, <1>22, <1>23
       DEF Step

\* The lock invariant holds of every behaviour.
THEOREM LocksHold == Spec => []LockInv
  <1>1. Init => LockInv
    <2> SUFFICES ASSUME Init
                 PROVE  LockInv
      OBVIOUS
    <2>1. TypeOK
      BY InitTypes
    <2>2. \A p \in Procs :
            /\ proc[p].pc = "start" /\ proc[p].held = {} /\ proc[p].active = 0
            /\ proc[p].task = IF p \in Users THEN "prepare" ELSE "prune"
      BY DEF Init, Fresh
    <2>3. \A p \in Procs : TaskFits(p) /\ LocksFit(p) /\ StoreFits(p)
      BY <2>1, <2>2, ProcessAssumption
         DEF TaskFits, LocksFit, StoreFits, Inside, Exists, Procs, TypeOK
    <2>4. \A p, q \in Procs : Exclusive(p, q)
      BY <2>2 DEF Exclusive
    <2> QED
      BY <2>1, <2>3, <2>4 DEF LockInv
  <1>2. LockInv /\ [Next]_vars => LockInv'
    <2> SUFFICES ASSUME LockInv, [Next]_vars
                 PROVE  LockInv'
      OBVIOUS
    <2>1. TypeOK'
      BY NextTypes DEF LockInv
    <2>2. ASSUME NEW p \in Procs, Step(p) \/ Crash(p)
          PROVE  LockInv'
      BY <2>1, <2>2, LockStep
    <2>3. ASSUME proc' = proc, stores' = stores, space'.id = space.id, space'.store = space.store,
                 space.blamed => space'.blamed
          PROVE  LockInv'
      <3>1. \A q \in Procs : TaskFits(q)' /\ LocksFit(q)' /\ StoreFits(q)'
        <4>1. stores' \in Nat /\ stores <= stores'
          BY <2>3 DEF LockInv, TypeOK
        <4> QED
          BY <2>3, <4>1, SparedSame, Others
      <3> QED
        BY <2>1, <2>3, <3>1 DEF LockInv, Exclusive, Shared
    <2>4. CASE Age
      <3>1. space'.id = space.id /\ space'.store = space.store /\ space'.blamed = space.blamed
        BY <2>4 DEF Age, LockInv, TypeOK, Space
      <3> QED
        BY <2>3, <2>4, <3>1 DEF Age
    <2>5. CASE UNCHANGED vars
      BY <2>3, <2>5 DEF vars, diskVars
    <2> QED
      BY <2>2, <2>4, <2>5 DEF Next
  <1> QED
    BY <1>1, <1>2, PTL DEF Spec

\* An operation works on the store it found, until it leaves it.
THEOREM StoreStaysHolds == Spec => []StoreStaysUnderUser
  <1>1. LockInv => StoreStaysUnderUser
    BY DEF LockInv, LocksFit, StoreFits, Inside, StoreStaysUnderUser
  <1> QED
    BY <1>1, LocksHold, PTL

\* Maintenance is alone with the store it repacks.
THEOREM RepackAloneHolds == Spec => []RepackAlone
  <1>1. LockInv => RepackAlone
    <2> SUFFICES ASSUME LockInv, NEW p \in Procs, NEW q \in Procs, proc[p].pc = "repack", p # q
                 PROVE  Exists /\ ~Inside(q)
      BY DEF RepackAlone, Inside
    <2>1. Inside(p) /\ ~Shared(p) /\ Exists
      BY DEF LockInv, TaskFits, StoreFits, Inside, Shared
    <2> QED
      BY <2>1, AloneInside
  <1> QED
    BY <1>1, LocksHold, PTL

\* Only a failed store is taken away while its namespace stays.
THEOREM RebuildsOnlyFailedHolds == Spec => RebuildsOnlyFailed
  <1>1. LockInv /\ [Next]_vars => [(space'.id = space.id /\ Exists /\ space'.store # space.store) => space.blamed]_vars
    <2> SUFFICES ASSUME LockInv, Next, space'.id = space.id, Exists, space'.store # space.store
                 PROVE  space.blamed
      BY DEF vars, diskVars
    <2>1. space \in Space /\ spaces \in Nat
      BY DEF LockInv, TypeOK
    <2>2. ASSUME NEW p \in Procs, MoveAside(p)
          PROVE  space.blamed
      BY <2>2 DEF MoveAside, FailedStore, LockInv, TaskFits, StoreFits
    <2>3. ASSUME NEW p \in Procs, Discard(p)
          PROVE  FALSE
      <3>1. space.id # 0
        BY <2>3 DEF Discard, LockInv, LocksFit, Inside
      <3> QED
        BY <2>3, <3>1, EmptySpaces DEF Discard, NoSpace
    <2>4. ASSUME NEW p \in Procs, Step(p) \/ Crash(p), ~MoveAside(p), ~Discard(p)
          PROVE  FALSE
      <3>1. CASE UNCHANGED diskVars
        BY <3>1 DEF diskVars
      <3>2. CASE MakeSpace
        BY <2>1, <3>2, EmptySpaces DEF MakeSpace
      <3>3. CASE RenameStore(p)
        BY <3>3 DEF RenameStore
      <3>4. CASE OpenLock(p) \/ Touch(p) \/ StoreError(p) \/ Inspect(p)
        BY <2>1, <3>4 DEF OpenLock, Touch, StoreError, Inspect, Space
      <3> QED
        BY <2>4, <3>1, <3>2, <3>3, <3>4
           DEF Step, MakeDirectory, Stage, OpenFails, Lock, Busy, Reopen, RenameFails, Start,
               Opened, Enter, Leave, EnterRepair, Rebuilt, Guard, Guarded, EnterMaintain, Repack,
               List, Judge, Crash
    <2>5. CASE Age
      BY <2>1, <2>5 DEF Age, Space
    <2>6. CASE UNCHANGED vars
      BY <2>6 DEF vars, diskVars
    <2> QED
      BY <2>2, <2>3, <2>4, <2>5, <2>6 DEF Next
  <1> QED
    BY <1>1, LocksHold, PTL DEF Spec, RebuildsOnlyFailed

-----------------------------------------------------------------------------
\* Prune

\* The namespace was used after the cutoff, and its stamp has not been put back.
Stamped == space.recent /\ ~space.backdated

\* The stamp that prune reads is at least as fresh as the use it must respect,
\* and a namespace about to be removed was not used.
UseInv ==
    /\ Stamped => space.lockFresh
    /\ \A p \in Procs : proc[p].pc = "discard" => ~Stamped

\* Only a use stamps the namespace, and every use freshens the stamp.
LEMMA StepStamps ==
    ASSUME LockInv, NEW p \in Procs, Step(p) \/ Crash(p), Stamped => space.lockFresh
    PROVE  /\ Stamped' => space'.lockFresh
           /\ ~Touch(p) /\ Stamped' => Stamped
  <1> USE DEF Stamped
  <1>1. space \in Space /\ spaces \in Nat
    BY DEF LockInv, TypeOK
  <1>2. CASE UNCHANGED diskVars
    BY <1>2 DEF diskVars
  <1>3. CASE MakeSpace
    BY <1>1, <1>3 DEF MakeSpace, EmptySpace
  <1>4. CASE OpenLock(p) \/ RenameStore(p) \/ StoreError(p) \/ MoveAside(p)
    BY <1>1, <1>4 DEF OpenLock, RenameStore, StoreError, MoveAside, Space
  <1>5. CASE Touch(p)
    BY <1>1, <1>5 DEF Touch, Space
  <1>6. CASE Inspect(p)
    BY <1>1, <1>6 DEF Inspect, Space
  <1>7. CASE Discard(p)
    BY <1>7 DEF Discard, NoSpace, EmptySpace
  <1> QED
    BY <1>2, <1>3, <1>4, <1>5, <1>6, <1>7
       DEF Step, MakeDirectory, Stage, OpenFails, Lock, Busy, Reopen, RenameFails, Start, Opened,
           Enter, Leave, EnterRepair, Rebuilt, Guard, Guarded, EnterMaintain, Repack, List, Judge,
           Crash

\* Nobody uses the namespace while prune has it locked to remove it.
LEMMA NoUseUnderPrune ==
    ASSUME LockInv, NEW p \in Procs, NEW q \in Procs, proc[q].pc = "discard"
    PROVE  ~Touch(p)
  <1> SUFFICES ASSUME Touch(p)
               PROVE  FALSE
    OBVIOUS
  <1>1. p # q /\ proc[p].task = "use" /\ proc[p].fd = space.id
    BY DEF Touch, Locked, Current
  <1>2. proc[q].task = "prune" /\ space.id \in Nat
    BY DEF LockInv, TaskFits, TypeOK, Space
  <1>3. <<"store", space.id>> \in proc[p].held /\ <<"store", space.id>> \in proc[q].held
    BY <1>1 DEF LockInv, LocksFit, LockOf, Inside, Touch, Locked
  <1> QED
    BY <1>1, <1>2, <1>3 DEF LockInv, Exclusive, Shared

\* Prune decides to remove a namespace only by judging it.
LEMMA DiscardOnlyJudged ==
    ASSUME TypeOK, NEW p \in Procs, Step(p) \/ Crash(p), proc'[p].pc = "discard"
    PROVE  Judge(p) /\ Unused
  <1>1. proc[p] \in Process
    BY DEF TypeOK
  <1>2. ASSUME NEW r, Become(p, r)
        PROVE  proc'[p] = r
    BY <1>2 DEF Become, TypeOK
  <1>3. ASSUME NEW label, label # "discard", Goto(p, label) \/ End(p, label)
        PROVE  FALSE
    BY <1>1, <1>2, <1>3 DEF Goto, End, Fresh, Process
  <1>4. ASSUME NEW t, Seek(p, t)
        PROVE  FALSE
    BY <1>1, <1>2, <1>4 DEF Seek, Process
  <1>5. CASE Judge(p)
    BY <1>3, <1>5 DEF Judge
  <1>6. CASE \/ OpenLock(p) \/ Lock(p) \/ Reopen(p) \/ Stage(p) \/ RenameStore(p) \/ Enter(p)
             \/ StoreError(p) \/ Rebuilt(p) \/ List(p)
    BY <1>1, <1>2, <1>3, <1>6
       DEF OpenLock, Lock, Reopen, Stage, RenameStore, Enter, StoreError, Rebuilt, List, Process
  <1>7. CASE \/ MakeDirectory(p) \/ OpenFails(p) \/ Busy(p) \/ RenameFails(p) \/ Start(p) \/ Opened(p)
             \/ Touch(p) \/ Leave(p) \/ EnterRepair(p) \/ MoveAside(p) \/ Guard(p) \/ Guarded(p)
             \/ EnterMaintain(p) \/ Repack(p) \/ Inspect(p) \/ Discard(p) \/ Crash(p)
    BY <1>3, <1>4, <1>7
       DEF MakeDirectory, OpenFails, Busy, RenameFails, Start, Opened, Touch, Leave, EnterRepair,
           MoveAside, Guard, Guarded, EnterMaintain, Repack, Inspect, Discard, Crash
  <1> QED
    BY <1>5, <1>6, <1>7 DEF Step

\* The invariant about use holds of every behaviour.
THEOREM UseHolds == Spec => []UseInv
  <1>1. Init => UseInv
    <2> SUFFICES ASSUME Init
                 PROVE  UseInv
      OBVIOUS
    <2>1. ~Stamped
      <3>1. CASE space = NoSpace
        BY <3>1 DEF NoSpace, EmptySpace, Stamped
      <3>2. ASSUME NEW b \in BOOLEAN, NEW s \in {0, 1},
                   space = [EmptySpace(1) EXCEPT !.lockFile = b, !.store = s]
            PROVE  ~Stamped
        BY <3>2 DEF EmptySpace, Stamped
      <3> QED
        BY <3>1, <3>2 DEF Init
    <2>2. \A p \in Procs : proc[p].pc = "start"
      BY DEF Init, Fresh
    <2> QED
      BY <2>1, <2>2 DEF UseInv
  <1>2. LockInv /\ UseInv /\ [Next]_vars => UseInv'
    <2> SUFFICES ASSUME LockInv, UseInv, [Next]_vars
                 PROVE  UseInv'
      OBVIOUS
    <2>1. ASSUME NEW p \in Procs, Step(p) \/ Crash(p)
          PROVE  UseInv'
      <3>1. /\ Stamped' => space'.lockFresh
            /\ ~Touch(p) /\ Stamped' => Stamped
        BY <2>1, StepStamps DEF UseInv
      <3>2. ASSUME NEW q \in Procs, q # p, proc'[q].pc = "discard"
            PROVE  ~Stamped'
        <4>1. space' \in Space
          BY <2>1, NextTypes DEF LockInv, TypeOK, Next
        <4>2. proc'[q] = proc[q]
          BY <2>1, <3>2, <4>1, StepProcess, Becomes DEF LockInv
        <4>3. ~Touch(p) /\ ~Stamped
          BY <3>2, <4>2, NoUseUnderPrune DEF UseInv
        <4> QED
          BY <3>1, <4>3
      <3>3. ASSUME proc'[p].pc = "discard"
            PROVE  ~Stamped'
        <4>1. Judge(p) /\ Unused
          BY <2>1, <3>3, DiscardOnlyJudged DEF LockInv
        <4> QED
          BY <4>1 DEF Judge, Unused, UseInv, Stamped, diskVars
      <3> QED
        BY <3>1, <3>2, <3>3 DEF UseInv
    <2>2. CASE Age
      <3>1. /\ space' = [space EXCEPT !.lockFresh = FALSE, !.storeFresh = FALSE,
                                      !.recent = FALSE, !.backdated = FALSE]
            /\ space \in Space
        BY <2>2 DEF Age, LockInv, TypeOK
      <3> QED
        BY <3>1 DEF UseInv, Stamped, Space
    <2>3. CASE UNCHANGED vars
      BY <2>3 DEF vars, diskVars, UseInv, Stamped
    <2> QED
      BY <2>1, <2>2, <2>3 DEF Next
  <1> QED
    BY <1>1, <1>2, LocksHold, PTL DEF Spec

\* A namespace at the path is removed only when it does not look used: prune
\* looked under the lock, and kept the lock until the directory was gone.
LEMMA RemovedUnstamped ==
    ASSUME LockInv, UseInv, [Next]_vars, Removed
    PROVE  ~Stamped
  <1>1. ~Stamped
    <2> SUFFICES ASSUME Next, space.id # 0, space'.id # space.id
                 PROVE  ~Stamped
      BY DEF vars, diskVars, Removed
    <2>1. space \in Space
      BY DEF LockInv, TypeOK
    <2>2. ASSUME NEW p \in Procs, Discard(p)
          PROVE  ~Stamped
      BY <2>2 DEF Discard, UseInv
    <2>3. ASSUME NEW p \in Procs, Step(p) \/ Crash(p), ~Discard(p)
          PROVE  FALSE
      <3>1. CASE UNCHANGED diskVars
        BY <3>1 DEF diskVars
      <3>2. CASE MakeSpace
        BY <3>2 DEF MakeSpace
      <3>3. CASE OpenLock(p) \/ RenameStore(p) \/ Touch(p) \/ StoreError(p) \/ MoveAside(p) \/ Inspect(p)
        BY <2>1, <3>3 DEF OpenLock, RenameStore, Touch, StoreError, MoveAside, Inspect, Space
      <3> QED
        BY <2>3, <3>1, <3>2, <3>3
           DEF Step, MakeDirectory, Stage, OpenFails, Lock, Busy, Reopen, RenameFails, Start,
               Opened, Enter, Leave, EnterRepair, Rebuilt, Guard, Guarded, EnterMaintain, Repack,
               List, Judge, Crash
    <2>4. CASE Age
      BY <2>1, <2>4 DEF Age, Space
    <2>5. CASE UNCHANGED vars
      BY <2>5 DEF vars, diskVars
    <2> QED
      BY <2>2, <2>3, <2>4, <2>5 DEF Next
  <1> QED
    BY <1>1

\* Prune removes a namespace that was used after its cutoff only when a prune
\* has put the stamp of that use back.
THEOREM PruneSparesUsedHolds == Spec => PruneSparesUsed
  <1>1. LockInv /\ UseInv /\ [Next]_vars => [Removed => ~space.recent \/ space.backdated]_vars
    BY RemovedUnstamped DEF Stamped
  <1> QED
    BY <1>1, LocksHold, UseHolds, PTL DEF Spec, PruneSparesUsed

\* A prune that saw no lock file meets one that a user has created since.
BackdatesUse == \E p \in Procs : Inspect(p) /\ ~proc[p].found /\ space.recent

\* Nothing else puts the stamp of a use back.
LEMMA BackdatedOnlySo ==
    ASSUME LockInv, ~space.backdated, [Next]_vars, ~BackdatesUse
    PROVE  ~space'.backdated
  <1>1. space \in Space
    BY DEF LockInv, TypeOK
  <1>2. ASSUME NEW p \in Procs, Step(p) \/ Crash(p)
        PROVE  ~space'.backdated
    <2>1. CASE UNCHANGED diskVars
      BY <2>1 DEF diskVars
    <2>2. CASE MakeSpace
      BY <2>2 DEF MakeSpace, EmptySpace
    <2>3. CASE OpenLock(p) \/ RenameStore(p) \/ Touch(p) \/ StoreError(p) \/ MoveAside(p)
      BY <1>1, <2>3 DEF OpenLock, RenameStore, Touch, StoreError, MoveAside, Space
    <2>4. CASE Inspect(p)
      BY <1>1, <2>4 DEF Inspect, BackdatesUse, Space
    <2>5. CASE Discard(p)
      BY <2>5 DEF Discard, NoSpace, EmptySpace
    <2> QED
      BY <1>2, <2>1, <2>2, <2>3, <2>4, <2>5
         DEF Step, MakeDirectory, Stage, OpenFails, Lock, Busy, Reopen, RenameFails, Start,
             Opened, Enter, Leave, EnterRepair, Rebuilt, Guard, Guarded, EnterMaintain, Repack,
             List, Judge, Crash
  <1>3. CASE Age
    BY <1>1, <1>3 DEF Age, Space
  <1>4. CASE UNCHANGED vars
    BY <1>4 DEF vars, diskVars
  <1> QED
    BY <1>2, <1>3, <1>4 DEF Next

\* So a namespace that was used after the cutoff is never removed while no
\* prune meets a lock file that appeared after it had looked for one.
THEOREM PruneSparesUsedStrictly ==
    Spec /\ [][~BackdatesUse]_vars => [][Removed => ~space.recent]_vars
  <1>1. Init => ~space.backdated
    <2>1. space = NoSpace => ~space.backdated
      BY DEF NoSpace, EmptySpace
    <2>2. ASSUME NEW b \in BOOLEAN, NEW s \in {0, 1},
                 space = [EmptySpace(1) EXCEPT !.lockFile = b, !.store = s]
          PROVE  ~space.backdated
      BY <2>2 DEF EmptySpace
    <2> QED
      BY <2>1, <2>2 DEF Init
  <1>2. LockInv /\ ~space.backdated /\ [Next]_vars /\ [~BackdatesUse]_vars => (~space.backdated)'
    <2>1. UNCHANGED vars => space'.backdated = space.backdated
      BY DEF vars, diskVars
    <2> QED
      BY <2>1, BackdatedOnlySo
  <1>3. LockInv /\ UseInv /\ ~space.backdated /\ [Next]_vars => [Removed => ~space.recent]_vars
    BY RemovedUnstamped DEF Stamped
  <1> QED
    BY <1>1, <1>2, <1>3, LocksHold, UseHolds, PTL DEF Spec


-----------------------------------------------------------------------------
\* Waiting

\* A process that flock makes wait.
Waits(p) == proc[p].pc = "lock" /\ Blocking(p) /\ ~Compatible(p)

\* No call waits for another one while it has a store locked: repair gives up
\* the shared lock before it asks for the exclusive one, maintenance asks first
\* for a lock nobody waits for, and a call that ended has none.
HoldsFit(p) ==
    /\ proc[p].pc \in {"mkdir", "open", "lock"} \cup Ended =>
          \A n \in Nat : <<"store", n>> \notin proc[p].held
    /\ proc[p].pc = "check" => \A n \in Nat : <<"store", n>> \in proc[p].held => n = proc[p].fd

HoldInv == \A p \in Procs : HoldsFit(p)

\* Whoever is waited for runs: it has not ended and does not wait itself, so
\* waiting is never mutual and no lock outlives its owner.
WaitersHaveRunners ==
    \A p \in Procs : Waits(p) =>
        \E q \in Procs \ {p} : LockOf(p) \in proc[q].held /\ proc[q].pc \notin Ended /\ ~Waits(q)

\* A step of a process keeps what it may hold where it then is.
LEMMA HoldStep ==
    ASSUME LockInv, NEW p \in Procs, HoldsFit(p), Step(p) \/ Crash(p)
    PROVE  HoldsFit(p)'
  <1>1. proc[p] \in Process /\ TaskFits(p) /\ LocksFit(p)
    BY DEF LockInv, TypeOK
  <1>2. ASSUME NEW r, Become(p, r)
        PROVE  proc'[p] = r
    BY <1>2 DEF Become, LockInv, TypeOK
  <1>3. ASSUME NEW label, End(p, label)
        PROVE  HoldsFit(p)'
    BY <1>2, <1>3 DEF End, Fresh, HoldsFit
  <1>4. ASSUME NEW label \in {"store", "rename", "work", "aside", "inspect", "discard", "repack"}, Goto(p, label)
        PROVE  HoldsFit(p)'
    BY <1>1, <1>2, <1>4 DEF Goto, HoldsFit, Process, Ended
  <1>5. ASSUME NEW t, Seek(p, t), \A n \in Nat : <<"store", n>> \notin proc[p].held
        PROVE  HoldsFit(p)'
    BY <1>1, <1>2, <1>5 DEF Seek, HoldsFit, Process
  <1>6. CASE MakeDirectory(p)
    BY <1>1, <1>2, <1>6 DEF MakeDirectory, Goto, HoldsFit, Process
  <1>7. CASE OpenLock(p)
    BY <1>1, <1>2, <1>7 DEF OpenLock, HoldsFit, Process
  <1>8. CASE Lock(p)
    <2>1. /\ proc'[p].pc = "check"
          /\ proc'[p].held = proc[p].held \cup {LockOf(p)}
          /\ proc'[p].fd = proc[p].fd
      BY <1>1, <1>2, <1>8 DEF Lock, Process
    <2>2. \A n \in Nat : <<"store", n>> = LockOf(p) => n = proc[p].fd
      BY DEF LockOf
    <2> QED
      BY <1>8, <2>1, <2>2 DEF Lock, HoldsFit, Ended
  <1>9. CASE Reopen(p)
    <2>1. proc'[p].pc = "mkdir" /\ proc'[p].held = proc[p].held \ {LockOf(p)}
      BY <1>1, <1>2, <1>9 DEF Reopen, Process
    <2>2. ASSUME NEW n \in Nat, <<"store", n>> \in proc[p].held
          PROVE  <<"store", n>> = LockOf(p)
      BY <1>1, <1>9, <2>2 DEF Reopen, HoldsFit, LockOf, LocksFit
    <2> QED
      BY <2>1, <2>2 DEF HoldsFit
  <1>10. CASE Stage(p) \/ RenameStore(p) \/ Enter(p)
    <2>1. proc'[p].held = proc[p].held /\ proc'[p].pc \in {"store", "rename", "work"}
      <3>1. CASE Stage(p)
        BY <1>1, <1>2, <3>1 DEF Stage, Process
      <3>2. CASE RenameStore(p)
        BY <1>1, <1>2, <3>2 DEF RenameStore, Process
      <3>3. CASE Enter(p)
        BY <1>1, <1>2, <3>3 DEF Enter, Process
      <3> QED
        BY <1>10, <3>1, <3>2, <3>3
    <2> QED
      BY <2>1 DEF HoldsFit, Ended
  <1>11. CASE StoreError(p) \/ Rebuilt(p)
    BY <1>1, <1>2, <1>3, <1>11 DEF StoreError, Rebuilt, HoldsFit, Process
  <1>12. CASE Start(p) \/ Opened(p) \/ Guard(p) \/ Guarded(p)
    BY <1>1, <1>3, <1>4, <1>5, <1>12 DEF Start, Opened, Open, Guard, Guarded, Locked, LocksFit
  <1>13. CASE List(p)
    <2>1. CASE space.id = 0
      BY <1>3, <1>13, <2>1 DEF List
    <2>2. CASE space.id # 0
      BY <1>1, <1>2, <1>13, <2>2 DEF List, HoldsFit, LocksFit, Process
    <2> QED
      BY <2>1, <2>2
  <1>14. CASE Touch(p) \/ EnterRepair(p) \/ MoveAside(p) \/ EnterMaintain(p) \/ Inspect(p) \/ Judge(p)
    BY <1>3, <1>4, <1>14 DEF Touch, EnterRepair, MoveAside, EnterMaintain, Inspect, Judge
  <1>15. CASE \/ OpenFails(p) \/ Busy(p) \/ RenameFails(p) \/ Leave(p) \/ Repack(p) \/ Discard(p) \/ Crash(p)
    BY <1>3, <1>15 DEF OpenFails, Busy, RenameFails, Leave, Repack, Discard, Crash
  <1> QED
    BY <1>6, <1>7, <1>8, <1>9, <1>10, <1>11, <1>12, <1>13, <1>14, <1>15 DEF Step

\* The invariant about what waiting processes hold is kept by every step.
THEOREM HoldsHold == Spec => []HoldInv
  <1>1. Init => HoldInv
    <2> SUFFICES ASSUME Init, NEW p \in Procs
                 PROVE  HoldsFit(p)
      BY DEF HoldInv
    <2>1. proc[p].pc = "start" /\ proc[p].held = {}
      BY DEF Init, Fresh
    <2> QED
      BY <2>1 DEF HoldsFit
  <1>2. LockInv /\ HoldInv /\ [Next]_vars => HoldInv'
    <2> SUFFICES ASSUME LockInv, HoldInv, [Next]_vars
                 PROVE  HoldInv'
      OBVIOUS
    <2>1. ASSUME NEW p \in Procs, Step(p) \/ Crash(p)
          PROVE  HoldInv'
      <3>1. space' \in Space
        BY <2>1, NextTypes DEF LockInv, TypeOK, Next
      <3>2. \A q \in Procs : q # p => proc'[q] = proc[q]
        BY <2>1, <3>1, StepProcess, Becomes DEF LockInv
      <3>3. \A q \in Procs : q # p => HoldsFit(q)'
        BY <3>2 DEF HoldInv, HoldsFit
      <3> QED
        BY <2>1, <3>3, HoldStep DEF HoldInv
    <2>2. CASE proc' = proc
      BY <2>2 DEF HoldInv, HoldsFit
    <2> QED
      BY <2>1, <2>2 DEF Next, Age, vars
  <1> QED
    BY <1>1, <1>2, LocksHold, PTL DEF Spec

\* No deadlock: nobody waits for a process that ended or that waits too.
THEOREM WaitersHaveRunnersHolds == Spec => []WaitersHaveRunners
  <1>1. LockInv /\ HoldInv => WaitersHaveRunners
    <2> SUFFICES ASSUME LockInv, HoldInv, NEW p \in Procs, Waits(p)
                 PROVE  \E q \in Procs \ {p} :
                            LockOf(p) \in proc[q].held /\ proc[q].pc \notin Ended /\ ~Waits(q)
      BY DEF WaitersHaveRunners
    <2>1. PICK q \in Procs : LockOf(p) \in proc[q].held
      BY DEF Waits, Compatible
    <2>2. LockOf(p) = <<"store", proc[p].fd>> /\ proc[p].fd \in Nat
      BY DEF Waits, Blocking, LockOf, LockInv, TypeOK, Process
    <2>3. proc[q].pc \notin {"mkdir", "open", "lock"} \cup Ended
      BY <2>1, <2>2 DEF HoldInv, HoldsFit
    <2> QED
      BY <2>1, <2>3 DEF Waits
  <1> QED
    BY <1>1, LocksHold, HoldsHold, PTL
=============================================================================
