----------------------- MODULE WorkerSupervisorProofs -----------------------
(***************************************************************************)
(* Proofs about the worker supervisor, for any number of tasks, Pushes and *)
(* slots.  The order of the semaphore's queue is not used: which waiter    *)
(* gets a permit does not matter for how many processes there are.         *)
(***************************************************************************)
EXTENDS WorkerSupervisor, FiniteSetTheorems, TLAPS

-----------------------------------------------------------------------------
(* The inductive invariant                                                 *)

\* The types of all variables but the queue of the semaphore
TaskTypes ==
    /\ job \in [TaskIds -> {"none", "query", "rename"} \union Pushes]
    /\ pc \in [TaskIds -> {"none", "created", "waiting", "spawning", "running",
                            "cleanup", "done", "settled"}]
    /\ leader \in [TaskIds -> {"none", "starting", "live"}]
    /\ git \in [TaskIds -> {"none", "live", "zombie"}]
    /\ signal \in [TaskIds -> {"none", "term", "kill"}]
    /\ queryTasks \in SUBSET TaskIds /\ mirrorTasks \in SUBSET TaskIds
    /\ pushTasks \in [Pushes -> SUBSET TaskIds]
    /\ permits \in Nat
    /\ closing \in {"open", "closing", "closed"}

\* The tasks that exist are the first ones, those have a job, and only mirror
\* work waits for a permit
CreatedInOrder ==
    /\ \E n \in 0..MaxTasks : \A t \in TaskIds : pc[t] # "none" <=> t <= n
    /\ \A t \in TaskIds : pc[t] = "none" <=> job[t] = "none"
    /\ \A t \in TaskIds : pc[t] = "waiting" => IsMirror(t)

\* The part of a task in which it owns a process group
Owning(t) == pc[t] \in {"spawning", "running", "cleanup"}

\* A process group lives only while its task owns it; a child that is being
\* started is not known to run yet, and has forked nothing
GroupsOwned ==
    \A t \in TaskIds :
        /\ group_exists(t) => Owning(t)
        /\ leader[t] = "starting" => git[t] = "none" /\ pc[t] \in {"spawning", "cleanup"}

\* Every unfinished task is registered where its kind is counted
Registered ==
    \A t \in TaskIds : Active(t) =>
        /\ job[t] = "query" => t \in queryTasks
        /\ IsMirror(t) => t \in mirrorTasks
        /\ \A p \in Pushes : job[t] = p => t \in pushTasks[p]

OneEntryPerPush == \A p \in Pushes : \A t, u \in pushTasks[p] : t = u

\* Mirror tasks that own a process group, each with its permit
Holders == {t \in TaskIds : IsMirror(t) /\ Owning(t)}

Slots ==
    /\ Cardinality(queryTasks) <= QUERY_SLOTS
    /\ permits + Cardinality(Holders) = MIRROR_SLOTS

ClosedIsQuiet == closing = "closed" => \A t \in TaskIds : ~Active(t)

SupervisorInv == TaskTypes /\ CreatedInOrder /\ GroupsOwned /\ Registered
                 /\ OneEntryPerPush /\ Slots /\ ClosedIsQuiet

-----------------------------------------------------------------------------
(* Counting                                                                *)

\* There are finitely many tasks, so every set of them has a size
LEMMA TaskSets ==
    ASSUME NEW S \in SUBSET TaskIds
    PROVE  IsFiniteSet(S) /\ Cardinality(S) \in Nat
<1>1. IsFiniteSet(TaskIds)
  BY SupervisorAssumption, FS_Interval DEF TaskIds
<1> QED
  BY <1>1, FS_Subset, FS_CardinalityType

\* The number that the next task gets is the first one that is free
LEMMA NextTask ==
    ASSUME TaskTypes, CreatedInOrder, NEW t \in TaskIds, NEW j, CreateTask(t, j)
    PROVE  /\ pc[t] = "none"
           /\ \E n \in 0..MaxTasks : \A u \in TaskIds : pc'[u] # "none" <=> u <= n
<1> DEFINE created == {u \in TaskIds : pc[u] # "none"}
<1>1. PICK n \in 0..MaxTasks : \A u \in TaskIds : pc[u] # "none" <=> u <= n
  BY DEF CreatedInOrder
<1>2. created = 1..n
  BY <1>1, SupervisorAssumption DEF TaskIds
<1> HIDE DEF created
<1>3. Cardinality(created) = n
  <2>1. n \in Int /\ 1 \in Int /\ (n = 0 \/ n >= 1)
    BY SupervisorAssumption
  <2>2. Cardinality(1..n) = IF 1 > n THEN 0 ELSE n - 1 + 1
    BY <2>1, FS_Interval
  <2> QED
    BY <1>2, <2>1, <2>2
<1>4. t = n + 1
  BY <1>3 DEF CreateTask, created
<1>5. pc[t] = "none"
  BY <1>1, <1>4, SupervisorAssumption DEF TaskIds
<1>6. \A u \in TaskIds : pc'[u] # "none" <=> u <= n + 1
  BY <1>1, <1>4, SupervisorAssumption DEF CreateTask, TaskTypes, TaskIds
<1>7. n + 1 \in 0..MaxTasks
  BY <1>4, SupervisorAssumption DEF TaskIds
<1> QED
  BY <1>5, <1>6, <1>7

\* A step that neither takes nor gives a permit keeps the count of permits
LEMMA SameHolders ==
    ASSUME TaskTypes, Slots, Holders' = Holders, permits' = permits,
           queryTasks' \in SUBSET queryTasks
    PROVE  Slots'
<1>1. Cardinality(queryTasks') <= Cardinality(queryTasks)
  BY TaskSets, FS_Subset DEF TaskTypes
<1>2. Cardinality(queryTasks) \in Nat /\ Cardinality(queryTasks') \in Nat
  BY TaskSets DEF TaskTypes
<1> QED
  BY <1>1, <1>2, SupervisorAssumption DEF Slots

\* A task that starts to own a process group takes a permit along
LEMMA OneMoreHolder ==
    ASSUME TaskTypes, Slots, NEW t \in TaskIds \ Holders, Holders' = Holders \union {t},
           permits > 0, permits' = permits - 1, queryTasks' = queryTasks
    PROVE  Slots' /\ permits' \in Nat
<1>1. Holders \in SUBSET TaskIds
  BY DEF Holders
<1>2. Cardinality(Holders') = Cardinality(Holders) + 1 /\ Cardinality(Holders) \in Nat
  BY <1>1, TaskSets, FS_AddElement
<1> QED
  BY <1>2, SupervisorAssumption DEF Slots, TaskTypes

\* A task that owns no process group any more gives its permit back
LEMMA OneHolderLess ==
    ASSUME TaskTypes, Slots, NEW t \in Holders, Holders' = Holders \ {t},
           permits' = permits + 1, queryTasks' = queryTasks
    PROVE  Slots' /\ permits' \in Nat
<1>1. Holders \in SUBSET TaskIds
  BY DEF Holders
<1>2. Cardinality(Holders') = Cardinality(Holders) - 1 /\ Cardinality(Holders) \in Nat
  BY <1>1, TaskSets, FS_RemoveElement
<1> QED
  BY <1>2, SupervisorAssumption DEF Slots, TaskTypes

-----------------------------------------------------------------------------
(* Admission                                                               *)

\* What both kinds of admission keep: the new task is the first free one, it
\* owns no process yet and takes no permit
LEMMA CreateKeeps ==
    ASSUME SupervisorInv, NEW t \in TaskIds, NEW j \in {"query", "rename"} \union Pushes,
           CreateTask(t, j)
    PROVE  /\ pc[t] = "none" /\ ~group_exists(t)
           /\ job' = [job EXCEPT ![t] = j] /\ pc' = [pc EXCEPT ![t] = "created"]
           /\ UNCHANGED <<leader, git, signal, permits, waiters, closing>>
           /\ CreatedInOrder' /\ GroupsOwned' /\ Holders' = Holders
<1>0. TaskTypes /\ CreatedInOrder /\ GroupsOwned
  BY DEF SupervisorInv
<1>1. pc[t] = "none"
  BY <1>0, NextTask
<1>2. /\ job' = [job EXCEPT ![t] = j] /\ pc' = [pc EXCEPT ![t] = "created"]
      /\ UNCHANGED <<leader, git, signal, permits, waiters, closing>>
  BY DEF CreateTask, process, semaphore
<1>3. CreatedInOrder'
  <2>1. \E n \in 0..MaxTasks : \A u \in TaskIds : pc'[u] # "none" <=> u <= n
    BY <1>0, NextTask
  <2>2. j # "none"
    BY SupervisorAssumption
  <2>3. \A u \in TaskIds : pc'[u] = "none" <=> job'[u] = "none"
    BY <1>0, <1>2, <2>2 DEF CreatedInOrder, TaskTypes
  <2>4. \A u \in TaskIds : pc'[u] = "waiting" => IsMirror(u)'
    BY <1>0, <1>2 DEF CreatedInOrder, TaskTypes, IsMirror
  <2> QED
    BY <2>1, <2>3, <2>4 DEF CreatedInOrder
<1>4. ~group_exists(t)
  BY <1>0, <1>1 DEF GroupsOwned, Owning
<1>5. GroupsOwned'
  BY <1>0, <1>1, <1>2, <1>4 DEF GroupsOwned, group_exists, Owning, TaskTypes
<1>6. Holders' = Holders
  BY <1>0, <1>1, <1>2 DEF Holders, IsMirror, Owning, TaskTypes
<1> QED
  BY <1>1, <1>2, <1>3, <1>4, <1>5, <1>6

\* run() admits a query only while a slot is free
LEMMA RunKeeps ==
    ASSUME SupervisorInv, NEW t \in TaskIds, Run(t)
    PROVE  SupervisorInv'
<1>0. TaskTypes /\ Registered /\ OneEntryPerPush /\ Slots /\ ClosedIsQuiet
  BY DEF SupervisorInv
<1>1. /\ pc[t] = "none" /\ ~group_exists(t)
      /\ job' = [job EXCEPT ![t] = "query"] /\ pc' = [pc EXCEPT ![t] = "created"]
      /\ UNCHANGED <<leader, git, signal, permits, waiters, closing>>
      /\ CreatedInOrder' /\ GroupsOwned' /\ Holders' = Holders
  BY CreateKeeps DEF Run
<1>2. /\ closing = "open" /\ Cardinality(queryTasks) < QUERY_SLOTS
      /\ queryTasks' = queryTasks \union {t} /\ UNCHANGED <<mirrorTasks, pushTasks>>
  BY DEF Run
<1>3. TaskTypes'
  BY <1>0, <1>1, <1>2 DEF TaskTypes
<1>4. Registered' /\ OneEntryPerPush' /\ ClosedIsQuiet'
  BY <1>0, <1>1, <1>2, SupervisorAssumption
     DEF Registered, OneEntryPerPush, ClosedIsQuiet, Active, IsMirror, TaskTypes
<1>5. Slots'
  <2>1. Cardinality(queryTasks') <= Cardinality(queryTasks) + 1 /\ Cardinality(queryTasks) \in Nat
    BY <1>0, <1>2, TaskSets, FS_AddElement DEF TaskTypes
  <2>2. Cardinality(queryTasks') \in Nat
    BY <1>3, TaskSets DEF TaskTypes
  <2> QED
    BY <1>0, <1>1, <1>2, <2>1, <2>2, SupervisorAssumption DEF Slots
<1> QED
  BY <1>1, <1>3, <1>4, <1>5 DEF SupervisorInv

\* Work on a mirror is admitted without a permit; it is registered at once
LEMMA SubmitMirrorKeeps ==
    ASSUME SupervisorInv, NEW t \in TaskIds, NEW j \in {"rename"} \union Pushes,
           SubmitMirror(t, j), pushTasks' \in [Pushes -> SUBSET TaskIds], OneEntryPerPush',
           \A p \in Pushes : \A u \in TaskIds :
               (Active(u) /\ job[u] = p) \/ (u = t /\ j = p) => u \in pushTasks'[p]
    PROVE  SupervisorInv'
<1>0. TaskTypes /\ Registered /\ Slots /\ ClosedIsQuiet
  BY DEF SupervisorInv
<1>1. /\ pc[t] = "none" /\ ~group_exists(t)
      /\ job' = [job EXCEPT ![t] = j] /\ pc' = [pc EXCEPT ![t] = "created"]
      /\ UNCHANGED <<leader, git, signal, permits, waiters, closing>>
      /\ CreatedInOrder' /\ GroupsOwned' /\ Holders' = Holders
  BY CreateKeeps DEF SubmitMirror
<1>2. closing = "open" /\ mirrorTasks' = mirrorTasks \union {t} /\ UNCHANGED queryTasks
  BY DEF SubmitMirror
<1>3. TaskTypes'
  BY <1>0, <1>1, <1>2 DEF TaskTypes
<1>4. ClosedIsQuiet' /\ Slots'
  BY <1>0, <1>1, <1>2, SameHolders DEF ClosedIsQuiet
<1>5. Registered'
  BY <1>0, <1>1, <1>2, SupervisorAssumption DEF Registered, Active, IsMirror, TaskTypes
<1> QED
  BY <1>1, <1>3, <1>4, <1>5 DEF SupervisorInv

\* A rename is registered under no Push
LEMMA RenameKeeps ==
    ASSUME SupervisorInv, NEW t \in TaskIds, Rename(t)
    PROVE  SupervisorInv'
<1>1. SubmitMirror(t, "rename") /\ pushTasks' = pushTasks
  BY DEF Rename
<1>2. pushTasks' \in [Pushes -> SUBSET TaskIds] /\ OneEntryPerPush'
  BY <1>1 DEF SupervisorInv, TaskTypes, OneEntryPerPush
<1>3. \A p \in Pushes : \A u \in TaskIds :
          (Active(u) /\ job[u] = p) \/ (u = t /\ "rename" = p) => u \in pushTasks'[p]
  BY <1>1, SupervisorAssumption DEF SupervisorInv, Registered
<1> QED
  BY <1>1, <1>2, <1>3, SubmitMirrorKeeps

\* A new task for a Push is created only when the registered one is done, and
\* then replaces it
LEMMA SubmitPushKeeps ==
    ASSUME SupervisorInv, NEW t \in TaskIds, NEW p \in Pushes, SubmitPush(t, p)
    PROVE  SupervisorInv'
<1>0. TaskTypes /\ Registered /\ OneEntryPerPush
  BY DEF SupervisorInv
<1>1. /\ SubmitMirror(t, p) /\ pushTasks' = [pushTasks EXCEPT ![p] = {t}]
      /\ \A u \in pushTasks[p] : ~Active(u)
  BY DEF SubmitPush
<1>2. pushTasks' \in [Pushes -> SUBSET TaskIds] /\ OneEntryPerPush'
  BY <1>0, <1>1 DEF TaskTypes, OneEntryPerPush
<1>3. \A q \in Pushes : \A u \in TaskIds :
          (Active(u) /\ job[u] = q) \/ (u = t /\ p = q) => u \in pushTasks'[q]
  BY <1>0, <1>1 DEF Registered, TaskTypes
<1> QED
  BY <1>1, <1>2, <1>3, SubmitMirrorKeeps

-----------------------------------------------------------------------------
(* The coroutine of a task and the processes                               *)

\* A step that moves one task between two states of its coroutine, and its
\* processes, while nothing is registered or forgotten
TaskStep(t) ==
    /\ UNCHANGED <<job, queryTasks, mirrorTasks, pushTasks, closing>>
    /\ \A u \in TaskIds \ {t} : /\ pc'[u] = pc[u] /\ leader'[u] = leader[u]
                                 /\ git'[u] = git[u]

\* A task that exists stays registered while it moves, if it does not come to
\* life again and its processes stay owned
LEMMA TaskStepKeeps ==
    ASSUME SupervisorInv, TaskTypes', NEW t \in TaskIds, TaskStep(t), pc[t] # "none",
           pc'[t] # "none", Active(t)' => Active(t), Slots',
           pc'[t] = "waiting" => IsMirror(t), group_exists(t)' => Owning(t)',
           leader'[t] = "starting" => git'[t] = "none" /\ pc'[t] \in {"spawning", "cleanup"}
    PROVE  SupervisorInv'
<1>0. TaskTypes /\ CreatedInOrder /\ GroupsOwned /\ Registered /\ OneEntryPerPush /\ ClosedIsQuiet
  BY DEF SupervisorInv
<1> USE DEF TaskStep
<1>1. CreatedInOrder'
  <2>1. PICK n \in 0..MaxTasks : \A u \in TaskIds : pc[u] # "none" <=> u <= n
    BY <1>0 DEF CreatedInOrder
  <2>2. \A u \in TaskIds : pc'[u] # "none" <=> u <= n
    BY <2>1
  <2>3. \A u \in TaskIds : pc'[u] = "none" <=> job'[u] = "none"
    BY <1>0 DEF CreatedInOrder
  <2>4. \A u \in TaskIds : pc'[u] = "waiting" => IsMirror(u)'
    BY <1>0 DEF CreatedInOrder, IsMirror
  <2> QED
    BY <2>2, <2>3, <2>4 DEF CreatedInOrder
<1>2. GroupsOwned'
  BY <1>0 DEF GroupsOwned, group_exists, Owning
<1>3. \A u \in TaskIds : Active(u)' => Active(u)
  BY DEF Active
<1>4. Registered' /\ ClosedIsQuiet' /\ OneEntryPerPush'
  BY <1>0, <1>3 DEF Registered, ClosedIsQuiet, OneEntryPerPush, IsMirror
<1> QED
  BY <1>1, <1>2, <1>4 DEF SupervisorInv

\* A task whose state as an owner does not change leaves the permits alone
LEMMA QuietStep ==
    ASSUME SupervisorInv, TaskTypes', NEW t \in TaskIds, TaskStep(t), permits' = permits,
           Owning(t)' <=> Owning(t)
    PROVE  Slots'
<1>1. Holders' = Holders
  BY DEF TaskStep, Holders, IsMirror, Owning
<1> QED
  BY <1>1, SameHolders DEF SupervisorInv, TaskStep

\* The permit is taken with the spawn: Start of a query or of mirror work that
\* finds a permit, and Acquire
LEMMA SpawnKeeps ==
    ASSUME SupervisorInv, NEW t \in TaskIds, pc[t] \in {"created", "waiting"}, Spawn(t),
           \/ ~IsMirror(t) /\ permits' = permits
           \/ IsMirror(t) /\ permits > 0 /\ permits' = permits - 1
    PROVE  SupervisorInv'
<1>0. TaskTypes /\ GroupsOwned /\ Slots
  BY DEF SupervisorInv
<1>1. /\ pc' = [pc EXCEPT ![t] = "spawning"] /\ leader' = [leader EXCEPT ![t] = "starting"]
      /\ UNCHANGED <<job, git, signal, queryTasks, mirrorTasks, pushTasks, closing>>
  BY DEF Spawn, MoveTo, registry
<1>2. TaskStep(t)
  BY <1>0, <1>1 DEF TaskStep, TaskTypes
<1>3. git[t] = "none" /\ pc'[t] = "spawning"
  BY <1>0, <1>1 DEF GroupsOwned, group_exists, Owning, TaskTypes
<1>4. Slots' /\ permits' \in Nat
  <2>1. CASE ~IsMirror(t) /\ permits' = permits
    <3>1. Holders' = Holders
      BY <1>0, <1>1, <2>1 DEF Holders, IsMirror, Owning, TaskTypes
    <3> QED
      BY <1>0, <1>1, <2>1, <3>1, SameHolders DEF TaskTypes
  <2>2. CASE IsMirror(t) /\ permits > 0 /\ permits' = permits - 1
    <3>1. t \notin Holders /\ Holders' = Holders \union {t}
      BY <1>0, <1>1, <2>2 DEF Holders, IsMirror, Owning, TaskTypes
    <3> QED
      BY <1>0, <1>1, <2>2, <3>1, OneMoreHolder
  <2> QED
    BY <2>1, <2>2
<1>5. TaskTypes'
  BY <1>0, <1>1, <1>4 DEF TaskTypes
<1> QED
  BY <1>1, <1>2, <1>3, <1>4, <1>5, TaskStepKeeps DEF Active, Owning

\* The first step of a task
LEMMA StartKeeps ==
    ASSUME SupervisorInv, NEW t \in TaskIds, Start(t) \/ Acquire(t)
    PROVE  SupervisorInv'
<1>0. TaskTypes /\ GroupsOwned /\ CreatedInOrder
  BY DEF SupervisorInv
<1>1. CASE Acquire(t)
  <2>1. IsMirror(t)
    BY <1>0, <1>1 DEF Acquire, CreatedInOrder
  <2> QED
    BY <1>1, <2>1, SpawnKeeps DEF Acquire
<1>2. CASE /\ pc[t] = "created" /\ Spawn(t)
           /\ \/ ~IsMirror(t) /\ UNCHANGED semaphore
              \/ IsMirror(t) /\ permits > 0 /\ permits' = permits - 1
  BY <1>2, SpawnKeeps DEF semaphore
<1>3. CASE /\ pc[t] = "created" /\ IsMirror(t)
           /\ MoveTo(t, "waiting") /\ UNCHANGED <<job, process, registry, permits, closing>>
  <2>1. /\ pc' = [pc EXCEPT ![t] = "waiting"]
        /\ UNCHANGED <<job, leader, git, signal, queryTasks, mirrorTasks, pushTasks, permits,
                       closing>>
    BY <1>3 DEF MoveTo, process, registry
  <2>2. TaskTypes' /\ TaskStep(t) /\ pc'[t] = "waiting"
    BY <1>0, <2>1 DEF TaskTypes, TaskStep
  <2>3. ~group_exists(t) /\ ~Owning(t) /\ leader[t] # "starting" /\ Active(t)
    BY <1>0, <1>3 DEF GroupsOwned, Owning, Active
  <2>4. ~group_exists(t)' /\ ~Owning(t)'
    BY <2>1, <2>2, <2>3 DEF group_exists, Owning
  <2>5. Slots'
    BY <2>1, <2>2, <2>3, <2>4, QuietStep
  <2> QED
    BY <1>3, <2>1, <2>2, <2>3, <2>4, <2>5, TaskStepKeeps
<1> QED
  BY <1>1, <1>2, <1>3 DEF Start

\* The end of a task gives back its permit; by then its processes are gone
LEMMA FinishKeeps ==
    ASSUME SupervisorInv, NEW t \in TaskIds, Owning(t), Finish(t), ~group_exists(t)',
           git' = git, leader' \in {leader, [leader EXCEPT ![t] = "none"]}
    PROVE  SupervisorInv'
<1>0. TaskTypes /\ Slots
  BY DEF SupervisorInv
<1>1. /\ pc' = [pc EXCEPT ![t] = "done"] /\ signal' = [signal EXCEPT ![t] = "none"]
      /\ permits' = IF IsMirror(t) THEN permits + 1 ELSE permits
      /\ UNCHANGED <<job, queryTasks, mirrorTasks, pushTasks, closing>>
  BY DEF Finish, MoveTo, registry
<1>2. TaskStep(t) /\ pc'[t] = "done"
  BY <1>0, <1>1 DEF TaskStep, TaskTypes
<1>3. Slots' /\ permits' \in Nat
  <2>1. CASE IsMirror(t)
    <3>1. t \in Holders /\ Holders' = Holders \ {t}
      BY <1>0, <1>1, <1>2, <2>1 DEF Holders, IsMirror, Owning, TaskTypes
    <3> QED
      BY <1>0, <1>1, <2>1, <3>1, OneHolderLess
  <2>2. CASE ~IsMirror(t)
    <3>1. Holders' = Holders
      BY <1>0, <1>1, <2>2 DEF Holders, IsMirror, Owning, TaskTypes
    <3> QED
      BY <1>0, <1>1, <2>2, <3>1, SameHolders DEF TaskTypes
  <2> QED
    BY <2>1, <2>2
<1>4. TaskTypes'
  BY <1>0, <1>1, <1>3 DEF TaskTypes
<1> QED
  BY <1>1, <1>2, <1>3, <1>4, TaskStepKeeps DEF Active, Owning, group_exists

\* The spawn returns a child or fails
LEMMA SpawnReturnsKeeps ==
    ASSUME SupervisorInv, NEW t \in TaskIds, SpawnReturns(t)
    PROVE  SupervisorInv'
<1>0. TaskTypes /\ GroupsOwned
  BY DEF SupervisorInv
<1>1. leader[t] = "starting" /\ git[t] = "none" /\ pc[t] \in {"spawning", "cleanup"}
  BY <1>0 DEF SpawnReturns, Spawned, SpawnFails, GroupsOwned
<1>2. CASE SpawnFails(t)
  BY <1>0, <1>1, <1>2, FinishKeeps DEF SpawnFails, Owning, group_exists, TaskTypes
<1>3. CASE Spawned(t)
  <2>1. /\ leader' = [leader EXCEPT ![t] = "live"]
        /\ pc' = [pc EXCEPT ![t] = IF pc[t] = "spawning" THEN "running" ELSE pc[t]]
        /\ UNCHANGED <<job, git, signal, queryTasks, mirrorTasks, pushTasks, permits, closing>>
    BY <1>3 DEF Spawned, MoveTo, registry, semaphore
  <2>2. TaskTypes' /\ TaskStep(t) /\ pc'[t] \in {"running", "cleanup"} /\ leader'[t] = "live"
    BY <1>0, <1>1, <2>1 DEF TaskTypes, TaskStep
  <2>3. Owning(t) /\ Owning(t)' /\ Active(t)
    BY <1>1, <2>2 DEF Owning, Active
  <2>4. Slots'
    BY <2>1, <2>2, <2>3, QuietStep
  <2> QED
    BY <1>1, <2>2, <2>3, <2>4, TaskStepKeeps
<1> QED
  BY <1>2, <1>3 DEF SpawnReturns

\* The steps of a task that owns its processes and goes on owning them: it
\* enters cleanup, signals the group, reaps it, and is told of its deaths
LEMMA OwningStepKeeps ==
    ASSUME SupervisorInv, NEW t \in TaskIds, Owning(t), Owning(t)', TaskTypes', TaskStep(t),
           permits' = permits,
           leader'[t] = "starting" => git'[t] = "none" /\ pc'[t] \in {"spawning", "cleanup"}
    PROVE  SupervisorInv'
<1>1. Slots'
  BY QuietStep
<1> QED
  BY <1>1, TaskStepKeeps DEF Owning, Active

\* Cleanup and the processes it watches
LEMMA CleanupKeeps ==
    ASSUME SupervisorInv, NEW t \in TaskIds,
           \/ ChildAnswered(t) \/ ChildRejected(t) \/ SendTerm(t) \/ SendKill(t) \/ Reap(t)
           \/ Forks(t) \/ LeaderExits(t) \/ GitExits(t)
    PROVE  SupervisorInv'
<1>0. TaskTypes /\ GroupsOwned
  BY DEF SupervisorInv
<1> USE DEF TaskTypes, TaskStep, Owning, process, registry, semaphore
<1>1. CASE ChildAnswered(t) \/ ChildRejected(t)
  BY <1>0, <1>1, OwningStepKeeps
     DEF ChildAnswered, ChildRejected, EnterCleanup, MoveTo, GroupsOwned
<1>2. CASE SendTerm(t) \/ SendKill(t)
  BY <1>0, <1>2, OwningStepKeeps DEF SendTerm, SendKill, GroupsOwned
<1>3. CASE Reap(t)
  BY <1>0, <1>3, OwningStepKeeps DEF Reap
<1>4. CASE Forks(t) \/ LeaderExits(t)
  BY <1>0, <1>4, OwningStepKeeps DEF Forks, LeaderExits, GroupsOwned, group_exists
<1>5. CASE GitExits(t)
  BY <1>0, <1>5, OwningStepKeeps DEF GitExits, GroupsOwned, group_exists
<1> QED
  BY <1>1, <1>2, <1>3, <1>4, <1>5

\* Cleanup ends only when the group is gone
LEMMA CleanupEndsKeeps ==
    ASSUME SupervisorInv, NEW t \in TaskIds, CleanupEnds(t)
    PROVE  SupervisorInv'
BY FinishKeeps DEF CleanupEnds, Owning, group_exists

-----------------------------------------------------------------------------
(* Cancellation and the end                                                *)

\* Cancelled tasks: those that own nothing are done, those that own a process
\* go on owning it in cleanup
LEMMA CancelKeeps ==
    ASSUME SupervisorInv, NEW tasks \in SUBSET TaskIds,
           pc' = [t \in TaskIds |-> IF t \in tasks THEN Interrupted(t) ELSE pc[t]],
           UNCHANGED <<job, leader, git, signal, queryTasks, mirrorTasks, pushTasks, permits>>,
           closing' \in {closing, "closing"}
    PROVE  SupervisorInv'
<1>0. /\ TaskTypes /\ CreatedInOrder /\ GroupsOwned /\ Registered /\ OneEntryPerPush
      /\ Slots /\ ClosedIsQuiet
  BY DEF SupervisorInv
<1>1. \A t \in TaskIds :
          /\ pc'[t] \in {pc[t], "cleanup", "done"}
          /\ pc[t] # "none" => pc'[t] # "none"
          /\ pc[t] = "none" => pc'[t] = "none"
          /\ Owning(t)' <=> Owning(t)
          /\ Active(t)' => Active(t)
          /\ pc'[t] = "spawning" => pc[t] = "spawning"
  BY <1>0 DEF Interrupted, Owning, Active, TaskTypes
<1>2. TaskTypes'
  BY <1>0, <1>1 DEF TaskTypes
<1>3. CreatedInOrder'
  <2>1. PICK n \in 0..MaxTasks : \A u \in TaskIds : pc[u] # "none" <=> u <= n
    BY <1>0 DEF CreatedInOrder
  <2>2. \A u \in TaskIds : pc'[u] # "none" <=> u <= n
    BY <1>1, <2>1
  <2>3. \A u \in TaskIds : (pc'[u] = "none" <=> job'[u] = "none")
                            /\ (pc'[u] = "waiting" => IsMirror(u)')
    BY <1>0, <1>1 DEF CreatedInOrder, IsMirror
  <2> QED
    BY <2>2, <2>3 DEF CreatedInOrder
<1>4. GroupsOwned'
  <2> SUFFICES ASSUME NEW t \in TaskIds
               PROVE  /\ group_exists(t)' => Owning(t)'
                      /\ leader'[t] = "starting" => git'[t] = "none"
                                                   /\ pc'[t] \in {"spawning", "cleanup"}
    BY DEF GroupsOwned
  <2>1. group_exists(t)' => Owning(t)'
    BY <1>0, <1>1 DEF GroupsOwned, group_exists
  <2>2. pc[t] \in {"spawning", "cleanup"} => pc'[t] \in {"spawning", "cleanup"}
    BY DEF Interrupted
  <2> QED
    BY <1>0, <2>1, <2>2 DEF GroupsOwned
<1>5. Registered' /\ OneEntryPerPush' /\ ClosedIsQuiet'
  BY <1>0, <1>1 DEF Registered, OneEntryPerPush, ClosedIsQuiet, IsMirror, TaskTypes
<1>6. Slots'
  <2>1. Holders' = Holders
    BY <1>1 DEF Holders, IsMirror
  <2> QED
    BY <1>0, <2>1, SameHolders
<1> QED
  BY <1>2, <1>3, <1>4, <1>5, <1>6 DEF SupervisorInv

\* close() cancels every registered task
LEMMA CloseKeeps ==
    ASSUME SupervisorInv, Close
    PROVE  SupervisorInv'
<1>1. queryTasks \union mirrorTasks \in SUBSET TaskIds
  BY DEF SupervisorInv, TaskTypes
<1> QED
  BY <1>1, CancelKeeps DEF Close, CancelTasks, process, registry

\* A caller that goes away or a budget that expires cancels one task
LEMMA CancelOneKeeps ==
    ASSUME SupervisorInv, NEW t \in TaskIds, CallerCancelled(t) \/ BudgetExpires(t)
    PROVE  SupervisorInv'
<1> DEFINE tasks == {t}
<1>1. UNCHANGED <<job, leader, git, signal, queryTasks, mirrorTasks, pushTasks, permits>>
      /\ closing' = closing
  BY DEF CallerCancelled, BudgetExpires, CancelTasks, process, registry
<1>2. pc' = [u \in TaskIds |-> IF u \in tasks THEN Interrupted(u) ELSE pc[u]]
  <2>1. CASE CallerCancelled(t)
    BY <2>1 DEF CallerCancelled, CancelTasks
  <2>2. CASE BudgetExpires(t)
    <3>1. pc' = [pc EXCEPT ![t] = Interrupted(t)]
      BY <2>2 DEF BudgetExpires
    <3> QED
      BY <3>1 DEF SupervisorInv, TaskTypes
  <2> QED
    BY <2>1, <2>2
<1>3. tasks \in SUBSET TaskIds
  OBVIOUS
<1> HIDE DEF tasks
<1> QED
  BY <1>1, <1>2, <1>3, CancelKeeps

\* The callbacks of a task that is done forget that task and no other
LEMMA SettleKeeps ==
    ASSUME SupervisorInv, NEW t \in TaskIds, Settle(t)
    PROVE  SupervisorInv'
<1>0. /\ TaskTypes /\ CreatedInOrder /\ GroupsOwned /\ Registered /\ OneEntryPerPush
      /\ Slots /\ ClosedIsQuiet
  BY DEF SupervisorInv
<1>1. /\ pc[t] = "done" /\ pc' = [pc EXCEPT ![t] = "settled"]
      /\ queryTasks' = queryTasks \ {t} /\ mirrorTasks' = mirrorTasks \ {t}
      /\ pushTasks' = [p \in Pushes |-> pushTasks[p] \ {t}]
      /\ UNCHANGED <<job, leader, git, signal, permits, closing>>
  BY DEF Settle, MoveTo, process, semaphore
<1>2. TaskTypes'
  BY <1>0, <1>1 DEF TaskTypes
<1>3. /\ pc'[t] = "settled" /\ ~Active(t)' /\ ~Owning(t)' /\ ~Owning(t)
      /\ \A u \in TaskIds \ {t} : pc'[u] = pc[u]
  BY <1>0, <1>1 DEF TaskTypes, Active, Owning
<1>4. CreatedInOrder'
  <2>1. PICK n \in 0..MaxTasks : \A u \in TaskIds : pc[u] # "none" <=> u <= n
    BY <1>0 DEF CreatedInOrder
  <2>2. \A u \in TaskIds : pc'[u] # "none" <=> u <= n
    BY <1>1, <1>3, <2>1
  <2>3. \A u \in TaskIds : (pc'[u] = "none" <=> job'[u] = "none")
                            /\ (pc'[u] = "waiting" => IsMirror(u)')
    BY <1>0, <1>1, <1>3 DEF CreatedInOrder, IsMirror
  <2> QED
    BY <2>2, <2>3 DEF CreatedInOrder
<1>5. GroupsOwned'
  BY <1>0, <1>1, <1>3 DEF GroupsOwned, group_exists, Owning
<1>6. \A u \in TaskIds : Active(u)' => Active(u) /\ u # t
  BY <1>3 DEF Active
<1>7. Registered' /\ ClosedIsQuiet'
  BY <1>0, <1>1, <1>6 DEF Registered, ClosedIsQuiet, IsMirror
<1>8. OneEntryPerPush'
  BY <1>0, <1>1 DEF OneEntryPerPush
<1>9. Slots'
  <2>1. Holders' = Holders
    BY <1>1, <1>3 DEF Holders, IsMirror, Owning
  <2> QED
    BY <1>0, <1>1, <2>1, SameHolders
<1> QED
  BY <1>2, <1>4, <1>5, <1>7, <1>8, <1>9 DEF SupervisorInv

\* close() returns when no registered task is unfinished, and every unfinished
\* task is registered
LEMMA CloseEndsKeeps ==
    ASSUME SupervisorInv, CloseEnds
    PROVE  SupervisorInv'
<1>0. /\ TaskTypes /\ CreatedInOrder /\ GroupsOwned /\ Registered /\ Slots
  BY DEF SupervisorInv
<1>1. /\ \A t \in queryTasks \union mirrorTasks : ~Active(t)
      /\ closing' = "closed" /\ queryTasks' = {} /\ mirrorTasks' = {}
      /\ pushTasks' = [p \in Pushes |-> {}]
      /\ UNCHANGED <<job, pc, leader, git, signal, permits>>
  BY DEF CloseEnds, process, semaphore
<1>2. \A t \in TaskIds : ~Active(t)
  BY <1>0, <1>1 DEF Registered, CreatedInOrder, Active, IsMirror
<1>3. \A t \in TaskIds : ~Active(t)'
  BY <1>1, <1>2 DEF Active
<1>4. TaskTypes'
  BY <1>0, <1>1 DEF TaskTypes
<1>5. CreatedInOrder' /\ GroupsOwned'
  BY <1>0, <1>1 DEF CreatedInOrder, IsMirror, GroupsOwned, group_exists, Owning
<1>6. Registered' /\ ClosedIsQuiet'
  BY <1>3 DEF Registered, ClosedIsQuiet
<1>7. OneEntryPerPush'
  BY <1>1 DEF OneEntryPerPush
<1>8. Slots'
  <2>1. Holders' = Holders
    BY <1>1 DEF Holders, IsMirror, Owning
  <2> QED
    BY <1>0, <1>1, <2>1, SameHolders
<1> QED
  BY <1>4, <1>5, <1>6, <1>7, <1>8 DEF SupervisorInv

-----------------------------------------------------------------------------
(* The invariant and what it says                                          *)

LEMMA SupervisorStarts ==
    ASSUME Init
    PROVE  SupervisorInv
<1>1. TaskTypes
  BY SupervisorAssumption DEF Init, TaskTypes
<1>2. CreatedInOrder
  <2>1. \A t \in TaskIds : pc[t] # "none" <=> t <= 0
    BY SupervisorAssumption DEF Init, TaskIds
  <2> QED
    BY <2>1, SupervisorAssumption DEF Init, CreatedInOrder
<1>3. GroupsOwned /\ Registered /\ ClosedIsQuiet /\ OneEntryPerPush
  BY DEF Init, GroupsOwned, group_exists, Registered, ClosedIsQuiet, OneEntryPerPush, Active
<1>4. Slots
  <2>1. Holders = {} /\ queryTasks = {} /\ permits = MIRROR_SLOTS
    BY DEF Init, Holders, Owning
  <2>2. Cardinality({}) = 0
    BY FS_EmptySet
  <2> QED
    BY <2>1, <2>2, SupervisorAssumption DEF Slots
<1> QED
  BY <1>1, <1>2, <1>3, <1>4 DEF SupervisorInv

LEMMA SupervisorKeeps ==
    ASSUME SupervisorInv, [Next]_vars
    PROVE  SupervisorInv'
<1>1. CASE UNCHANGED vars
  BY <1>1 DEF vars, SupervisorInv, TaskTypes, CreatedInOrder, GroupsOwned, Registered,
              OneEntryPerPush, Slots, ClosedIsQuiet, Holders, IsMirror, Owning, Active,
              group_exists
<1>2. ASSUME NEW t \in TaskIds, Run(t) \/ Rename(t) \/ \E p \in Pushes : SubmitPush(t, p)
      PROVE  SupervisorInv'
  BY <1>2, RunKeeps, RenameKeeps, SubmitPushKeeps
<1>3. ASSUME NEW t \in TaskIds, Advance(t) \/ SpawnReturns(t) \/ ChildRejected(t)
      PROVE  SupervisorInv'
  BY <1>3, StartKeeps, CleanupKeeps, CleanupEndsKeeps, SettleKeeps, SpawnReturnsKeeps DEF Advance
<1>4. ASSUME NEW t \in TaskIds, \/ CallerCancelled(t) \/ BudgetExpires(t)
                                \/ Forks(t) \/ LeaderExits(t) \/ GitExits(t)
      PROVE  SupervisorInv'
  BY <1>4, CancelOneKeeps, CleanupKeeps
<1> QED
  BY <1>1, <1>2, <1>3, <1>4, CloseKeeps, CloseEndsKeeps DEF Next

\* In every reachable state the registries, the permits and the process
\* groups agree
LEMMA SupervisorInvariant == Spec => []SupervisorInv
BY SupervisorStarts, SupervisorKeeps, PTL DEF Spec

\* There are never more process groups than slots: a query with a process is
\* registered, and mirror work with a process holds one of the permits
THEOREM SlotsBoundGroups == Spec => []GroupsWithinSlots
<1>1. SupervisorInv => GroupsWithinSlots
  <2> SUFFICES ASSUME SupervisorInv PROVE GroupsWithinSlots
    OBVIOUS
  <2> DEFINE groups == {t \in TaskIds : group_exists(t)}
             queries == {t \in groups : job[t] = "query"}
             mirrors == {t \in groups : IsMirror(t)}
  <2>0. TaskTypes /\ GroupsOwned /\ Registered /\ Slots
    BY DEF SupervisorInv
  <2>1. queries \subseteq queryTasks
    BY <2>0 DEF GroupsOwned, Registered, Owning, Active
  <2>2. mirrors \subseteq Holders
    BY <2>0 DEF GroupsOwned, Holders
  <2>3. Holders \in SUBSET TaskIds /\ queryTasks \in SUBSET TaskIds
    BY <2>0 DEF Holders, TaskTypes
  <2>4. queries \in SUBSET TaskIds /\ mirrors \in SUBSET TaskIds
    OBVIOUS
  <2>5. GroupsWithinSlots <=> Cardinality(queries) <= QUERY_SLOTS
                              /\ Cardinality(mirrors) <= MIRROR_SLOTS
    BY DEF GroupsWithinSlots
  <2> HIDE DEF queries, mirrors
  <2>6. Cardinality(queries) <= Cardinality(queryTasks)
        /\ Cardinality(mirrors) <= Cardinality(Holders)
    BY <2>1, <2>2, <2>3, TaskSets, FS_Subset
  <2>7. /\ Cardinality(queries) \in Nat /\ Cardinality(mirrors) \in Nat
        /\ Cardinality(queryTasks) \in Nat /\ Cardinality(Holders) \in Nat
    BY <2>3, <2>4, TaskSets
  <2> QED
    BY <2>0, <2>5, <2>6, <2>7, SupervisorAssumption DEF Slots, TaskTypes
<1> QED
  BY <1>1, SupervisorInvariant, PTL

\* Two unfinished tasks never refresh for one Push: both would be registered
\* under it, and a Push has one entry
THEOREM PushesShareTheirTask == Spec => []OneTaskPerPush
<1>1. SupervisorInv => OneTaskPerPush
  BY DEF SupervisorInv, Registered, OneEntryPerPush, OneTaskPerPush
<1> QED
  BY <1>1, SupervisorInvariant, PTL

\* close() returns to a supervisor without unfinished tasks and without
\* processes
THEOREM CloseIsComplete == Spec => []CloseLeavesNothing
<1>1. SupervisorInv => CloseLeavesNothing
  BY DEF SupervisorInv, ClosedIsQuiet, GroupsOwned, Owning, Active, CloseLeavesNothing
<1> QED
  BY <1>1, SupervisorInvariant, PTL

=============================================================================
