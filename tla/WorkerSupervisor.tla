-------------------------- MODULE WorkerSupervisor --------------------------
(***************************************************************************)
(* The API's owner of expensive work (apps/api/sediment_api/workers.py).   *)
(*                                                                         *)
(* Every query and every mirror refresh runs in a child process, in a      *)
(* process group of its own that may fork Git.  One event loop owns the    *)
(* asyncio tasks that wait for those children.  The loop runs undisturbed  *)
(* between two awaits, so an action is what happens between two awaits;    *)
(* processes run, fork and die at any moment.                              *)
(*                                                                         *)
(* A task goes through                                                     *)
(*                                                                         *)
(*   created -> waiting (for the semaphore, mirror work only) ->           *)
(*   spawning -> running -> cleanup -> done -> settled (callbacks ran)     *)
(*                                                                         *)
(* A budget that expires, a caller that goes away and the shutdown of the  *)
(* API all arrive as a cancellation of the task.  What must hold then is   *)
(* that the slot is kept until the process group is really gone.           *)
(***************************************************************************)
EXTENDS Naturals, FiniteSets, Sequences

CONSTANTS
    MaxTasks,         \* bound on the asyncio tasks ever created
    Pushes,           \* push keys: (org_id, push_id)
    QUERY_SLOTS,      \* queries admitted at once
    MIRROR_SLOTS,     \* mirror jobs executing at once
    MIRROR_QUEUE_SIZE \* mirror jobs that may wait behind them

ASSUME SupervisorAssumption ==
    /\ MaxTasks \in Nat
    /\ QUERY_SLOTS \in Nat \ {0}
    /\ MIRROR_SLOTS \in Nat \ {0}
    /\ MIRROR_QUEUE_SIZE \in Nat
    /\ Pushes \intersect {"none", "query", "rename"} = {}

TaskIds == 1..MaxTasks

VARIABLES
    job,         \* task -> "none", "query", "rename" or the Push it refreshes for
    pc,          \* task -> where its coroutine stands
    leader,      \* task -> the direct child: "none", "starting" or "live"
    git,         \* task -> a Git descendant: "none", "live" or "zombie"
    signal,      \* task -> the strongest signal cleanup sent to the group
    queryTasks,  \* _query_tasks
    mirrorTasks, \* _mirror_tasks
    pushTasks,   \* _push_tasks: Push -> the set of its (at most one) task
    permits,     \* free permits of the semaphore _mirror_slots
    waiters,     \* tasks queued on _mirror_slots, first come first served
    closing      \* "open", "closing" (close() awaits its tasks) or "closed"

process == <<leader, git, signal>>
registry == <<queryTasks, mirrorTasks, pushTasks>>
semaphore == <<permits, waiters>>
vars == <<job, pc, leader, git, signal, queryTasks, mirrorTasks,
          pushTasks, permits, waiters, closing>>

IsMirror(t) == job[t] \notin {"none", "query"}
Active(t) == pc[t] \in {"created", "waiting", "spawning", "running", "cleanup"}

\* os.killpg(pid, 0): a zombie still is a member of its group.
group_exists(t) == leader[t] \in {"starting", "live"} \/ git[t] \in {"live", "zombie"}

Init ==
    /\ job = [t \in TaskIds |-> "none"]
    /\ pc = [t \in TaskIds |-> "none"]
    /\ leader = [t \in TaskIds |-> "none"]
    /\ git = [t \in TaskIds |-> "none"]
    /\ signal = [t \in TaskIds |-> "none"]
    /\ queryTasks = {}
    /\ mirrorTasks = {}
    /\ pushTasks = [p \in Pushes |-> {}]
    /\ permits = MIRROR_SLOTS
    /\ waiters = << >>
    /\ closing = "open"

-----------------------------------------------------------------------------
(* Admission.  A request that is refused (503) changes nothing.            *)

CreateTask(t, j) ==
    /\ t = Cardinality({u \in TaskIds : pc[u] # "none"}) + 1
    /\ job' = [job EXCEPT ![t] = j]
    /\ pc' = [pc EXCEPT ![t] = "created"]
    /\ UNCHANGED <<process, semaphore, closing>>

\* run(): a query is refused when every slot is taken; it never queues.
Run(t) ==
    /\ closing = "open"
    /\ Cardinality(queryTasks) < QUERY_SLOTS
    /\ CreateTask(t, "query")
    /\ queryTasks' = queryTasks \union {t}
    /\ UNCHANGED <<mirrorTasks, pushTasks>>

\* _submit_mirror: the free-disk reserve is a refusal like any other.
SubmitMirror(t, j) ==
    /\ closing = "open"
    /\ Cardinality(mirrorTasks) < MIRROR_SLOTS + MIRROR_QUEUE_SIZE
    /\ CreateTask(t, j)
    /\ mirrorTasks' = mirrorTasks \union {t}
    /\ UNCHANGED queryTasks

\* submit_push: a delivery of a Push whose task is not done joins that task
\* (nothing changes); otherwise a new task replaces the entry.
SubmitPush(t, p) ==
    /\ \A active \in pushTasks[p] : ~Active(active)
    /\ SubmitMirror(t, p)
    /\ pushTasks' = [pushTasks EXCEPT ![p] = {t}]

Rename(t) ==
    /\ SubmitMirror(t, "rename")
    /\ UNCHANGED pushTasks

-----------------------------------------------------------------------------
(* The coroutine of a task: _run and _execute                              *)

MoveTo(t, state) == pc' = [pc EXCEPT ![t] = state]

\* Start the child.  The spawn is a task of its own that cancellation of
\* this one does not reach.
Spawn(t) ==
    /\ MoveTo(t, "spawning")
    /\ leader' = [leader EXCEPT ![t] = "starting"]
    /\ UNCHANGED <<job, git, signal, registry, closing>>

\* The first step of _run: the budget starts, mirror work asks for a permit.
Start(t) ==
    /\ pc[t] = "created"
    /\ \/ ~IsMirror(t) /\ Spawn(t) /\ UNCHANGED semaphore
       \/ /\ IsMirror(t) /\ permits > 0 /\ waiters = << >>
          /\ permits' = permits - 1
          /\ Spawn(t) /\ UNCHANGED waiters
       \/ /\ IsMirror(t) /\ (permits = 0 \/ waiters # << >>)
          /\ waiters' = Append(waiters, t)
          /\ MoveTo(t, "waiting")
          /\ UNCHANGED <<job, process, registry, permits, closing>>

Acquire(t) ==
    /\ pc[t] = "waiting" /\ permits > 0 /\ t = Head(waiters)
    /\ permits' = permits - 1
    /\ waiters' = Tail(waiters)
    /\ Spawn(t)

\* create_subprocess_exec returns, to _execute or to a cleanup that waits.
Spawned(t) ==
    /\ leader[t] = "starting"
    /\ leader' = [leader EXCEPT ![t] = "live"]
    /\ MoveTo(t, IF pc[t] = "spawning" THEN "running" ELSE pc[t])
    /\ UNCHANGED <<job, git, signal, registry, semaphore, closing>>

\* The end of _execute and _run: the permit goes back with the task, and no
\* process is left to have a signal pending.
Finish(t) ==
    /\ MoveTo(t, "done")
    /\ permits' = IF IsMirror(t) THEN permits + 1 ELSE permits
    /\ signal' = [signal EXCEPT ![t] = "none"]
    /\ UNCHANGED <<job, registry, waiters, closing>>

\* The spawn raises OSError, in _execute or in the cleanup that waits for it.
SpawnFails(t) ==
    /\ leader[t] = "starting"
    /\ leader' = [leader EXCEPT ![t] = "none"]
    /\ Finish(t)
    /\ UNCHANGED git

EnterCleanup(t) ==
    /\ MoveTo(t, "cleanup")
    /\ UNCHANGED <<job, process, registry, semaphore, closing>>

\* Both readers saw the end of their stream and the child was waited for.
ChildAnswered(t) ==
    /\ pc[t] = "running" /\ leader[t] = "none"
    /\ EnterCleanup(t)

\* A reader raised (output limit, malformed answer, too many diagnostics) or
\* the request could not be written.
ChildRejected(t) ==
    /\ pc[t] = "running"
    /\ EnterCleanup(t)

\* _terminate: SIGTERM, then SIGKILL when the grace period has passed.
SendTerm(t) ==
    /\ pc[t] = "cleanup" /\ leader[t] # "starting" /\ signal[t] = "none"
    /\ signal' = [signal EXCEPT ![t] = "term"]
    /\ UNCHANGED <<job, pc, leader, git, registry, semaphore, closing>>

SendKill(t) ==
    /\ pc[t] = "cleanup" /\ signal[t] = "term" /\ group_exists(t)
    /\ signal' = [signal EXCEPT ![t] = "kill"]
    /\ UNCHANGED <<job, pc, leader, git, registry, semaphore, closing>>

\* Mutant: descendants are reaped only until the kill.
ReapBeforeKill(t) ==
    /\ pc[t] = "cleanup" /\ signal[t] = "term"
    /\ leader[t] = "none" /\ git[t] = "zombie"
    /\ git' = [git EXCEPT ![t] = "none"]
    /\ UNCHANGED <<job, pc, leader, signal, registry, semaphore, closing>>

\* _reap_descendants: orphans of the group are the supervisor's children, and
\* only it can make their entries go away.
Reap(t) ==
    /\ pc[t] = "cleanup" /\ signal[t] # "none"
    /\ leader[t] = "none" /\ git[t] = "zombie"
    /\ git' = [git EXCEPT ![t] = "none"]
    /\ UNCHANGED <<job, pc, leader, signal, registry, semaphore, closing>>

CleanupEnds(t) ==
    /\ pc[t] = "cleanup" /\ signal[t] # "none" /\ ~group_exists(t)
    /\ Finish(t)
    /\ UNCHANGED <<leader, git>>

-----------------------------------------------------------------------------
(* Cancellation                                                            *)

\* Mutant: the spawn is not shielded, its process is not owned.
InterruptedInSpawn(t) ==
    IF pc[t] \in {"created", "waiting", "spawning"} THEN "done"
    ELSE IF pc[t] = "running" THEN "cleanup"
    ELSE pc[t]

\* Mutant: a second cancellation abandons the cleanup.
InterruptedTwice(t) ==
    IF pc[t] \in {"created", "waiting", "cleanup"} THEN "done"
    ELSE IF pc[t] \in {"spawning", "running"} THEN "cleanup"
    ELSE pc[t]

\* Where a cancellation leaves a task.  Before the spawn nothing is owned;
\* afterwards the finally block runs, and _finish_cleanup absorbs every
\* further cancellation until the cleanup task is done.
Interrupted(t) ==
    IF pc[t] \in {"created", "waiting"} THEN "done"
    ELSE IF pc[t] \in {"spawning", "running"} THEN "cleanup"
    ELSE pc[t]

CancelTasks(tasks) ==
    /\ pc' = [t \in TaskIds |-> IF t \in tasks THEN Interrupted(t) ELSE pc[t]]
    /\ waiters' = SelectSeq(waiters, LAMBDA t : t \notin tasks)
    /\ UNCHANGED <<job, process, registry, permits>>

\* The caller of run() or rename() is cancelled and takes its task along.
\* wait_background shields the task of a Push from its callers.
CallerCancelled(t) ==
    /\ job[t] \in {"query", "rename"} /\ Active(t)
    /\ CancelTasks({t})
    /\ UNCHANGED closing

\* The budget covers the wait for the permit as well as the execution.
BudgetExpires(t) ==
    /\ pc[t] \in {"waiting", "spawning", "running"}
    /\ pc' = [pc EXCEPT ![t] = Interrupted(t)]
    /\ waiters' = SelectSeq(waiters, LAMBDA u : u # t)
    /\ UNCHANGED <<job, process, registry, permits, closing>>

\* Mutant: the callback pops the entry whoever it belongs to.
SettlePopsAny(t) ==
    /\ pc[t] = "done"
    /\ MoveTo(t, "settled")
    /\ queryTasks' = queryTasks \ {t}
    /\ mirrorTasks' = mirrorTasks \ {t}
    /\ pushTasks' = [p \in Pushes |-> IF job[t] = p THEN {} ELSE pushTasks[p]]
    /\ UNCHANGED <<job, process, semaphore, closing>>

\* Done callbacks run in a later turn of the loop; so does the finally block
\* of run().  Another submission may have replaced the entry of the Push.
Settle(t) ==
    /\ pc[t] = "done"
    /\ MoveTo(t, "settled")
    /\ queryTasks' = queryTasks \ {t}
    /\ mirrorTasks' = mirrorTasks \ {t}
    /\ pushTasks' = [p \in Pushes |-> pushTasks[p] \ {t}]
    /\ UNCHANGED <<job, process, semaphore, closing>>

\* close(): refuse new work, cancel what there is, and wait for all of it.
Close ==
    /\ closing = "open"
    /\ closing' = "closing"
    /\ CancelTasks(queryTasks \union mirrorTasks)

CloseEnds ==
    /\ closing = "closing"
    /\ \A t \in queryTasks \union mirrorTasks : ~Active(t)
    /\ closing' = "closed"
    /\ queryTasks' = {} /\ mirrorTasks' = {}
    /\ pushTasks' = [p \in Pushes |-> {}]
    /\ UNCHANGED <<job, pc, process, semaphore>>

-----------------------------------------------------------------------------
(* The processes                                                           *)

Forks(t) ==
    /\ leader[t] = "live" /\ git[t] = "none" /\ signal[t] # "kill"
    /\ git' = [git EXCEPT ![t] = "live"]
    /\ UNCHANGED <<job, pc, leader, signal, registry, semaphore, closing>>

\* asyncio's watcher reaps the direct child.
LeaderExits(t) ==
    /\ leader[t] = "live"
    /\ leader' = [leader EXCEPT ![t] = "none"]
    /\ UNCHANGED <<job, pc, git, signal, registry, semaphore, closing>>

\* Git's parent waits for it, unless the parent is gone or never gets to it.
GitExits(t) ==
    /\ git[t] = "live"
    /\ \E state \in (IF leader[t] = "live" THEN {"zombie", "none"} ELSE {"zombie"}) :
          git' = [git EXCEPT ![t] = state]
    /\ UNCHANGED <<job, pc, leader, signal, registry, semaphore, closing>>

-----------------------------------------------------------------------------

\* What the event loop does for a task that exists.
Advance(t) ==
    \/ Start(t) \/ Acquire(t) \/ ChildAnswered(t)
    \/ SendTerm(t) \/ SendKill(t) \/ Reap(t) \/ CleanupEnds(t) \/ Settle(t)

SpawnReturns(t) == Spawned(t) \/ SpawnFails(t)

\* The kernel delivers SIGKILL.
Killed(t) == signal[t] = "kill" /\ (LeaderExits(t) \/ GitExits(t))

Next ==
    \/ \E t \in TaskIds :
          \/ Run(t) \/ Rename(t) \/ \E p \in Pushes : SubmitPush(t, p)
          \/ Advance(t) \/ SpawnReturns(t) \/ ChildRejected(t)
          \/ CallerCancelled(t) \/ BudgetExpires(t)
          \/ Forks(t) \/ LeaderExits(t) \/ GitExits(t)
    \/ Close \/ CloseEnds

Fairness ==
    \A t \in TaskIds :
          /\ WF_vars(Advance(t)) /\ WF_vars(SpawnReturns(t))
          /\ WF_vars(BudgetExpires(t)) /\ WF_vars(Killed(t))

Spec == Init /\ [][Next]_vars /\ Fairness

-----------------------------------------------------------------------------
(* Properties                                                              *)

\* The types of the variables.
SupervisorTypeOK ==
    /\ job \in [TaskIds -> {"none", "query", "rename"} \union Pushes]
    /\ pc \in [TaskIds -> {"none", "created", "waiting", "spawning", "running",
                            "cleanup", "done", "settled"}]
    /\ leader \in [TaskIds -> {"none", "starting", "live"}]
    /\ git \in [TaskIds -> {"none", "live", "zombie"}]
    /\ signal \in [TaskIds -> {"none", "term", "kill"}]
    /\ queryTasks \in SUBSET TaskIds /\ mirrorTasks \in SUBSET TaskIds
    /\ pushTasks \in [Pushes -> SUBSET TaskIds]
    /\ permits \in 0..MIRROR_SLOTS
    /\ waiters \in Seq(TaskIds)
    /\ closing \in {"open", "closing", "closed"}

\* Never more process groups than slots, of queries and of mirror work: a
\* cancelled, timed out or failed task gives its slot back only when every
\* process it started is gone (workers.py, "keep checking instead of
\* releasing a slot"; _finish_cleanup, "must not abandon process cleanup").
GroupsWithinSlots ==
    LET groups == {t \in TaskIds : group_exists(t)}
    IN  /\ Cardinality({t \in groups : job[t] = "query"}) <= QUERY_SLOTS
        /\ Cardinality({t \in groups : IsMirror(t)}) <= MIRROR_SLOTS

\* Deliveries of one Push share one task: no two unfinished tasks refresh for
\* the same Push, although the callbacks of a finished task run late.
OneTaskPerPush ==
    \A t, u \in TaskIds :
        Active(t) /\ Active(u) /\ job[t] \in Pushes /\ job[t] = job[u] => t = u

\* When close() returns, no task is unfinished and no process is left behind.
CloseLeavesNothing ==
    closing = "closed" => \A t \in TaskIds : ~Active(t) /\ ~group_exists(t)

\* Every admitted task ends and gives back its place, whatever its child does.
WorkEnds == \A t \in TaskIds : pc[t] = "created" ~> pc[t] = "settled"

=============================================================================
