--------------------------- MODULE DeliveryBuffer ---------------------------
(***************************************************************************)
(* The durable transport buffer of the Sediment CLI                        *)
(* (cli/sediment_cli/delivery.py).                                         *)
(*                                                                         *)
(* Capture hooks (Senders) publish a payload as <id>.entry in a private    *)
(* directory; one replay worker at a time POSTs due entries to the server  *)
(* and replaces an entry by <id>.receipt once its fate is known, keeping   *)
(* the retry schedule in <id>.state.  Every change of the directory is     *)
(* made under enqueue.lock (cs), one file operation per step, so that a    *)
(* process may die between any two of them; HTTP runs outside the lock.    *)
(*                                                                         *)
(* The directory is `disk'.  `durable' holds every image of it since the   *)
(* last fsync of the directory: a power loss leaves one of these (file     *)
(* systems that journal directory operations in order).  Temporary files   *)
(* are left out: rename publishes a complete file or nothing.              *)
(***************************************************************************)
EXTENDS Integers, FiniteSets, FiniteSetsExt

CONSTANTS
    Deliveries,        \* delivery ids
    Bodies,            \* payloads: channel, destination, captured_at and bytes
    BodySize,          \* bytes of a payload
    Senders,           \* processes that call deliver()
    Workers,           \* processes that call replay() or watch()
    Watchers,          \* the workers that call watch()
    MaxActiveEntries,  \* MAX_ACTIVE_ENTRIES
    MaxActiveBytes,    \* MAX_ACTIVE_BYTES
    MaxReceipts,       \* MAX_RECEIPTS
    ReplayWindow,      \* REPLAY_WINDOW_SECONDS
    ReceiptRetention,  \* RECEIPT_RETENTION_SECONDS
    MaxBatchAttempts,  \* MAX_BATCH_ATTEMPTS
    MaxBackoff,        \* MAX_BACKOFF_SECONDS
    HttpTimeout,       \* HTTP_TIMEOUT_SECONDS and the lock wait after it
    MaxTime,           \* bound: the clock stops here
    MaxKills,          \* bound: process deaths, stops and power losses
    MaxFaults,         \* bound: OSErrors raised by a file operation
    MaxDamage,         \* bound: files damaged from outside
    MaxTrouble,        \* bound: the three together
    None               \* no file, no process, no delivery

Procs == Senders \cup Workers

ASSUME ProcessAssumption ==
    /\ Senders \cap Workers = {}
    /\ Watchers \subseteq Workers
    /\ None \notin Procs \cup Deliveries

ASSUME BoundAssumption ==
    /\ MaxActiveEntries \in Nat /\ MaxActiveBytes \in Nat
    /\ MaxReceipts \in Nat
    /\ ReplayWindow \in Nat \ {0} /\ ReceiptRetention \in Nat
    /\ MaxBatchAttempts \in Nat \ {0}
    /\ MaxBackoff \in Nat \ {0} /\ HttpTimeout \in Nat
    /\ MaxTime \in Nat /\ MaxKills \in Nat
    /\ MaxFaults \in Nat /\ MaxDamage \in Nat
    /\ BodySize \in [Bodies -> Nat]

-----------------------------------------------------------------------------
(* What the files hold.  `damage' names the part of a file that no longer  *)
(* reads back: an entry's header line, its body bytes; the whole of a      *)
(* state or a receipt.  `of' is a history field: the payload the receipt   *)
(* replaced.                                                               *)

Entry == [body : Bodies, at : Nat, damage : SUBSET {"header", "body"}]
State == [status : {"pending", "blocked"}, next : Nat, bad : BOOLEAN]
Terminal == {"acknowledged", "skipped", "declined"}
Receipt == [status : Terminal, at : Nat, of : Bodies \cup {None}, bad : BOOLEAN]
Result == Terminal \cup {"pending", "blocked"}
Header == [id : Deliveries, body : Bodies, at : Nat, due : Nat]

\* The locals of one _batch(): headers collected and not reached, the header
\* being sent and since when, the disposition of its attempt, attempts made
Job == [todo : SUBSET Header, cur : Header \cup {None}, since : Nat,
        result : Result \cup {None}, attempted : Nat]
NoJob == [todo |-> {}, cur |-> None, since |-> 0, result |-> None, attempted |-> 0]

ASSUME NoneAssumption ==
    None \notin Entry \cup State \cup Receipt \cup Header \cup Bodies \cup Result

Image == [entry   : [Deliveries -> Entry \cup {None}],
          state   : [Deliveries -> State \cup {None}],
          receipt : [Deliveries -> Receipt \cup {None}]]

Stages == {"free", "maintain", "leftover", "sync", "unlinkEntry", "unlinkState",
           "settle", "admit", "publish", "collect", "backoff", "leave"}

VARIABLES
    disk,      \* the directory
    durable,   \* its images since the last fsync
    now,       \* time.time(), shared by every process of the host
    cs,        \* enqueue.lock: its holder, and where in its section it is
    owner,     \* worker.lock: its holder
    pc,        \* where each process is outside enqueue.lock
    request,   \* the <<delivery, payload>> each sender delivers
    job,       \* the batch of each worker
    retry,     \* its retry_blocked
    kills, faults, damaged,  \* counters of the bounds above
    received,  \* history: the <<delivery, payload>>s the server accepted
    promised   \* history: those reported queued, until their receipt is purged

dirVars    == <<disk, durable>>
workVars   == <<job, retry>>
ghostVars  == <<received, promised>>
envVars    == <<kills, faults, damaged>>
vars == <<disk, durable, now, cs, owner, pc, request, job, retry,
          kills, faults, damaged, received, promised>>

Free == [by |-> None, stage |-> "free", goal |-> "leave", id |-> None, then |-> "leave"]

TypeOK ==
    /\ disk \in Image
    /\ durable \in SUBSET Image
    /\ now \in Nat
    /\ cs \in [by : Procs \cup {None}, stage : Stages,
               goal : {"admit", "collect", "leave"},
               id : Deliveries \cup {None},
               then : {"maintain", "collect", "leave"}]
    /\ owner \in Workers \cup {None}
    /\ pc \in [Procs -> {"idle", "enqueue", "direct", "rest", "collect",
                         "next", "http", "file", "finish"}]
    /\ request \in [Senders -> (Deliveries \X Bodies) \cup {None}]
    /\ job \in [Workers -> Job]
    /\ retry \in [Workers -> BOOLEAN]
    /\ kills \in Nat /\ faults \in Nat /\ damaged \in Nat
    /\ received \subseteq Deliveries \X Bodies
    /\ promised \subseteq Deliveries \X Bodies

Init ==
    /\ disk = [entry   |-> [d \in Deliveries |-> None],
               state   |-> [d \in Deliveries |-> None],
               receipt |-> [d \in Deliveries |-> None]]
    /\ durable = {disk}
    /\ now = 0
    /\ cs = Free
    /\ owner = None
    /\ pc = [p \in Procs |-> "idle"]
    /\ request = [s \in Senders |-> None]
    /\ job = [w \in Workers |-> NoJob]
    /\ retry = [w \in Workers |-> FALSE]
    /\ kills = 0 /\ faults = 0 /\ damaged = 0
    /\ received = {} /\ promised = {}

-----------------------------------------------------------------------------
(* File operations on the open directory (class _Queue).                   *)

\* rename(2) or unlink(2): visible at once, durable at the next fsync
Write(image) == disk' = image /\ durable' = durable \cup {image}

\* os.fsync(queue.fd)
Fsync == disk' = disk /\ durable' = {disk}

PutEntry(d, e)   == Write([disk EXCEPT !.entry[d] = e])
PutState(d, e)   == Write([disk EXCEPT !.state[d] = e])
PutReceipt(d, e) == Write([disk EXCEPT !.receipt[d] = e])

Entries  == {d \in Deliveries : disk.entry[d] # None}
Receipts == {d \in Deliveries : disk.receipt[d] # None}

At(stage) == cs' = [cs EXCEPT !.stage = stage]

\* _Queue.lock("enqueue.lock"); leaving the section closes the descriptor
Lock(p, stage, goal) ==
    /\ cs.by = None
    /\ cs' = [by |-> p, stage |-> stage, goal |-> goal, id |-> None, then |-> "leave"]

Holds(p, stage) == cs.by = p /\ cs.stage = stage

Goto(p, l) == pc' = [pc EXCEPT ![p] = l]

\* A step inside a section that leaves every process where it is
Unmoved == UNCHANGED <<now, owner, pc, request, workVars, envVars>>

\* deliver() returns
EndDeliver(s) ==
    /\ Goto(s, "idle")
    /\ request' = [request EXCEPT ![s] = None]

\* _batch() returns or raises; a watcher keeps worker.lock and, unless the
\* batch succeeded, its retry_blocked
EndBatch(w, success) ==
    /\ job' = [job EXCEPT ![w] = NoJob]
    /\ retry' = [retry EXCEPT ![w] = @ /\ w \in Watchers /\ ~success]
    /\ IF w \in Watchers
       THEN Goto(w, "rest") /\ UNCHANGED owner
       ELSE Goto(w, "idle") /\ owner' = None

\* `continue' in the loop over the collected headers
NextHeader(w) ==
    /\ Goto(w, "next")
    /\ job' = [job EXCEPT ![w] = [@ EXCEPT !.cur = None, !.since = 0, !.result = None]]

-----------------------------------------------------------------------------
(* _receipt(): the terminal record of d is published and made durable      *)
(* before its payload and its schedule are unlinked.                       *)

\* Mutant: the receipt carries the time of its entry, not of its completion
ReceiptAsQueued(d, status) ==
    [status |-> status, bad |-> FALSE,
     at |-> IF disk.entry[d] = None THEN now ELSE disk.entry[d].at,
     of |-> IF disk.entry[d] = None THEN None ELSE disk.entry[d].body]

\* The disposition as it is stored, with the completion time
ReceiptFor(d, status) ==
    [status |-> status, at |-> now, bad |-> FALSE,
     of |-> IF disk.entry[d] = None THEN None ELSE disk.entry[d].body]

\* queue.atomic(<id>.receipt), up to the rename
FileReceipt(d, status, then) ==
    /\ PutReceipt(d, ReceiptFor(d, status))
    /\ cs' = [cs EXCEPT !.stage = "sync", !.id = d, !.then = then]

\* The same from outside a section: the worker locks only to file one record
LockAndFile(w, d, status) ==
    /\ cs.by = None
    /\ PutReceipt(d, ReceiptFor(d, status))
    /\ cs' = [by |-> w, stage |-> "sync", goal |-> "leave", id |-> d, then |-> "leave"]

\* the fsync that ends queue.atomic()
ReceiptSync(p) ==
    /\ Holds(p, "sync")
    /\ Fsync
    /\ At("unlinkEntry")
    /\ Unmoved /\ UNCHANGED ghostVars

UnlinkEntry(p) ==
    /\ Holds(p, "unlinkEntry")
    /\ PutEntry(cs.id, None)
    /\ At("unlinkState")
    /\ Unmoved /\ UNCHANGED ghostVars

UnlinkState(p) ==
    /\ Holds(p, "unlinkState")
    /\ PutState(cs.id, None)
    /\ At("settle")
    /\ Unmoved /\ UNCHANGED ghostVars

\* the last fsync; then back to whatever filed the receipt
Settle(p) ==
    /\ Holds(p, "settle")
    /\ Fsync
    /\ At(cs.then)
    /\ Unmoved /\ UNCHANGED ghostVars

-----------------------------------------------------------------------------
(* _maintenance(): the first thing every section that decides anything     *)
(* does.                                                                   *)

Malformed == \E d \in Receipts : disk.receipt[d].bad

Expired(at) == now - at >= ReplayWindow

\* Mutant: maintenance leaves expiry to the worker
RetirableBadHeader(d) ==
    /\ disk.entry[d] # None /\ disk.receipt[d] = None
    /\ "header" \in disk.entry[d].damage

\* An entry that maintenance retires: past the window or with a bad header
Retirable(d) ==
    /\ disk.entry[d] # None
    /\ disk.receipt[d] = None
    /\ "header" \in disk.entry[d].damage \/ Expired(disk.entry[d].at)

\* A crash after receipt publication left the payload behind
Leftover(d) == disk.entry[d] # None /\ disk.receipt[d] # None

Aged(d) == now - disk.receipt[d].at >= ReceiptRetention

\* The receipts to purge next: aged ones, then the oldest beyond MAX_RECEIPTS
Purgeable ==
    IF \E d \in Receipts : Aged(d)
    THEN {d \in Receipts : Aged(d)}
    ELSE IF Cardinality(Receipts) > MaxReceipts
         THEN {d \in Receipts :
                 \A e \in Receipts : disk.receipt[d].at <= disk.receipt[e].at}
         ELSE {}

\* One malformed receipt stops maintenance before it deletes anything
MaintainMalformed(p) ==
    /\ Holds(p, "maintain")
    /\ Malformed
    /\ At("leave")
    /\ Unmoved /\ UNCHANGED <<dirVars, ghostVars>>

DropLeftover(p, d) ==
    /\ Holds(p, "maintain") /\ ~Malformed
    /\ Leftover(d)
    /\ PutEntry(d, None)
    /\ cs' = [cs EXCEPT !.stage = "leftover", !.id = d]
    /\ Unmoved /\ UNCHANGED ghostVars

DropLeftoverState(p) ==
    /\ Holds(p, "leftover")
    /\ PutState(cs.id, None)
    /\ At("maintain")
    /\ Unmoved /\ UNCHANGED ghostVars

\* Mutant: a retired entry is unlinked without a receipt
RetireSilently(p, d) ==
    /\ Holds(p, "maintain") /\ ~Malformed
    /\ Retirable(d)
    /\ PutEntry(d, None)
    /\ cs' = [cs EXCEPT !.stage = "leftover", !.id = d]
    /\ Unmoved /\ UNCHANGED ghostVars

Retire(p, d) ==
    /\ Holds(p, "maintain") /\ ~Malformed
    /\ Retirable(d)
    /\ FileReceipt(d, "declined", "maintain")
    /\ Unmoved /\ UNCHANGED ghostVars

EntriesMaintained == \A d \in Deliveries : ~Leftover(d) /\ ~Retirable(d)

\* The outcome of d is forgotten: its promises end with its receipt
PurgeReceipt(p, d) ==
    /\ Holds(p, "maintain") /\ ~Malformed
    /\ EntriesMaintained
    /\ d \in Purgeable
    /\ PutReceipt(d, None)
    /\ promised' = promised \ ({d} \X Bodies)
    /\ Unmoved /\ UNCHANGED <<cs, received>>

MaintenanceDone(p) ==
    /\ Holds(p, "maintain") /\ ~Malformed
    /\ EntriesMaintained
    /\ Purgeable = {}
    /\ Fsync
    /\ At(cs.goal)
    /\ Unmoved /\ UNCHANGED ghostVars

\* Leaving a section: a sender is done, a worker goes on with its batch or
\* ends it
Leave(p) ==
    /\ Holds(p, "leave")
    /\ cs' = Free
    /\ \/ /\ p \in Senders
          /\ EndDeliver(p)
          /\ UNCHANGED <<owner, workVars>>
       \/ /\ p \in Workers /\ pc[p] \in {"next", "file"}
          /\ NextHeader(p)
          /\ UNCHANGED <<owner, request, retry>>
       \/ /\ p \in Workers /\ pc[p] \in {"collect", "finish"}
          /\ EndBatch(p, pc[p] = "finish" /\ ~Malformed)
          /\ UNCHANGED request
    /\ UNCHANGED <<dirVars, now, ghostVars, envVars>>

-----------------------------------------------------------------------------
(* deliver() and enqueue()                                                 *)

Capture(s, d, b) ==
    /\ pc[s] = "idle"
    /\ request' = [request EXCEPT ![s] = <<d, b>>]
    /\ Goto(s, "enqueue")
    /\ UNCHANGED <<dirVars, now, cs, owner, workVars, ghostVars, envVars>>

EnqueueLock(s) ==
    /\ pc[s] = "enqueue"
    /\ Lock(s, "maintain", "admit")
    /\ Unmoved /\ UNCHANGED <<dirVars, ghostVars>>

\* storage_busy after a second: deliver() sends directly, `enqueue' gives up
EnqueueBusy(s) ==
    /\ pc[s] = "enqueue"
    /\ cs.by \notin {None, s}
    /\ EndDeliver(s) \/ (Goto(s, "direct") /\ UNCHANGED request)
    /\ UNCHANGED <<dirVars, now, cs, owner, workVars, ghostVars, envVars>>

\* declined identity_conflict or invalid_record: no fallback
AdmitDeclined(s) ==
    /\ Holds(s, "admit")
    /\ LET d == request[s][1] IN
        \/ disk.entry[d] # None /\ (disk.entry[d].damage # {}
                                    \/ disk.entry[d].body # request[s][2])
        \/ disk.entry[d] = None /\ disk.receipt[d] # None
    /\ At("leave")
    /\ Unmoved /\ UNCHANGED <<dirVars, ghostVars>>

\* queued, already_buffered
AdmitKnown(s) ==
    /\ Holds(s, "admit")
    /\ LET e == disk.entry[request[s][1]] IN
        e # None /\ e.damage = {} /\ e.body = request[s][2]
    /\ promised' = promised \cup {request[s]}
    /\ At("leave")
    /\ Unmoved /\ UNCHANGED <<dirVars, received>>

\* Mutant: an id that is already known is published over
AlwaysUnknown(d) == TRUE

Unknown(d) == disk.entry[d] = None /\ disk.receipt[d] = None

UsedBytes == MapThenSumSet(LAMBDA d : BodySize[disk.entry[d].body], Entries)

\* Mutant: off by one
FullTooLate(b) == \/ Cardinality(Entries) > MaxActiveEntries
                  \/ UsedBytes + BodySize[b] > MaxActiveBytes

Full(b) == \/ Cardinality(Entries) >= MaxActiveEntries
           \/ UsedBytes + BodySize[b] > MaxActiveBytes

\* declined buffer_full, a receipt for it, and maintenance once more
AdmitFull(s) ==
    /\ Holds(s, "admit")
    /\ Unknown(request[s][1]) /\ Full(request[s][2])
    /\ PutReceipt(request[s][1], ReceiptFor(request[s][1], "declined"))
    /\ cs' = [cs EXCEPT !.stage = "sync", !.goal = "leave",
                        !.id = request[s][1], !.then = "maintain"]
    /\ Unmoved /\ UNCHANGED ghostVars

AdmitPublish(s) ==
    /\ Holds(s, "admit")
    /\ Unknown(request[s][1]) /\ ~Full(request[s][2])
    /\ PutEntry(request[s][1], [body |-> request[s][2], at |-> now, damage |-> {}])
    /\ At("publish")
    /\ Unmoved /\ UNCHANGED ghostVars

\* Mutant: reported queued before the fsync
PublishUnsynced(s) ==
    /\ Holds(s, "publish")
    /\ promised' = promised \cup {request[s]}
    /\ At("leave")
    /\ Unmoved /\ UNCHANGED <<dirVars, received>>

\* the fsync of queue.atomic(); only now is the payload reported queued
PublishSync(s) ==
    /\ Holds(s, "publish")
    /\ Fsync
    /\ promised' = promised \cup {request[s]}
    /\ At("leave")
    /\ Unmoved /\ UNCHANGED received

\* The one best-effort attempt of send_once(); its disposition is not stored
SendDirect(s) ==
    /\ pc[s] = "direct"
    /\ received' \in {received, received \cup {request[s]}}
    /\ EndDeliver(s)
    /\ UNCHANGED <<dirVars, now, cs, owner, workVars, promised, envVars>>

-----------------------------------------------------------------------------
(* replay(), watch() and _batch()                                          *)

Start(w) ==
    /\ pc[w] = "idle"
    /\ owner = None
    /\ owner' = w
    /\ \E r \in BOOLEAN : retry' = [retry EXCEPT ![w] = r]
    /\ Goto(w, "collect")
    /\ UNCHANGED <<dirVars, now, cs, request, job, ghostVars, envVars>>

\* watch() begins another batch after stopped.wait(1)
Rebatch(w) ==
    /\ pc[w] = "rest"
    /\ Goto(w, "collect")
    /\ UNCHANGED <<dirVars, now, cs, owner, request, workVars, ghostVars, envVars>>

CollectLock(w) ==
    /\ pc[w] = "collect"
    /\ Lock(w, "maintain", "collect")
    /\ Unmoved /\ UNCHANGED <<dirVars, ghostVars>>

\* A state file that does not read back: declined, invalid_record
CollectBad(w, d) ==
    /\ Holds(w, "collect")
    /\ disk.entry[d] # None /\ disk.state[d] # None /\ disk.state[d].bad
    /\ FileReceipt(d, "declined", "collect")
    /\ Unmoved /\ UNCHANGED ghostVars

\* state["next_attempt"] or header["enqueued_at"]
Due(d) ==
    IF disk.state[d] = None \/ disk.state[d].next = 0
    THEN disk.entry[d].at ELSE disk.state[d].next

HeaderOf(d) == [id |-> d, body |-> disk.entry[d].body, at |-> disk.entry[d].at,
                due |-> Due(d)]

Collect(w) ==
    /\ Holds(w, "collect")
    /\ \A d \in Entries : disk.state[d] # None => ~disk.state[d].bad
    /\ job' = [job EXCEPT ![w].todo = {HeaderOf(d) : d \in Entries}]
    /\ cs' = Free
    /\ Goto(w, "next")
    /\ UNCHANGED <<dirVars, now, owner, request, retry, ghostVars, envVars>>

\* sorted() by due, then enqueued_at, then id (ties in either order here)
Before(g, h) == g.due < h.due \/ (g.due = h.due /\ g.at < h.at)

First(w, h) ==
    /\ pc[w] = "next"
    /\ cs.by = None
    /\ job[w].attempted < MaxBatchAttempts
    /\ h \in job[w].todo
    /\ \A g \in job[w].todo : ~Before(g, h)

Pop(w, h) == job' = [job EXCEPT ![w].todo = @ \ {h}]

Waiting(w, d) ==
    /\ disk.state[d] # None /\ ~disk.state[d].bad
    /\ \/ disk.state[d].status = "blocked" /\ ~retry[w]
       \/ disk.state[d].status = "pending" /\ disk.state[d].next > now

\* `_state' or `_request' raises invalid_record: the file no longer has the
\* bytes the collected header describes
Unreadable(w, h) ==
    \/ disk.state[h.id] # None /\ disk.state[h.id].bad
    \/ ~Waiting(w, h.id) /\ ("body" \in disk.entry[h.id].damage
                             \/ disk.entry[h.id].body # h.body)

\* Gone, blocked or not yet due: the next header
Skip(w, h) ==
    /\ First(w, h)
    /\ \/ disk.entry[h.id] = None
       \/ disk.entry[h.id] # None /\ ~Expired(h.at) /\ Waiting(w, h.id)
    /\ Pop(w, h)
    /\ UNCHANGED <<dirVars, now, cs, owner, pc, request, retry, ghostVars, envVars>>

\* Expired or unreadable: declined
Decline(w, h) ==
    /\ First(w, h)
    /\ disk.entry[h.id] # None
    /\ Expired(h.at) \/ Unreadable(w, h)
    /\ LockAndFile(w, h.id, "declined")
    /\ Pop(w, h)
    /\ UNCHANGED <<now, owner, pc, request, retry, ghostVars, envVars>>

Ready(w, h) ==
    /\ First(w, h)
    /\ disk.entry[h.id] # None
    /\ ~Expired(h.at) /\ ~Waiting(w, h.id) /\ ~Unreadable(w, h)

Taken(j, h, res) == [j EXCEPT !.todo = @ \ {h}, !.cur = h, !.since = now, !.result = res]

\* The request is read and the lock released: h is the one being worked on
Take(w, h, res) ==
    job' = [job EXCEPT ![w] = Taken(job[w], h, res)]

\* _configuration() fails: blocked, without an attempt
Misconfigured(w, h) ==
    /\ Ready(w, h)
    /\ Take(w, h, "blocked")
    /\ Goto(w, "file")
    /\ UNCHANGED <<dirVars, now, cs, owner, request, retry, ghostVars, envVars>>

\* send_once() begins
Send(w, h) ==
    /\ Ready(w, h)
    /\ Take(w, h, None)
    /\ Goto(w, "http")
    /\ UNCHANGED <<dirVars, now, cs, owner, request, retry, ghostVars, envVars>>

\* What the server may have done when send_once() returns r.  Only a 200
\* with a full acknowledgment is terminal; a lost, late or unreadable answer
\* leaves it open whether the server has the payload.
Accepted(r, sent) ==
    CASE r = "acknowledged" -> {received \cup {sent}}
      [] r = "pending" -> {received, received \cup {sent}}
      [] OTHER -> {received}

Answered(j, r) == [j EXCEPT !.result = r, !.attempted = @ + 1]

Answer(w) ==
    /\ pc[w] = "http"
    /\ \E r \in {"acknowledged", "skipped", "pending", "blocked"} :
        /\ job' = [job EXCEPT ![w] = Answered(job[w], r)]
        /\ received' \in Accepted(r, <<job[w].cur.id, job[w].cur.body>>)
    /\ Goto(w, "file")
    /\ UNCHANGED <<dirVars, now, cs, owner, request, retry, promised, envVars>>

\* Mutant: the entry is not looked up again after HTTP
NotRechecked(w) == TRUE

\* The entry is still in the buffer when the worker has the lock back
StillBuffered(w) == disk.entry[job[w].cur.id] # None

\* The entry went while HTTP ran: the receipt that replaced it wins
FileGone(w) ==
    /\ pc[w] = "file"
    /\ cs.by = None
    /\ ~StillBuffered(w)
    /\ NextHeader(w)
    /\ UNCHANGED <<dirVars, now, cs, owner, request, retry, ghostVars, envVars>>

FileTerminal(w) ==
    /\ pc[w] = "file"
    /\ StillBuffered(w)
    /\ job[w].result \in Terminal
    /\ LockAndFile(w, job[w].cur.id, job[w].result)
    /\ Unmoved /\ UNCHANGED ghostVars

\* The retry schedule; the delay lies between half and all of the ceiling
FileBackoff(w) ==
    /\ pc[w] = "file"
    /\ cs.by = None
    /\ StillBuffered(w)
    /\ job[w].result \in {"pending", "blocked"}
    /\ LET d == job[w].cur.id IN
        /\ \E delay \in 1..MaxBackoff :
            PutState(d, [status |-> job[w].result, next |-> now + delay, bad |-> FALSE])
        /\ cs' = [by |-> w, stage |-> "backoff", goal |-> "leave", id |-> d,
                  then |-> "leave"]
    /\ Unmoved /\ UNCHANGED ghostVars

BackoffSync(w) ==
    /\ Holds(w, "backoff")
    /\ Fsync
    /\ At("leave")
    /\ Unmoved /\ UNCHANGED ghostVars

EndLoop(w) == Goto(w, "finish") /\ job' = [job EXCEPT ![w] = NoJob]

\* No header left, or MAX_BATCH_ATTEMPTS made: maintenance ends the batch
BatchDone(w) ==
    /\ pc[w] = "next" /\ cs.by # w
    /\ job[w].todo = {} \/ job[w].attempted >= MaxBatchAttempts
    /\ EndLoop(w)
    /\ UNCHANGED <<dirVars, now, cs, owner, request, retry, ghostVars, envVars>>

FinishLock(w) ==
    /\ pc[w] = "finish"
    /\ Lock(w, "maintain", "leave")
    /\ Unmoved /\ UNCHANGED <<dirVars, ghostVars>>

\* storage_busy after a second: the batch is given up, its answers forgotten
WorkerBusy(w) ==
    /\ pc[w] \in {"collect", "next", "file", "finish"}
    /\ cs.by \notin {None, w}
    /\ EndBatch(w, FALSE)
    /\ UNCHANGED <<dirVars, now, cs, request, ghostVars, envVars>>

-----------------------------------------------------------------------------
(* The environment: time, process death, power loss, OSErrors and damage   *)

\* One more of what may go wrong is within the bounds
Trouble == kills + faults + damaged < MaxTrouble

Tick ==
    /\ now < MaxTime
    /\ cs.by = None
    /\ \A w \in Workers : pc[w] \in {"http", "file"} => now - job[w].since < HttpTimeout
    /\ now' = now + 1
    /\ UNCHANGED <<dirVars, cs, owner, pc, request, workVars, ghostVars, envVars>>

\* What a dead process remembers: nothing
Forget(P) ==
    /\ pc' = [p \in Procs |-> IF p \in P THEN "idle" ELSE pc[p]]
    /\ request' = [s \in Senders |-> IF s \in P THEN None ELSE request[s]]
    /\ job' = [w \in Workers |-> IF w \in P THEN NoJob ELSE job[w]]
    /\ retry' = [w \in Workers |-> w \notin P /\ retry[w]]
    /\ cs' = IF cs.by \in P THEN Free ELSE cs
    /\ owner' = IF owner \in P THEN None ELSE owner

\* SIGKILL: the kernel drops the locks, the directory stays as it is
Crash(p) ==
    /\ kills < MaxKills /\ Trouble
    /\ pc[p] # "idle"
    /\ kills' = kills + 1
    /\ Forget({p})
    /\ UNCHANGED <<dirVars, now, ghostVars, faults, damaged>>

\* SIGTERM: stop_event ends the batch early, then watch() returns
Stop(w) ==
    /\ kills < MaxKills /\ Trouble
    /\ kills' = kills + 1
    /\ \/ /\ pc[w] = "next" /\ cs.by # w
          /\ EndLoop(w)
          /\ UNCHANGED <<cs, owner, request, retry>>
       \/ pc[w] = "rest" /\ Forget({w})
    /\ UNCHANGED <<dirVars, now, ghostVars, faults, damaged>>

PowerLoss ==
    /\ kills < MaxKills /\ Trouble
    /\ kills' = kills + 1
    /\ \E image \in durable : disk' = image /\ durable' = {image}
    /\ Forget(Procs)
    /\ UNCHANGED <<now, ghostVars, faults, damaged>>

\* A file operation raises inside the section.  A sender falls back to one
\* direct attempt, unless it was filing its buffer_full decision; a worker
\* gives up its batch.
StorageError(p) ==
    /\ faults < MaxFaults /\ Trouble
    /\ cs.by = p /\ cs.stage # "leave"
    /\ faults' = faults + 1
    /\ cs' = Free
    /\ \/ /\ p \in Senders
          /\ \/ EndDeliver(p)
             \/ cs.goal = "admit" /\ Goto(p, "direct") /\ UNCHANGED request
          /\ UNCHANGED <<owner, workVars>>
       \/ p \in Workers /\ EndBatch(p, FALSE) /\ UNCHANGED request
    /\ UNCHANGED <<dirVars, now, ghostVars, kills, damaged>>

\* Bytes of a file change under the buffer, while no section runs
Damage(d) ==
    /\ damaged < MaxDamage /\ Trouble
    /\ cs.by = None
    /\ damaged' = damaged + 1
    /\ \/ /\ disk.entry[d] # None
          /\ \E x \in (SUBSET {"header", "body"}) \ {{}} :
                PutEntry(d, [disk.entry[d] EXCEPT !.damage = x])
       \/ /\ disk.state[d] # None
          /\ PutState(d, [disk.state[d] EXCEPT !.bad = TRUE])
       \/ /\ disk.receipt[d] # None
          /\ PutReceipt(d, [disk.receipt[d] EXCEPT !.bad = TRUE])
    /\ UNCHANGED <<now, cs, owner, pc, request, workVars, ghostVars, kills, faults>>

-----------------------------------------------------------------------------
Section(p) ==
    \/ ReceiptSync(p) \/ UnlinkEntry(p) \/ UnlinkState(p) \/ Settle(p)
    \/ MaintainMalformed(p) \/ DropLeftoverState(p) \/ MaintenanceDone(p) \/ Leave(p)
    \/ \E d \in Deliveries : DropLeftover(p, d) \/ Retire(p, d) \/ PurgeReceipt(p, d)

Sender(s) ==
    \/ EnqueueLock(s) \/ EnqueueBusy(s) \/ AdmitDeclined(s) \/ AdmitKnown(s)
    \/ AdmitFull(s) \/ AdmitPublish(s) \/ PublishSync(s) \/ SendDirect(s)

Worker(w) ==
    \/ Start(w) \/ Rebatch(w) \/ CollectLock(w) \/ Collect(w) \/ Answer(w)
    \/ FileGone(w) \/ FileTerminal(w) \/ FileBackoff(w) \/ BackoffSync(w)
    \/ BatchDone(w) \/ FinishLock(w) \/ WorkerBusy(w)
    \/ \E d \in Deliveries : CollectBad(w, d)
    \/ \E h \in job[w].todo : Skip(w, h) \/ Decline(w, h) \/ Misconfigured(w, h) \/ Send(w, h)

Environment ==
    \/ Tick \/ PowerLoss
    \/ \E p \in Procs : Crash(p) \/ StorageError(p)
    \/ \E w \in Workers : Stop(w)
    \/ \E d \in Deliveries : Damage(d)

Next ==
    \/ \E s \in Senders, d \in Deliveries, b \in Bodies : Capture(s, d, b)
    \/ \E p \in Procs : Section(p)
    \/ \E s \in Senders : Sender(s)
    \/ \E w \in Workers : Worker(w)
    \/ Environment

Spec == Init /\ [][Next]_vars
-----------------------------------------------------------------------------
(* What the buffer promises                                                *)

\* A directory accounts for a promise: the payload is in it, byte for byte
\* the one reported queued, or a terminal receipt says what became of it.
Accounts(image, d, b) ==
    \/ image.entry[d] # None /\ image.entry[d].body = b
    \/ image.receipt[d] # None

\* enqueue() reports `queued' only for a payload that survives: from then on,
\* through any interleaving, process death, power loss or OSError, the payload
\* is buffered or a receipt accounts for it, until that receipt is purged.
NoSilentLoss == \A p \in promised : Accounts(disk, p[1], p[2])

\* _receipt() says `acknowledged' only of the payload the server took: the
\* very bytes whose entry the receipt replaced were accepted, also when the
\* entry was changed by another process while HTTP ran outside the lock.
AckIsReal ==
    \A d \in Receipts :
        disk.receipt[d].status = "acknowledged" => <<d, disk.receipt[d].of>> \in received

\* Neither the number of active entries nor their bytes ever exceed the
\* limits enqueue() enforces, whatever a crash or a power loss left behind.
CapacityBound ==
    Cardinality(Entries) <= MaxActiveEntries /\ UsedBytes <= MaxActiveBytes

\* `Its terminal receipt wins': while an outcome is on record no later result
\* of _batch() replaces it.
TerminalReceiptWins ==
    [][\A d \in Deliveries :
         /\ disk.receipt[d] # None /\ disk'.receipt[d] # None
         /\ kills' = kills
         => disk'.receipt[d].status = disk.receipt[d].status]_vars

\* So far no process died or was stopped and no file operation raised
Undisturbed == kills = 0 /\ faults = 0

\* send_once() runs outside the lock, or its answer waits for the lock
Attempting(w) == pc[w] \in {"http", "file"}

\* The outcomes on record since the attempt of w began
RecordedSince(w) == {d \in Receipts : disk.receipt[d].at >= job[w].since}

\* _batch() files an answer under the delivery id alone, so that an id queued
\* again too early would get the answer to other bytes.  The limits on receipts
\* see to it that the outcome of a delivery outlasts an attempt of it that is in
\* flight: it is purged meanwhile only to make room for more than MAX_RECEIPTS
\* outcomes, all recorded since that attempt began.  (A death inside a section
\* may leave an older receipt beside its entry.)
ReceiptsOutlastAttempts ==
    [][\A w \in Workers :
         /\ Undisturbed' /\ Attempting(w)
         /\ disk.receipt[job[w].cur.id] # None /\ disk'.receipt[job[w].cur.id] = None
         => Cardinality(RecordedSince(w)) > MaxReceipts]_vars

-----------------------------------------------------------------------------
(* Every process that runs keeps running (its steps outside the locks are  *)
(* bounded by timeouts), the supervisor restarts the watchers, and time    *)
(* passes however busy the lock is (the strong fairness of Tick: its guard *)
(* is false in sections only because they are short).  No process is       *)
(* promised enqueue.lock: flock has no queue.                              *)

Fairness ==
    /\ SF_vars(Tick)
    /\ \A p \in Procs : WF_vars(Section(p))
    /\ \A s \in Senders : WF_vars(Sender(s))
    /\ \A w \in Watchers : WF_vars(Worker(w))
    /\ \A w \in Workers : WF_vars(pc[w] # "idle" /\ Worker(w))

FairSpec == Spec /\ Fairness

\* Every payload reported queued is settled: a receipt replaces it at the
\* latest when its replay window has passed, even if no attempt succeeds and
\* the worker never wins enqueue.lock against the senders.
Settles ==
    \A d \in Deliveries :
        (disk.entry[d] # None /\ disk.entry[d].at + ReplayWindow <= MaxTime)
            ~> (disk.entry[d] = None)
=============================================================================
