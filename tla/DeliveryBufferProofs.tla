------------------------ MODULE DeliveryBufferProofs ------------------------
(***************************************************************************)
(* Proofs about the delivery buffer, for any number of deliveries,         *)
(* payloads, senders and workers and any value of the limits.              *)
(***************************************************************************)
EXTENDS DeliveryBuffer, TLAPS

-----------------------------------------------------------------------------
(* The directory stays well typed under every file operation               *)

\* The directory with one .entry published or unlinked is a directory
LEMMA EntryImage ==
    ASSUME disk \in Image, NEW d, NEW e \in Entry \cup {None}
    PROVE  [disk EXCEPT !.entry[d] = e] \in Image
BY DEF Image

\* The directory with one .state published or unlinked is a directory
LEMMA StateImage ==
    ASSUME disk \in Image, NEW d, NEW e \in State \cup {None}
    PROVE  [disk EXCEPT !.state[d] = e] \in Image
BY DEF Image

\* The directory with one .receipt published or purged is a directory
LEMMA ReceiptImage ==
    ASSUME disk \in Image, NEW d, NEW e \in Receipt \cup {None}
    PROVE  [disk EXCEPT !.receipt[d] = e] \in Image
BY DEF Image

DirType == disk \in Image /\ durable \in SUBSET Image

\* _Queue.atomic and remove of an .entry keep every image well typed
LEMMA PutEntryType ==
    ASSUME DirType, NEW d, NEW e \in Entry \cup {None}, PutEntry(d, e)
    PROVE  DirType'
<1> DEFINE image == [disk EXCEPT !.entry[d] = e]
<1>1. image \in Image
  BY EntryImage DEF DirType
<1>2. disk' = image /\ durable' = durable \cup {image}
  BY DEF PutEntry, Write
<1> HIDE DEF image
<1> QED
  BY <1>1, <1>2 DEF DirType

\* _Queue.atomic and remove of a .state keep every image well typed
LEMMA PutStateType ==
    ASSUME DirType, NEW d, NEW e \in State \cup {None}, PutState(d, e)
    PROVE  DirType'
<1> DEFINE image == [disk EXCEPT !.state[d] = e]
<1>1. image \in Image
  BY StateImage DEF DirType
<1>2. disk' = image /\ durable' = durable \cup {image}
  BY DEF PutState, Write
<1> HIDE DEF image
<1> QED
  BY <1>1, <1>2 DEF DirType

\* _Queue.atomic and remove of a .receipt keep every image well typed
LEMMA PutReceiptType ==
    ASSUME DirType, NEW d, NEW e \in Receipt \cup {None}, PutReceipt(d, e)
    PROVE  DirType'
<1> DEFINE image == [disk EXCEPT !.receipt[d] = e]
<1>1. image \in Image
  BY ReceiptImage DEF DirType
<1>2. disk' = image /\ durable' = durable \cup {image}
  BY DEF PutReceipt, Write
<1> HIDE DEF image
<1> QED
  BY <1>1, <1>2 DEF DirType

\* fsync of the directory keeps every image well typed
LEMMA FsyncType ==
    ASSUME DirType, Fsync
    PROVE  DirType'
BY DEF DirType, Fsync

\* A receipt made for a delivery of the buffer is a receipt
LEMMA ReceiptForType ==
    ASSUME disk \in Image, now \in Nat, NEW d \in Deliveries, NEW st \in Terminal
    PROVE  ReceiptFor(d, st) \in Receipt
<1>1. disk.entry[d] \in Entry \cup {None}
  BY DEF Image
<1> QED
  BY <1>1 DEF ReceiptFor, Receipt, Entry

-----------------------------------------------------------------------------
(* The invariant that types the processes.  TypeOK alone is not inductive: *)
(* a worker with an answer to file must have a header to file it for, and  *)
(* the sender in a section a request to decide on.                         *)

CsType == cs \in [by : Procs \cup {None}, stage : Stages,
                  goal : {"admit", "collect", "leave"},
                  id : Deliveries \cup {None},
                  then : {"maintain", "collect", "leave"}]

PcType == pc \in [Procs -> {"idle", "enqueue", "direct", "rest", "collect",
                            "next", "http", "file", "finish"}]

LocalType ==
    /\ owner \in Workers \cup {None}
    /\ request \in [Senders -> (Deliveries \X Bodies) \cup {None}]
    /\ job \in [Workers -> Job]
    /\ retry \in [Workers -> BOOLEAN]

GhostType ==
    /\ received \subseteq Deliveries \X Bodies
    /\ promised \subseteq Deliveries \X Bodies

CountType == now \in Nat /\ kills \in Nat /\ faults \in Nat /\ damaged \in Nat

\* A worker that sends, or files an answer, has a header in hand
Busy == \A w \in Workers : pc[w] \in {"http", "file"} => job[w].cur \in Header

\* A sender that delivers has a request, and the one in a section delivers;
\* only a sender's section can reach the admission of a request
Requested ==
    /\ \A s \in Senders : pc[s] \in {"enqueue", "direct"} => request[s] \in Deliveries \X Bodies
    /\ \A s \in Senders : cs.by = s => pc[s] = "enqueue"
    /\ cs.goal = "admit" \/ cs.stage \in {"admit", "publish"} => cs.by \in Senders

TInv == DirType /\ CsType /\ PcType /\ LocalType /\ GhostType /\ CountType
        /\ Busy /\ Requested

\* An empty buffer with idle processes satisfies the typing invariant
LEMMA TInvInit == Init => TInv
<1> SUFFICES ASSUME Init PROVE TInv
  OBVIOUS
<1> USE DEF Init
<1>1. DirType
  BY DEF DirType, Image
<1>2. CsType /\ PcType
  BY DEF CsType, PcType, Free, Stages
<1>3. LocalType
  BY DEF LocalType, Job, NoJob
<1>4. GhostType /\ CountType
  BY DEF GhostType, CountType
<1>5. Busy /\ Requested
  BY ProcessAssumption DEF Busy, Requested, Free, Procs
<1> QED
  BY <1>1, <1>2, <1>3, <1>4, <1>5 DEF TInv

\* Steps of a section that move no process keep its type if they move the
\* section legally and the directory by file operations
LEMMA UnmovedStep ==
    ASSUME TInv, Unmoved, DirType', GhostType', CsType', cs'.by = cs.by,
           cs'.stage \in {"admit", "publish"} => cs.by \in Senders,
           cs'.goal = "admit" => cs.by \in Senders
    PROVE  TInv'
<1> USE DEF TInv, Unmoved, workVars, envVars
<1>1. PcType' /\ LocalType' /\ CountType'
  BY DEF PcType, LocalType, CountType
<1>2. Busy'
  BY DEF Busy
<1>3. Requested'
  BY DEF Requested
<1> QED
  BY <1>1, <1>2, <1>3

\* The steps of _receipt() after its rename keep the typing invariant
LEMMA TInvReceiptSteps ==
    ASSUME TInv, NEW p \in Procs,
           ReceiptSync(p) \/ UnlinkEntry(p) \/ UnlinkState(p) \/ Settle(p)
    PROVE  TInv'
<1>0. DirType /\ CsType /\ Requested /\ GhostType
  BY DEF TInv
<1>1. CASE ReceiptSync(p)
  <2>1. DirType'
    BY <1>0, <1>1, FsyncType DEF ReceiptSync
  <2>2. GhostType' /\ CsType'
    BY <1>0, <1>1 DEF ReceiptSync, GhostType, ghostVars, CsType, At, Stages
  <2> QED
    BY <1>0, <1>1, <2>1, <2>2, UnmovedStep DEF ReceiptSync, At, CsType, Requested
<1>2. CASE UnlinkEntry(p)
  <2>1. DirType'
    BY <1>0, <1>2, PutEntryType DEF UnlinkEntry
  <2>2. GhostType' /\ CsType'
    BY <1>0, <1>2 DEF UnlinkEntry, GhostType, ghostVars, CsType, At, Stages
  <2> QED
    BY <1>0, <1>2, <2>1, <2>2, UnmovedStep DEF UnlinkEntry, At, CsType, Requested
<1>3. CASE UnlinkState(p)
  <2>1. DirType'
    BY <1>0, <1>3, PutStateType DEF UnlinkState
  <2>2. GhostType' /\ CsType'
    BY <1>0, <1>3 DEF UnlinkState, GhostType, ghostVars, CsType, At, Stages
  <2> QED
    BY <1>0, <1>3, <2>1, <2>2, UnmovedStep DEF UnlinkState, At, CsType, Requested
<1>4. CASE Settle(p)
  <2>1. DirType'
    BY <1>0, <1>4, FsyncType DEF Settle
  <2>2. GhostType' /\ CsType'
    BY <1>0, <1>4 DEF Settle, GhostType, ghostVars, CsType, At, Stages
  <2> QED
    BY <1>0, <1>4, <2>1, <2>2, UnmovedStep DEF Settle, At, CsType, Requested
<1> QED
  BY <1>1, <1>2, <1>3, <1>4

\* The steps of _maintenance() keep the typing invariant
LEMMA TInvMaintenance ==
    ASSUME TInv, NEW p \in Procs,
           \/ MaintainMalformed(p) \/ DropLeftoverState(p) \/ MaintenanceDone(p)
           \/ \E d \in Deliveries : DropLeftover(p, d) \/ Retire(p, d) \/ PurgeReceipt(p, d)
    PROVE  TInv'
<1>0. DirType /\ CsType /\ Requested /\ GhostType /\ CountType
  BY DEF TInv
<1>1. CASE MaintainMalformed(p)
  <2>1. DirType'
    BY <1>0, <1>1 DEF MaintainMalformed, DirType, dirVars
  <2>2. GhostType' /\ CsType'
    BY <1>0, <1>1 DEF MaintainMalformed, GhostType, ghostVars, CsType, At, Stages
  <2> QED
    BY <1>0, <1>1, <2>1, <2>2, UnmovedStep DEF MaintainMalformed, At, CsType, Requested
<1>2. ASSUME NEW d \in Deliveries, DropLeftover(p, d) PROVE TInv'
  <2>1. DirType'
    BY <1>0, <1>2, PutEntryType DEF DropLeftover
  <2>2. GhostType' /\ CsType'
    BY <1>0, <1>2 DEF DropLeftover, GhostType, ghostVars, CsType, Stages
  <2> QED
    BY <1>0, <1>2, <2>1, <2>2, UnmovedStep DEF DropLeftover, CsType, Requested
<1>3. CASE DropLeftoverState(p)
  <2>1. DirType'
    BY <1>0, <1>3, PutStateType DEF DropLeftoverState
  <2>2. GhostType' /\ CsType'
    BY <1>0, <1>3 DEF DropLeftoverState, GhostType, ghostVars, CsType, At, Stages
  <2> QED
    BY <1>0, <1>3, <2>1, <2>2, UnmovedStep DEF DropLeftoverState, At, CsType, Requested
<1>4. ASSUME NEW d \in Deliveries, Retire(p, d) PROVE TInv'
  <2>1. ReceiptFor(d, "declined") \in Receipt
    BY <1>0, ReceiptForType DEF DirType, CountType, Terminal
  <2>2. DirType'
    BY <1>0, <1>4, <2>1, PutReceiptType DEF Retire, FileReceipt
  <2>3. GhostType' /\ CsType'
    BY <1>0, <1>4 DEF Retire, FileReceipt, GhostType, ghostVars, CsType, Stages
  <2> QED
    BY <1>0, <1>4, <2>2, <2>3, UnmovedStep DEF Retire, FileReceipt, CsType, Requested
<1>5. ASSUME NEW d \in Deliveries, PurgeReceipt(p, d) PROVE TInv'
  <2>1. DirType'
    BY <1>0, <1>5, PutReceiptType DEF PurgeReceipt
  <2>2. GhostType' /\ CsType'
    BY <1>0, <1>5 DEF PurgeReceipt, GhostType, CsType
  <2> QED
    BY <1>0, <1>5, <2>1, <2>2, UnmovedStep DEF PurgeReceipt, CsType, Requested
<1>6. CASE MaintenanceDone(p)
  <2>1. DirType'
    BY <1>0, <1>6, FsyncType DEF MaintenanceDone
  <2>2. GhostType' /\ CsType'
    BY <1>0, <1>6 DEF MaintenanceDone, GhostType, ghostVars, CsType, At, Stages
  <2> QED
    BY <1>0, <1>6, <2>1, <2>2, UnmovedStep DEF MaintenanceDone, At, CsType, Requested
<1> QED
  BY <1>1, <1>2, <1>3, <1>4, <1>5, <1>6

-----------------------------------------------------------------------------
(* Moving one process                                                      *)

\* Inside a section the admission steps of a sender
LEMMA TInvAdmit ==
    ASSUME TInv, NEW s \in Senders,
           \/ AdmitDeclined(s) \/ AdmitKnown(s) \/ AdmitFull(s)
           \/ AdmitPublish(s) \/ PublishSync(s)
    PROVE  TInv'
<1>0. DirType /\ CsType /\ Requested /\ GhostType /\ CountType
  BY DEF TInv
<1>a. cs.by = s /\ request[s] \in Deliveries \X Bodies
  BY <1>0 DEF AdmitDeclined, AdmitKnown, AdmitFull, AdmitPublish, PublishSync,
              Holds, Requested
<1>1. CASE AdmitDeclined(s)
  <2>1. DirType' /\ GhostType' /\ CsType'
    BY <1>0, <1>1 DEF AdmitDeclined, DirType, dirVars, GhostType, ghostVars, CsType, At, Stages
  <2> QED
    BY <1>0, <1>a, <1>1, <2>1, UnmovedStep DEF AdmitDeclined, At, CsType
<1>2. CASE AdmitKnown(s)
  <2>1. DirType' /\ GhostType' /\ CsType'
    BY <1>0, <1>a, <1>2 DEF AdmitKnown, DirType, dirVars, GhostType, CsType, At, Stages
  <2> QED
    BY <1>0, <1>a, <1>2, <2>1, UnmovedStep DEF AdmitKnown, At, CsType
<1>3. CASE AdmitFull(s)
  <2>1. request[s][1] \in Deliveries
    BY <1>a
  <2>2. ReceiptFor(request[s][1], "declined") \in Receipt
    BY <1>0, <2>1, ReceiptForType DEF DirType, CountType, Terminal
  <2>3. DirType'
    BY <1>0, <1>3, <2>2, PutReceiptType DEF AdmitFull
  <2>4. GhostType' /\ CsType'
    BY <1>0, <1>3, <2>1 DEF AdmitFull, GhostType, ghostVars, CsType, Stages
  <2> QED
    BY <1>0, <1>a, <1>3, <2>3, <2>4, UnmovedStep DEF AdmitFull, CsType
<1>4. CASE AdmitPublish(s)
  <2>1. [body |-> request[s][2], at |-> now, damage |-> {}] \in Entry
    BY <1>0, <1>a DEF Entry, CountType
  <2>2. DirType'
    BY <1>0, <1>4, <2>1, PutEntryType DEF AdmitPublish
  <2>3. GhostType' /\ CsType'
    BY <1>0, <1>4 DEF AdmitPublish, GhostType, ghostVars, CsType, At, Stages
  <2> QED
    BY <1>0, <1>a, <1>4, <2>2, <2>3, UnmovedStep DEF AdmitPublish, At, CsType
<1>5. CASE PublishSync(s)
  <2>1. DirType'
    BY <1>0, <1>5, FsyncType DEF PublishSync
  <2>2. GhostType' /\ CsType'
    BY <1>0, <1>a, <1>5 DEF PublishSync, GhostType, CsType, At, Stages
  <2> QED
    BY <1>0, <1>a, <1>5, <2>1, <2>2, UnmovedStep DEF PublishSync, At, CsType
<1> QED
  BY <1>1, <1>2, <1>3, <1>4, <1>5

\* The steps of deliver() and enqueue() keep the typing invariant
LEMMA TInvSender ==
    ASSUME TInv, NEW s \in Senders,
           \/ EnqueueLock(s) \/ EnqueueBusy(s) \/ SendDirect(s)
           \/ \E d \in Deliveries, b \in Bodies : Capture(s, d, b)
    PROVE  TInv'
<1> USE ProcessAssumption DEF TInv, Procs
<1>1. ASSUME NEW d \in Deliveries, NEW b \in Bodies, Capture(s, d, b) PROVE TInv'
  <2>1. DirType' /\ CsType' /\ GhostType' /\ CountType'
    BY <1>1 DEF Capture, DirType, dirVars, CsType, GhostType, ghostVars, CountType, envVars
  <2>2. PcType' /\ LocalType'
    BY <1>1 DEF Capture, Goto, PcType, LocalType, workVars
  <2>3. Busy' /\ Requested'
    BY <1>1 DEF Capture, Goto, PcType, LocalType, workVars, Busy, Requested
  <2> QED
    BY <2>1, <2>2, <2>3
<1>2. CASE EnqueueLock(s)
  <2>1. DirType' /\ GhostType' /\ CountType' /\ PcType' /\ LocalType'
    BY <1>2 DEF EnqueueLock, Unmoved, DirType, dirVars, GhostType, ghostVars, CountType,
                envVars, PcType, LocalType, workVars
  <2>2. CsType'
    BY <1>2 DEF EnqueueLock, Lock, CsType, Stages
  <2>3. Busy' /\ Requested'
    BY <1>2 DEF EnqueueLock, Lock, Unmoved, workVars, Busy, Requested
  <2> QED
    BY <2>1, <2>2, <2>3
<1>3. CASE EnqueueBusy(s)
  <2>1. DirType' /\ CsType' /\ GhostType' /\ CountType'
    BY <1>3 DEF EnqueueBusy, DirType, dirVars, CsType, GhostType, ghostVars, CountType, envVars
  <2>2. PcType' /\ LocalType'
    BY <1>3 DEF EnqueueBusy, EndDeliver, Goto, PcType, LocalType, workVars
  <2>3. Busy' /\ Requested'
    BY <1>3 DEF EnqueueBusy, EndDeliver, Goto, PcType, LocalType, workVars, Busy, Requested
  <2> QED
    BY <2>1, <2>2, <2>3
<1>4. CASE SendDirect(s)
  <2>1. DirType' /\ CsType' /\ CountType'
    BY <1>4 DEF SendDirect, DirType, dirVars, CsType, CountType, envVars
  <2>2. GhostType'
    BY <1>4 DEF SendDirect, GhostType, Requested
  <2>3. PcType' /\ LocalType'
    BY <1>4 DEF SendDirect, EndDeliver, Goto, PcType, LocalType, workVars
  <2>4. Busy' /\ Requested'
    BY <1>4 DEF SendDirect, EndDeliver, Goto, PcType, LocalType, workVars, Busy, Requested
  <2> QED
    BY <2>1, <2>2, <2>3, <2>4
<1> QED
  BY <1>1, <1>2, <1>3, <1>4

\* A worker between batches has well typed locals
LEMMA NoJobType == NoJob \in Job
BY DEF NoJob, Job

\* The end of a batch leaves the worker with nothing in hand
LEMMA EndBatchType ==
    ASSUME TInv, NEW w \in Workers, NEW ok \in BOOLEAN, EndBatch(w, ok), request' = request
    PROVE  /\ PcType' /\ LocalType' /\ Busy'
           /\ \A s \in Senders : pc'[s] = pc[s]
<1> USE ProcessAssumption, NoJobType DEF TInv, Procs
<1>1. retry' \in [Workers -> BOOLEAN]
  BY Zenon DEF EndBatch, LocalType
<1>2. PcType' /\ LocalType'
  BY <1>1 DEF EndBatch, Goto, PcType, LocalType
<1>3. Busy' /\ \A s \in Senders : pc'[s] = pc[s]
  BY DEF EndBatch, Goto, PcType, LocalType, Busy
<1> QED
  BY <1>2, <1>3

\* Going on to the next header keeps the rest of the batch
LEMMA NextHeaderType ==
    ASSUME TInv, NEW w \in Workers, NextHeader(w), UNCHANGED <<owner, request, retry>>
    PROVE  /\ PcType' /\ LocalType' /\ Busy'
           /\ \A s \in Senders : pc'[s] = pc[s]
<1> USE ProcessAssumption DEF TInv, Procs
<1>1. job' \in [Workers -> Job]
  <2>1. [job[w] EXCEPT !.cur = None, !.since = 0, !.result = None] \in Job
    BY DEF LocalType, Job
  <2> QED
    BY <2>1 DEF NextHeader, LocalType
<1>2. PcType' /\ LocalType'
  BY <1>1 DEF NextHeader, Goto, PcType, LocalType
<1>3. Busy' /\ \A s \in Senders : pc'[s] = pc[s]
  BY DEF NextHeader, Goto, PcType, LocalType, Busy
<1> QED
  BY <1>2, <1>3

\* Closing enqueue.lock keeps the typing invariant
LEMMA TInvLeave ==
    ASSUME TInv, NEW p \in Procs, Leave(p)
    PROVE  TInv'
<1> USE ProcessAssumption DEF TInv, Procs
<1>1. DirType' /\ GhostType' /\ CountType'
  BY DEF Leave, DirType, dirVars, GhostType, ghostVars, CountType, envVars
<1>2. CsType' /\ cs' = Free
  BY DEF Leave, CsType, Free, Stages
<1>3. CASE p \in Senders
  <2>1. EndDeliver(p) /\ UNCHANGED <<owner, workVars>>
    BY <1>3 DEF Leave
  <2>2. PcType' /\ LocalType'
    BY <1>3, <2>1 DEF EndDeliver, Goto, PcType, LocalType, workVars
  <2>3. Busy' /\ Requested'
    BY <1>2, <1>3, <2>1 DEF EndDeliver, Goto, PcType, LocalType, workVars, Busy, Requested, Free
  <2> QED
    BY <1>1, <1>2, <2>2, <2>3
<1>4. CASE p \in Workers
  <2>1. PcType' /\ LocalType' /\ Busy' /\ \A s \in Senders : pc'[s] = pc[s]
    BY <1>4, NextHeaderType, EndBatchType DEF Leave
  <2>2. request' = request
    BY <1>4 DEF Leave
  <2>3. Requested'
    BY <1>2, <2>1, <2>2 DEF Requested, Free
  <2> QED
    BY <1>1, <1>2, <2>1, <2>3
<1> QED
  BY <1>3, <1>4

\* A worker whose locals change, with nothing in hand it did not have
LEMMA TInvBatch ==
    ASSUME TInv, NEW w \in Workers,
           \/ Start(w) \/ Rebatch(w) \/ CollectLock(w) \/ FinishLock(w)
           \/ BatchDone(w) \/ WorkerBusy(w) \/ Collect(w)
    PROVE  TInv'
<1> USE ProcessAssumption DEF TInv, Procs
<1>1. CASE Start(w)
  <2>1. DirType' /\ CsType' /\ GhostType' /\ CountType'
    BY <1>1 DEF Start, DirType, dirVars, CsType, GhostType, ghostVars, CountType, envVars
  <2>2. PcType' /\ LocalType'
    BY <1>1 DEF Start, Goto, PcType, LocalType
  <2>3. Busy' /\ Requested'
    BY <1>1 DEF Start, Goto, PcType, LocalType, Busy, Requested
  <2> QED
    BY <2>1, <2>2, <2>3
<1>2. CASE Rebatch(w)
  <2>1. DirType' /\ CsType' /\ GhostType' /\ CountType'
    BY <1>2 DEF Rebatch, DirType, dirVars, CsType, GhostType, ghostVars, CountType, envVars
  <2>2. PcType' /\ LocalType'
    BY <1>2 DEF Rebatch, Goto, PcType, LocalType, workVars
  <2>3. Busy' /\ Requested'
    BY <1>2 DEF Rebatch, Goto, PcType, LocalType, workVars, Busy, Requested
  <2> QED
    BY <2>1, <2>2, <2>3
<1>3. CASE CollectLock(w) \/ FinishLock(w)
  <2>1. DirType' /\ GhostType' /\ CountType' /\ PcType' /\ LocalType'
    BY <1>3 DEF CollectLock, FinishLock, Unmoved, DirType, dirVars, GhostType, ghostVars,
                CountType, envVars, PcType, LocalType, workVars
  <2>2. CsType'
    BY <1>3 DEF CollectLock, FinishLock, Lock, CsType, Stages
  <2>3. Busy' /\ Requested'
    BY <1>3 DEF CollectLock, FinishLock, Lock, Unmoved, workVars, Busy, Requested
  <2> QED
    BY <2>1, <2>2, <2>3
<1>4. CASE BatchDone(w)
  <2>1. DirType' /\ CsType' /\ GhostType' /\ CountType'
    BY <1>4 DEF BatchDone, DirType, dirVars, CsType, GhostType, ghostVars, CountType, envVars
  <2>2. PcType' /\ LocalType'
    BY <1>4, NoJobType DEF BatchDone, EndLoop, Goto, PcType, LocalType
  <2>3. Busy' /\ Requested'
    BY <1>4 DEF BatchDone, EndLoop, Goto, PcType, LocalType, Busy, Requested
  <2> QED
    BY <2>1, <2>2, <2>3
<1>5. CASE WorkerBusy(w)
  <2>1. DirType' /\ CsType' /\ GhostType' /\ CountType'
    BY <1>5 DEF WorkerBusy, DirType, dirVars, CsType, GhostType, ghostVars, CountType, envVars
  <2>2. PcType' /\ LocalType' /\ Busy' /\ \A s \in Senders : pc'[s] = pc[s]
    BY <1>5, EndBatchType DEF WorkerBusy
  <2>3. Requested'
    BY <1>5, <2>2 DEF WorkerBusy, Requested
  <2> QED
    BY <2>1, <2>2, <2>3
<1>6. CASE Collect(w)
  <2>1. DirType' /\ GhostType' /\ CountType'
    BY <1>6 DEF Collect, DirType, dirVars, GhostType, ghostVars, CountType, envVars
  <2>2. CsType' /\ cs' = Free
    BY <1>6 DEF Collect, CsType, Free, Stages
  <2>3. {HeaderOf(e) : e \in Entries} \in SUBSET Header
    <3>1. ASSUME NEW e \in Entries PROVE HeaderOf(e) \in Header
      <4>1. e \in Deliveries /\ disk.entry[e] \in Entry /\ disk.state[e] \in State \cup {None}
        BY DEF Entries, DirType, Image
      <4>2. Due(e) \in Nat
        BY <4>1 DEF Due, Entry, State
      <4> QED
        BY <4>1, <4>2 DEF HeaderOf, Header, Entry
    <3> QED
      BY <3>1
  <2>4. job' \in [Workers -> Job]
    BY <1>6, <2>3 DEF Collect, LocalType, Job
  <2>5. PcType' /\ LocalType'
    BY <1>6, <2>4 DEF Collect, Goto, PcType, LocalType
  <2>6. Busy' /\ Requested'
    BY <1>6, <2>2 DEF Collect, Goto, PcType, LocalType, Busy, Requested, Free
  <2> QED
    BY <2>1, <2>2, <2>5, <2>6
<1> QED
  BY <1>1, <1>2, <1>3, <1>4, <1>5, <1>6

\* What a worker has in hand after it takes a header, and after an answer
LEMMA TakenJob ==
    ASSUME NEW j \in Job, NEW h \in Header, NEW res \in Result \cup {None}, now \in Nat
    PROVE  Taken(j, h, res) \in Job /\ Taken(j, h, res).cur = h
BY DEF Job, Taken

\* What a worker has in hand after send_once() returned is well typed
LEMMA AnsweredJob ==
    ASSUME NEW j \in Job, NEW r \in Result
    PROVE  Answered(j, r) \in Job /\ Answered(j, r).cur = j.cur
<1> DEFINE n == j.attempted + 1
<1>1. n \in Nat
  BY DEF Job
<1>2. Answered(j, r) = [j EXCEPT !.result = r, !.attempted = n]
  BY DEF Answered
<1> HIDE DEF n
<1> QED
  BY <1>1, <1>2 DEF Job

\* The steps of an attempt, up to its answer, keep the typing invariant
LEMMA TInvAttempt ==
    ASSUME TInv, NEW w \in Workers,
           \/ Answer(w) \/ FileGone(w)
           \/ \E h \in job[w].todo : Skip(w, h) \/ Misconfigured(w, h) \/ Send(w, h)
    PROVE  TInv'
<1> USE ProcessAssumption DEF TInv, Procs
<1>h. job[w] \in Job /\ \A h \in job[w].todo : h \in Header
  BY DEF LocalType, Job
<1>1. ASSUME NEW h \in job[w].todo, Skip(w, h) PROVE TInv'
  <2>1. DirType' /\ CsType' /\ GhostType' /\ CountType' /\ PcType'
    BY <1>1 DEF Skip, DirType, dirVars, CsType, GhostType, ghostVars, CountType, envVars, PcType
  <2>2. LocalType'
    BY <1>1 DEF Skip, Pop, LocalType, Job
  <2>3. Busy' /\ Requested'
    BY <1>1 DEF Skip, Pop, LocalType, Busy, Requested
  <2> QED
    BY <2>1, <2>2, <2>3
<1>2. ASSUME NEW h \in job[w].todo, NEW res \in {"blocked", None}, Take(w, h, res)
      PROVE  job' \in [Workers -> Job] /\ job'[w].cur = h
             /\ \A v \in Workers : v # w => job'[v] = job[v]
  <2>1. Taken(job[w], h, res) \in Job /\ Taken(job[w], h, res).cur = h
    BY <1>h, TakenJob DEF Result, CountType
  <2> QED
    BY <1>2, <2>1 DEF Take, LocalType
<1>3. ASSUME NEW h \in job[w].todo, Misconfigured(w, h) PROVE TInv'
  <2>1. DirType' /\ CsType' /\ GhostType' /\ CountType'
    BY <1>3 DEF Misconfigured, DirType, dirVars, CsType, GhostType, ghostVars, CountType, envVars
  <2>2. PcType' /\ LocalType'
    BY <1>2, <1>3 DEF Misconfigured, Goto, PcType, LocalType
  <2>3. Busy' /\ Requested'
    BY <1>h, <1>2, <1>3 DEF Misconfigured, Goto, PcType, LocalType, Busy, Requested
  <2> QED
    BY <2>1, <2>2, <2>3
<1>4. ASSUME NEW h \in job[w].todo, Send(w, h) PROVE TInv'
  <2>1. DirType' /\ CsType' /\ GhostType' /\ CountType'
    BY <1>4 DEF Send, DirType, dirVars, CsType, GhostType, ghostVars, CountType, envVars
  <2>2. PcType' /\ LocalType'
    BY <1>2, <1>4 DEF Send, Goto, PcType, LocalType
  <2>3. Busy' /\ Requested'
    BY <1>h, <1>2, <1>4 DEF Send, Goto, PcType, LocalType, Busy, Requested
  <2> QED
    BY <2>1, <2>2, <2>3
<1>5. CASE Answer(w)
  <2>0. job[w].cur \in Header
    BY <1>5 DEF Answer, Busy
  <2>1. DirType' /\ CsType' /\ CountType'
    BY <1>5 DEF Answer, DirType, dirVars, CsType, CountType, envVars
  <2>2. PICK r \in {"acknowledged", "skipped", "pending", "blocked"} :
            /\ job' = [job EXCEPT ![w] = Answered(job[w], r)]
            /\ received' \in Accepted(r, <<job[w].cur.id, job[w].cur.body>>)
    BY <1>5 DEF Answer
  <2>3. GhostType'
    BY <1>5, <2>0, <2>2 DEF Answer, Accepted, GhostType, Header
  <2>5. job' \in [Workers -> Job] /\ \A v \in Workers : job'[v].cur = job[v].cur
    <3>1. Answered(job[w], r) \in Job /\ Answered(job[w], r).cur = job[w].cur
      BY <1>h, AnsweredJob DEF Result, Terminal
    <3> QED
      BY <2>2, <3>1 DEF LocalType
  <2>6. PcType' /\ LocalType'
    BY <1>5, <2>5 DEF Answer, Goto, PcType, LocalType
  <2>7. Busy' /\ Requested'
    BY <1>5, <2>0, <2>5 DEF Answer, Goto, PcType, Busy, Requested
  <2> QED
    BY <2>1, <2>3, <2>6, <2>7
<1>6. CASE FileGone(w)
  <2>1. DirType' /\ CsType' /\ GhostType' /\ CountType'
    BY <1>6 DEF FileGone, DirType, dirVars, CsType, GhostType, ghostVars, CountType, envVars
  <2>2. PcType' /\ LocalType' /\ Busy' /\ \A s \in Senders : pc'[s] = pc[s]
    BY <1>6, NextHeaderType DEF FileGone
  <2>3. Requested'
    BY <1>6, <2>2 DEF FileGone, Requested
  <2> QED
    BY <2>1, <2>2, <2>3
<1> QED
  BY <1>1, <1>3, <1>4, <1>5, <1>6

\* A worker takes the lock to file one record
LEMMA LockedRecord ==
    ASSUME TInv, NEW w \in Workers, NEW d \in Deliveries, NEW st \in {"sync", "backoff"},
           cs' = [by |-> w, stage |-> st, goal |-> "leave", id |-> d, then |-> "leave"],
           UNCHANGED <<now, owner, pc, request, retry, envVars, ghostVars>>,
           DirType', job' \in [Workers -> Job],
           \A v \in Workers : job'[v].cur = job[v].cur
    PROVE  TInv'
<1> USE ProcessAssumption DEF TInv, Procs
<1>1. CsType' /\ GhostType' /\ CountType'
  BY DEF CsType, Stages, GhostType, ghostVars, CountType, envVars
<1>2. PcType' /\ LocalType'
  BY DEF PcType, LocalType
<1>3. Busy' /\ Requested'
  BY DEF Busy, Requested
<1> QED
  BY <1>1, <1>2, <1>3

\* The steps in which a worker files a record
LEMMA TInvFiling ==
    ASSUME TInv, NEW w \in Workers,
           \/ FileTerminal(w) \/ FileBackoff(w) \/ BackoffSync(w)
           \/ \E d \in Deliveries : CollectBad(w, d)
    PROVE  TInv'
<1>0. DirType /\ CsType /\ Requested /\ GhostType /\ CountType /\ Busy /\ LocalType
  BY DEF TInv
<1>1. ASSUME NEW d \in Deliveries, CollectBad(w, d) PROVE TInv'
  <2>1. ReceiptFor(d, "declined") \in Receipt
    BY <1>0, ReceiptForType DEF DirType, CountType, Terminal
  <2>2. DirType'
    BY <1>0, <1>1, <2>1, PutReceiptType DEF CollectBad, FileReceipt
  <2>3. GhostType' /\ CsType'
    BY <1>0, <1>1 DEF CollectBad, FileReceipt, GhostType, ghostVars, CsType, Stages
  <2> QED
    BY <1>0, <1>1, <2>2, <2>3, UnmovedStep DEF CollectBad, FileReceipt, CsType, Requested
<1>2. CASE FileTerminal(w)
  <2>1. job[w].cur.id \in Deliveries
    BY <1>0, <1>2 DEF FileTerminal, Busy, Header
  <2>2. ReceiptFor(job[w].cur.id, job[w].result) \in Receipt
    BY <1>0, <1>2, <2>1, ReceiptForType DEF FileTerminal, DirType, CountType
  <2>3. DirType'
    BY <1>0, <1>2, <2>2, PutReceiptType DEF FileTerminal, LockAndFile
  <2> QED
    BY <1>0, <1>2, <2>1, <2>3, LockedRecord
       DEF FileTerminal, LockAndFile, Unmoved, workVars, LocalType
<1>3. CASE FileBackoff(w)
  <2>1. job[w].cur.id \in Deliveries
    BY <1>0, <1>3 DEF FileBackoff, Busy, Header
  <2>2. PICK delay \in 1..MaxBackoff :
            PutState(job[w].cur.id,
                     [status |-> job[w].result, next |-> now + delay, bad |-> FALSE])
    BY <1>3 DEF FileBackoff
  <2>3. [status |-> job[w].result, next |-> now + delay, bad |-> FALSE] \in State
    BY <1>0, <1>3, BoundAssumption DEF FileBackoff, State, CountType
  <2>4. DirType'
    BY <1>0, <2>2, <2>3, PutStateType
  <2> QED
    BY <1>0, <1>3, <2>1, <2>4, LockedRecord DEF FileBackoff, Unmoved, workVars, LocalType
<1>4. CASE BackoffSync(w)
  <2>1. DirType'
    BY <1>0, <1>4, FsyncType DEF BackoffSync
  <2>2. GhostType' /\ CsType'
    BY <1>0, <1>4 DEF BackoffSync, GhostType, ghostVars, CsType, At, Stages
  <2> QED
    BY <1>0, <1>4, <2>1, <2>2, UnmovedStep DEF BackoffSync, At, CsType, Requested
<1> QED
  BY <1>1, <1>2, <1>3, <1>4

\* Declining an expired or unreadable entry keeps the typing invariant
LEMMA TInvDecline ==
    ASSUME TInv, NEW w \in Workers, NEW h \in job[w].todo, Decline(w, h)
    PROVE  TInv'
<1>0. DirType /\ CountType /\ LocalType
  BY DEF TInv
<1>1. h \in Header /\ job[w] \in Job
  BY <1>0 DEF LocalType, Job
<1>2. h.id \in Deliveries
  BY <1>1 DEF Header
<1>3. ReceiptFor(h.id, "declined") \in Receipt
  BY <1>0, <1>2, ReceiptForType DEF DirType, CountType, Terminal
<1>4. DirType'
  BY <1>0, <1>3, PutReceiptType DEF Decline, LockAndFile
<1>5. job' \in [Workers -> Job] /\ \A v \in Workers : job'[v].cur = job[v].cur
  BY <1>0 DEF Decline, Pop, LocalType, Job
<1> QED
  BY <1>2, <1>4, <1>5, LockedRecord DEF Decline, LockAndFile

-----------------------------------------------------------------------------
(* The environment                                                         *)

\* Dead processes hold nothing and remember nothing
LEMMA ForgetType ==
    ASSUME TInv, NEW P, Forget(P)
    PROVE  PcType' /\ LocalType' /\ CsType' /\ Busy' /\ Requested'
<1> USE ProcessAssumption, NoJobType DEF TInv, Procs, Forget
<1>1. CsType'
  BY DEF CsType, Free, Stages
<1>2. PcType'
  BY DEF PcType
<1>3. LocalType'
  <2>1. retry' \in [Workers -> BOOLEAN]
    BY DEF LocalType
  <2> QED
    BY <2>1 DEF LocalType
<1>4. Busy'
  BY DEF Busy, LocalType
<1>5. Requested'
  <2>1. ASSUME NEW s \in Senders, pc'[s] \in {"enqueue", "direct"}
        PROVE  request'[s] \in Deliveries \X Bodies
    BY <2>1 DEF Requested
  <2>2. ASSUME NEW s \in Senders, cs'.by = s PROVE pc'[s] = "enqueue"
    BY <2>2 DEF Requested, Free
  <2>3. cs'.goal = "admit" \/ cs'.stage \in {"admit", "publish"} => cs'.by \in Senders
    BY DEF Requested, Free
  <2> QED
    BY <2>1, <2>2, <2>3 DEF Requested
<1> QED
  BY <1>1, <1>2, <1>3, <1>4, <1>5

\* Time, process death, power loss, OSErrors and damage keep the typing invariant
LEMMA TInvEnvironment == ASSUME TInv, Environment PROVE TInv'
<1> USE ProcessAssumption DEF TInv, Procs
<1>1. CASE Tick
  <2>1. DirType' /\ CsType' /\ GhostType' /\ CountType' /\ PcType' /\ LocalType'
    BY <1>1 DEF Tick, DirType, dirVars, CsType, GhostType, ghostVars, CountType, envVars,
                PcType, LocalType, workVars
  <2>2. Busy' /\ Requested'
    BY <1>1 DEF Tick, Busy, Requested, workVars
  <2> QED
    BY <2>1, <2>2
<1>2. CASE PowerLoss
  <2>1. DirType' /\ GhostType' /\ CountType'
    BY <1>2 DEF PowerLoss, DirType, GhostType, ghostVars, CountType
  <2> QED
    BY <1>2, <2>1, ForgetType DEF PowerLoss
<1>3. ASSUME NEW p \in Procs, Crash(p) PROVE TInv'
  <2>1. DirType' /\ GhostType' /\ CountType'
    BY <1>3 DEF Crash, DirType, dirVars, GhostType, ghostVars, CountType
  <2> QED
    BY <1>3, <2>1, ForgetType DEF Crash
<1>4. ASSUME NEW w \in Workers, Stop(w) PROVE TInv'
  <2>1. DirType' /\ GhostType' /\ CountType'
    BY <1>4 DEF Stop, DirType, dirVars, GhostType, ghostVars, CountType
  <2>2. CASE EndLoop(w) /\ UNCHANGED <<cs, owner, request, retry>>
    <3>1. PcType' /\ LocalType' /\ CsType'
      BY <2>2, NoJobType DEF EndLoop, Goto, PcType, LocalType, CsType
    <3>2. Busy' /\ Requested'
      BY <2>2 DEF EndLoop, Goto, PcType, LocalType, Busy, Requested
    <3> QED
      BY <2>1, <3>1, <3>2
  <2>3. CASE Forget({w})
    BY <2>1, <2>3, ForgetType
  <2> QED
    BY <1>4, <2>2, <2>3 DEF Stop
<1>5. ASSUME NEW p \in Procs, StorageError(p) PROVE TInv'
  <2>1. DirType' /\ GhostType' /\ CountType'
    BY <1>5 DEF StorageError, DirType, dirVars, GhostType, ghostVars, CountType
  <2>2. CsType' /\ cs' = Free
    BY <1>5 DEF StorageError, CsType, Free, Stages
  <2>3. CASE p \in Senders
    <3>0. pc[p] = "enqueue"
      BY <1>5, <2>3 DEF StorageError, Requested
    <3>1. /\ EndDeliver(p) \/ (Goto(p, "direct") /\ UNCHANGED request)
          /\ UNCHANGED <<owner, workVars>>
      BY <1>5, <2>3 DEF StorageError
    <3>2. PcType' /\ LocalType'
      BY <2>3, <3>1 DEF EndDeliver, Goto, PcType, LocalType, workVars
    <3>3. Busy' /\ Requested'
      BY <2>2, <2>3, <3>0, <3>1 DEF EndDeliver, Goto, PcType, LocalType, workVars, Busy,
                                    Requested, Free
    <3> QED
      BY <2>1, <2>2, <3>2, <3>3
  <2>4. CASE p \in Workers
    <3>1. EndBatch(p, FALSE) /\ request' = request
      BY <1>5, <2>4 DEF StorageError
    <3>2. PcType' /\ LocalType' /\ Busy' /\ \A s \in Senders : pc'[s] = pc[s]
      BY <2>4, <3>1, EndBatchType
    <3>3. Requested'
      BY <2>2, <3>1, <3>2 DEF Requested, Free
    <3> QED
      BY <2>1, <2>2, <3>2, <3>3
  <2> QED
    BY <2>3, <2>4
<1>6. ASSUME NEW d \in Deliveries, Damage(d) PROVE TInv'
  <2>1. disk.entry[d] \in Entry \cup {None} /\ disk.state[d] \in State \cup {None}
        /\ disk.receipt[d] \in Receipt \cup {None}
    BY DEF DirType, Image
  <2>2. DirType'
    <3>1. ASSUME NEW x \in (SUBSET {"header", "body"}) \ {{}}, disk.entry[d] # None,
                 PutEntry(d, [disk.entry[d] EXCEPT !.damage = x])
          PROVE  DirType'
      <4>1. [disk.entry[d] EXCEPT !.damage = x] \in Entry
        BY <2>1, <3>1 DEF Entry
      <4> QED
        BY <3>1, <4>1, PutEntryType
    <3>2. CASE disk.state[d] # None /\ PutState(d, [disk.state[d] EXCEPT !.bad = TRUE])
      <4>1. [disk.state[d] EXCEPT !.bad = TRUE] \in State
        BY <2>1, <3>2 DEF State
      <4> QED
        BY <3>2, <4>1, PutStateType
    <3>3. CASE disk.receipt[d] # None /\ PutReceipt(d, [disk.receipt[d] EXCEPT !.bad = TRUE])
      <4>1. [disk.receipt[d] EXCEPT !.bad = TRUE] \in Receipt
        BY <2>1, <3>3 DEF Receipt
      <4> QED
        BY <3>3, <4>1, PutReceiptType
    <3> QED
      BY <1>6, <3>1, <3>2, <3>3 DEF Damage
  <2>3. CsType' /\ GhostType' /\ CountType' /\ PcType' /\ LocalType'
    BY <1>6 DEF Damage, CsType, GhostType, ghostVars, CountType, PcType, LocalType, workVars
  <2>4. Busy' /\ Requested'
    BY <1>6 DEF Damage, Busy, Requested, workVars
  <2> QED
    BY <2>2, <2>3, <2>4
<1> QED
  BY <1>1, <1>2, <1>3, <1>4, <1>5, <1>6 DEF Environment

-----------------------------------------------------------------------------
\* The typing invariant is inductive
LEMMA TInvNext == TInv /\ [Next]_vars => TInv'
<1> SUFFICES ASSUME TInv, [Next]_vars PROVE TInv'
  OBVIOUS
<1>1. CASE UNCHANGED vars
  BY <1>1 DEF vars, TInv, DirType, CsType, PcType, LocalType, GhostType, CountType, Busy,
              Requested
<1>2. ASSUME NEW s \in Senders, NEW d \in Deliveries, NEW b \in Bodies, Capture(s, d, b)
      PROVE  TInv'
  BY <1>2, TInvSender
<1>3. ASSUME NEW p \in Procs, Section(p) PROVE TInv'
  BY <1>3, TInvReceiptSteps, TInvLeave, TInvMaintenance DEF Section
<1>4. ASSUME NEW s \in Senders, Sender(s) PROVE TInv'
  BY <1>4, TInvSender, TInvAdmit DEF Sender
<1>5. ASSUME NEW w \in Workers, Worker(w) PROVE TInv'
  BY <1>5, TInvBatch, TInvAttempt, TInvFiling, TInvDecline DEF Worker
<1>6. CASE Environment
  BY <1>6, TInvEnvironment
<1> QED
  BY <1>1, <1>2, <1>3, <1>4, <1>5, <1>6 DEF Next

\* Every reachable state is well typed: the files hold complete records, a
\* worker files answers only for headers it collected, and a section decides
\* only on a request its sender made.
THEOREM TypeCorrect == Spec => []TypeOK
<1>1. TInv => TypeOK
  BY DEF TInv, TypeOK, DirType, CsType, PcType, LocalType, GhostType, CountType
<1> QED
  BY <1>1, TInvInit, TInvNext, PTL DEF Spec

-----------------------------------------------------------------------------
(* No silent loss.  What is visible may not survive a power loss, so the   *)
(* invariant speaks of every image the disk may come back with, and of the *)
(* points in a section where a later step relies on an earlier one.        *)

Safe(image) == \A p \in promised : Accounts(image, p[1], p[2])

DurSafe == disk \in durable /\ \A image \in durable : Safe(image)

\* A payload is unlinked only with its receipt in place; a payload is
\* reported queued only when it is in the directory, or known and durable
Ordered ==
    /\ cs.stage \in {"sync", "unlinkEntry"} => disk.receipt[cs.id] # None
    /\ cs.stage = "publish" =>
         LET r == request[cs.by] IN
           disk.entry[r[1]] # None /\ disk.entry[r[1]].body = r[2]
    /\ cs.stage = "admit" => durable = {disk}
    /\ cs.by = None => cs.stage \notin {"sync", "unlinkEntry", "publish", "admit"}

LInv == TInv /\ DurSafe /\ Ordered

\* The image each file operation makes is safe
LEMMA SafePutReceipt ==
    ASSUME disk \in Image, promised \subseteq Deliveries \X Bodies, Safe(disk),
           NEW d \in Deliveries, NEW r \in Receipt
    PROVE  /\ Safe([disk EXCEPT !.receipt[d] = r])
           /\ [disk EXCEPT !.receipt[d] = r].receipt[d] # None
BY NoneAssumption DEF Image, Safe, Accounts

\* Writing a retry schedule leaves every promise accounted for
LEMMA SafePutState ==
    ASSUME disk \in Image, promised \subseteq Deliveries \X Bodies, Safe(disk),
           NEW d, NEW e
    PROVE  Safe([disk EXCEPT !.state[d] = e])
BY DEF Image, Safe, Accounts

\* Unlinking an entry whose receipt is on record leaves every promise accounted for
LEMMA SafeUnlinkEntry ==
    ASSUME disk \in Image, promised \subseteq Deliveries \X Bodies, Safe(disk),
           NEW d, disk.receipt[d] # None
    PROVE  Safe([disk EXCEPT !.entry[d] = None])
BY DEF Image, Safe, Accounts

\* An id the buffer does not know has no promise to break
LEMMA SafePublish ==
    ASSUME disk \in Image, promised \subseteq Deliveries \X Bodies, Safe(disk),
           NEW d \in Deliveries, Unknown(d), NEW e \in Entry
    PROVE  /\ Safe([disk EXCEPT !.entry[d] = e])
           /\ [disk EXCEPT !.entry[d] = e].entry[d] = e
BY DEF Image, Safe, Accounts, Unknown

\* A directory operation to a safe image keeps every image a power loss may leave safe
LEMMA WriteSafe ==
    ASSUME DurSafe, NEW image, Write(image), Safe(image), promised' = promised
    PROVE  DurSafe'
BY DEF DurSafe, Write, Safe

\* fsync leaves only the current image, which was safe
LEMMA FsyncSafe ==
    ASSUME DurSafe, Fsync, promised' = promised
    PROVE  DurSafe'
BY DEF DurSafe, Fsync, Safe

\* A step that leaves the directory and the promises alone, and does not
\* bring a section to one of the points above
LEMMA QuietStep ==
    ASSUME LInv, UNCHANGED <<disk, durable, promised>>,
           \/ cs'.stage \notin {"sync", "unlinkEntry", "publish", "admit"}
           \/ cs' = cs /\ (cs.stage = "publish" => request'[cs.by] = request[cs.by])
    PROVE  DurSafe' /\ Ordered'
<1>1. DurSafe'
  BY DEF LInv, DurSafe, Safe
<1>2. Ordered'
  BY DEF LInv, Ordered
<1> QED
  BY <1>1, <1>2

\* _receipt() unlinks the payload only when its receipt is durable
LEMMA LossReceiptSteps ==
    ASSUME LInv, NEW p \in Procs,
           ReceiptSync(p) \/ UnlinkEntry(p) \/ UnlinkState(p) \/ Settle(p)
    PROVE  DurSafe' /\ Ordered'
<1>0. /\ disk \in Image /\ promised \subseteq Deliveries \X Bodies /\ CsType
      /\ DurSafe /\ Safe(disk) /\ Ordered
  BY DEF LInv, TInv, DirType, GhostType, DurSafe
<1>1. CASE ReceiptSync(p)
  <2>1. DurSafe'
    BY <1>0, <1>1, FsyncSafe DEF ReceiptSync, ghostVars
  <2>2. Ordered'
    BY <1>0, <1>1, ProcessAssumption DEF ReceiptSync, Holds, At, Fsync, CsType, Ordered
  <2> QED
    BY <2>1, <2>2
<1>2. CASE UnlinkEntry(p)
  <2>1. Safe([disk EXCEPT !.entry[cs.id] = None])
    BY <1>0, <1>2, SafeUnlinkEntry DEF UnlinkEntry, Holds, Ordered
  <2>2. DurSafe'
    BY <1>0, <1>2, <2>1, WriteSafe DEF UnlinkEntry, PutEntry, ghostVars
  <2>3. Ordered'
    BY <1>0, <1>2 DEF UnlinkEntry, At, CsType, Ordered
  <2> QED
    BY <2>2, <2>3
<1>3. CASE UnlinkState(p)
  <2>1. Safe([disk EXCEPT !.state[cs.id] = None])
    BY <1>0, SafePutState
  <2>2. DurSafe'
    BY <1>0, <1>3, <2>1, WriteSafe DEF UnlinkState, PutState, ghostVars
  <2>3. Ordered'
    BY <1>0, <1>3 DEF UnlinkState, At, CsType, Ordered
  <2> QED
    BY <2>2, <2>3
<1>4. CASE Settle(p)
  <2>1. DurSafe'
    BY <1>0, <1>4, FsyncSafe DEF Settle, ghostVars
  <2>2. Ordered'
    BY <1>0, <1>4 DEF Settle, At, CsType, Ordered
  <2> QED
    BY <2>1, <2>2
<1> QED
  BY <1>1, <1>2, <1>3, <1>4

\* _maintenance() breaks no promise
LEMMA LossMaintenance ==
    ASSUME LInv, NEW p \in Procs,
           \/ MaintainMalformed(p) \/ DropLeftoverState(p) \/ MaintenanceDone(p)
           \/ \E d \in Deliveries : DropLeftover(p, d) \/ Retire(p, d) \/ PurgeReceipt(p, d)
    PROVE  DurSafe' /\ Ordered'
<1>0. /\ disk \in Image /\ promised \subseteq Deliveries \X Bodies /\ CsType /\ now \in Nat
      /\ DurSafe /\ Safe(disk) /\ Ordered
  BY DEF LInv, TInv, DirType, GhostType, CountType, DurSafe
<1>1. CASE MaintainMalformed(p)
  BY <1>0, <1>1, QuietStep DEF MaintainMalformed, At, CsType, dirVars, ghostVars
<1>2. CASE DropLeftoverState(p)
  <2>1. Safe([disk EXCEPT !.state[cs.id] = None])
    BY <1>0, SafePutState
  <2>2. DurSafe'
    BY <1>0, <1>2, <2>1, WriteSafe DEF DropLeftoverState, PutState, ghostVars
  <2>3. Ordered'
    BY <1>0, <1>2 DEF DropLeftoverState, At, CsType, Ordered
  <2> QED
    BY <2>2, <2>3
<1>3. CASE MaintenanceDone(p)
  <2>1. DurSafe'
    BY <1>0, <1>3, FsyncSafe DEF MaintenanceDone, ghostVars
  <2>2. Ordered'
    BY <1>0, <1>3, ProcessAssumption DEF MaintenanceDone, Holds, At, Fsync, CsType, Ordered
  <2> QED
    BY <2>1, <2>2
<1>4. ASSUME NEW d \in Deliveries, DropLeftover(p, d) PROVE DurSafe' /\ Ordered'
  <2>1. Safe([disk EXCEPT !.entry[d] = None])
    BY <1>0, <1>4, SafeUnlinkEntry DEF DropLeftover, Leftover
  <2>2. DurSafe'
    BY <1>0, <1>4, <2>1, WriteSafe DEF DropLeftover, PutEntry, ghostVars
  <2>3. Ordered'
    BY <1>0, <1>4 DEF DropLeftover, CsType, Ordered
  <2> QED
    BY <2>2, <2>3
<1>5. ASSUME NEW d \in Deliveries, Retire(p, d) PROVE DurSafe' /\ Ordered'
  <2>1. ReceiptFor(d, "declined") \in Receipt
    BY <1>0, ReceiptForType DEF Terminal
  <2>2. /\ Safe([disk EXCEPT !.receipt[d] = ReceiptFor(d, "declined")])
        /\ [disk EXCEPT !.receipt[d] = ReceiptFor(d, "declined")].receipt[d] # None
    BY <1>0, <2>1, SafePutReceipt
  <2>3. DurSafe'
    BY <1>0, <1>5, <2>2, WriteSafe DEF Retire, FileReceipt, PutReceipt, ghostVars
  <2>4. Ordered'
    BY <1>0, <1>5, <2>2, ProcessAssumption
       DEF Retire, Holds, FileReceipt, PutReceipt, Write, CsType, Ordered
  <2> QED
    BY <2>3, <2>4
<1>6. ASSUME NEW d \in Deliveries, PurgeReceipt(p, d) PROVE DurSafe' /\ Ordered'
  <2>1. \A q \in promised' : q \in promised /\ q[1] # d
    BY <1>0, <1>6 DEF PurgeReceipt
  <2>2. \A q \in promised' : Accounts([disk EXCEPT !.receipt[d] = None], q[1], q[2])
    BY <1>0, <2>1 DEF Image, Safe, Accounts
  <2>3. DurSafe'
    BY <1>0, <1>6, <2>1, <2>2 DEF PurgeReceipt, PutReceipt, Write, DurSafe, Safe
  <2>4. Ordered'
    BY <1>0, <1>6 DEF PurgeReceipt, Holds, Ordered
  <2> QED
    BY <2>3, <2>4
<1> QED
  BY <1>1, <1>2, <1>3, <1>4, <1>5, <1>6

\* enqueue() makes a promise only when the entry is durable, and breaks none
LEMMA LossSender ==
    ASSUME LInv, NEW s \in Senders, Sender(s)
    PROVE  DurSafe' /\ Ordered'
<1>0. /\ disk \in Image /\ promised \subseteq Deliveries \X Bodies /\ CsType /\ now \in Nat
      /\ DurSafe /\ Safe(disk) /\ Ordered /\ Requested /\ LocalType
  BY DEF LInv, TInv, DirType, GhostType, CountType, DurSafe
<1>a. cs.by = s => request[s] \in Deliveries \X Bodies
  BY <1>0 DEF Requested
<1>1. CASE EnqueueLock(s)
  BY <1>1, QuietStep DEF EnqueueLock, Lock, dirVars, ghostVars
<1>2. CASE EnqueueBusy(s)
  <2>1. cs.by # s /\ cs' = cs
    BY <1>2 DEF EnqueueBusy
  <2>2. cs.stage = "publish" => request'[cs.by] = request[cs.by]
    BY <1>0, <1>2, <2>1 DEF EnqueueBusy, EndDeliver, Requested, LocalType
  <2> QED
    BY <1>2, <2>1, <2>2, QuietStep DEF EnqueueBusy, dirVars, ghostVars
<1>3. CASE AdmitDeclined(s)
  BY <1>0, <1>3, QuietStep DEF AdmitDeclined, At, CsType, dirVars, ghostVars
<1>4. CASE AdmitKnown(s)
  <2>1. durable = {disk} /\ cs.by = s
    BY <1>0, <1>4 DEF AdmitKnown, Holds, Ordered
  <2>2. Accounts(disk, request[s][1], request[s][2])
    BY <1>4 DEF AdmitKnown, Accounts
  <2>3. DurSafe'
    BY <1>0, <1>4, <2>1, <2>2 DEF AdmitKnown, dirVars, DurSafe, Safe
  <2>4. Ordered'
    BY <1>0, <1>4 DEF AdmitKnown, At, CsType, Ordered
  <2> QED
    BY <2>3, <2>4
<1>5. CASE AdmitFull(s)
  <2> DEFINE d == request[s][1]
             r == ReceiptFor(d, "declined")
  <2>1. d \in Deliveries
    BY <1>a, <1>5 DEF AdmitFull, Holds
  <2>2. r \in Receipt
    BY <1>0, <2>1, ReceiptForType DEF Terminal
  <2>3. PutReceipt(d, r) /\ cs'.id = d /\ cs'.stage = "sync" /\ promised' = promised
        /\ cs'.by = s
    BY <1>0, <1>5 DEF AdmitFull, Holds, CsType, ghostVars
  <2> HIDE DEF d, r
  <2>4. Safe([disk EXCEPT !.receipt[d] = r]) /\ [disk EXCEPT !.receipt[d] = r].receipt[d] # None
    BY <1>0, <2>1, <2>2, SafePutReceipt
  <2>5. DurSafe'
    BY <1>0, <2>3, <2>4, WriteSafe DEF PutReceipt
  <2>6. Ordered'
    BY <2>3, <2>4, ProcessAssumption DEF PutReceipt, Write, Ordered, Procs
  <2> QED
    BY <2>5, <2>6
<1>6. CASE AdmitPublish(s)
  <2> DEFINE d == request[s][1]
             e == [body |-> request[s][2], at |-> now, damage |-> {}]
  <2>1. d \in Deliveries /\ e \in Entry /\ Unknown(d)
    BY <1>0, <1>a, <1>6 DEF AdmitPublish, Holds, Entry
  <2>2. /\ Safe([disk EXCEPT !.entry[d] = e])
        /\ [disk EXCEPT !.entry[d] = e].entry[d] = e
    BY <1>0, <2>1, SafePublish
  <2>3. PutEntry(d, e) /\ promised' = promised
    BY <1>6 DEF AdmitPublish, ghostVars
  <2>4. DurSafe'
    BY <1>0, <2>2, <2>3, WriteSafe DEF PutEntry
  <2>5. disk'.entry[d] = e /\ e # None
    BY <2>1, <2>2, <2>3, NoneAssumption DEF PutEntry, Write
  <2>6. cs'.stage = "publish" /\ cs'.by = s /\ request' = request
    BY <1>0, <1>6 DEF AdmitPublish, Holds, At, CsType, Unmoved
  <2>7. Ordered'
    BY <2>5, <2>6, ProcessAssumption DEF Ordered, Procs
  <2> QED
    BY <2>4, <2>7
<1>7. CASE PublishSync(s)
  <2>1. Accounts(disk, request[s][1], request[s][2])
    BY <1>0, <1>7 DEF PublishSync, Holds, Ordered, Accounts
  <2>2. DurSafe'
    BY <1>0, <1>7, <2>1 DEF PublishSync, Fsync, DurSafe, Safe
  <2>3. Ordered'
    BY <1>0, <1>7 DEF PublishSync, At, CsType, Ordered
  <2> QED
    BY <2>2, <2>3
<1>8. CASE SendDirect(s)
  <2>1. cs.by # s
    BY <1>0, <1>8 DEF SendDirect, Requested
  <2> QED
    BY <1>8, <2>1, QuietStep DEF SendDirect, EndDeliver, dirVars
<1> QED
  BY <1>1, <1>2, <1>3, <1>4, <1>5, <1>6, <1>7, <1>8 DEF Sender

\* A worker takes the lock and publishes a receipt
LEMMA LossLockAndFile ==
    ASSUME LInv, NEW w \in Workers, NEW d \in Deliveries, NEW st \in Terminal,
           LockAndFile(w, d, st), promised' = promised
    PROVE  DurSafe' /\ Ordered'
<1>0. /\ disk \in Image /\ promised \subseteq Deliveries \X Bodies /\ now \in Nat
      /\ DurSafe /\ Safe(disk)
  BY DEF LInv, TInv, DirType, GhostType, CountType, DurSafe
<1> DEFINE r == ReceiptFor(d, st)
<1>1. r \in Receipt
  BY <1>0, ReceiptForType
<1>2. PutReceipt(d, r) /\ cs'.id = d /\ cs'.stage = "sync" /\ cs'.by = w
  BY DEF LockAndFile
<1> HIDE DEF r
<1>3. Safe([disk EXCEPT !.receipt[d] = r]) /\ [disk EXCEPT !.receipt[d] = r].receipt[d] # None
  BY <1>0, <1>1, SafePutReceipt
<1>4. DurSafe'
  BY <1>0, <1>2, <1>3, WriteSafe DEF PutReceipt
<1>5. Ordered'
  BY <1>2, <1>3, ProcessAssumption DEF PutReceipt, Write, Ordered, Procs
<1> QED
  BY <1>4, <1>5

\* _batch() breaks no promise
LEMMA LossWorker ==
    ASSUME LInv, NEW w \in Workers, Worker(w)
    PROVE  DurSafe' /\ Ordered'
<1>0. /\ disk \in Image /\ promised \subseteq Deliveries \X Bodies /\ CsType /\ now \in Nat
      /\ DurSafe /\ Safe(disk) /\ Ordered /\ Busy /\ LocalType
  BY DEF LInv, TInv, DirType, GhostType, CountType, DurSafe
<1>1. CASE Start(w) \/ Rebatch(w) \/ Answer(w) \/ FileGone(w) \/ BatchDone(w) \/ WorkerBusy(w)
  BY <1>1, QuietStep DEF Start, Rebatch, Answer, FileGone, BatchDone, WorkerBusy, dirVars,
                         ghostVars
<1>2. CASE CollectLock(w) \/ FinishLock(w) \/ Collect(w)
  BY <1>2, QuietStep DEF CollectLock, FinishLock, Collect, Lock, Free, dirVars, ghostVars
<1>3. ASSUME NEW h \in job[w].todo, Skip(w, h) \/ Misconfigured(w, h) \/ Send(w, h)
      PROVE  DurSafe' /\ Ordered'
  BY <1>3, QuietStep DEF Skip, Misconfigured, Send, dirVars, ghostVars
<1>4. ASSUME NEW h \in job[w].todo, Decline(w, h) PROVE DurSafe' /\ Ordered'
  <2>1. h.id \in Deliveries
    BY <1>0 DEF LocalType, Job, Header
  <2> QED
    BY <1>4, <2>1, LossLockAndFile DEF Decline, ghostVars, Terminal
<1>5. CASE FileTerminal(w)
  <2>1. job[w].cur.id \in Deliveries
    BY <1>0, <1>5 DEF FileTerminal, Busy, Header
  <2> QED
    BY <1>5, <2>1, LossLockAndFile DEF FileTerminal, ghostVars
<1>6. ASSUME NEW d \in Deliveries, CollectBad(w, d) PROVE DurSafe' /\ Ordered'
  <2>1. ReceiptFor(d, "declined") \in Receipt
    BY <1>0, ReceiptForType DEF Terminal
  <2>2. /\ Safe([disk EXCEPT !.receipt[d] = ReceiptFor(d, "declined")])
        /\ [disk EXCEPT !.receipt[d] = ReceiptFor(d, "declined")].receipt[d] # None
    BY <1>0, <2>1, SafePutReceipt
  <2>3. DurSafe'
    BY <1>0, <1>6, <2>2, WriteSafe DEF CollectBad, FileReceipt, PutReceipt, ghostVars
  <2>4. Ordered'
    BY <1>0, <1>6, <2>2, ProcessAssumption
       DEF CollectBad, Holds, FileReceipt, PutReceipt, Write, CsType, Ordered, Procs
  <2> QED
    BY <2>3, <2>4
<1>7. CASE FileBackoff(w)
  <2>1. PICK e : PutState(job[w].cur.id, e)
    BY <1>7 DEF FileBackoff
  <2>2. Safe([disk EXCEPT !.state[job[w].cur.id] = e])
    BY <1>0, SafePutState
  <2>3. DurSafe'
    BY <1>0, <1>7, <2>1, <2>2, WriteSafe DEF FileBackoff, PutState, ghostVars
  <2>4. Ordered'
    BY <1>7 DEF FileBackoff, Ordered
  <2> QED
    BY <2>3, <2>4
<1>8. CASE BackoffSync(w)
  <2>1. DurSafe'
    BY <1>0, <1>8, FsyncSafe DEF BackoffSync, ghostVars
  <2>2. Ordered'
    BY <1>0, <1>8 DEF BackoffSync, At, CsType, Ordered
  <2> QED
    BY <2>1, <2>2
<1> QED
  BY <1>1, <1>2, <1>3, <1>4, <1>5, <1>6, <1>7, <1>8 DEF Worker

\* Process death, power loss, OSErrors and damage break no promise
LEMMA LossEnvironment ==
    ASSUME LInv, Environment
    PROVE  DurSafe' /\ Ordered'
<1>0. /\ disk \in Image /\ promised \subseteq Deliveries \X Bodies
      /\ DurSafe /\ Safe(disk) /\ Ordered /\ Requested /\ CsType
  BY DEF LInv, TInv, DirType, GhostType, DurSafe
<1>1. CASE Tick
  BY <1>1, QuietStep DEF Tick, dirVars, ghostVars
<1>2. CASE PowerLoss
  <2>1. DurSafe'
    BY <1>0, <1>2 DEF PowerLoss, ghostVars, DurSafe, Safe
  <2>2. cs'.stage \notin {"sync", "unlinkEntry", "publish", "admit"}
    BY <1>0, <1>2 DEF PowerLoss, Forget, Free, CsType, Ordered
  <2>3. Ordered'
    BY <2>2 DEF Ordered
  <2> QED
    BY <2>1, <2>3
<1>3. ASSUME NEW p \in Procs, Crash(p) PROVE DurSafe' /\ Ordered'
  <2>1. cs'.stage = "free" \/ (cs' = cs /\ (cs.stage = "publish" => request'[cs.by] = request[cs.by]))
    BY <1>0, <1>3 DEF Crash, Forget, Free, Requested
  <2> QED
    BY <1>3, <2>1, QuietStep DEF Crash, dirVars, ghostVars
<1>4. ASSUME NEW w \in Workers, Stop(w) PROVE DurSafe' /\ Ordered'
  <2>1. cs'.stage = "free" \/ (cs' = cs /\ (cs.stage = "publish" => request'[cs.by] = request[cs.by]))
    BY <1>0, <1>4 DEF Stop, Forget, Free, Requested
  <2> QED
    BY <1>4, <2>1, QuietStep DEF Stop, dirVars, ghostVars
<1>5. ASSUME NEW p \in Procs, StorageError(p) PROVE DurSafe' /\ Ordered'
  BY <1>5, QuietStep DEF StorageError, Free, dirVars, ghostVars
<1>6. ASSUME NEW d \in Deliveries, Damage(d) PROVE DurSafe' /\ Ordered'
  <2>0. disk.entry[d] \in Entry \cup {None} /\ disk.receipt[d] \in Receipt \cup {None}
    BY <1>0 DEF Image
  <2>1. Ordered'
    BY <1>0, <1>6 DEF Damage, Ordered
  <2>2. ASSUME NEW x \in (SUBSET {"header", "body"}) \ {{}}, disk.entry[d] # None,
               PutEntry(d, [disk.entry[d] EXCEPT !.damage = x])
        PROVE  DurSafe'
    <3> DEFINE e == [disk.entry[d] EXCEPT !.damage = x]
    <3>1. e \in Entry /\ e.body = disk.entry[d].body
      BY <2>0, <2>2 DEF Entry
    <3> HIDE DEF e
    <3>2. e # None
      BY <3>1, NoneAssumption
    <3>3. Safe([disk EXCEPT !.entry[d] = e])
      BY <1>0, <3>1, <3>2 DEF Image, Safe, Accounts
    <3> QED
      BY <1>0, <1>6, <2>2, <3>3, WriteSafe DEF Damage, PutEntry, ghostVars, e
  <2>3. CASE PutState(d, [disk.state[d] EXCEPT !.bad = TRUE])
    BY <1>0, <1>6, <2>1, <2>3, SafePutState, WriteSafe DEF Damage, PutState, ghostVars
  <2>4. CASE disk.receipt[d] # None /\ PutReceipt(d, [disk.receipt[d] EXCEPT !.bad = TRUE])
    <3>1. [disk.receipt[d] EXCEPT !.bad = TRUE] \in Receipt
      BY <2>0, <2>4 DEF Receipt
    <3>2. Safe([disk EXCEPT !.receipt[d] = [disk.receipt[d] EXCEPT !.bad = TRUE]])
      BY <1>0, <3>1, SafePutReceipt
    <3> QED
      BY <1>0, <1>6, <2>1, <2>4, <3>2, WriteSafe DEF Damage, PutReceipt, ghostVars
  <2> QED
    BY <1>6, <2>1, <2>2, <2>3, <2>4 DEF Damage
<1> QED
  BY <1>1, <1>2, <1>3, <1>4, <1>5, <1>6 DEF Environment

\* The durability invariant is inductive
LEMMA LossNext == LInv /\ [Next]_vars => LInv'
<1> SUFFICES ASSUME LInv, [Next]_vars PROVE DurSafe' /\ Ordered'
  BY TInvNext DEF LInv
<1>0. Requested /\ CsType
  BY DEF LInv, TInv
<1>1. CASE UNCHANGED vars
  BY <1>1, QuietStep DEF vars
<1>2. ASSUME NEW s \in Senders, NEW d \in Deliveries, NEW b \in Bodies, Capture(s, d, b)
      PROVE  DurSafe' /\ Ordered'
  <2>1. cs.by # s
    BY <1>0, <1>2 DEF Capture, Requested
  <2> QED
    BY <1>2, <2>1, QuietStep DEF Capture, dirVars, ghostVars
<1>3. ASSUME NEW p \in Procs, Section(p) PROVE DurSafe' /\ Ordered'
  <2>1. CASE Leave(p)
    BY <2>1, QuietStep DEF Leave, Free, dirVars, ghostVars
  <2> QED
    BY <1>3, <2>1, LossReceiptSteps, LossMaintenance DEF Section
<1>4. ASSUME NEW s \in Senders, Sender(s) PROVE DurSafe' /\ Ordered'
  BY <1>4, LossSender
<1>5. ASSUME NEW w \in Workers, Worker(w) PROVE DurSafe' /\ Ordered'
  BY <1>5, LossWorker
<1>6. CASE Environment
  BY <1>6, LossEnvironment
<1> QED
  BY <1>1, <1>2, <1>3, <1>4, <1>5, <1>6 DEF Next

\* A payload that enqueue() reported queued is never lost without a trace:
\* for any number of processes, payloads, crashes, power losses, OSErrors and
\* damaged files, the buffer holds it or a receipt says what became of it.
THEOREM NoLoss == Spec => []NoSilentLoss
<1>1. Init => LInv
  <2>1. Init => DurSafe /\ Ordered
    BY DEF Init, Free, DurSafe, Ordered, Safe
  <2> QED
    BY <2>1, TInvInit DEF LInv
<1>2. LInv => NoSilentLoss
  BY DEF LInv, DurSafe, Safe, NoSilentLoss
<1> QED
  BY <1>1, <1>2, LossNext, PTL DEF Spec
=============================================================================
