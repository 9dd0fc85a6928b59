----------------------- MODULE DeliveryPromisesProofs -----------------------
(***************************************************************************)
(* The delivery buffer implements the ledger of Outbox, and what follows   *)
(* for its receipts, for any number of payloads, senders and workers.      *)
(***************************************************************************)
EXTENDS DeliveryPromises, DeliveryBufferProofs, FiniteSetTheorems, WellFoundedInduction

-----------------------------------------------------------------------------
(* A receipt that is purged is forgotten: the same id may be queued again  *)
(* with other bytes.  _batch() files the answer to an attempt under the id *)
(* alone, so that acknowledgments are true only while no receipt is purged *)
(* during the attempt that it answers; at any other time receipts may be   *)
(* purged for their age or their number.  ReceiptsOutlast shows when that  *)
(* holds of its own accord: where no death leaves an older receipt beside  *)
(* its entry, an attempt is shorter than the retention of receipts, and no *)
(* more than MAX_RECEIPTS outcomes are recorded during one attempt.        *)

\* No receipt goes during the attempt that it answers: a step through which the
\* attempt goes on keeps it
PurgesSpareAttempts ==
    [][\A w \in Workers :
         /\ Attempting(w) /\ Attempting(w)'
         /\ disk.receipt[job[w].cur.id] # None
         => disk'.receipt[job[w].cur.id] # None]_vars

\* The pace at which that cannot happen
FewOutcomes ==
    \A w \in Workers : Attempting(w) => ~(Cardinality(RecordedSince(w)) > MaxReceipts)

-----------------------------------------------------------------------------
(* The inductive invariant                                                 *)

\* What an image may say, given the promises and what the server took: the
\* payload of a promise, and of a receipt that acknowledges one
Faithful(image) ==
    /\ \A p \in promised :
          /\ image.entry[p[1]] # None => image.entry[p[1]].body = p[2]
          /\ image.receipt[p[1]] # None /\ image.receipt[p[1]].status = "acknowledged"
                => p \in received
    /\ \A d \in Deliveries :
          image.receipt[d] # None /\ image.receipt[d].status = "acknowledged" =>
              <<d, image.receipt[d].of>> \in received

OnePromise == \A p, q \in promised : p[1] = q[1] => p = q

DirInv == OnePromise /\ \A image \in durable : Faithful(image)

\* Maintenance left no entry beside its receipt when a request is decided
Decided ==
    /\ cs.stage = "admit" => \A d \in Deliveries : ~Leftover(d)
    /\ cs.stage = "publish" => disk.receipt[request[cs.by][1]] = None

\* While nothing dies, only the section that files a receipt sees both files
Tidy ==
    Undisturbed =>
        \A d \in Deliveries : Leftover(d) => cs.stage \in {"sync", "unlinkEntry"} /\ cs.id = d

\* An attempt that runs is not older than its timeout, nor, while nothing dies,
\* than a receipt that replaced its entry
Timed(w) ==
    Attempting(w) =>
        /\ job[w].since <= now /\ now <= job[w].since + HttpTimeout
        /\ Undisturbed /\ disk.receipt[job[w].cur.id] # None =>
              job[w].since <= disk.receipt[job[w].cur.id].at

\* The entry of an attempt that runs is the one it was taken from, or a receipt
\* has replaced it
InFlight(w) ==
    LET d == job[w].cur.id IN
    Attempting(w) =>
        /\ disk.entry[d] # None => disk.entry[d].body = job[w].cur.body
        /\ disk.entry[d] = None => disk.receipt[d] # None

\* An answer that acknowledges comes from the server
AnswerReal(w) ==
    pc[w] = "file" /\ job[w].result = "acknowledged" =>
        <<job[w].cur.id, job[w].cur.body>> \in received

WorkInv == \A w \in Workers : InFlight(w) /\ AnswerReal(w)

\* What holds however long receipts are kept
SectionInv == LInv /\ Decided /\ Tidy

TimeInv == \A w \in Workers : Timed(w)

PInv == SectionInv /\ TimeInv /\ DirInv /\ WorkInv

-----------------------------------------------------------------------------
(* What a step may do to the directory and to the promises                 *)

Ghosts == received' = received /\ promised' = promised

Quiet == disk' = disk /\ durable' \in {durable, {disk}} /\ Ghosts

\* An image with the same payloads and outcomes: a schedule or damage differs
Alike(image) ==
    /\ image \in Image
    /\ \A d \in Deliveries :
        /\ image.entry[d] = None <=> disk.entry[d] = None
        /\ disk.entry[d] # None => image.entry[d].body = disk.entry[d].body
        /\ image.receipt[d] = None <=> disk.receipt[d] = None
        /\ disk.receipt[d] # None =>
              /\ image.receipt[d].status = disk.receipt[d].status
              /\ image.receipt[d].at = disk.receipt[d].at
              /\ image.receipt[d].of = disk.receipt[d].of

Retouched == Alike(disk') /\ durable' = durable \cup {disk'} /\ Ghosts

Unlinked(d) == disk.receipt[d] # None /\ PutEntry(d, None) /\ Ghosts

Published(d, e) ==
    /\ Unknown(d) /\ ~Full(e.body)
    /\ PutEntry(d, e)
    /\ Ghosts

\* A retirement, or the answer to an attempt of d
Filed(d, status) ==
    /\ PutReceipt(d, ReceiptFor(d, status))
    /\ \/ status = "declined" /\ (disk.entry[d] # None \/ Unknown(d))
       \/ \E w \in Workers :
            /\ pc[w] = "file" /\ job[w].cur.id = d /\ job[w].result = status
            /\ disk.entry[d] # None
    /\ Undisturbed => disk.receipt[d] = None
    /\ Ghosts

\* What makes the acknowledgment of d true
Earned(d, status) ==
    status = "acknowledged" =>
        disk.entry[d] # None /\ <<d, disk.entry[d].body>> \in received

Purged(d) ==
    /\ \A e \in Deliveries : ~Leftover(e)
    /\ d \in Purgeable
    /\ PutReceipt(d, None)
    /\ promised' = promised \ ({d} \X Bodies)
    /\ received' = received

Promises(d, b) ==
    /\ disk.entry[d] # None /\ disk.entry[d].body = b /\ disk.receipt[d] = None
    /\ disk' = disk /\ durable' = {disk}
    /\ promised' = promised \cup {<<d, b>>}
    /\ received' = received

Takes(d, b) ==
    /\ disk' = disk /\ durable' = durable /\ promised' = promised
    /\ received' = received \cup {<<d, b>>}

Loses ==
    /\ kills' = kills + 1 /\ kills < MaxKills
    /\ disk' \in durable /\ durable' = {disk'}
    /\ Ghosts
    /\ \A w \in Workers : ~Attempting(w)'

Effect ==
    \/ Quiet \/ Retouched \/ Loses
    \/ \E d \in Deliveries :
        \/ Unlinked(d)
        \/ \E e \in Entry : Published(d, e)
        \/ \E status \in Terminal : Filed(d, status)
        \/ Purged(d)
        \/ \E b \in Bodies : Promises(d, b) \/ Takes(d, b)

LEMMA NoEntry == None \notin Entry
BY NoneAssumption

\* No section is open: nothing is half filed
LEMMA Unlocked ==
    ASSUME SectionInv, cs.by = None
    PROVE  Undisturbed => \A d \in Deliveries : ~Leftover(d)
BY DEF SectionInv, LInv, Ordered, Tidy

\* Writing a schedule changes no payload and no outcome
LEMMA StateAlike ==
    ASSUME disk \in Image, NEW d, NEW e \in State \cup {None}
    PROVE  Alike([disk EXCEPT !.state[d] = e])
<1>1. [disk EXCEPT !.state[d] = e] \in Image
  BY StateImage
<1> QED
  BY <1>1 DEF Alike, Image

LEMMA EffectState ==
    ASSUME disk \in Image, NEW d, NEW e \in State \cup {None}, PutState(d, e), Ghosts
    PROVE  Effect
<1>1. Alike(disk') /\ durable' = durable \cup {disk'}
  BY StateAlike DEF PutState, Write
<1> QED
  BY <1>1 DEF Effect, Retouched

LEMMA EffectQuiet ==
    ASSUME UNCHANGED <<disk, durable, received, promised>>
    PROVE  Effect
BY DEF Effect, Quiet, Ghosts

LEMMA EffectFsync ==
    ASSUME Fsync, UNCHANGED <<received, promised>>
    PROVE  Effect
BY DEF Effect, Quiet, Ghosts, Fsync

LEMMA EffectSection ==
    ASSUME SectionInv, NEW p \in Procs, Section(p)
    PROVE  Effect
<1>0. /\ disk \in Image /\ CsType /\ Ordered /\ Tidy /\ now \in Nat
  BY DEF SectionInv, LInv, TInv, DirType, CountType
<1>1. CASE ReceiptSync(p) \/ Settle(p) \/ MaintenanceDone(p)
  BY <1>1, EffectFsync DEF ReceiptSync, Settle, MaintenanceDone, ghostVars
<1>2. CASE UnlinkEntry(p)
  <2>1. CASE cs.id \in Deliveries
    BY <1>0, <1>2, <2>1 DEF UnlinkEntry, Holds, Ordered, Effect, Unlinked, Ghosts, ghostVars
  <2>2. CASE cs.id \notin Deliveries
    <3>1. Alike([disk EXCEPT !.entry[cs.id] = None])
      BY <1>0, <2>2, EntryImage DEF Alike, Image
    <3> QED
      BY <1>2, <3>1 DEF UnlinkEntry, PutEntry, Write, Effect, Retouched, Ghosts, ghostVars
  <2> QED
    BY <2>1, <2>2
<1>3. CASE UnlinkState(p) \/ DropLeftoverState(p)
  BY <1>0, <1>3, EffectState DEF UnlinkState, DropLeftoverState, Ghosts, ghostVars
<1>4. CASE MaintainMalformed(p) \/ Leave(p)
  BY <1>4, EffectQuiet DEF MaintainMalformed, Leave, dirVars, ghostVars
<1>5. ASSUME NEW d \in Deliveries, DropLeftover(p, d) PROVE Effect
  BY <1>5 DEF DropLeftover, Leftover, Effect, Unlinked, Ghosts, ghostVars
<1>6. ASSUME NEW d \in Deliveries, Retire(p, d) PROVE Effect
  <2>1. Filed(d, "declined")
    BY <1>6 DEF Retire, FileReceipt, Retirable, Filed, Ghosts, ghostVars
  <2> QED
    BY <2>1 DEF Effect, Terminal
<1>7. ASSUME NEW d \in Deliveries, PurgeReceipt(p, d) PROVE Effect
  <2>1. Purged(d)
    BY <1>7 DEF PurgeReceipt, EntriesMaintained, Purged
  <2> QED
    BY <2>1 DEF Effect
<1> QED
  BY <1>1, <1>2, <1>3, <1>4, <1>5, <1>6, <1>7 DEF Section

LEMMA EffectSender ==
    ASSUME SectionInv, NEW s \in Senders, Sender(s)
    PROVE  Effect
<1>0. /\ disk \in Image /\ CsType /\ Ordered /\ Decided /\ now \in Nat /\ Requested
  BY DEF SectionInv, LInv, TInv, DirType, CountType
<1>a. cs.by = s \/ pc[s] = "direct" =>
        request[s] \in Deliveries \X Bodies /\ request[s] = <<request[s][1], request[s][2]>>
  BY <1>0 DEF Requested
<1>1. CASE EnqueueLock(s) \/ EnqueueBusy(s) \/ AdmitDeclined(s)
  BY <1>1, EffectQuiet DEF EnqueueLock, EnqueueBusy, AdmitDeclined, dirVars, ghostVars
<1>2. CASE AdmitKnown(s)
  <2>1. durable = {disk} /\ cs.by = s
    BY <1>0, <1>2 DEF AdmitKnown, Holds, Ordered
  <2>2. PICK d \in Deliveries, b \in Bodies : request[s] = <<d, b>>
    BY <1>a, <2>1
  <2>3. disk.entry[d] # None /\ disk.entry[d].body = b
    BY <1>2, <2>2 DEF AdmitKnown
  <2>4. disk.receipt[d] = None
    BY <1>0, <1>2, <2>3 DEF AdmitKnown, Holds, Decided, Leftover
  <2>5. Promises(d, b)
    BY <1>2, <2>1, <2>2, <2>3, <2>4 DEF AdmitKnown, dirVars, Promises
  <2> QED
    BY <2>5 DEF Effect
<1>3. CASE AdmitFull(s)
  <2>1. cs.by = s
    BY <1>3 DEF AdmitFull, Holds
  <2>2. PICK d \in Deliveries, b \in Bodies : request[s] = <<d, b>>
    BY <1>a, <2>1
  <2>3. Filed(d, "declined")
    BY <1>3, <2>2 DEF AdmitFull, Unknown, Filed, Ghosts, ghostVars
  <2> QED
    BY <2>3 DEF Effect, Terminal
<1>4. CASE AdmitPublish(s)
  <2>1. cs.by = s
    BY <1>4 DEF AdmitPublish, Holds
  <2>2. PICK d \in Deliveries, b \in Bodies : request[s] = <<d, b>>
    BY <1>a, <2>1
  <2> DEFINE e == [body |-> b, at |-> now, damage |-> {}]
  <2>3. e \in Entry
    BY <1>0 DEF Entry
  <2>4. PutEntry(d, e) /\ Unknown(d) /\ Ghosts
    BY <1>4, <2>2 DEF AdmitPublish, Ghosts, ghostVars
  <2>5. ~Full(e.body)
    BY <1>4, <2>2 DEF AdmitPublish
  <2> HIDE DEF e
  <2>6. Published(d, e)
    BY <2>4, <2>5 DEF Published
  <2> QED
    BY <2>3, <2>6 DEF Effect
<1>5. CASE PublishSync(s)
  <2>1. cs.by = s
    BY <1>5 DEF PublishSync, Holds
  <2>2. PICK d \in Deliveries, b \in Bodies : request[s] = <<d, b>>
    BY <1>a, <2>1
  <2>3. disk.entry[d] # None /\ disk.entry[d].body = b
    BY <1>0, <1>5, <2>2 DEF PublishSync, Holds, Ordered
  <2>4. disk.receipt[d] = None
    BY <1>0, <1>5, <2>2 DEF PublishSync, Holds, Decided
  <2>5. Promises(d, b)
    BY <1>5, <2>2, <2>3, <2>4 DEF PublishSync, Fsync, Promises
  <2> QED
    BY <2>5 DEF Effect
<1>6. CASE SendDirect(s)
  <2>1. PICK d \in Deliveries, b \in Bodies : request[s] = <<d, b>>
    BY <1>a, <1>6 DEF SendDirect
  <2>2. Takes(d, b) \/ UNCHANGED <<disk, durable, received, promised>>
    BY <1>6, <2>1 DEF SendDirect, dirVars, Takes
  <2> QED
    BY <2>2, EffectQuiet DEF Effect
<1> QED
  BY <1>1, <1>2, <1>3, <1>4, <1>5, <1>6 DEF Sender

LEMMA EffectWorker ==
    ASSUME SectionInv, NEW w \in Workers, Worker(w)
    PROVE  Effect
<1>0. /\ disk \in Image /\ CsType /\ Ordered /\ Tidy /\ now \in Nat /\ Busy /\ LocalType
  BY DEF SectionInv, LInv, TInv, DirType, CountType
<1>1. CASE \/ Start(w) \/ Rebatch(w) \/ CollectLock(w) \/ Collect(w) \/ FileGone(w)
           \/ BatchDone(w) \/ FinishLock(w) \/ WorkerBusy(w)
  BY <1>1, EffectQuiet
     DEF Start, Rebatch, CollectLock, Collect, FileGone, BatchDone, FinishLock, WorkerBusy,
         dirVars, ghostVars
<1>2. ASSUME NEW h \in job[w].todo, Skip(w, h) \/ Misconfigured(w, h) \/ Send(w, h)
      PROVE  Effect
  BY <1>2, EffectQuiet DEF Skip, Misconfigured, Send, dirVars, ghostVars
<1>3. CASE BackoffSync(w)
  BY <1>3, EffectFsync DEF BackoffSync, ghostVars
<1>4. CASE FileBackoff(w)
  <2>1. PICK delay \in 1..MaxBackoff :
           PutState(job[w].cur.id,
                    [status |-> job[w].result, next |-> now + delay, bad |-> FALSE])
    BY <1>4 DEF FileBackoff
  <2>2. [status |-> job[w].result, next |-> now + delay, bad |-> FALSE] \in State
    BY <1>0, <1>4, BoundAssumption DEF FileBackoff, State
  <2> QED
    BY <1>0, <1>4, <2>1, <2>2, EffectState DEF FileBackoff, Ghosts, ghostVars
<1>5. CASE Answer(w)
  <2>1. PICK d \in Deliveries, b \in Bodies : <<job[w].cur.id, job[w].cur.body>> = <<d, b>>
    BY <1>0, <1>5 DEF Answer, Busy, Header
  <2>2. received' = received \/ received' = received \cup {<<d, b>>}
    BY <1>5, <2>1 DEF Answer, Accepted
  <2>3. Takes(d, b) \/ UNCHANGED <<disk, durable, received, promised>>
    BY <1>5, <2>2 DEF Answer, dirVars, Takes
  <2> QED
    BY <2>3, EffectQuiet DEF Effect
<1>6. CASE FileTerminal(w)
  <2> DEFINE d == job[w].cur.id
  <2>1. d \in Deliveries
    BY <1>0, <1>6 DEF FileTerminal, Busy, Header
  <2>2. disk.entry[d] # None /\ (Undisturbed => disk.receipt[d] = None)
    BY <1>6, <2>1, Unlocked DEF FileTerminal, StillBuffered, LockAndFile, Leftover
  <2>3. Filed(d, job[w].result) /\ job[w].result \in Terminal
    BY <1>6, <2>2 DEF FileTerminal, LockAndFile, Filed, Ghosts, ghostVars
  <2> QED
    BY <2>1, <2>3 DEF Effect
<1>7. ASSUME NEW d \in Deliveries, CollectBad(w, d) PROVE Effect
  <2>1. Undisturbed => disk.receipt[d] = None
    BY <1>0, <1>7 DEF CollectBad, Holds, Tidy, Leftover
  <2>2. Filed(d, "declined")
    BY <1>7, <2>1 DEF CollectBad, FileReceipt, Filed, Ghosts, ghostVars
  <2> QED
    BY <2>2 DEF Effect, Terminal
<1>8. ASSUME NEW h \in job[w].todo, Decline(w, h) PROVE Effect
  <2> DEFINE d == h.id
  <2>1. d \in Deliveries
    BY <1>0 DEF LocalType, Job, Header
  <2>2. Undisturbed => disk.receipt[d] = None
    BY <1>8, <2>1, Unlocked DEF Decline, First, Leftover
  <2>3. Filed(d, "declined")
    BY <1>8, <2>2 DEF Decline, LockAndFile, Filed, Ghosts, ghostVars
  <2> QED
    BY <2>1, <2>3 DEF Effect, Terminal
<1> QED
  BY <1>1, <1>2, <1>3, <1>4, <1>5, <1>6, <1>7, <1>8 DEF Worker

LEMMA EffectEnvironment ==
    ASSUME SectionInv, Environment
    PROVE  Effect
<1>0. disk \in Image
  BY DEF SectionInv, LInv, TInv, DirType
<1>1. CASE Tick
  BY <1>1, EffectQuiet DEF Tick, dirVars, ghostVars
<1>2. CASE PowerLoss
  <2>1. \A w \in Workers : ~Attempting(w)'
    BY <1>2 DEF PowerLoss, Forget, Attempting, Procs
  <2>2. Loses
    BY <1>2, <2>1 DEF PowerLoss, Loses, Ghosts, ghostVars
  <2> QED
    BY <2>2 DEF Effect
<1>3. ASSUME NEW p \in Procs, Crash(p) \/ StorageError(p) PROVE Effect
  BY <1>3, EffectQuiet DEF Crash, StorageError, dirVars, ghostVars
<1>4. ASSUME NEW w \in Workers, Stop(w) PROVE Effect
  BY <1>4, EffectQuiet DEF Stop, dirVars, ghostVars
<1>5. ASSUME NEW d \in Deliveries, Damage(d) PROVE Effect
  <2>0. /\ disk.entry[d] \in Entry \cup {None} /\ disk.receipt[d] \in Receipt \cup {None}
        /\ disk.state[d] \in State \cup {None}
        /\ Ghosts
    BY <1>0, <1>5 DEF Image, Damage, Ghosts, ghostVars
  <2>1. ASSUME NEW x \in (SUBSET {"header", "body"}) \ {{}}, disk.entry[d] # None,
               PutEntry(d, [disk.entry[d] EXCEPT !.damage = x])
        PROVE  Effect
    <3> DEFINE e == [disk.entry[d] EXCEPT !.damage = x]
    <3>1. e \in Entry /\ e.body = disk.entry[d].body
      BY <2>0, <2>1 DEF Entry
    <3>2. PutEntry(d, e)
      BY <2>1
    <3> HIDE DEF e
    <3>3. Alike([disk EXCEPT !.entry[d] = e])
      BY <1>0, <2>1, <3>1, NoEntry, EntryImage DEF Alike, Image
    <3> QED
      BY <2>0, <3>2, <3>3 DEF PutEntry, Write, Effect, Retouched
  <2>2. CASE disk.state[d] # None /\ PutState(d, [disk.state[d] EXCEPT !.bad = TRUE])
    <3>1. [disk.state[d] EXCEPT !.bad = TRUE] \in State
      BY <2>0, <2>2 DEF State
    <3> QED
      BY <1>0, <2>0, <2>2, <3>1, EffectState
  <2>3. CASE disk.receipt[d] # None /\ PutReceipt(d, [disk.receipt[d] EXCEPT !.bad = TRUE])
    <3> DEFINE r == [disk.receipt[d] EXCEPT !.bad = TRUE]
    <3>1. /\ r \in Receipt /\ r.status = disk.receipt[d].status
          /\ r.at = disk.receipt[d].at /\ r.of = disk.receipt[d].of
      BY <2>0, <2>3 DEF Receipt
    <3>2. PutReceipt(d, r)
      BY <2>3
    <3> HIDE DEF r
    <3>3. Alike([disk EXCEPT !.receipt[d] = r])
      BY <1>0, <2>3, <3>1, NoneAssumption, ReceiptImage DEF Alike, Image
    <3> QED
      BY <2>0, <3>2, <3>3 DEF PutReceipt, Write, Effect, Retouched
  <2> QED
    BY <1>5, <2>1, <2>2, <2>3 DEF Damage
<1> QED
  BY <1>1, <1>2, <1>3, <1>4, <1>5 DEF Environment

\* Every step has one of these effects
LEMMA EffectNext ==
    ASSUME SectionInv, [Next]_vars
    PROVE  Effect
<1>1. CASE UNCHANGED vars
  BY <1>1, EffectQuiet DEF vars
<1>2. ASSUME NEW s \in Senders, NEW d \in Deliveries, NEW b \in Bodies, Capture(s, d, b)
      PROVE  Effect
  BY <1>2, EffectQuiet DEF Capture, dirVars, ghostVars
<1>3. CASE Environment
  BY <1>3, EffectEnvironment
<1>4. ASSUME NEW p \in Procs, Section(p) PROVE Effect
  BY <1>4, EffectSection
<1>5. ASSUME NEW s \in Senders, Sender(s) PROVE Effect
  BY <1>5, EffectSender
<1>6. ASSUME NEW w \in Workers, Worker(w) PROVE Effect
  BY <1>6, EffectWorker
<1> QED
  BY <1>1, <1>2, <1>3, <1>4, <1>5, <1>6 DEF Next

-----------------------------------------------------------------------------
(* The section that is open leaves no entry beside its receipt             *)

NoneLeft == \A d \in Deliveries : ~Leftover(d)

\* A step that leaves the directory and the section alone
LEMMA SteadySection ==
    ASSUME Undisturbed' => Undisturbed, Decided, Tidy, disk' = disk, cs' = cs,
           cs.stage = "publish" => request'[cs.by] = request[cs.by]
    PROVE  Decided' /\ Tidy'
BY DEF Decided, Tidy, Leftover

\* A step after which no entry has a receipt, and no request is decided
LEMMA CleanSection ==
    ASSUME Undisturbed' => NoneLeft', cs'.stage \notin {"admit", "publish"}
    PROVE  Decided' /\ Tidy'
BY DEF Decided, Tidy, NoneLeft

\* Filing a receipt
LEMMA FilingSection ==
    ASSUME Undisturbed' => Undisturbed, disk \in Image, Undisturbed => NoneLeft,
           NEW d, NEW r, PutReceipt(d, r),
           cs'.stage = "sync", cs'.id = d
    PROVE  Decided' /\ Tidy'
BY DEF PutReceipt, Write, Image, NoneLeft, Leftover, Decided, Tidy

\* Operations that leave nothing more behind
LEMMA LessLeft ==
    ASSUME disk \in Image, NoneLeft, NEW d,
           \/ disk' = disk \/ PutEntry(d, None) \/ PutReceipt(d, None)
           \/ \E e : PutState(d, e)
    PROVE  NoneLeft'
BY DEF PutEntry, PutReceipt, PutState, Write, Image, NoneLeft, Leftover

\* Outside the two steps that unlink what a receipt replaced
LEMMA TidySection ==
    ASSUME Tidy, cs.stage \notin {"sync", "unlinkEntry"}
    PROVE  Undisturbed => NoneLeft
BY DEF Tidy, NoneLeft

LEMMA SectionSteps ==
    ASSUME Undisturbed' => Undisturbed, SectionInv, NEW p \in Procs, Section(p)
    PROVE  Decided' /\ Tidy'
<1>0. /\ disk \in Image /\ CsType /\ Tidy /\ Decided
  BY DEF SectionInv, LInv, TInv, DirType
<1>1. CASE ReceiptSync(p)
  <2>1. disk' = disk /\ cs.stage = "sync" /\ cs'.stage = "unlinkEntry" /\ cs'.id = cs.id
    BY <1>0, <1>1 DEF ReceiptSync, Holds, Fsync, At, CsType
  <2> QED
    BY <1>0, <2>1 DEF Decided, Tidy, Leftover
<1>2. CASE UnlinkEntry(p)
  <2>1. /\ disk' = [disk EXCEPT !.entry[cs.id] = None]
        /\ cs.stage = "unlinkEntry" /\ cs'.stage = "unlinkState"
    BY <1>0, <1>2 DEF UnlinkEntry, Holds, PutEntry, Write, At, CsType
  <2>2. Undisturbed' => NoneLeft'
    BY <1>0, <2>1 DEF Tidy, NoneLeft, Leftover, Image
  <2> QED
    BY <2>1, <2>2, CleanSection
<1>3. CASE UnlinkState(p) \/ DropLeftoverState(p)
  <2>1. /\ cs.stage \in {"unlinkState", "leftover"} /\ cs'.stage \in {"settle", "maintain"}
        /\ PutState(cs.id, None)
    BY <1>0, <1>3 DEF UnlinkState, DropLeftoverState, Holds, At, CsType
  <2>2. Undisturbed' => NoneLeft'
    BY <1>0, <2>1, LessLeft, TidySection
  <2> QED
    BY <2>1, <2>2, CleanSection
<1>4. CASE Settle(p)
  <2>1. /\ cs.stage = "settle" /\ cs'.stage \in {"maintain", "collect", "leave"}
        /\ disk' = disk
    BY <1>0, <1>4 DEF Settle, Holds, At, Fsync, CsType
  <2>2. Undisturbed' => NoneLeft'
    BY <1>0, <2>1, LessLeft, TidySection
  <2> QED
    BY <2>1, <2>2, CleanSection
<1>5. CASE MaintainMalformed(p) \/ Leave(p)
  <2>1. /\ cs.stage \in {"maintain", "leave"} /\ cs'.stage \in {"leave", "free"}
        /\ disk' = disk
    BY <1>0, <1>5 DEF MaintainMalformed, Leave, Holds, At, Free, dirVars, CsType
  <2>2. Undisturbed' => NoneLeft'
    BY <1>0, <2>1, LessLeft, TidySection
  <2> QED
    BY <2>1, <2>2, CleanSection
<1>6. CASE MaintenanceDone(p)
  <2>1. /\ NoneLeft /\ disk' = disk
        /\ cs'.stage \in {"admit", "collect", "leave"}
    BY <1>0, <1>6 DEF MaintenanceDone, EntriesMaintained, NoneLeft, At, Fsync, CsType
  <2> QED
    BY <2>1 DEF Decided, Tidy, NoneLeft, Leftover
<1>7. ASSUME NEW d \in Deliveries, DropLeftover(p, d) PROVE Decided' /\ Tidy'
  <2>1. cs.stage = "maintain" /\ cs'.stage = "leftover" /\ PutEntry(d, None)
    BY <1>0, <1>7 DEF DropLeftover, Holds, CsType
  <2>2. Undisturbed' => NoneLeft'
    BY <1>0, <2>1, LessLeft, TidySection
  <2> QED
    BY <2>1, <2>2, CleanSection
<1>8. ASSUME NEW d \in Deliveries, PurgeReceipt(p, d) PROVE Decided' /\ Tidy'
  <2>1. cs.stage = "maintain" /\ cs'.stage = "maintain" /\ PutReceipt(d, None)
    BY <1>0, <1>8 DEF PurgeReceipt, Holds, CsType
  <2>2. Undisturbed' => NoneLeft'
    BY <1>0, <2>1, LessLeft, TidySection
  <2> QED
    BY <2>1, <2>2, CleanSection
<1>9. ASSUME NEW d \in Deliveries, Retire(p, d) PROVE Decided' /\ Tidy'
  <2>1. /\ cs.stage = "maintain" /\ cs'.stage = "sync" /\ cs'.id = d
        /\ PutReceipt(d, ReceiptFor(d, "declined"))
    BY <1>0, <1>9 DEF Retire, FileReceipt, Holds, CsType
  <2> QED
    BY <1>0, <2>1, TidySection, FilingSection
<1> QED
  BY <1>1, <1>2, <1>3, <1>4, <1>5, <1>6, <1>7, <1>8, <1>9 DEF Section

LEMMA SenderSteps ==
    ASSUME Undisturbed' => Undisturbed, SectionInv, NEW s \in Senders,
           Sender(s) \/ \E d \in Deliveries, b \in Bodies : Capture(s, d, b)
    PROVE  Decided' /\ Tidy'
<1>0. /\ disk \in Image /\ CsType /\ Tidy /\ Decided /\ Requested /\ LocalType /\ Ordered
  BY DEF SectionInv, LInv, TInv, DirType
<1>1. CASE EnqueueLock(s)
  <2>1. cs.by = None /\ cs'.stage = "maintain" /\ disk' = disk
    BY <1>1 DEF EnqueueLock, Lock, dirVars
  <2>2. cs.stage \notin {"sync", "unlinkEntry"}
    BY <1>0, <2>1 DEF Ordered
  <2>3. Undisturbed' => NoneLeft'
    BY <1>0, <2>1, <2>2, LessLeft, TidySection
  <2> QED
    BY <2>1, <2>3, CleanSection
<1>2. CASE EnqueueBusy(s) \/ SendDirect(s) \/ \E d \in Deliveries, b \in Bodies : Capture(s, d, b)
  <2>1. cs.by # s /\ cs' = cs /\ disk' = disk
    BY <1>0, <1>2 DEF EnqueueBusy, SendDirect, Capture, Requested, dirVars
  <2>2. cs.stage = "publish" => request'[cs.by] = request[cs.by]
    BY <1>0, <1>2, <2>1 DEF EnqueueBusy, SendDirect, Capture, EndDeliver, Requested, LocalType
  <2> QED
    BY <1>0, <2>1, <2>2, SteadySection
<1>3. CASE AdmitDeclined(s) \/ AdmitKnown(s) \/ PublishSync(s)
  <2>1. cs.stage \in {"admit", "publish"} /\ cs'.stage = "leave" /\ disk' = disk
    BY <1>0, <1>3 DEF AdmitDeclined, AdmitKnown, PublishSync, Holds, Fsync, At, CsType, dirVars
  <2>2. Undisturbed' => NoneLeft'
    BY <1>0, <2>1, LessLeft, TidySection
  <2> QED
    BY <2>1, <2>2, CleanSection
<1>4. CASE AdmitFull(s)
  <2>1. /\ cs.stage = "admit" /\ cs'.stage = "sync" /\ cs'.id = request[s][1]
        /\ PutReceipt(request[s][1], ReceiptFor(request[s][1], "declined"))
    BY <1>0, <1>4 DEF AdmitFull, Holds, CsType
  <2> QED
    BY <1>0, <2>1, TidySection, FilingSection
<1>5. CASE AdmitPublish(s)
  <2> DEFINE d == request[s][1]
             e == [body |-> request[s][2], at |-> now, damage |-> {}]
  <2>1. /\ cs.stage = "admit" /\ cs'.stage = "publish" /\ cs'.by = s /\ request' = request
        /\ disk' = [disk EXCEPT !.entry[d] = e] /\ Unknown(d)
    BY <1>0, <1>5 DEF AdmitPublish, Holds, At, CsType, Unmoved, PutEntry, Write
  <2>2. NoneLeft
    BY <1>0, <2>1 DEF Decided, NoneLeft
  <2> HIDE DEF e
  <2>3. disk'.receipt = disk.receipt /\ \A c \in Deliveries : c # d => disk'.entry[c] = disk.entry[c]
    BY <1>0, <2>1 DEF Image
  <2>4. NoneLeft' /\ disk'.receipt[d] = None
    BY <1>0, <2>1, <2>2, <2>3 DEF NoneLeft, Leftover, Unknown
  <2>5. Decided'
    BY <2>1, <2>4 DEF Decided
  <2>6. Tidy'
    BY <2>4 DEF Tidy, NoneLeft
  <2> QED
    BY <2>5, <2>6
<1> QED
  BY <1>1, <1>2, <1>3, <1>4, <1>5 DEF Sender

LEMMA WorkerSteps ==
    ASSUME Undisturbed' => Undisturbed, SectionInv, NEW w \in Workers, Worker(w)
    PROVE  Decided' /\ Tidy'
<1>0. /\ disk \in Image /\ CsType /\ Tidy /\ Decided /\ Ordered
  BY DEF SectionInv, LInv, TInv, DirType
<1>a. cs.by = None => cs.stage \notin {"sync", "unlinkEntry"}
  BY <1>0 DEF Ordered
<1>1. CASE Start(w) \/ Rebatch(w) \/ Answer(w) \/ FileGone(w) \/ BatchDone(w) \/ WorkerBusy(w)
  BY <1>0, <1>1, SteadySection
     DEF Start, Rebatch, Answer, FileGone, BatchDone, WorkerBusy, dirVars
<1>2. ASSUME NEW h \in job[w].todo, Skip(w, h) \/ Misconfigured(w, h) \/ Send(w, h)
      PROVE  Decided' /\ Tidy'
  BY <1>0, <1>2, SteadySection DEF Skip, Misconfigured, Send, dirVars
<1>3. CASE CollectLock(w) \/ FinishLock(w) \/ Collect(w) \/ BackoffSync(w)
  <2>1. /\ cs.stage \notin {"sync", "unlinkEntry"}
        /\ cs'.stage \in {"maintain", "free", "leave"} /\ disk' = disk
    BY <1>0, <1>a, <1>3
       DEF CollectLock, FinishLock, Collect, BackoffSync, Lock, Holds, Free, At, Fsync, CsType,
           dirVars
  <2>2. Undisturbed' => NoneLeft'
    BY <1>0, <2>1, LessLeft, TidySection
  <2> QED
    BY <2>1, <2>2, CleanSection
<1>4. CASE FileBackoff(w)
  <2>1. PICK e : PutState(job[w].cur.id, e)
    BY <1>4 DEF FileBackoff
  <2>2. cs.stage \notin {"sync", "unlinkEntry"} /\ cs'.stage = "backoff"
    BY <1>0, <1>a, <1>4 DEF FileBackoff
  <2>3. Undisturbed' => NoneLeft'
    BY <1>0, <2>1, <2>2, LessLeft, TidySection
  <2> QED
    BY <2>2, <2>3, CleanSection
<1>5. ASSUME NEW d, NEW st, LockAndFile(w, d, st) PROVE Decided' /\ Tidy'
  <2>1. /\ cs.stage \notin {"sync", "unlinkEntry"} /\ cs'.stage = "sync" /\ cs'.id = d
        /\ PutReceipt(d, ReceiptFor(d, st))
    BY <1>a, <1>5 DEF LockAndFile
  <2> QED
    BY <1>0, <2>1, TidySection, FilingSection
<1>6. ASSUME NEW d \in Deliveries, CollectBad(w, d) PROVE Decided' /\ Tidy'
  <2>1. /\ cs.stage = "collect" /\ cs'.stage = "sync" /\ cs'.id = d
        /\ PutReceipt(d, ReceiptFor(d, "declined"))
    BY <1>0, <1>6 DEF CollectBad, FileReceipt, Holds, CsType
  <2> QED
    BY <1>0, <2>1, TidySection, FilingSection
<1> QED
  BY <1>1, <1>2, <1>3, <1>4, <1>5, <1>6 DEF Worker, FileTerminal, Decline

LEMMA EnvironmentSteps ==
    ASSUME Undisturbed' => Undisturbed, SectionInv, Environment
    PROVE  Decided' /\ Tidy'
<1>0. /\ disk \in Image /\ CsType /\ Tidy /\ Decided /\ Ordered /\ Requested /\ CountType
  BY DEF SectionInv, LInv, TInv, DirType
<1>a. (kills' = kills + 1 \/ faults' = faults + 1) => ~Undisturbed'
  BY <1>0 DEF CountType, Undisturbed
<1>1. CASE Tick
  BY <1>0, <1>1, SteadySection DEF Tick, dirVars
<1>2. CASE PowerLoss
  <2>0. cs' = IF cs.by \in Procs THEN Free ELSE cs
    BY <1>2 DEF PowerLoss, Forget
  <2>1. cs'.stage = "free" \/ (cs' = cs /\ cs.by \notin Procs)
    BY <2>0 DEF Free
  <2>2. cs'.stage \notin {"admit", "publish"}
    BY <1>0, <2>1 DEF CsType, Ordered
  <2> QED
    BY <1>a, <1>2, <2>2, CleanSection DEF PowerLoss
<1>3. ASSUME NEW p \in Procs, Crash(p) PROVE Decided' /\ Tidy'
  <2>1. CASE cs.by = p
    BY <1>a, <1>3, <2>1, CleanSection DEF Crash, Forget, Free
  <2>2. CASE cs.by # p
    <3>1. cs.stage = "publish" => request'[cs.by] = request[cs.by]
      BY <1>0, <1>3, <2>2 DEF Crash, Forget, Requested
    <3> QED
      BY <1>0, <1>3, <2>2, <3>1, SteadySection DEF Crash, Forget, dirVars
  <2> QED
    BY <2>1, <2>2
<1>4. ASSUME NEW w \in Workers, Stop(w) PROVE Decided' /\ Tidy'
  <2>1. CASE cs'.stage = "free"
    BY <1>a, <1>4, <2>1, CleanSection DEF Stop
  <2>2. CASE cs'.stage # "free"
    <3>1. cs' = cs /\ (cs.stage = "publish" => request'[cs.by] = request[cs.by])
      BY <1>0, <1>4, <2>2 DEF Stop, Forget, Free, Requested
    <3> QED
      BY <1>0, <1>4, <3>1, SteadySection DEF Stop, dirVars
  <2> QED
    BY <2>1, <2>2
<1>5. ASSUME NEW p \in Procs, StorageError(p) PROVE Decided' /\ Tidy'
  BY <1>a, <1>5, CleanSection DEF StorageError, Free
<1>6. ASSUME NEW d \in Deliveries, Damage(d) PROVE Decided' /\ Tidy'
  <2>1. cs.by = None /\ cs' = cs
    BY <1>6 DEF Damage
  <2>2. cs.stage \notin {"sync", "unlinkEntry", "admit", "publish"}
    BY <1>0, <2>1 DEF Ordered
  <2>3. \A c \in Deliveries : Leftover(c)' => Leftover(c)
    BY <1>0, <1>6 DEF Damage, Leftover, PutEntry, PutState, PutReceipt, Write, Image
  <2>4. Undisturbed' => NoneLeft'
    BY <1>0, <2>2, <2>3, TidySection DEF NoneLeft
  <2> QED
    BY <2>1, <2>2, <2>4, CleanSection
<1> QED
  BY <1>1, <1>2, <1>3, <1>4, <1>5, <1>6 DEF Environment

\* Only Tick moves the clock
LEMMA ClockNext ==
    ASSUME [Next]_vars
    PROVE  now' = now \/ Tick
<1>1. CASE UNCHANGED vars
  BY <1>1 DEF vars
<1>2. ASSUME NEW s \in Senders, NEW d \in Deliveries, NEW b \in Bodies, Capture(s, d, b)
      PROVE  now' = now
  BY <1>2 DEF Capture
<1>3. ASSUME NEW p \in Procs, Section(p) PROVE now' = now
  BY <1>3 DEF Section, ReceiptSync, UnlinkEntry, UnlinkState, Settle, MaintainMalformed,
              DropLeftoverState, MaintenanceDone, Leave, DropLeftover, Retire, PurgeReceipt,
              Unmoved
<1>4. ASSUME NEW s \in Senders, Sender(s) PROVE now' = now
  BY <1>4 DEF Sender, EnqueueLock, EnqueueBusy, AdmitDeclined, AdmitKnown, AdmitFull,
              AdmitPublish, PublishSync, SendDirect, Unmoved
<1>5. ASSUME NEW w \in Workers, Worker(w) PROVE now' = now
  BY <1>5 DEF Worker, Start, Rebatch, CollectLock, Collect, Answer, FileGone, FileTerminal,
              FileBackoff, BackoffSync, BatchDone, FinishLock, WorkerBusy, CollectBad, Skip,
              Decline, Misconfigured, Send, Unmoved
<1>6. CASE Environment
  BY <1>6 DEF Environment, PowerLoss, Crash, StorageError, Stop, Damage
<1> QED
  BY <1>1, <1>2, <1>3, <1>4, <1>5, <1>6 DEF Next

\* Deaths and faults are counted and never forgotten
LEMMA Disturbances ==
    ASSUME CountType, [Next]_vars
    PROVE  Undisturbed' => Undisturbed
<1> SUFFICES kills' \in {kills, kills + 1} /\ faults' \in {faults, faults + 1}
  BY DEF CountType, Undisturbed
<1>1. CASE UNCHANGED vars
  BY <1>1 DEF vars
<1>2. ASSUME NEW s \in Senders, NEW d \in Deliveries, NEW b \in Bodies, Capture(s, d, b)
      PROVE  UNCHANGED envVars
  BY <1>2 DEF Capture
<1>3. ASSUME NEW p \in Procs, Section(p) PROVE UNCHANGED envVars
  BY <1>3 DEF Section, ReceiptSync, UnlinkEntry, UnlinkState, Settle, MaintainMalformed,
              DropLeftoverState, MaintenanceDone, Leave, DropLeftover, Retire, PurgeReceipt,
              Unmoved
<1>4. ASSUME NEW s \in Senders, Sender(s) PROVE UNCHANGED envVars
  BY <1>4 DEF Sender, EnqueueLock, EnqueueBusy, AdmitDeclined, AdmitKnown, AdmitFull,
              AdmitPublish, PublishSync, SendDirect, Unmoved
<1>5. ASSUME NEW w \in Workers, Worker(w) PROVE UNCHANGED envVars
  BY <1>5 DEF Worker, Start, Rebatch, CollectLock, Collect, Answer, FileGone, FileTerminal,
              FileBackoff, BackoffSync, BatchDone, FinishLock, WorkerBusy, CollectBad, Skip,
              Decline, Misconfigured, Send, Unmoved
<1>6. CASE Environment
  BY <1>6 DEF Environment, Tick, PowerLoss, Crash, StorageError, Stop, Damage, envVars
<1> QED
  BY <1>1, <1>2, <1>3, <1>4, <1>5, <1>6 DEF Next, envVars

LEMMA SectionNext ==
    ASSUME SectionInv, [Next]_vars
    PROVE  SectionInv'
<1>0. LInv'
  BY LossNext DEF SectionInv
<1>1. Undisturbed' => Undisturbed
  BY Disturbances DEF SectionInv, LInv, TInv
<1>2. Decided' /\ Tidy'
  <2>1. CASE UNCHANGED vars
    BY <1>1, <2>1, SteadySection DEF vars, SectionInv
  <2> QED
    BY <1>1, <2>1, SectionSteps, SenderSteps, WorkerSteps, EnvironmentSteps DEF Next
<1> QED
  BY <1>0, <1>2 DEF SectionInv

LEMMA SectionInit == Init => SectionInv
<1> SUFFICES ASSUME Init PROVE SectionInv
  OBVIOUS
<1>1. LInv
  <2>1. DurSafe /\ Ordered
    BY DEF Init, Free, DurSafe, Ordered, Safe
  <2> QED
    BY <2>1, TInvInit DEF LInv
<1>2. Decided /\ Tidy
  BY DEF Init, Free, Decided, Tidy, Leftover
<1> QED
  BY <1>1, <1>2 DEF SectionInv

-----------------------------------------------------------------------------
(* While no process dies, an outcome on record is final                    *)

LEMMA FinalStep ==
    ASSUME SectionInv, [Next]_vars, Undisturbed, kills' = kills, NEW d \in Deliveries,
           disk.receipt[d] # None, disk'.receipt[d] # None
    PROVE  disk'.receipt[d].status = disk.receipt[d].status
<1>0. disk \in Image /\ kills \in Nat
  BY DEF SectionInv, LInv, TInv, DirType, CountType
<1>1. CASE Quiet
  BY <1>1 DEF Quiet
<1>2. CASE Retouched
  BY <1>2 DEF Retouched, Alike
<1>3. CASE Loses
  BY <1>0, <1>3 DEF Loses
<1>4. ASSUME NEW c \in Deliveries, Unlinked(c) \/ \E e \in Entry : Published(c, e)
      PROVE  disk'.receipt = disk.receipt
  BY <1>0, <1>4 DEF Unlinked, Published, PutEntry, Write, Image
<1>5. ASSUME NEW c \in Deliveries, NEW st \in Terminal, Filed(c, st)
      PROVE  disk'.receipt[d] = disk.receipt[d]
  <2>1. c # d
    BY <1>5 DEF Filed
  <2> QED
    BY <1>0, <1>5, <2>1 DEF Filed, PutReceipt, Write, Image
<1>6. ASSUME NEW c \in Deliveries, Purged(c)
      PROVE  disk'.receipt[d] = disk.receipt[d]
  <2>1. c # d
    BY <1>0, <1>6 DEF Purged, PutReceipt, Write, Image
  <2> QED
    BY <1>0, <1>6, <2>1 DEF Purged, PutReceipt, Write, Image
<1>7. ASSUME NEW c \in Deliveries, NEW b \in Bodies, Promises(c, b) \/ Takes(c, b)
      PROVE  disk' = disk
  BY <1>7 DEF Promises, Takes
<1> QED
  BY EffectNext, <1>1, <1>2, <1>3, <1>4, <1>5, <1>6, <1>7 DEF Effect

\* `Its terminal receipt wins': in every behaviour in which no process dies in a
\* section and no file operation raises, an outcome on record is never replaced
\* by another, neither by a worker whose entry was retired while HTTP ran nor by
\* the retirement of the entry or a full buffer.
THEOREM OutcomesAreFinal == Spec /\ []Undisturbed => TerminalReceiptWins
<1>1. SectionInv /\ Undisturbed /\ [Next]_vars =>
        [\A d \in Deliveries :
           /\ disk.receipt[d] # None /\ disk'.receipt[d] # None
           /\ kills' = kills
           => disk'.receipt[d].status = disk.receipt[d].status]_vars
  BY FinalStep
<1>2. SectionInv /\ [Next]_vars => SectionInv'
  BY SectionNext
<1> QED
  BY <1>1, <1>2, SectionInit, PTL DEF Spec, TerminalReceiptWins

-----------------------------------------------------------------------------
(* Sums over the entries.  The library computes a sum by a function that   *)
(* takes one element of a set after the other; that such a function exists,*)
(* and that the order does not matter, follows from a smallest set for     *)
(* which it would not.                                                     *)

Chosen(s) == CHOOSE x \in s : TRUE

Following(g, f, s) == IF s = {} THEN 0 ELSE f[Chosen(s)] + g[s \ {Chosen(s)}]

\* g adds up f on every part of S
IsTally(g, f, S) == g = [s \in SUBSET S |-> Following(g, f, s)]

Tally(f, S) == (CHOOSE g : IsTally(g, f, S))[S]

\* Every set of numbers that is not empty has a least one
LEMMA LeastNumber ==
    ASSUME NEW S \in SUBSET Nat, S # {}
    PROVE  \E m \in S : \A n \in S : m <= n
<1>1. PICK m \in S : \A n \in S : ~(<<n, m>> \in OpToRel(<, Nat))
  BY NatLessThanWellFounded, WFMin
<1>2. \A n \in S : ~(n < m)
  BY <1>1 DEF OpToRel
<1> QED
  BY <1>2

\* Among some parts of a finite set there is one that contains no other of them
LEMMA SmallestPart ==
    ASSUME NEW S, IsFiniteSet(S), NEW B \in SUBSET (SUBSET S), B # {}
    PROVE  \E s \in B : \A x \in s : s \ {x} \notin B
<1>1. \A s \in SUBSET S : IsFiniteSet(s) /\ Cardinality(s) \in Nat
  BY FS_Subset, FS_CardinalityType
<1> DEFINE counts == {Cardinality(s) : s \in B}
<1>2. counts \in SUBSET Nat /\ counts # {}
  BY <1>1
<1> HIDE DEF counts
<1>3. PICK m \in counts : \A n \in counts : m <= n
  BY <1>2, LeastNumber
<1>4. PICK s \in B : Cardinality(s) = m
  BY <1>3 DEF counts
<1>5. ASSUME NEW x \in s, s \ {x} \in B PROVE FALSE
  <2>1. Cardinality(s \ {x}) = Cardinality(s) - 1 /\ IsFiniteSet(s)
    BY <1>1, <1>5, FS_RemoveElement
  <2>2. m <= Cardinality(s \ {x})
    BY <1>3, <1>5 DEF counts
  <2> QED
    BY <1>1, <1>4, <2>1, <2>2
<1> QED
  BY <1>5

\* The element taken first is one of the set
LEMMA ChosenIn == ASSUME NEW s, s # {} PROVE Chosen(s) \in s
BY DEF Chosen

\* The library's recursion has a solution: else there is a least size without one
LEMMA TallyExists ==
    ASSUME NEW S, IsFiniteSet(S), NEW f
    PROVE  IsTally(CHOOSE g : IsTally(g, f, S), f, S)
<1> DEFINE Small(n) == {s \in SUBSET S : Cardinality(s) <= n}
           Solves(g, n) == g = [s \in Small(n) |-> Following(g, f, s)]
           open == {n \in Nat : ~\E g : Solves(g, n)}
<1>1. \A s \in SUBSET S : IsFiniteSet(s) /\ Cardinality(s) \in Nat
  BY FS_Subset, FS_CardinalityType
<1>2. open = {}
  <2> SUFFICES ASSUME open # {} PROVE FALSE
    OBVIOUS
  <2>1. PICK n \in open : \A m \in open : n <= m
    <3> open \in SUBSET Nat
      OBVIOUS
    <3> HIDE DEF open
    <3> QED
      BY LeastNumber
  <2> n \in Nat
    OBVIOUS
  <2>2. CASE n = 0
    <3>1. \A s \in Small(0) : s = {}
      BY <1>1, FS_EmptySet
    <3> DEFINE g == [s \in Small(0) |-> 0]
    <3>2. Solves(g, 0)
      BY <3>1 DEF Following
    <3> QED
      BY <2>2, <3>2
  <2>3. CASE n # 0
    <3>1. n - 1 \in Nat /\ n - 1 \notin open
      <4>1. n - 1 \in Nat /\ ~(n <= n - 1)
        BY <2>3
      <4> HIDE DEF open
      <4> QED
        BY <2>1, <4>1
    <3>2. PICK g : Solves(g, n - 1)
      BY <3>1
    <3> DEFINE h == [s \in Small(n) |-> Following(g, f, s)]
    <3>3. ASSUME NEW s \in Small(n) PROVE Following(h, f, s) = Following(g, f, s)
      <4>1. CASE s = {}
        BY <4>1 DEF Following
      <4>2. CASE s # {}
        <5> DEFINE r == s \ {Chosen(s)}
        <5>1. Chosen(s) \in s
          BY <4>2, ChosenIn
        <5>2. Cardinality(r) = Cardinality(s) - 1
          BY <1>1, <5>1, FS_RemoveElement
        <5>3. Cardinality(s) <= n /\ Cardinality(s) \in Nat /\ r \in SUBSET S
          BY <1>1
        <5>4. Cardinality(r) <= n - 1 /\ Cardinality(r) <= n
          BY <5>2, <5>3
        <5>5. r \in Small(n - 1) /\ r \in Small(n)
          BY <5>3, <5>4
        <5> HIDE DEF r
        <5>6. h[r] = Following(g, f, r) /\ g[r] = Following(g, f, r)
          <6>1. h[r] = Following(g, f, r)
            BY <5>5
          <6>2. g[r] = Following(g, f, r)
            <7> HIDE DEF Small
            <7> QED
              BY <3>2, <5>5
          <6> QED
            BY <6>1, <6>2
        <5> HIDE DEF h
        <5> QED
          BY <4>2, <5>6 DEF Following, r
      <4> QED
        BY <4>1, <4>2
    <3>4. h = [s \in Small(n) |-> Following(h, f, s)]
      BY <3>3
    <3>5. Solves(h, n)
      BY <3>4
    <3> HIDE DEF h, Solves
    <3> QED
      BY <3>5
  <2> QED
    BY <2>2, <2>3
<1> DEFINE N == Cardinality(S)
<1>3. N \in Nat /\ Small(N) = SUBSET S
  BY <1>1, FS_Subset, FS_CardinalityType
<1>4. PICK g : Solves(g, N)
  <2> HIDE DEF Solves, N
  <2> QED
    BY <1>2, <1>3
<1>5. IsTally(g, f, S)
  BY <1>3, <1>4 DEF IsTally
<1> QED
  BY <1>5

\* g adds up f, whichever element is taken first
AddsUp(g, f, S) ==
    \A s \in SUBSET S :
        /\ g[s] \in Nat
        /\ s = {} => g[s] = 0
        /\ \A x \in s : g[s] = f[x] + g[s \ {x}]

\* A sum may be taken at any element first
LEMMA TallyAtAny ==
    ASSUME NEW S, IsFiniteSet(S), NEW f, \A x \in S : f[x] \in Nat, NEW g, IsTally(g, f, S)
    PROVE  AddsUp(g, f, S)
<1>1. \A r \in SUBSET S : g[r] = Following(g, f, r)
  BY DEF IsTally
<1>2. ASSUME NEW r \in SUBSET S, r # {}
      PROVE  /\ Chosen(r) \in r /\ f[Chosen(r)] \in Nat
             /\ g[r] = f[Chosen(r)] + g[r \ {Chosen(r)}]
  BY <1>1, <1>2, ChosenIn DEF Following
<1>3. g[{}] = 0
  BY <1>1 DEF Following
<1>4. \A r \in SUBSET S : g[r] \in Nat
  <2> DEFINE bad == {r \in SUBSET S : g[r] \notin Nat}
  <2> SUFFICES ASSUME bad # {} PROVE FALSE
    OBVIOUS
  <2>1. PICK r \in bad : \A x \in r : r \ {x} \notin bad
    <3> bad \in SUBSET (SUBSET S)
      OBVIOUS
    <3> HIDE DEF bad
    <3> QED
      BY SmallestPart
  <2>2. r \in SUBSET S /\ g[r] \notin Nat /\ \A x \in r : g[r \ {x}] \in Nat
    <3>1. r \in SUBSET S /\ g[r] \notin Nat
      OBVIOUS
    <3>2. \A x \in r : r \ {x} \in SUBSET S
      BY <3>1
    <3> QED
      BY <2>1, <3>1, <3>2
  <2> HIDE DEF bad
  <2>3. r # {}
    <3>1. ASSUME r = {} PROVE g[r] \in Nat
      <4>1. g[r] = 0
        BY <1>3, <3>1
      <4> QED
        BY <4>1
    <3> QED
      BY <2>2, <3>1
  <2> DEFINE c == Chosen(r)
  <2>4. c \in r
    BY <2>3, ChosenIn
  <2>5. g[r] = f[c] + g[r \ {c}]
    BY <1>1, <2>2, <2>3 DEF Following
  <2>6. g[r \ {c}] \in Nat /\ f[c] \in Nat
    BY <2>2, <2>4
  <2> HIDE DEF c
  <2> QED
    BY <2>2, <2>5, <2>6
<1>5. \A r \in SUBSET S : \A x \in r : g[r] = f[x] + g[r \ {x}]
  <2> DEFINE good(r) == \A x \in r : g[r] = f[x] + g[r \ {x}]
             bad == {r \in SUBSET S : ~good(r)}
  <2> SUFFICES ASSUME bad # {} PROVE FALSE
    OBVIOUS
  <2>1. PICK r \in bad : \A x \in r : r \ {x} \notin bad
    <3> bad \in SUBSET (SUBSET S)
      OBVIOUS
    <3> HIDE DEF bad
    <3> QED
      BY SmallestPart
  <2>2. r \in SUBSET S /\ \A x \in r : good(r \ {x})
    BY <2>1
  <2> DEFINE c == Chosen(r)
  <2>3. ASSUME NEW x \in r PROVE g[r] = f[x] + g[r \ {x}]
    <3>1. c \in r /\ f[c] \in Nat /\ g[r] = f[c] + g[r \ {c}]
      BY <1>2, <2>2
    <3> HIDE DEF c
    <3>2. CASE x = c
      BY <3>1, <3>2
    <3>3. CASE x # c
      <4> DEFINE rest == g[(r \ {x}) \ {c}]
      <4>1. g[r \ {c}] = f[x] + g[(r \ {c}) \ {x}]
        BY <2>2, <3>1, <3>3
      <4>2. g[r \ {x}] = f[c] + rest
        BY <2>2, <3>1, <3>3
      <4>3. (r \ {c}) \ {x} = (r \ {x}) \ {c}
        OBVIOUS
      <4>4. rest \in Nat /\ f[x] \in Nat
        BY <1>4, <2>2
      <4> HIDE DEF rest
      <4>5. g[r \ {c}] = f[x] + rest
        BY <4>1, <4>3 DEF rest
      <4> QED
        BY <3>1, <4>2, <4>4, <4>5
    <3> QED
      BY <3>2, <3>3
  <2> QED
    BY <2>1, <2>3
<1> QED
  BY <1>3, <1>4, <1>5 DEF AddsUp

\* A function that adds up f on the parts of S gives the sum over each of them
LEMMA TallyWithin ==
    ASSUME NEW S, IsFiniteSet(S), NEW f, \A x \in S : f[x] \in Nat, NEW g, IsTally(g, f, S),
           NEW T \in SUBSET S, NEW h, \A x \in T : h[x] = f[x]
    PROVE  Tally(h, T) = g[T]
<1>1. IsFiniteSet(T) /\ \A x \in T : h[x] \in Nat
  BY FS_Subset
<1> DEFINE k == CHOOSE u : IsTally(u, h, T)
<1>2. IsTally(k, h, T) /\ Tally(h, T) = k[T]
  BY <1>1, TallyExists DEF Tally
<1> HIDE DEF k
<1>3. ASSUME NEW s \in SUBSET S
      PROVE  /\ s = {} => g[s] = 0
             /\ \A x \in s : g[s] = f[x] + g[s \ {x}]
  <2>1. AddsUp(g, f, S)
    BY TallyAtAny
  <2> QED
    BY <2>1 DEF AddsUp
<1>4. ASSUME NEW s \in SUBSET T
      PROVE  /\ s = {} => k[s] = 0
             /\ \A x \in s : k[s] = h[x] + k[s \ {x}]
  <2>1. AddsUp(k, h, T)
    BY <1>1, <1>2, TallyAtAny
  <2> QED
    BY <2>1 DEF AddsUp
<1>5. \A s \in SUBSET T : k[s] = g[s]
  <2> DEFINE bad == {s \in SUBSET T : k[s] # g[s]}
  <2> SUFFICES ASSUME bad # {} PROVE FALSE
    OBVIOUS
  <2>1. PICK s \in bad : \A x \in s : s \ {x} \notin bad
    <3> bad \in SUBSET (SUBSET T)
      OBVIOUS
    <3> HIDE DEF bad
    <3> QED
      BY <1>1, SmallestPart
  <2>2. s \in SUBSET T /\ s \in SUBSET S /\ k[s] # g[s]
    OBVIOUS
  <2>3. PICK x \in s : TRUE
    BY <1>3, <1>4, <2>2
  <2>4. k[s \ {x}] = g[s \ {x}]
    BY <2>1
  <2> HIDE DEF bad
  <2>5. k[s] = h[x] + k[s \ {x}] /\ g[s] = f[x] + g[s \ {x}] /\ h[x] = f[x]
    BY <1>3, <1>4, <2>2
  <2> QED
    BY <2>2, <2>4, <2>5
<1> QED
  BY <1>2, <1>5

\* The sum over a part of a set is no greater, and depends on the part alone
LEMMA TallyOfPart ==
    ASSUME NEW S, IsFiniteSet(S), NEW f, \A x \in S : f[x] \in Nat,
           NEW T \in SUBSET S, NEW h, \A x \in T : h[x] = f[x]
    PROVE  /\ Tally(h, T) \in Nat /\ Tally(f, S) \in Nat
           /\ Tally(h, T) <= Tally(f, S)
<1> DEFINE g == CHOOSE u : IsTally(u, f, S)
<1>1. IsTally(g, f, S) /\ Tally(f, S) = g[S]
  BY TallyExists DEF Tally
<1> HIDE DEF g
<1>2. ASSUME NEW s \in SUBSET S
      PROVE  /\ g[s] \in Nat
             /\ \A x \in s : g[s] = f[x] + g[s \ {x}]
  <2>1. AddsUp(g, f, S)
    BY <1>1, TallyAtAny
  <2> QED
    BY <2>1 DEF AddsUp
<1>3. Tally(h, T) = g[T]
  BY <1>1, TallyWithin
<1>4. g[T] <= g[S]
  <2> DEFINE bad == {s \in SUBSET S : T \subseteq s /\ ~(g[T] <= g[s])}
  <2> SUFFICES ASSUME bad # {} PROVE FALSE
    OBVIOUS
  <2>1. PICK s \in bad : \A x \in s : s \ {x} \notin bad
    <3> bad \in SUBSET (SUBSET S)
      OBVIOUS
    <3> HIDE DEF bad
    <3> QED
      BY SmallestPart
  <2>2. s # T /\ T \subseteq s /\ s \in SUBSET S /\ ~(g[T] <= g[s])
    BY <1>2, <2>1
  <2>3. PICK x \in s : x \notin T
    BY <2>2
  <2>4. g[T] <= g[s \ {x}]
    BY <2>1, <2>2, <2>3
  <2>5. g[s] = f[x] + g[s \ {x}] /\ f[x] \in Nat /\ g[s \ {x}] \in Nat /\ g[T] \in Nat
    BY <1>2, <2>2, <2>3
  <2> QED
    BY <2>2, <2>4, <2>5
<1> QED
  BY <1>1, <1>2, <1>3, <1>4

\* One element more adds no more than its own
LEMMA TallyOfOneMore ==
    ASSUME NEW S, IsFiniteSet(S), NEW f, \A x \in S : f[x] \in Nat,
           NEW d, NEW h, h[d] \in Nat, \A x \in S \ {d} : h[x] = f[x]
    PROVE  /\ Tally(f, S) \in Nat /\ Tally(h, S \cup {d}) \in Nat
           /\ Tally(h, S \cup {d}) <= Tally(f, S) + h[d]
<1> DEFINE T == S \cup {d}
           g == CHOOSE u : IsTally(u, h, T)
           R == T \ {d}
<1>1. IsFiniteSet(T) /\ \A x \in T : h[x] \in Nat
  BY FS_AddElement
<1>2. IsTally(g, h, T)
  BY <1>1, TallyExists
<1>3. Tally(h, T) = g[T]
  BY DEF Tally
<1>4. R \in SUBSET S /\ R \in SUBSET T /\ d \in T /\ \A x \in R : h[x] = f[x]
  OBVIOUS
<1> HIDE DEF g, T
<1>5. g[T] = h[d] + g[R] /\ g[R] \in Nat /\ g[T] \in Nat
  <2>1. AddsUp(g, h, T)
    BY <1>1, <1>2, TallyAtAny
  <2> QED
    BY <1>4, <2>1 DEF AddsUp, R
<1> HIDE DEF R
<1>6. Tally(h, R) \in Nat /\ Tally(f, S) \in Nat /\ Tally(h, R) <= Tally(f, S)
  BY <1>4, TallyOfPart
<1>7. Tally(h, R) = g[R]
  BY <1>1, <1>2, <1>4, TallyWithin
<1> QED
  BY <1>3, <1>5, <1>6, <1>7 DEF T

-----------------------------------------------------------------------------
(* The limits.  Every image a power loss may leave is within them, so that *)
(* none needs room it does not have.                                       *)

EntriesOf(image) == {d \in Deliveries : image.entry[d] # None}

SizesIn(image) == [d \in Deliveries |-> BodySize[image.entry[d].body]]

\* The bytes that enqueue() counts are the sum of the sizes of the entries
LEMMA BytesAreTallied == UsedBytes = Tally(SizesIn(disk), Entries)
<1> DEFINE first(s) == CHOOSE x \in s : TRUE
           h(g) == [s \in SUBSET Entries |->
                        IF s = {} THEN 0
                        ELSE BodySize[disk.entry[first(s)].body] + g[s \ {first(s)}]]
<1>1. UsedBytes = (CHOOSE g : g = h(g))[Entries]
  BY DEF UsedBytes, MapThenSumSet, MapThenFoldSet
<1>2. ASSUME NEW s \in SUBSET Entries, s # {}
      PROVE  BodySize[disk.entry[first(s)].body] = SizesIn(disk)[Chosen(s)]
  BY <1>2, ChosenIn DEF SizesIn, Chosen, Entries
<1>3. \A g : g = h(g) <=> IsTally(g, SizesIn(disk), Entries)
  <2> SUFFICES ASSUME NEW g
               PROVE  h(g) = [s \in SUBSET Entries |-> Following(g, SizesIn(disk), s)]
    BY DEF IsTally
  <2> QED
    BY <1>2 DEF Following, Chosen
<1> HIDE DEF h
<1>4. (CHOOSE g : g = h(g)) = CHOOSE g : IsTally(g, SizesIn(disk), Entries)
  BY <1>3
<1> QED
  BY <1>1, <1>4 DEF Tally

BytesOf(image) == Tally(SizesIn(image), EntriesOf(image))

Fits(image) ==
    /\ IsFiniteSet(EntriesOf(image))
    /\ Cardinality(EntriesOf(image)) <= MaxActiveEntries
    /\ BytesOf(image) <= MaxActiveBytes

AllFit == \A image \in durable : Fits(image)

\* Every entry has a size
LEMMA SizesAreNumbers ==
    ASSUME NEW image \in Image
    PROVE  \A d \in EntriesOf(image) : SizesIn(image)[d] \in Nat
BY NoEntry, BoundAssumption DEF EntriesOf, SizesIn, Image, Entry

\* An image with no more entries than another fits as well
LEMMA FewerFit ==
    ASSUME NEW image \in Image, NEW other, Fits(image),
           EntriesOf(other) \subseteq EntriesOf(image),
           \A d \in EntriesOf(other) : other.entry[d].body = image.entry[d].body
    PROVE  Fits(other)
<1> DEFINE S == EntriesOf(image)
           T == EntriesOf(other)
           f == SizesIn(image)
           h == SizesIn(other)
<1>1. IsFiniteSet(S) /\ T \in SUBSET S /\ \A d \in S : f[d] \in Nat
  BY SizesAreNumbers DEF Fits
<1>2. \A d \in T : h[d] = f[d]
  BY DEF SizesIn, EntriesOf
<1>3. Cardinality(S) <= MaxActiveEntries /\ Tally(f, S) <= MaxActiveBytes
  BY DEF Fits, BytesOf
<1> SUFFICES /\ IsFiniteSet(T)
             /\ Cardinality(T) <= MaxActiveEntries /\ Tally(h, T) <= MaxActiveBytes
  BY DEF Fits, BytesOf
<1> HIDE DEF S, T, f, h
<1>4. IsFiniteSet(T) /\ Cardinality(T) <= Cardinality(S)
  BY <1>1, FS_Subset
<1>5. Cardinality(T) \in Nat /\ Cardinality(S) \in Nat
  BY <1>1, <1>4, FS_CardinalityType
<1>6. Tally(h, T) \in Nat /\ Tally(f, S) \in Nat /\ Tally(h, T) <= Tally(f, S)
  BY <1>1, <1>2, TallyOfPart
<1> QED
  BY <1>3, <1>4, <1>5, <1>6, BoundAssumption

\* enqueue() admits one entry more only when there is room for it
LEMMA OneMoreFits ==
    ASSUME disk \in Image, Fits(disk), NEW d \in Deliveries, NEW e \in Entry, ~Full(e.body)
    PROVE  Fits([disk EXCEPT !.entry[d] = e])
<1> DEFINE other == [disk EXCEPT !.entry[d] = e]
           S == EntriesOf(disk)
           T == EntriesOf(other)
           f == SizesIn(disk)
           h == SizesIn(other)
<1>1. T \subseteq S \cup {d} /\ S \ {d} \subseteq T /\ d \in T
  BY NoEntry DEF EntriesOf, Image
<1>2. T = S \cup {d}
  BY <1>1
<1>3. h[d] = BodySize[e.body] /\ h[d] \in Nat /\ \A x \in S \ {d} : h[x] = f[x]
  BY BoundAssumption DEF SizesIn, Image, EntriesOf, Entry
<1>4. IsFiniteSet(S) /\ Cardinality(S) \in Nat /\ \A x \in S : f[x] \in Nat
  BY SizesAreNumbers, FS_CardinalityType DEF Fits
<1>5. Entries = S /\ UsedBytes = Tally(f, S)
  BY BytesAreTallied DEF Entries, EntriesOf
<1>6. ~(Cardinality(S) >= MaxActiveEntries) /\ ~(Tally(f, S) + h[d] > MaxActiveBytes)
  BY <1>3, <1>5 DEF Full
<1> SUFFICES /\ IsFiniteSet(T)
             /\ Cardinality(T) <= MaxActiveEntries /\ Tally(h, T) <= MaxActiveBytes
  BY DEF Fits, BytesOf
<1> HIDE DEF other, S, T, f, h
<1>7. IsFiniteSet(T) /\ Cardinality(T) \in {Cardinality(S), Cardinality(S) + 1}
  BY <1>2, <1>4, FS_AddElement
<1>8. Tally(f, S) \in Nat /\ Tally(h, T) \in Nat /\ Tally(h, T) <= Tally(f, S) + h[d]
  BY <1>2, <1>3, <1>4, TallyOfOneMore
<1>9. Cardinality(T) <= MaxActiveEntries
  BY <1>4, <1>6, <1>7, BoundAssumption
<1>10. Tally(h, T) <= MaxActiveBytes
  BY <1>3, <1>6, <1>8, BoundAssumption
<1> QED
  BY <1>7, <1>9, <1>10

LEMMA FitNext ==
    ASSUME SectionInv, AllFit, [Next]_vars
    PROVE  AllFit'
<1>0. disk \in Image /\ disk \in durable /\ Fits(disk)
  BY DEF SectionInv, LInv, TInv, DirType, DurSafe, AllFit
<1>1. CASE Quiet \/ Loses
  BY <1>0, <1>1 DEF Quiet, Loses, AllFit
<1>2. CASE Retouched
  <2>1. /\ EntriesOf(disk') \subseteq EntriesOf(disk)
        /\ \A d \in EntriesOf(disk') : disk'.entry[d].body = disk.entry[d].body
    BY <1>2 DEF Retouched, Alike, EntriesOf
  <2>2. Fits(disk')
    BY <1>0, <2>1, FewerFit
  <2> QED
    BY <1>2, <2>2 DEF Retouched, AllFit
<1>3. ASSUME NEW c \in Deliveries, Unlinked(c) PROVE AllFit'
  <2>1. /\ EntriesOf(disk') \subseteq EntriesOf(disk) /\ durable' = durable \cup {disk'}
        /\ \A d \in EntriesOf(disk') : disk'.entry[d].body = disk.entry[d].body
    BY <1>0, <1>3 DEF Unlinked, PutEntry, Write, EntriesOf, Image
  <2>2. Fits(disk')
    BY <1>0, <2>1, FewerFit
  <2> QED
    BY <2>1, <2>2 DEF AllFit
<1>4. ASSUME NEW c \in Deliveries, NEW e \in Entry, Published(c, e) PROVE AllFit'
  <2>1. Fits(disk')
    BY <1>0, <1>4, OneMoreFits DEF Published, PutEntry, Write
  <2> QED
    BY <1>4, <2>1 DEF Published, PutEntry, Write, AllFit
<1>5. ASSUME NEW c \in Deliveries, NEW r, PutReceipt(c, r) PROVE AllFit'
  <2>1. /\ EntriesOf(disk') \subseteq EntriesOf(disk) /\ durable' = durable \cup {disk'}
        /\ \A d \in EntriesOf(disk') : disk'.entry[d].body = disk.entry[d].body
    BY <1>0, <1>5 DEF PutReceipt, Write, EntriesOf, Image
  <2>2. Fits(disk')
    BY <1>0, <2>1, FewerFit
  <2> QED
    BY <2>1, <2>2 DEF AllFit
<1>6. ASSUME NEW c \in Deliveries, NEW b \in Bodies, Promises(c, b) \/ Takes(c, b)
      PROVE  AllFit'
  BY <1>0, <1>6 DEF Promises, Takes, AllFit
<1> QED
  BY EffectNext, <1>1, <1>2, <1>3, <1>4, <1>5, <1>6 DEF Effect, Filed, Purged

\* The buffer never holds more than MAX_ACTIVE_ENTRIES entries nor more than
\* MAX_ACTIVE_BYTES bytes, however many senders there are and whatever a crash or
\* a power loss leaves behind: what enqueue() counts is still true when it
\* publishes.
THEOREM LimitsHold == Spec => []CapacityBound
<1>1. Init => AllFit
  <2> SUFFICES ASSUME Init PROVE Fits(disk) /\ durable = {disk}
    BY DEF AllFit
  <2>1. EntriesOf(disk) = {}
    BY DEF Init, EntriesOf
  <2>2. IsFiniteSet(EntriesOf(disk)) /\ Cardinality(EntriesOf(disk)) = 0
    BY <2>1, FS_EmptySet
  <2>3. BytesOf(disk) = 0
    <3> DEFINE f == SizesIn(disk)
               g == CHOOSE u : IsTally(u, f, {})
    <3>1. IsTally(g, f, {})
      BY FS_EmptySet, TallyExists
    <3>2. BytesOf(disk) = g[{}]
      BY <2>1 DEF BytesOf, Tally
    <3> HIDE DEF g
    <3> QED
      BY <3>1, <3>2 DEF IsTally, Following
  <2>4. Fits(disk)
    BY <2>2, <2>3, BoundAssumption DEF Fits
  <2> QED
    BY <2>4 DEF Init
<1>2. SectionInv /\ AllFit /\ [Next]_vars => SectionInv' /\ AllFit'
  BY SectionNext, FitNext
<1>3. SectionInv /\ AllFit => CapacityBound
  <2> SUFFICES ASSUME SectionInv, AllFit PROVE CapacityBound
    OBVIOUS
  <2>1. Fits(disk) /\ Entries = EntriesOf(disk)
    BY DEF SectionInv, LInv, DurSafe, AllFit, EntriesOf, Entries
  <2> QED
    BY <2>1, BytesAreTallied DEF CapacityBound, Fits, BytesOf
<1> QED
  BY <1>1, <1>2, <1>3, SectionInit, PTL DEF Spec

-----------------------------------------------------------------------------
(* The attempts that run after a step ran before it, or began with it from *)
(* the entry as it is                                                      *)

Carried(w) ==
    /\ Attempting(w)
    /\ job'[w].cur = job[w].cur /\ job'[w].since = job[w].since
    /\ \/ pc'[w] = pc[w] /\ job'[w].result = job[w].result
       \/ job'[w].result = "acknowledged" =>
            <<job[w].cur.id, job[w].cur.body>> \in received'

Begun(w) ==
    LET h == job'[w].cur IN
    /\ job'[w].since = now /\ job'[w].result # "acknowledged"
    /\ h \in Header
    /\ disk.entry[h.id] # None /\ disk.entry[h.id].body = h.body
    /\ cs.by = None /\ disk' = disk /\ now' = now

Attempts == \A w \in Workers : Attempting(w)' => Carried(w) \/ Begun(w)

\* A worker that does not move
LEMMA StillAttempts ==
    ASSUME NEW w \in Workers, pc'[w] = pc[w], job'[w] = job[w]
    PROVE  Attempting(w)' => Carried(w) \/ Begun(w)
BY DEF Attempting, Carried

LEMMA UnmovedAttempts == ASSUME UNCHANGED <<pc, job>> PROVE Attempts
BY StillAttempts DEF Attempts

\* Only v moves, and is not in an attempt afterwards
LEMMA OtherAttempts ==
    ASSUME PcType, LocalType, NEW v, NEW l \in {"idle", "enqueue", "direct", "rest", "collect",
                                               "next", "finish"},
           pc' = [pc EXCEPT ![v] = l],
           \A w \in Workers : w # v => job'[w] = job[w]
    PROVE  Attempts
<1> SUFFICES ASSUME NEW w \in Workers, Attempting(w)' PROVE Carried(w) \/ Begun(w)
  BY DEF Attempts
<1>1. w \in Procs
  BY DEF Procs
<1>2. w # v
  BY <1>1 DEF Attempting, PcType
<1>3. pc'[w] = pc[w] /\ job'[w] = job[w]
  BY <1>1, <1>2 DEF PcType
<1> QED
  BY <1>3, StillAttempts

\* A batch that ends ends its attempt
LEMMA EndBatchAttempts ==
    ASSUME PcType, LocalType, NEW w \in Workers, NEW ok, EndBatch(w, ok)
    PROVE  Attempts
<1>1. PICK l \in {"rest", "idle"} : pc' = [pc EXCEPT ![w] = l]
  BY DEF EndBatch, Goto
<1>2. \A v \in Workers : v # w => job'[v] = job[v]
  BY DEF EndBatch, LocalType
<1> QED
  BY <1>1, <1>2, OtherAttempts

\* A sender's step moves no worker
LEMMA SenderAttempts ==
    ASSUME TInv, NEW s \in Senders,
           Sender(s) \/ \E d \in Deliveries, b \in Bodies : Capture(s, d, b)
    PROVE  Attempts
<1>0. PcType /\ LocalType
  BY DEF TInv
<1>1. job' = job
  BY DEF Sender, EnqueueLock, EnqueueBusy, AdmitDeclined, AdmitKnown, AdmitFull, AdmitPublish,
         PublishSync, SendDirect, Capture, Unmoved, workVars
<1>2. pc' = pc \/ \E l \in {"idle", "enqueue", "direct"} : pc' = [pc EXCEPT ![s] = l]
  BY DEF Sender, EnqueueLock, EnqueueBusy, AdmitDeclined, AdmitKnown, AdmitFull, AdmitPublish,
         PublishSync, SendDirect, Capture, Unmoved, EndDeliver, Goto
<1> QED
  BY <1>0, <1>1, <1>2, UnmovedAttempts, OtherAttempts

LEMMA SectionAttempts ==
    ASSUME TInv, NEW p \in Procs, Section(p)
    PROVE  Attempts
<1>0. PcType /\ LocalType
  BY DEF TInv
<1>1. CASE Leave(p)
  <2>1. CASE p \in Senders /\ EndDeliver(p) /\ UNCHANGED <<owner, workVars>>
    BY <1>0, <2>1, OtherAttempts DEF EndDeliver, Goto, workVars
  <2>2. CASE p \in Workers /\ NextHeader(p)
    <3>1. \A v \in Workers : v # p => job'[v] = job[v]
      BY <1>0, <2>2 DEF NextHeader, LocalType
    <3> QED
      BY <1>0, <2>2, <3>1, OtherAttempts DEF NextHeader, Goto
  <2>3. CASE p \in Workers /\ EndBatch(p, pc[p] = "finish" /\ ~Malformed)
    BY <1>0, <2>3, EndBatchAttempts
  <2> QED
    BY <1>1, <2>1, <2>2, <2>3 DEF Leave
<1>2. CASE ~Leave(p)
  BY <1>2, UnmovedAttempts
     DEF Section, ReceiptSync, UnlinkEntry, UnlinkState, Settle, MaintainMalformed,
         DropLeftoverState, MaintenanceDone, DropLeftover, Retire, PurgeReceipt, Unmoved, workVars
<1> QED
  BY <1>1, <1>2

LEMMA WorkerAttempts ==
    ASSUME TInv, NEW w \in Workers, Worker(w)
    PROVE  Attempts
<1>0. PcType /\ LocalType /\ Busy /\ w \in Procs /\ job[w] \in Job
  BY DEF TInv, LocalType, Procs
<1>a. \A h \in job[w].todo : h \in Header
  BY <1>0 DEF Job
<1>1. CASE Start(w) \/ Rebatch(w)
  BY <1>0, <1>1, OtherAttempts DEF Start, Rebatch, Goto, workVars
<1>2. CASE CollectLock(w) \/ FinishLock(w) \/ FileTerminal(w) \/ FileBackoff(w) \/ BackoffSync(w)
  BY <1>2, UnmovedAttempts
     DEF CollectLock, FinishLock, FileTerminal, FileBackoff, BackoffSync, Unmoved, workVars
<1>3. ASSUME NEW d \in Deliveries, CollectBad(w, d) PROVE Attempts
  BY <1>3, UnmovedAttempts DEF CollectBad, Unmoved, workVars
<1>4. CASE Collect(w) \/ FileGone(w) \/ BatchDone(w)
  <2>1. PICK l \in {"next", "finish"} : pc' = [pc EXCEPT ![w] = l]
    BY <1>4 DEF Collect, FileGone, NextHeader, BatchDone, EndLoop, Goto
  <2>2. \A v \in Workers : v # w => job'[v] = job[v]
    BY <1>0, <1>4 DEF Collect, FileGone, NextHeader, BatchDone, EndLoop, LocalType
  <2> QED
    BY <1>0, <2>1, <2>2, OtherAttempts
<1>5. CASE WorkerBusy(w)
  BY <1>0, <1>5, EndBatchAttempts DEF WorkerBusy
<1>6. ASSUME NEW h \in job[w].todo, Skip(w, h) \/ Decline(w, h) PROVE Attempts
  <2>1. /\ pc' = pc /\ pc[w] = "next"
        /\ \A v \in Workers : v # w => job'[v] = job[v]
    BY <1>0, <1>6 DEF Skip, Decline, First, Pop, LocalType
  <2> QED
    BY <2>1, StillAttempts DEF Attempts, Attempting
<1>7. CASE Answer(w)
  <2>1. PICK r : /\ job' = [job EXCEPT ![w] = Answered(job[w], r)]
                 /\ received' \in Accepted(r, <<job[w].cur.id, job[w].cur.body>>)
    BY <1>7 DEF Answer
  <2>2. job'[w] = Answered(job[w], r)
    BY <1>0, <2>1 DEF LocalType
  <2>3. job'[w].cur = job[w].cur /\ job'[w].since = job[w].since /\ job'[w].result = r
    BY <1>0, <2>2 DEF Answered, Job
  <2>4. r = "acknowledged" => <<job[w].cur.id, job[w].cur.body>> \in received'
    BY <2>1 DEF Accepted
  <2>5. Carried(w)
    BY <1>7, <2>3, <2>4 DEF Answer, Carried, Attempting
  <2>6. \A v \in Workers : v # w => job'[v] = job[v] /\ pc'[v] = pc[v]
    BY <1>0, <1>7, <2>1 DEF Answer, Goto, LocalType, PcType, Procs
  <2> QED
    BY <2>5, <2>6, StillAttempts DEF Attempts
<1>8. ASSUME NEW h \in job[w].todo, Misconfigured(w, h) \/ Send(w, h) PROVE Attempts
  <2>1. PICK res \in {"blocked", None} : job' = [job EXCEPT ![w] = Taken(job[w], h, res)]
    BY <1>8 DEF Misconfigured, Send, Take
  <2>2. job'[w] = Taken(job[w], h, res)
    BY <1>0, <2>1 DEF LocalType
  <2>3. job'[w].cur = h /\ job'[w].since = now /\ job'[w].result = res
    BY <1>0, <2>2 DEF Taken, Job
  <2>4. res # "acknowledged"
    BY <2>1, NoneAssumption DEF Result, Terminal
  <2>5. /\ disk.entry[h.id] # None /\ disk.entry[h.id].body = h.body
        /\ cs.by = None /\ disk' = disk /\ now' = now
    BY <1>8 DEF Misconfigured, Send, Ready, First, Unreadable, dirVars
  <2>6. Begun(w)
    BY <1>a, <2>3, <2>4, <2>5 DEF Begun
  <2>7. \A v \in Workers : v # w => job'[v] = job[v] /\ pc'[v] = pc[v]
    BY <1>0, <1>8, <2>1 DEF Misconfigured, Send, Goto, LocalType, PcType, Procs
  <2> QED
    BY <2>6, <2>7, StillAttempts DEF Attempts
<1> QED
  BY <1>1, <1>2, <1>3, <1>4, <1>5, <1>6, <1>7, <1>8 DEF Worker

LEMMA EnvironmentAttempts ==
    ASSUME TInv, Environment
    PROVE  Attempts
<1>0. PcType /\ LocalType
  BY DEF TInv
<1>1. CASE Tick
  BY <1>1, UnmovedAttempts DEF Tick, workVars
<1>2. ASSUME NEW P, Forget(P) PROVE Attempts
  <2> SUFFICES ASSUME NEW w \in Workers, Attempting(w)' PROVE Carried(w) \/ Begun(w)
    BY DEF Attempts
  <2>1. w \in Procs
    BY DEF Procs
  <2>2. w \notin P
    BY <1>2, <2>1 DEF Forget, Attempting
  <2>3. pc'[w] = pc[w] /\ job'[w] = job[w]
    BY <1>2, <2>1, <2>2 DEF Forget
  <2> QED
    BY <2>3, StillAttempts
<1>3. ASSUME NEW p \in Procs, StorageError(p) PROVE Attempts
  <2>1. CASE p \in Workers /\ EndBatch(p, FALSE)
    BY <1>0, <2>1, EndBatchAttempts
  <2>2. CASE ~(p \in Workers /\ EndBatch(p, FALSE))
    <3>1. PICK l \in {"idle", "direct"} : pc' = [pc EXCEPT ![p] = l]
      BY <1>3, <2>2 DEF StorageError, EndDeliver, Goto
    <3>2. job' = job
      BY <1>3, <2>2 DEF StorageError, workVars
    <3> QED
      BY <1>0, <3>1, <3>2, OtherAttempts
  <2> QED
    BY <2>1, <2>2
<1>4. ASSUME NEW w \in Workers, Stop(w) PROVE Attempts
  <2>1. CASE EndLoop(w)
    <3>1. \A v \in Workers : v # w => job'[v] = job[v]
      BY <1>0, <2>1 DEF EndLoop, LocalType
    <3> QED
      BY <1>0, <2>1, <3>1, OtherAttempts DEF EndLoop, Goto
  <2> QED
    BY <1>2, <1>4, <2>1 DEF Stop
<1>5. ASSUME NEW d \in Deliveries, Damage(d) PROVE Attempts
  BY <1>5, UnmovedAttempts DEF Damage, workVars
<1> QED
  BY <1>1, <1>2, <1>3, <1>4, <1>5 DEF Environment, PowerLoss, Crash

LEMMA AttemptsNext ==
    ASSUME TInv, [Next]_vars
    PROVE  Attempts
<1>1. CASE UNCHANGED vars
  BY <1>1, UnmovedAttempts DEF vars
<1> QED
  BY <1>1, SenderAttempts, SectionAttempts, WorkerAttempts, EnvironmentAttempts DEF Next

-----------------------------------------------------------------------------
(* The outcome of a delivery outlasts the attempts that are in flight      *)

\* The receipt found beside an attempt that goes on was there, or is written now
LEMMA ReceiptTimes ==
    ASSUME SectionInv, Effect, NEW c \in Deliveries,
           NEW w \in Workers, Attempting(w)', disk'.receipt[c] # None
    PROVE  \/ disk.receipt[c] # None /\ disk'.receipt[c].at = disk.receipt[c].at
           \/ disk'.receipt[c].at = now
<1> DEFINE Good == \/ disk.receipt[c] # None /\ disk'.receipt[c].at = disk.receipt[c].at
                   \/ disk'.receipt[c].at = now
<1> SUFFICES Good
  OBVIOUS
<1>0. disk \in Image
  BY DEF SectionInv, LInv, TInv, DirType
<1>1. CASE Quiet \/ Loses
  BY <1>1 DEF Quiet, Loses
<1>2. CASE Retouched
  BY <1>2 DEF Retouched, Alike
<1>3. ASSUME NEW d \in Deliveries, Unlinked(d) \/ \E e \in Entry : Published(d, e)
      PROVE  Good
  BY <1>0, <1>3 DEF Unlinked, Published, PutEntry, Write, Image
<1>4. ASSUME NEW d \in Deliveries, NEW st \in Terminal, Filed(d, st) PROVE Good
  <2> DEFINE r == ReceiptFor(d, st)
  <2>1. r.at = now
    BY DEF ReceiptFor
  <2>2. disk' = [disk EXCEPT !.receipt[d] = r]
    BY <1>4 DEF Filed, PutReceipt, Write
  <2> HIDE DEF r
  <2> QED
    BY <1>0, <2>1, <2>2 DEF Image
<1>5. ASSUME NEW d \in Deliveries, Purged(d) PROVE Good
  BY <1>0, <1>5 DEF Purged, PutReceipt, Write, Image
<1>6. ASSUME NEW d \in Deliveries, NEW b \in Bodies, Promises(d, b) \/ Takes(d, b)
      PROVE  Good
  BY <1>6 DEF Promises, Takes
<1> QED
  BY <1>1, <1>2, <1>3, <1>4, <1>5, <1>6 DEF Effect

LEMMA TimeNext ==
    ASSUME SectionInv, TimeInv, [Next]_vars
    PROVE  TimeInv'
<1>0. TInv /\ now \in Nat /\ HttpTimeout \in Nat
  BY BoundAssumption DEF SectionInv, LInv, TInv, CountType
<1>1. Effect /\ Attempts /\ (now' = now \/ Tick) /\ (Undisturbed' => Undisturbed)
  BY <1>0, EffectNext, AttemptsNext, ClockNext, Disturbances DEF TInv
<1> SUFFICES ASSUME NEW w \in Workers, Attempting(w)' PROVE Timed(w)'
  BY DEF TimeInv, Timed
<1>2. CASE Begun(w)
  <2> DEFINE h == job'[w].cur
  <2>1. /\ job'[w].since = now /\ h.id \in Deliveries
        /\ disk.entry[h.id] # None /\ cs.by = None /\ disk' = disk /\ now' = now
    BY <1>2 DEF Begun, Header
  <2>2. Undisturbed => disk.receipt[h.id] = None
    BY <2>1, Unlocked DEF Leftover
  <2> QED
    BY <1>0, <1>1, <2>1, <2>2 DEF Timed
<1>3. CASE Carried(w)
  <2>0. /\ Attempting(w) /\ job'[w].cur = job[w].cur /\ job'[w].since = job[w].since
        /\ Timed(w) /\ job[w].since \in Nat /\ job[w].cur.id \in Deliveries
    BY <1>0, <1>3 DEF Carried, TimeInv, TInv, LocalType, Job, Busy, Attempting, Header
  <2>1. job[w].since <= now /\ now <= job[w].since + HttpTimeout
    BY <2>0 DEF Timed
  <2>2. job'[w].since <= now' /\ now' <= job'[w].since + HttpTimeout
    <3>1. CASE now' = now
      BY <2>0, <2>1, <3>1
    <3>2. CASE Tick
      <4>1. now' = now + 1 /\ now - job[w].since < HttpTimeout
        BY <2>0, <3>2 DEF Tick, Attempting
      <4> QED
        BY <1>0, <2>0, <2>1, <4>1
    <3> QED
      BY <1>1, <3>1, <3>2
  <2>3. ASSUME Undisturbed', disk'.receipt[job[w].cur.id] # None
        PROVE  job[w].since <= disk'.receipt[job[w].cur.id].at
    <3>1. \/ /\ disk.receipt[job[w].cur.id] # None
             /\ disk'.receipt[job[w].cur.id].at = disk.receipt[job[w].cur.id].at
          \/ disk'.receipt[job[w].cur.id].at = now
      BY <1>1, <2>0, <2>3, ReceiptTimes
    <3> QED
      BY <1>1, <2>0, <2>1, <2>3, <3>1 DEF Timed
  <2> QED
    BY <2>0, <2>2, <2>3 DEF Timed
<1> QED
  BY <1>1, <1>2, <1>3 DEF Attempts

LEMMA TimeInit == Init => TimeInv
BY DEF Init, TimeInv, Timed, Attempting, Procs

\* Only a power loss and a purge take a receipt off the record
LEMMA OnlyPurged ==
    ASSUME SectionInv, Effect, kills' = kills, NEW c \in Deliveries,
           disk.receipt[c] # None, disk'.receipt[c] = None
    PROVE  c \in Purgeable
<1>0. disk \in Image /\ kills \in Nat
  BY DEF SectionInv, LInv, TInv, DirType, CountType
<1>1. CASE Quiet \/ Retouched \/ Loses
  BY <1>0, <1>1 DEF Quiet, Retouched, Alike, Loses
<1>2. ASSUME NEW d \in Deliveries, Unlinked(d) \/ \E e \in Entry : Published(d, e)
      PROVE  FALSE
  BY <1>0, <1>2 DEF Unlinked, Published, PutEntry, Write, Image
<1>3. ASSUME NEW d \in Deliveries, NEW st \in Terminal, Filed(d, st) PROVE FALSE
  <2> DEFINE r == ReceiptFor(d, st)
  <2>1. r # None
    BY <1>0, <1>3, ReceiptForType, NoneAssumption DEF SectionInv, LInv, TInv, CountType
  <2>2. disk' = [disk EXCEPT !.receipt[d] = r]
    BY <1>3 DEF Filed, PutReceipt, Write
  <2> HIDE DEF r
  <2> QED
    BY <1>0, <2>1, <2>2 DEF Image
<1>4. ASSUME NEW d \in Deliveries, Purged(d) PROVE c \in Purgeable
  <2>1. c = d
    BY <1>0, <1>4 DEF Purged, PutReceipt, Write, Image
  <2> QED
    BY <1>4, <2>1 DEF Purged
<1>5. ASSUME NEW d \in Deliveries, NEW b \in Bodies, Promises(d, b) \/ Takes(d, b)
      PROVE  FALSE
  BY <1>5 DEF Promises, Takes
<1> QED
  BY <1>1, <1>2, <1>3, <1>4, <1>5 DEF Effect

\* A receipt that is purged during its attempt is the oldest of too many, all
\* recorded since the attempt began
LEMMA PurgedInFlight ==
    ASSUME HttpTimeout < ReceiptRetention, SectionInv, TimeInv, Undisturbed,
           NEW w \in Workers, Attempting(w), job[w].cur.id \in Purgeable
    PROVE  Cardinality(RecordedSince(w)) > MaxReceipts
<1> DEFINE c == job[w].cur.id
           t == job[w].since
<1>0. disk \in Image /\ now \in Nat /\ t \in Nat
  BY DEF SectionInv, LInv, TInv, DirType, CountType, LocalType, Job
<1>1. c \in Receipts
  BY DEF Purgeable
<1>2. \A d \in Receipts : disk.receipt[d].at \in Nat
  BY <1>0 DEF Receipts, Image, Receipt
<1>3. t <= disk.receipt[c].at /\ now <= t + HttpTimeout
  BY <1>1 DEF TimeInv, Timed, Receipts
<1>4. ~Aged(c)
  BY <1>0, <1>1, <1>2, <1>3, BoundAssumption DEF Aged
<1>5. /\ Cardinality(Receipts) > MaxReceipts
      /\ \A e \in Receipts : disk.receipt[c].at <= disk.receipt[e].at
  BY <1>4 DEF Purgeable
<1>6. RecordedSince(w) = Receipts
  BY <1>0, <1>1, <1>2, <1>3, <1>5 DEF RecordedSince
<1> QED
  BY <1>5, <1>6

\* In every behaviour, as long as nothing died: the receipt of a delivery
\* outlasts an attempt of it, unless more than MAX_RECEIPTS outcomes are
\* recorded during that attempt.  Maintenance purges the aged first, then the
\* oldest, and an attempt is shorter than the retention.
THEOREM ReceiptsOutlast ==
    ASSUME HttpTimeout < ReceiptRetention
    PROVE  Spec => ReceiptsOutlastAttempts
<1>1. SectionInv /\ TimeInv /\ [Next]_vars =>
        [\A w \in Workers :
           /\ Undisturbed' /\ Attempting(w)
           /\ disk.receipt[job[w].cur.id] # None /\ disk'.receipt[job[w].cur.id] = None
           => Cardinality(RecordedSince(w)) > MaxReceipts]_vars
  <2> SUFFICES ASSUME SectionInv, TimeInv, [Next]_vars, NEW w \in Workers,
                      Undisturbed', Attempting(w),
                      disk.receipt[job[w].cur.id] # None, disk'.receipt[job[w].cur.id] = None
               PROVE  Cardinality(RecordedSince(w)) > MaxReceipts
    OBVIOUS
  <2>1. /\ Undisturbed /\ kills' = kills /\ job[w].cur.id \in Deliveries
    BY Disturbances DEF SectionInv, LInv, TInv, Undisturbed, Busy, Attempting, Header
  <2>2. job[w].cur.id \in Purgeable
    BY <2>1, EffectNext, OnlyPurged
  <2> QED
    BY <2>1, <2>2, PurgedInFlight
<1>2. SectionInv /\ TimeInv /\ [Next]_vars => SectionInv' /\ TimeInv'
  BY SectionNext, TimeNext
<1>3. Init => SectionInv /\ TimeInv
  BY SectionInit, TimeInit
<1> QED
  BY <1>1, <1>2, <1>3, PTL DEF Spec, ReceiptsOutlastAttempts

\* So that no purge touches an attempt while nothing dies and the pace is moderate
LEMMA PaceSpares ==
    ASSUME HttpTimeout < ReceiptRetention
    PROVE  Spec /\ []Undisturbed /\ []FewOutcomes => PurgesSpareAttempts
<1>1. /\ Undisturbed /\ Undisturbed' /\ FewOutcomes
      /\ [\A w \in Workers :
            /\ Undisturbed' /\ Attempting(w)
            /\ disk.receipt[job[w].cur.id] # None /\ disk'.receipt[job[w].cur.id] = None
            => Cardinality(RecordedSince(w)) > MaxReceipts]_vars
      => [\A w \in Workers :
            /\ Attempting(w) /\ Attempting(w)'
            /\ disk.receipt[job[w].cur.id] # None
            => disk'.receipt[job[w].cur.id] # None]_vars
  BY DEF FewOutcomes
<1> QED
  BY <1>1, ReceiptsOutlast, PTL DEF ReceiptsOutlastAttempts, PurgesSpareAttempts

-----------------------------------------------------------------------------
(* The invariant is inductive                                              *)

\* Every effect only adds to what the server took
LEMMA ServerKeeps ==
    ASSUME Effect
    PROVE  received \subseteq received'
BY DEF Effect, Quiet, Retouched, Loses, Unlinked, Published, Filed, Purged, Promises, Takes,
       Ghosts

\* A worker that files `acknowledged' has the entry's own bytes acknowledged
LEMMA AnswersAreEarned ==
    ASSUME PInv, NEW d \in Deliveries, NEW st \in Terminal, Filed(d, st)
    PROVE  Earned(d, st)
<1> SUFFICES ASSUME st = "acknowledged"
             PROVE  disk.entry[d] # None /\ <<d, disk.entry[d].body>> \in received
  BY DEF Earned
<1>1. PICK w \in Workers : /\ pc[w] = "file" /\ job[w].cur.id = d /\ job[w].result = st
                          /\ disk.entry[d] # None
  BY DEF Filed
<1>2. InFlight(w) /\ AnswerReal(w)
  BY DEF PInv, WorkInv
<1> QED
  BY <1>1, <1>2 DEF InFlight, AnswerReal, Attempting

\* A faithful image is written
LEMMA FaithfulWrite ==
    ASSUME PInv, durable' = durable \cup {disk'}, Ghosts, Faithful(disk')
    PROVE  DirInv'
<1>1. OnePromise'
  BY DEF PInv, DirInv, OnePromise, Ghosts
<1>2. \A image \in durable' : Faithful(image)
  BY DEF PInv, DirInv
<1>3. \A image \in durable' : Faithful(image)'
  BY <1>2 DEF Faithful, Ghosts
<1> QED
  BY <1>1, <1>3 DEF DirInv

LEMMA DirNext ==
    ASSUME PInv, Effect
    PROVE  DirInv'
<1>0. /\ disk \in Image /\ disk \in durable /\ Faithful(disk) /\ Safe(disk) /\ OnePromise
      /\ \A image \in durable : Faithful(image)
      /\ promised \subseteq Deliveries \X Bodies
      /\ now \in Nat
  BY DEF PInv, SectionInv, LInv, TInv, DirType, DurSafe, DirInv, GhostType, CountType
<1>1. CASE Quiet \/ Loses
  BY <1>0, <1>1 DEF Quiet, Loses, DirInv, OnePromise, Faithful, Ghosts
<1>2. CASE Retouched
  <2>1. Faithful(disk')
    BY <1>0, <1>2 DEF Retouched, Alike, Faithful
  <2> QED
    BY <1>2, <2>1, FaithfulWrite DEF Retouched
<1>3. ASSUME NEW d \in Deliveries, Unlinked(d) PROVE DirInv'
  <2>1. Faithful(disk')
    BY <1>0, <1>3 DEF Unlinked, PutEntry, Write, Image, Faithful
  <2> QED
    BY <1>3, <2>1, FaithfulWrite DEF Unlinked, PutEntry, Write
<1>4. ASSUME NEW d \in Deliveries, NEW e \in Entry, Published(d, e) PROVE DirInv'
  <2>1. \A p \in promised : p[1] # d
    BY <1>0, <1>4 DEF Published, Unknown, Safe, Accounts
  <2>2. Faithful(disk')
    BY <1>0, <1>4, <2>1 DEF Published, PutEntry, Write, Image, Faithful
  <2> QED
    BY <1>4, <2>2, FaithfulWrite DEF Published, PutEntry, Write
<1>5. ASSUME NEW d \in Deliveries, NEW st \in Terminal, Filed(d, st) PROVE DirInv'
  <2> DEFINE r == ReceiptFor(d, st)
  <2>1. Earned(d, st)
    BY <1>5, AnswersAreEarned
  <2>2. r.status = st /\ (disk.entry[d] # None => r.of = disk.entry[d].body)
    BY DEF ReceiptFor
  <2>3. disk' = [disk EXCEPT !.receipt[d] = r] /\ durable' = durable \cup {disk'} /\ Ghosts
    BY <1>5 DEF Filed, PutReceipt, Write
  <2> HIDE DEF r
  <2>4. /\ disk'.entry = disk.entry /\ disk'.receipt[d] = r
        /\ \A c \in Deliveries : c # d => disk'.receipt[c] = disk.receipt[c]
    BY <1>0, <2>3 DEF Image
  <2>5. ASSUME NEW p \in promised, p[1] = d, st = "acknowledged" PROVE p \in received
    <3>1. p = <<d, disk.entry[d].body>>
      BY <1>0, <2>1, <2>5 DEF Earned, Faithful
    <3> QED
      BY <2>1, <2>5, <3>1 DEF Earned
  <2>6. ASSUME NEW p \in promised
        PROVE  /\ disk'.entry[p[1]] # None => disk'.entry[p[1]].body = p[2]
               /\ disk'.receipt[p[1]] # None /\ disk'.receipt[p[1]].status = "acknowledged"
                    => p \in received
    BY <1>0, <2>2, <2>4, <2>5 DEF Faithful
  <2>7. ASSUME NEW c \in Deliveries, disk'.receipt[c] # None,
               disk'.receipt[c].status = "acknowledged"
        PROVE  <<c, disk'.receipt[c].of>> \in received
    BY <1>0, <2>1, <2>2, <2>4, <2>7 DEF Faithful, Earned
  <2>8. Faithful(disk')
    BY <2>6, <2>7 DEF Faithful
  <2> QED
    BY <2>3, <2>8, FaithfulWrite
<1>6. ASSUME NEW d \in Deliveries, Purged(d) PROVE DirInv'
  <2>1. /\ disk' = [disk EXCEPT !.receipt[d] = None] /\ durable' = durable \cup {disk'}
        /\ promised' \subseteq promised /\ received' = received
    BY <1>6 DEF Purged, PutReceipt, Write
  <2>2. Faithful(disk')
    BY <1>0, <2>1 DEF Image, Faithful
  <2>3. \A image \in durable' : Faithful(image)'
    BY <1>0, <2>1, <2>2 DEF Faithful
  <2> QED
    BY <1>0, <2>1, <2>3 DEF DirInv, OnePromise
<1>7. ASSUME NEW d \in Deliveries, NEW b \in Bodies, Promises(d, b) PROVE DirInv'
  <2>1. \A p \in promised : p[1] = d => p = <<d, b>>
    BY <1>0, <1>7 DEF Promises, Faithful
  <2>2. OnePromise'
    BY <1>0, <1>7, <2>1 DEF Promises, OnePromise
  <2>3. Faithful(disk)'
    BY <1>0, <1>7 DEF Promises, Faithful
  <2> QED
    BY <1>7, <2>2, <2>3 DEF Promises, DirInv
<1>8. ASSUME NEW d \in Deliveries, NEW b \in Bodies, Takes(d, b) PROVE DirInv'
  BY <1>0, <1>8 DEF Takes, DirInv, OnePromise, Faithful
<1> QED
  BY <1>1, <1>2, <1>3, <1>4, <1>5, <1>6, <1>7, <1>8 DEF Effect

\* The step of PurgesSpareAttempts
Spared ==
    \A w \in Workers :
        /\ Attempting(w) /\ Attempting(w)'
        /\ disk.receipt[job[w].cur.id] # None
        => disk'.receipt[job[w].cur.id] # None

\* What the directory says of an attempt that goes on
LEMMA AttemptGoesOn ==
    ASSUME PInv, Effect, NEW w \in Workers, Attempting(w), Attempting(w)',
           disk.receipt[job[w].cur.id] # None => disk'.receipt[job[w].cur.id] # None
    PROVE  LET d == job[w].cur.id IN
           /\ disk'.entry[d] # None => disk'.entry[d].body = job[w].cur.body
           /\ disk'.entry[d] = None => disk'.receipt[d] # None
<1> DEFINE c == job[w].cur.id
           b == job[w].cur.body
           Good == /\ disk'.entry[c] # None => disk'.entry[c].body = b
                   /\ disk'.entry[c] = None => disk'.receipt[c] # None
<1>0. /\ disk \in Image /\ c \in Deliveries /\ now \in Nat
      /\ disk.receipt[c] # None => disk'.receipt[c] # None
      /\ disk.entry[c] # None => disk.entry[c].body = b
      /\ disk.entry[c] = None => disk.receipt[c] # None
  BY DEF PInv, SectionInv, LInv, TInv, DirType, CountType, WorkInv, InFlight, Busy, Attempting,
         Header
<1> SUFFICES Good
  OBVIOUS
<1> HIDE DEF c, b
<1>1. CASE Quiet
  BY <1>0, <1>1 DEF Quiet
<1>2. CASE Retouched
  BY <1>0, <1>2 DEF Retouched, Alike
<1>3. CASE Loses
  BY <1>3 DEF Loses
<1>4. ASSUME NEW d \in Deliveries, Unlinked(d) PROVE Good
  BY <1>0, <1>4 DEF Unlinked, PutEntry, Write, Image
<1>5. ASSUME NEW d \in Deliveries, NEW e \in Entry, Published(d, e) PROVE Good
  <2>1. c # d
    BY <1>0, <1>5 DEF Published, Unknown
  <2> QED
    BY <1>0, <1>5, <2>1 DEF Published, PutEntry, Write, Image
<1>6. ASSUME NEW d \in Deliveries, NEW st \in Terminal, Filed(d, st) PROVE Good
  <2> DEFINE r == ReceiptFor(d, st)
  <2>1. r.at = now /\ r # None
    BY <1>0, ReceiptForType, NoneAssumption DEF ReceiptFor
  <2>2. disk' = [disk EXCEPT !.receipt[d] = r]
    BY <1>6 DEF Filed, PutReceipt, Write
  <2> HIDE DEF r
  <2> QED
    BY <1>0, <2>1, <2>2 DEF Image
<1>7. ASSUME NEW d \in Deliveries, Purged(d) PROVE Good
  BY <1>0, <1>7 DEF Purged, PutReceipt, Write, Image
<1>8. ASSUME NEW d \in Deliveries, NEW body \in Bodies, Promises(d, body) \/ Takes(d, body)
      PROVE  Good
  BY <1>0, <1>8 DEF Promises, Takes
<1> QED
  BY <1>1, <1>2, <1>3, <1>4, <1>5, <1>6, <1>7, <1>8 DEF Effect

LEMMA WorkNext ==
    ASSUME PInv, [Next]_vars, Spared \/ UNCHANGED vars
    PROVE  WorkInv'
<1>0. SectionInv /\ TInv
  BY DEF PInv, SectionInv, LInv
<1>1. Effect /\ Attempts
  BY <1>0, EffectNext, AttemptsNext
<1> SUFFICES ASSUME NEW w \in Workers, Attempting(w)' PROVE InFlight(w)' /\ AnswerReal(w)'
  BY DEF WorkInv, InFlight, AnswerReal, Attempting
<1>2. CASE Begun(w)
  BY <1>2 DEF Begun, Header, InFlight, AnswerReal
<1>3. CASE Carried(w)
  <2>1. /\ Attempting(w) /\ job'[w].cur = job[w].cur
        /\ InFlight(w) /\ AnswerReal(w) /\ job[w].cur.id \in Deliveries
    BY <1>0, <1>3 DEF Carried, PInv, WorkInv, TInv, Busy, Attempting, Header
  <2>2. disk.receipt[job[w].cur.id] # None => disk'.receipt[job[w].cur.id] # None
    BY <2>1 DEF Spared, vars
  <2>3. InFlight(w)'
    BY <1>1, <2>1, <2>2, AttemptGoesOn DEF InFlight
  <2>4. AnswerReal(w)'
    BY <1>1, <1>3, <2>1, ServerKeeps DEF AnswerReal, Carried
  <2> QED
    BY <2>3, <2>4
<1> QED
  BY <1>1, <1>2, <1>3 DEF Attempts

LEMMA PromisesNext ==
    ASSUME PInv, [Next]_vars, Spared \/ UNCHANGED vars
    PROVE  PInv'
<1>1. SectionInv' /\ TimeInv'
  BY SectionNext, TimeNext DEF PInv
<1>2. DirInv'
  BY EffectNext, DirNext DEF PInv
<1> QED
  BY <1>1, <1>2, WorkNext DEF PInv

LEMMA PromisesInit == Init => PInv
<1> SUFFICES ASSUME Init PROVE PInv
  OBVIOUS
<1>1. SectionInv /\ TimeInv
  BY SectionInit, TimeInit
<1>2. DirInv
  BY DEF Init, DirInv, OnePromise, Faithful
<1>3. WorkInv
  BY DEF Init, WorkInv, InFlight, AnswerReal, Attempting, Procs
<1> QED
  BY <1>1, <1>2, <1>3 DEF PInv

\* An acknowledgment on record is true: the server took the very bytes that
\* the receipt replaced, although _batch() sends them outside the lock and
\* files the answer under the id alone, in every behaviour, deaths and faults
\* included, in which no receipt is purged during the attempt that it answers.
THEOREM AcknowledgmentsAreReal == Spec /\ PurgesSpareAttempts => []AckIsReal
<1>1. PInv /\ [Next]_vars /\ [Spared]_vars => PInv'
  BY PromisesNext
<1>2. PInv => AckIsReal
  BY DEF PInv, SectionInv, LInv, DurSafe, DirInv, Faithful, AckIsReal, Receipts
<1>3. PurgesSpareAttempts => [][Spared]_vars
  BY PTL DEF PurgesSpareAttempts, Spared
<1> QED
  BY <1>1, <1>2, <1>3, PromisesInit, PTL DEF Spec

\* The same from the limits alone, while nothing dies: an attempt is shorter than
\* the retention of receipts, and no more than MAX_RECEIPTS outcomes are recorded
\* during an attempt.  Purges by age and by number go on meanwhile.
THEOREM AcknowledgmentsAtPace ==
    ASSUME HttpTimeout < ReceiptRetention
    PROVE  Spec /\ []Undisturbed /\ []FewOutcomes => []AckIsReal
BY PaceSpares, AcknowledgmentsAreReal, PTL

-----------------------------------------------------------------------------
(* The buffer implements the ledger                                        *)

\* The line of d in an image, given the promises made (Line(d) is that of the
\* directory and of the promises so far)
Blank == [body |-> None, state |-> "none"]

StateIn(image, d) == IF image.receipt[d] # None THEN image.receipt[d].status ELSE "owed"

LineIn(image, made, d) ==
    IF \A b \in Bodies : <<d, b>> \notin made
    THEN Blank
    ELSE LET b == CHOOSE c \in Bodies : <<d, c>> \in made IN
         [body  |-> b,
          state |-> IF image.receipt[d] # None THEN image.receipt[d].status
                    ELSE IF image.entry[d] # None /\ image.entry[d].body = b
                    THEN "owed" ELSE "lost"]

LEMMA LineNow == \A d : Line(d) = LineIn(disk, promised, d)
BY DEF Line, LineIn, Blank

LEMMA LineThen == \A d : Line(d)' = LineIn(disk', promised', d)
BY DEF Line, LineIn, Blank

LEMMA LineBlank ==
    ASSUME NEW image, NEW made, NEW d, \A b \in Bodies : <<d, b>> \notin made
    PROVE  LineIn(image, made, d) = Blank
BY DEF LineIn

\* The line of a promise that the image accounts for
LEMMA LineKept ==
    ASSUME NEW image, NEW made, NEW d, NEW b \in Bodies, <<d, b>> \in made,
           \A c \in Bodies : <<d, c>> \in made => c = b,
           Accounts(image, d, b)
    PROVE  LineIn(image, made, d) = [body |-> b, state |-> StateIn(image, d)]
<1>1. (CHOOSE c \in Bodies : <<d, c>> \in made) = b
  OBVIOUS
<1>2. (IF image.receipt[d] # None THEN image.receipt[d].status
       ELSE IF image.entry[d] # None /\ image.entry[d].body = b THEN "owed" ELSE "lost")
        = StateIn(image, d)
  BY DEF StateIn, Accounts
<1> QED
  BY <1>1, <1>2 DEF LineIn

\* What the invariant says of the lines, before a step and after it
LEMMA LinesNow ==
    ASSUME PInv, NEW d \in Deliveries
    PROVE  \/ /\ \A b \in Bodies : <<d, b>> \notin promised
              /\ Line(d) = Blank
           \/ \E b \in Bodies :
                /\ <<d, b>> \in promised
                /\ \A c \in Bodies : <<d, c>> \in promised => c = b
                /\ Line(d) = [body |-> b, state |-> StateIn(disk, d)]
<1>0. OnePromise /\ Safe(disk)
  BY DEF PInv, DirInv, SectionInv, LInv, DurSafe
<1>1. CASE \A b \in Bodies : <<d, b>> \notin promised
  BY <1>1, LineBlank, LineNow
<1>2. ASSUME NEW b \in Bodies, <<d, b>> \in promised
      PROVE  /\ \A c \in Bodies : <<d, c>> \in promised => c = b
             /\ Line(d) = [body |-> b, state |-> StateIn(disk, d)]
  <2>1. \A c \in Bodies : <<d, c>> \in promised => c = b
    BY <1>0, <1>2 DEF OnePromise
  <2>2. Accounts(disk, d, b)
    BY <1>0, <1>2 DEF Safe
  <2> QED
    BY <1>2, <2>1, <2>2, LineKept, LineNow
<1> QED
  BY <1>1, <1>2

LEMMA LinesThen ==
    ASSUME PInv', NEW d \in Deliveries
    PROVE  \/ /\ \A b \in Bodies : <<d, b>> \notin promised'
              /\ Line(d)' = Blank
           \/ \E b \in Bodies :
                /\ <<d, b>> \in promised'
                /\ \A c \in Bodies : <<d, c>> \in promised' => c = b
                /\ Line(d)' = [body |-> b, state |-> StateIn(disk', d)]
<1>0. OnePromise' /\ Safe(disk)'
  BY DEF PInv, DirInv, SectionInv, LInv, DurSafe
<1>1. CASE \A b \in Bodies : <<d, b>> \notin promised'
  BY <1>1, LineBlank, LineThen
<1>2. ASSUME NEW b \in Bodies, <<d, b>> \in promised'
      PROVE  /\ \A c \in Bodies : <<d, c>> \in promised' => c = b
             /\ Line(d)' = [body |-> b, state |-> StateIn(disk', d)]
  <2>1. \A c \in Bodies : <<d, c>> \in promised' => c = b
    BY <1>0, <1>2 DEF OnePromise
  <2>2. Accounts(disk', d, b)
    BY <1>0, <1>2 DEF Safe, Accounts
  <2> QED
    BY <1>2, <2>1, <2>2, LineKept, LineThen
<1> QED
  BY <1>1, <1>2

\* A line whose promise and outcome stay
LEMMA LineStays ==
    ASSUME PInv, PInv', NEW d \in Deliveries,
           \A b \in Bodies : <<d, b>> \in promised' <=> <<d, b>> \in promised,
           StateIn(disk', d) = StateIn(disk, d) \/ \A b \in Bodies : <<d, b>> \notin promised
    PROVE  Line(d)' = Line(d)
BY LinesNow, LinesThen

Lines == [d \in Deliveries |-> Line(d)]

\* All lines but that of d stay
LEMMA OneLine ==
    ASSUME NEW d \in Deliveries, NEW line, Line(d)' = line,
           \A c \in Deliveries : c # d => Line(c)' = Line(c)
    PROVE  Lines' = [Lines EXCEPT ![d] = line]
<1>1. Lines' = [c \in Deliveries |-> Line(c)']
  BY DEF Lines
<1>2. ASSUME NEW c \in Deliveries PROVE Line(c)' = IF c = d THEN line ELSE Line(c)
  OBVIOUS
<1> QED
  BY <1>1, <1>2 DEF Lines

LEMMA AllLines ==
    ASSUME \A c \in Deliveries : Line(c)' = Line(c)
    PROVE  Lines' = Lines
BY DEF Lines

\* The steps of Outbox, on the lines of the directory
LedgerStep ==
    \/ \E d \in Deliveries :
        \/ \E b \in Bodies :
            \/ /\ Lines[d] = Blank
               /\ Lines' = [Lines EXCEPT ![d] = [body |-> b, state |-> "owed"]]
               /\ received' = received
            \/ Lines' = Lines /\ received' = received \cup {<<d, b>>}
        \/ \E status \in Terminal :
            /\ Lines[d] # Blank
            /\ status = "acknowledged" => <<d, Lines[d].body>> \in received
            /\ Lines' = [Lines EXCEPT ![d].state = status]
            /\ received' = received
        \/ /\ Lines[d].state \in Terminal
           /\ Lines' = [Lines EXCEPT ![d] = Blank]
           /\ received' = received
    \/ Ledger!Recover

LedgerStutter == Lines' = Lines /\ received' = received

LEMMA PromiseStep ==
    ASSUME PInv, PInv', NEW d \in Deliveries, NEW b \in Bodies, Promises(d, b)
    PROVE  LedgerStep \/ LedgerStutter
<1>0. Faithful(disk)
  BY DEF PInv, SectionInv, LInv, DurSafe, DirInv
<1>1. /\ disk.receipt[d] = None /\ disk' = disk /\ received' = received
      /\ promised' = promised \cup {<<d, b>>}
      /\ \A c \in Bodies : <<d, c>> \in promised => c = b
  BY <1>0 DEF Promises, Faithful
<1>2. CASE <<d, b>> \in promised
  <2>1. promised' = promised
    BY <1>1, <1>2
  <2>2. \A c \in Deliveries : Line(c)' = Line(c)
    BY <1>1, <2>1, LineStays
  <2> QED
    BY <1>1, <2>2, AllLines DEF LedgerStutter
<1>3. CASE <<d, b>> \notin promised
  <2>1. Line(d) = Blank
    BY <1>1, <1>3, LinesNow
  <2>2. Line(d)' = [body |-> b, state |-> StateIn(disk', d)]
    BY <1>1, <1>3, LinesThen
  <2>3. StateIn(disk', d) = "owed"
    BY <1>1 DEF StateIn
  <2>4. \A c \in Deliveries : c # d => Line(c)' = Line(c)
    BY <1>1, LineStays
  <2>5. Lines' = [Lines EXCEPT ![d] = [body |-> b, state |-> "owed"]]
    BY <2>2, <2>3, <2>4, OneLine
  <2> QED
    BY <1>1, <2>1, <2>5 DEF LedgerStep, Lines
<1> QED
  BY <1>2, <1>3

LEMMA EndStep ==
    ASSUME PInv, PInv', NEW d \in Deliveries, NEW st \in Terminal, Filed(d, st)
    PROVE  LedgerStep \/ LedgerStutter
<1>0. /\ disk \in Image /\ now \in Nat /\ Faithful(disk)
  BY DEF PInv, SectionInv, LInv, TInv, DirType, CountType, DurSafe, DirInv
<1> DEFINE r == ReceiptFor(d, st)
<1>1. r.status = st /\ r # None
  BY <1>0, ReceiptForType, NoneAssumption DEF ReceiptFor
<1>2. disk' = [disk EXCEPT !.receipt[d] = r] /\ received' = received /\ promised' = promised
  BY DEF Filed, PutReceipt, Write, Ghosts
<1> HIDE DEF r
<1>3. StateIn(disk', d) = st /\ \A c \in Deliveries : c # d => StateIn(disk', c) = StateIn(disk, c)
  BY <1>0, <1>1, <1>2 DEF Image, StateIn
<1>4. \A c \in Deliveries : c # d => Line(c)' = Line(c)
  BY <1>2, <1>3, LineStays
<1>5. CASE \A b \in Bodies : <<d, b>> \notin promised
  <2>1. Line(d)' = Line(d)
    BY <1>2, <1>5, LineStays
  <2> QED
    BY <1>2, <1>4, <2>1, AllLines DEF LedgerStutter
<1>6. ASSUME NEW b \in Bodies, <<d, b>> \in promised PROVE LedgerStep
  <2>1. Line(d) = [body |-> b, state |-> StateIn(disk, d)]
    BY <1>6, LinesNow
  <2>2. Line(d)' = [body |-> b, state |-> st]
    BY <1>2, <1>3, <1>6, LinesThen
  <2>3. Lines' = [Lines EXCEPT ![d] = [body |-> b, state |-> st]]
    BY <1>4, <2>2, OneLine
  <2>4. Lines[d] = [body |-> b, state |-> StateIn(disk, d)]
    BY <2>1 DEF Lines
  <2>5. [Lines[d] EXCEPT !.state = st] = [body |-> b, state |-> st]
    BY <2>4
  <2>6. [Lines EXCEPT ![d].state = st] = [Lines EXCEPT ![d] = [body |-> b, state |-> st]]
    BY <2>5
  <2>7. Lines[d] # Blank
    <3>1. b # None /\ Lines[d].body = b
      BY <2>4, NoneAssumption
    <3> QED
      BY <3>1 DEF Blank
  <2>8. st = "acknowledged" => <<d, Lines[d].body>> \in received
    <3>1. Earned(d, st)
      BY AnswersAreEarned
    <3>2. disk.entry[d] # None => disk.entry[d].body = b
      BY <1>0, <1>6 DEF Faithful
    <3> QED
      BY <2>4, <3>1, <3>2 DEF Earned
  <2> QED
    BY <1>2, <2>3, <2>6, <2>7, <2>8 DEF LedgerStep
<1> QED
  BY <1>5, <1>6

LEMMA ForgetStep ==
    ASSUME PInv, PInv', NEW d \in Deliveries, Purged(d)
    PROVE  LedgerStep \/ LedgerStutter
<1>0. /\ disk \in Image /\ promised \subseteq Deliveries \X Bodies
  BY DEF PInv, SectionInv, LInv, TInv, DirType, GhostType
<1>1. /\ disk' = [disk EXCEPT !.receipt[d] = None] /\ received' = received
      /\ promised' = promised \ ({d} \X Bodies)
  BY DEF Purged, PutReceipt, Write
<1>2. disk.receipt[d] # None /\ disk.receipt[d].status \in Terminal
  BY <1>0 DEF Purged, Purgeable, Receipts, Image, Receipt
<1>3. ASSUME NEW c \in Deliveries, c # d PROVE Line(c)' = Line(c)
  <2>1. StateIn(disk', c) = StateIn(disk, c)
    BY <1>0, <1>1, <1>3 DEF Image, StateIn
  <2>2. \A b \in Bodies : <<c, b>> \in promised' <=> <<c, b>> \in promised
    BY <1>1, <1>3
  <2> QED
    BY <2>1, <2>2, LineStays
<1>4. Line(d)' = Blank
  <2>1. \A b \in Bodies : <<d, b>> \notin promised'
    BY <1>1
  <2> QED
    BY <2>1, LinesThen
<1>5. CASE \A b \in Bodies : <<d, b>> \notin promised
  <2>1. Line(d)' = Line(d)
    BY <1>4, <1>5, LinesNow
  <2> QED
    BY <1>1, <1>3, <2>1, AllLines DEF LedgerStutter
<1>6. ASSUME NEW b \in Bodies, <<d, b>> \in promised PROVE LedgerStep
  <2>1. Line(d) = [body |-> b, state |-> disk.receipt[d].status]
    BY <1>2, <1>6, LinesNow DEF StateIn
  <2>2. Lines[d].state \in Terminal
    BY <1>2, <2>1 DEF Lines
  <2>3. Lines' = [Lines EXCEPT ![d] = Blank]
    BY <1>3, <1>4, OneLine
  <2> QED
    BY <1>1, <2>2, <2>3 DEF LedgerStep
<1> QED
  BY <1>5, <1>6

LEMMA RecoverStep ==
    ASSUME PInv, PInv', Loses
    PROVE  LedgerStep
<1>0. /\ disk' \in durable /\ received' = received /\ promised' = promised
      /\ disk' \in Image /\ Faithful(disk')
  BY DEF Loses, Ghosts, PInv, SectionInv, LInv, TInv, DirType, DirInv
<1>1. ASSUME NEW d \in Deliveries
      PROVE  /\ Line(d)' \in [body : Bodies \cup {None}, state : Terminal \cup {"none", "owed"}]
             /\ Line(d)'.body = Line(d).body
             /\ \/ Line(d)'.state \in {Line(d).state, "owed"}
                \/ /\ Line(d)'.state \in Terminal
                   /\ Line(d)'.state = "acknowledged" => <<d, Line(d).body>> \in received
             /\ Line(d) = Blank => Line(d)' = Blank
  <2>1. CASE \A b \in Bodies : <<d, b>> \notin promised
    <3>1. Line(d) = Blank /\ Line(d)' = Blank
      BY <1>0, <2>1, LinesNow, LinesThen
    <3> QED
      BY <3>1 DEF Blank
  <2>2. ASSUME NEW b \in Bodies, <<d, b>> \in promised
        PROVE  /\ Line(d) = [body |-> b, state |-> StateIn(disk, d)]
               /\ Line(d)' = [body |-> b, state |-> StateIn(disk', d)]
               /\ StateIn(disk', d) \in Terminal \cup {"owed"}
               /\ StateIn(disk', d) = "acknowledged" => <<d, b>> \in received
               /\ b # None
    <3>1. /\ Line(d) = [body |-> b, state |-> StateIn(disk, d)]
          /\ Line(d)' = [body |-> b, state |-> StateIn(disk', d)]
      BY <1>0, <2>2, LinesNow, LinesThen
    <3>2. StateIn(disk', d) \in Terminal \cup {"owed"}
      BY <1>0 DEF Image, Receipt, StateIn
    <3>3. StateIn(disk', d) = "acknowledged" => <<d, b>> \in received
      BY <1>0, <2>2 DEF Faithful, StateIn
    <3> QED
      BY <3>1, <3>2, <3>3, NoneAssumption
  <2>3. CASE \E b \in Bodies : <<d, b>> \in promised
    <3>1. PICK b \in Bodies : <<d, b>> \in promised
      BY <2>3
    <3> DEFINE x == StateIn(disk, d)
               y == StateIn(disk', d)
    <3>2. /\ Line(d) = [body |-> b, state |-> x] /\ Line(d)' = [body |-> b, state |-> y]
          /\ y \in Terminal \cup {"owed"} /\ (y = "acknowledged" => <<d, b>> \in received)
          /\ b # None
      BY <2>2, <3>1
    <3> HIDE DEF x, y
    <3>3. Line(d) # Blank
      BY <3>2 DEF Blank
    <3> QED
      BY <3>2, <3>3
  <2> QED
    BY <2>1, <2>3
<1>2. Ledger!Recover
  BY <1>0, <1>1 DEF Ledger!Recover, Ledger!MayEnd, Ledger!Clear, Blank
<1> QED
  BY <1>2 DEF LedgerStep

\* Every effect is a step of the ledger, or leaves it as it is
LEMMA LedgerNext ==
    ASSUME PInv, PInv', Effect
    PROVE  LedgerStep \/ LedgerStutter
<1>0. /\ disk \in Image /\ promised \subseteq Deliveries \X Bodies /\ Safe(disk)
  BY DEF PInv, SectionInv, LInv, TInv, DirType, GhostType, DurSafe
<1>1. CASE Quiet
  <2>1. \A c \in Deliveries : Line(c)' = Line(c)
    BY <1>1, LineStays DEF Quiet, Ghosts
  <2> QED
    BY <1>1, <2>1, AllLines DEF LedgerStutter, Quiet, Ghosts
<1>2. CASE Retouched
  <2>1. \A c \in Deliveries : StateIn(disk', c) = StateIn(disk, c)
    BY <1>2 DEF Retouched, Alike, StateIn
  <2>2. \A c \in Deliveries : Line(c)' = Line(c)
    BY <1>2, <2>1, LineStays DEF Retouched, Ghosts
  <2> QED
    BY <1>2, <2>2, AllLines DEF LedgerStutter, Retouched, Ghosts
<1>3. ASSUME NEW d \in Deliveries, Unlinked(d) \/ \E e \in Entry : Published(d, e)
      PROVE  LedgerStutter
  <2>1. disk'.receipt = disk.receipt /\ Ghosts
    BY <1>0, <1>3 DEF Unlinked, Published, PutEntry, Write, Image
  <2>2. \A c \in Deliveries : Line(c)' = Line(c)
    BY <2>1, LineStays DEF Ghosts, StateIn
  <2> QED
    BY <2>1, <2>2, AllLines DEF LedgerStutter, Ghosts
<1>4. ASSUME NEW d \in Deliveries, NEW b \in Bodies, Takes(d, b) PROVE LedgerStep
  <2>1. \A c \in Deliveries : Line(c)' = Line(c)
    BY <1>4, LineStays DEF Takes
  <2>2. Lines' = Lines
    BY <2>1, AllLines
  <2> QED
    BY <1>4, <2>2 DEF LedgerStep, Takes
<1> QED
  BY <1>1, <1>2, <1>3, <1>4, PromiseStep, EndStep, ForgetStep, RecoverStep DEF Effect

\* The delivery buffer implements the ledger of Outbox: every step of a hook, a
\* worker, the clock or a failure is a promise made, a payload taken, an outcome
\* recorded or forgotten, a recovery, or nothing, in every behaviour in which no
\* receipt is purged during the attempt that it answers.
THEOREM BufferImplementsOutbox == Spec /\ PurgesSpareAttempts => PromisesAreKept
<1>1. Init => Ledger!Init
  <2> SUFFICES ASSUME Init PROVE Ledger!Init
    OBVIOUS
  <2>1. \A d \in Deliveries : Line(d) = Blank
    BY LineNow, LineBlank DEF Init
  <2> QED
    BY <2>1 DEF Init, Ledger!Init, Ledger!Clear, Blank
<1>2. PInv /\ [Next]_vars /\ [Spared]_vars => PInv'
  BY PromisesNext
<1>3. PInv /\ PInv' /\ [Next]_vars => [Ledger!Next]_<<[d \in Deliveries |-> Line(d)], received>>
  <2> SUFFICES ASSUME PInv, PInv', [Next]_vars
               PROVE  [Ledger!Next]_<<[d \in Deliveries |-> Line(d)], received>>
    OBVIOUS
  <2>1. LedgerStep \/ LedgerStutter
    BY EffectNext, LedgerNext DEF PInv
  <2>2. CASE LedgerStutter
    BY <2>2 DEF LedgerStutter, Lines
  <2>3. CASE LedgerStep
    <3>1. Ledger!Next
      BY <2>3 DEF LedgerStep, Lines, Blank, Ledger!Next, Ledger!Promise, Ledger!Take, Ledger!End,
                  Ledger!MayEnd, Ledger!Forget, Ledger!Clear, Ledger!Owed
    <3> QED
      BY <3>1
  <2> QED
    BY <2>1, <2>2, <2>3
<1>4. PurgesSpareAttempts => [][Spared]_vars
  BY PTL DEF PurgesSpareAttempts, Spared
<1> QED
  BY <1>1, <1>2, <1>3, <1>4, PromisesInit, PTL DEF Spec, PromisesAreKept, Ledger!Spec

\* The same from the limits alone, as for AcknowledgmentsAtPace.
THEOREM OutboxAtPace ==
    ASSUME HttpTimeout < ReceiptRetention
    PROVE  Spec /\ []Undisturbed /\ []FewOutcomes => PromisesAreKept
BY PaceSpares, BufferImplementsOutbox, PTL

=============================================================================
