-------------------------- MODULE MirrorWorkProofs --------------------------
(***************************************************************************)
(* Proofs about the processes that share the mirrors, for any number of    *)
(* repositories, jobs, readers and note edges.                             *)
(*                                                                         *)
(* The argument is one of lock ownership: which locks a process holds is a *)
(* function of where it stands, nobody takes or drops the lock of another, *)
(* and the disk changes only under the mirror lock of the writer.          *)
(***************************************************************************)
EXTENDS MirrorWork, WellFoundedInduction, TLAPS

Actors == Jobs \union Readers \union {"gc", "rename"}

-----------------------------------------------------------------------------
(* The inductive invariant                                                 *)

\* The types, with those of the pair of a rename and of the readers' history
MirrorTypes ==
    /\ MirrorTypeOK
    /\ npair \in Repos \X Repos /\ (npc # "idle" => npair[1] # npair[2])
    /\ DOMAIN view = Readers

\* A child holds the observation lock from its refresh to the end of its
\* capture, and the mirror lock while it fetches, reads notes or derives
JobLocked(j) ==
    /\ jpc[j] \in {"refresh", "init", "fetch", "capture", "store"}
          <=> holder[ObservationLock(JobRepo[j])] = j
    /\ jpc[j] \in {"init", "fetch", "capture"} => holder[MirrorLock(JobRepo[j])] = j
    /\ holder[MirrorLock(JobRepo[j])] = j => jpc[j] \in {"init", "fetch", "capture", "deriving"}
    /\ \A l \in Locks : holder[l] = j => l \in {ObservationLock(JobRepo[j]), MirrorLock(JobRepo[j])}

\* A reader holds locks of its own repositories only, the first of them in the
\* order of paths, and all of them while it reads
ReaderLocked(d) ==
    /\ \A l \in Locks : holder[l] = d => \E r \in want[d] : l = MirrorLock(r)
    /\ \A r, s \in want[d] :
          holder[MirrorLock(r)] = d /\ s < r => holder[MirrorLock(s)] = d
    /\ rpc[d] = "reading" /\ based[d] => \A r \in want[d] : holder[MirrorLock(r)] = d
    /\ rpc[d] = "idle" => want[d] = {}

CollectorLocked ==
    /\ gpc = "removing" => doomed # {} /\ holder[MirrorLock(Decided)] = "gc"
    /\ \A l \in Locks : holder[l] = "gc" => gpc = "removing" /\ l = MirrorLock(Decided)

RenamerLocked ==
    \A l \in Locks : holder[l] = "rename" <=>
        \/ npc \in {"second", "move"} /\ l = MirrorLock(Lower(npair))
        \/ npc = "move" /\ l = MirrorLock(Upper(npair))

\* A job: its locks, and what they protect.  Edges are in hand only between
\* their capture and the end of its storing
JobGood(j) ==
    /\ JobLocked(j)
    /\ jpc[j] # "store" => seen[j] = {}
    /\ jpc[j] = "capture" => mirror[JobRepo[j]] = "ready"
    /\ \A e \in seen[j] : observed[<<JobRepo[j], e>>] \in {"nobody", j} \/ e \in known[j]

\* A reader: its locks, and what it opened
ReaderGood(d) ==
    /\ ReaderLocked(d)
    /\ rpc[d] = "reading" => \A r \in want[d] : view[d][r] = OpenRepository(d, r)

MirrorInv ==
    /\ MirrorTypes
    /\ \A j \in Jobs : JobGood(j)
    /\ \A d \in Readers : ReaderGood(d)
    /\ CollectorLocked /\ RenamerLocked

-----------------------------------------------------------------------------
(* The order of paths                                                      *)

\* Every set of numbers that is not empty has a least one
LEMMA LeastNumber ==
    ASSUME NEW S \in SUBSET Nat, S # {}
    PROVE  \E r \in S : \A s \in S : r <= s
<1>1. IsWellFoundedOn(OpToRel(<, Nat), Nat)
  BY NatLessThanWellFounded
<1>2. PICK r \in S : \A s \in S : ~(<<s, r>> \in OpToRel(<, Nat))
  BY <1>1, WFMin
<1>3. \A s \in S : ~(s < r)
  BY <1>2 DEF OpToRel
<1> QED
  BY <1>3

\* Every set of repositories that is not empty has a first one
LEMMA FirstRepo ==
    ASSUME NEW S \in SUBSET Repos, S # {}
    PROVE  \E r \in S : \A s \in S : r <= s
BY LeastNumber, MirrorAssumption DEF Repos

\* Collection takes the first mirror that is left
LEMMA DecidedIsFirst ==
    ASSUME MirrorTypeOK, doomed # {}
    PROVE  Decided \in doomed /\ Decided \in Repos
<1>1. doomed \in SUBSET Repos
  BY DEF MirrorTypeOK
<1>2. \E r \in doomed : \A s \in doomed : r <= s
  BY <1>1, FirstRepo
<1> QED
  BY <1>1, <1>2 DEF Decided

\* A reader waits for the first mirror that it has not locked
LEMMA NextLockIsFirst ==
    ASSUME MirrorTypeOK, NEW d \in Readers, Unlocked(d) # {}
    PROVE  /\ NextLock(d) \in Unlocked(d) /\ NextLock(d) \in Repos
           /\ \A s \in Unlocked(d) : NextLock(d) <= s
<1>1. Unlocked(d) \in SUBSET Repos
  BY DEF MirrorTypeOK, Unlocked
<1>2. \E r \in Unlocked(d) : \A s \in Unlocked(d) : r <= s
  BY <1>1, FirstRepo
<1> QED
  BY <1>1, <1>2 DEF NextLock

-----------------------------------------------------------------------------
(* What a step of one process leaves to the others                         *)

\* No lock of another process is taken or dropped
Spares(x) == \A l \in Locks, y \in Actors \ {x} : holder'[l] = y <=> holder[l] = y

\* The disk changes only in repositories whose mirror lock x holds
WritesLocked(x) ==
    \A r \in Repos : (mirror'[r] = mirror[r] /\ content'[r] = content[r]) \/ holder[MirrorLock(r)] = x

SparesJob(j) ==
    /\ jpc'[j] = jpc[j] /\ seen'[j] = seen[j] /\ known'[j] = known[j]
    /\ \A e \in seen[j] : observed'[<<JobRepo[j], e>>] = observed[<<JobRepo[j], e>>]

SparesReader(d) ==
    rpc'[d] = rpc[d] /\ want'[d] = want[d] /\ based'[d] = based[d] /\ view'[d] = view[d]

\* A step of process x
StepOf(x) ==
    /\ Spares(x) /\ WritesLocked(x)
    /\ \A j \in Jobs \ {x} : SparesJob(j)
    /\ \A d \in Readers \ {x} : SparesReader(d)
    /\ x # "gc" => gpc' = gpc /\ doomed' = doomed
    /\ x # "rename" => npc' = npc /\ npair' = npair

\* The locks of a repository are locks, and no two of them are the same one
LEMMA LockNames ==
    ASSUME NEW r \in Repos
    PROVE  /\ MirrorLock(r) \in Locks /\ ObservationLock(r) \in Locks
           /\ \A s : MirrorLock(r) # ObservationLock(s)
           /\ \A s : MirrorLock(r) = MirrorLock(s) => r = s
           /\ \A s : ObservationLock(r) = ObservationLock(s) => r = s
BY DEF Locks, MirrorLock, ObservationLock

\* The step of another process leaves a job as it was
LEMMA OtherJob ==
    ASSUME MirrorTypes, NEW x \in Actors, StepOf(x), NEW j \in Jobs \ {x}, JobGood(j)
    PROVE  JobGood(j)'
<1>1. SparesJob(j) /\ Spares(x) /\ WritesLocked(x)
  BY DEF StepOf
<1>2. JobRepo[j] \in Repos
  BY MirrorAssumption
<1>3. \A l \in Locks : holder'[l] = j <=> holder[l] = j
  BY <1>1 DEF Spares, Actors
<1>4. JobLocked(j)'
  BY <1>1, <1>2, <1>3, LockNames DEF JobGood, JobLocked, SparesJob
<1>5. jpc[j] = "capture" => mirror'[JobRepo[j]] = mirror[JobRepo[j]]
  BY <1>1, <1>2 DEF WritesLocked, JobGood, JobLocked
<1> QED
  BY <1>1, <1>4, <1>5 DEF JobGood, SparesJob

\* The step of another process leaves a reader as it was, and what it reads
LEMMA OtherReader ==
    ASSUME MirrorTypes, NEW x \in Actors, StepOf(x), NEW d \in Readers \ {x}, ReaderGood(d)
    PROVE  ReaderGood(d)'
<1>1. SparesReader(d) /\ Spares(x) /\ WritesLocked(x)
  BY DEF StepOf
<1>2. want[d] \subseteq Repos
  BY DEF MirrorTypes, MirrorTypeOK
<1>3. \A l \in Locks : holder'[l] = d <=> holder[l] = d
  BY <1>1 DEF Spares, Actors
<1>4. \A r \in want[d] : holder'[MirrorLock(r)] = d <=> holder[MirrorLock(r)] = d
  BY <1>2, <1>3, LockNames
<1>5. ReaderLocked(d)'
  BY <1>1, <1>3, <1>4 DEF ReaderGood, ReaderLocked, SparesReader
<1>6. ASSUME rpc[d] = "reading", NEW r \in want[d]
      PROVE  OpenRepository(d, r)' = OpenRepository(d, r)
  <2>1. based[d] => mirror'[r] = mirror[r] /\ content'[r] = content[r]
    BY <1>1, <1>2, <1>6 DEF WritesLocked, ReaderGood, ReaderLocked
  <2> QED
    BY <1>1, <2>1 DEF OpenRepository, HasHead, SparesReader
<1> QED
  BY <1>1, <1>5, <1>6 DEF ReaderGood, SparesReader

\* So a step has to be looked at only where its own process stands
LEMMA StepKeeps ==
    ASSUME MirrorInv, MirrorTypes', NEW x \in Actors, StepOf(x),
           x \in Jobs => JobGood(x)', x \in Readers => ReaderGood(x)',
           x = "gc" => CollectorLocked', x = "rename" => RenamerLocked'
    PROVE  MirrorInv'
<1>1. \A j \in Jobs : JobGood(j)'
  BY OtherJob DEF MirrorInv
<1>2. \A d \in Readers : ReaderGood(d)'
  BY OtherReader DEF MirrorInv
<1>3. CollectorLocked'
  <2>1. x # "gc" => \A l \in Locks : holder'[l] = "gc" <=> holder[l] = "gc"
    BY DEF StepOf, Spares, Actors
  <2>2. x # "gc" /\ gpc = "removing" => MirrorLock(Decided) \in Locks
    BY LockNames, DecidedIsFirst DEF MirrorInv, MirrorTypes, CollectorLocked
  <2> QED
    BY <2>1, <2>2 DEF MirrorInv, CollectorLocked, StepOf, Decided
<1>4. RenamerLocked'
  <2>1. x # "rename" => \A l \in Locks : holder'[l] = "rename" <=> holder[l] = "rename"
    BY DEF StepOf, Spares, Actors
  <2> QED
    BY <2>1 DEF MirrorInv, RenamerLocked, StepOf
<1> QED
  BY <1>1, <1>2, <1>3, <1>4 DEF MirrorInv

-----------------------------------------------------------------------------
(* The jobs                                                                *)

\* Locks change hands only between nobody and the process itself
LEMMA LockSpares ==
    ASSUME MirrorTypeOK, NEW x \in Actors, NEW l \in Locks, Lock(l, x)
    PROVE  /\ Spares(x) /\ holder' \in [Locks -> Actors \union {"nobody"}]
           /\ holder'[l] = x /\ \A k \in Locks \ {l} : holder'[k] = holder[k]
           /\ holder[l] = "nobody"
<1>1. "nobody" \notin Actors
  BY MirrorAssumption DEF Actors
<1>2. holder' = [holder EXCEPT ![l] = x] /\ holder[l] = "nobody"
  BY DEF Lock
<1> QED
  BY <1>1, <1>2 DEF Spares, MirrorTypeOK, Actors

LEMMA UnlockSpares ==
    ASSUME MirrorTypeOK, NEW x \in Actors, NEW locks, Unlock(locks),
           \A l \in Locks \intersect locks : holder[l] = x
    PROVE  /\ Spares(x) /\ holder' \in [Locks -> Actors \union {"nobody"}]
           /\ \A l \in Locks \intersect locks : holder'[l] = "nobody"
           /\ \A l \in Locks \ locks : holder'[l] = holder[l]
<1>1. "nobody" \notin Actors
  BY MirrorAssumption DEF Actors
<1>2. holder' = [l \in Locks |-> IF l \in locks THEN "nobody" ELSE holder[l]]
  BY DEF Unlock
<1> QED
  BY <1>1, <1>2 DEF Spares, MirrorTypeOK, Actors

\* A step of a job that leaves the other processes alone
LEMMA JobStepKeeps ==
    ASSUME MirrorInv, MirrorTypes', NEW j \in Jobs, Spares(j), WritesLocked(j), JobGood(j)',
           \A k \in Jobs \ {j} : SparesJob(k),
           UNCHANGED <<rpc, want, based, view, gpc, doomed, npc, npair>>
    PROVE  MirrorInv'
<1>1. j \in Actors /\ j \notin Readers /\ j # "gc" /\ j # "rename"
  BY MirrorAssumption DEF Actors
<1>2. StepOf(j)
  BY <1>1 DEF StepOf, SparesReader
<1> QED
  BY <1>1, <1>2, StepKeeps

\* What a job may count on about its own locks and repository
LEMMA JobFacts ==
    ASSUME MirrorInv, NEW j \in Jobs
    PROVE  /\ MirrorTypes /\ MirrorTypeOK /\ JobGood(j) /\ JobLocked(j) /\ j \in Actors
           /\ j # "nobody" /\ JobRepo[j] \in Repos
           /\ MirrorLock(JobRepo[j]) \in Locks /\ ObservationLock(JobRepo[j]) \in Locks
           /\ MirrorLock(JobRepo[j]) # ObservationLock(JobRepo[j])
BY MirrorAssumption, LockNames DEF MirrorInv, MirrorTypes, JobGood, Actors

\* The Push arrives
LEMMA DeliverKeeps ==
    ASSUME MirrorInv, NEW j \in Jobs, Deliver(j)
    PROVE  MirrorInv'
<1>0. MirrorTypes /\ MirrorTypeOK /\ JobGood(j) /\ JobLocked(j)
  BY JobFacts
<1>1. /\ jpc[j] = "idle" /\ jpc' = [jpc EXCEPT ![j] = "observe"]
      /\ starts < MaxStarts /\ starts' = starts + 1 /\ expired' = expired \ {JobRepo[j]}
      /\ UNCHANGED <<base, mirror, content, remote, holder, seen, known, observed, kills,
                     rpc, want, based, view, gpc, doomed, npc, npair>>
  BY DEF Deliver, JobStep, Begin, disk, readers, collector, renamer
<1>2. MirrorTypes'
  BY <1>0, <1>1, MirrorAssumption DEF MirrorTypes, MirrorTypeOK
<1>3. jpc'[j] = "observe"
  BY <1>0, <1>1 DEF MirrorTypeOK
<1>4. JobLocked(j)'
  BY <1>0, <1>1, <1>3 DEF JobLocked
<1>5. JobGood(j)'
  BY <1>0, <1>1, <1>3, <1>4 DEF JobGood
<1>6. \A k \in Jobs \ {j} : SparesJob(k)
  BY <1>0, <1>1 DEF SparesJob, MirrorTypeOK
<1>7. Spares(j) /\ WritesLocked(j)
  BY <1>1 DEF Spares, WritesLocked
<1> QED
  BY <1>1, <1>2, <1>5, <1>6, <1>7, JobStepKeeps

\* The child takes a lock: observations, then the mirror, and the mirror once
\* more for the derivation
LEMMA JobLocksKeeps ==
    ASSUME MirrorInv, NEW j \in Jobs, UNCHANGED starts,
           LockObservations(j) \/ LockMirror(j) \/ DeriveLocks(j)
    PROVE  MirrorInv'
<1>0. /\ MirrorTypes /\ MirrorTypeOK /\ JobGood(j) /\ JobLocked(j) /\ j \in Actors
      /\ j # "nobody" /\ JobRepo[j] \in Repos
      /\ MirrorLock(JobRepo[j]) \in Locks /\ ObservationLock(JobRepo[j]) \in Locks
      /\ MirrorLock(JobRepo[j]) # ObservationLock(JobRepo[j])
  BY JobFacts
<1>1. UNCHANGED <<mirror, content, remote, expired, seen, known, observed, kills, rpc, want, based,
                  view, gpc, doomed, npc, npair>>
  BY DEF LockObservations, LockMirror, DeriveLocks, world, readers, collector, renamer
<1>2. PICK to \in {"refresh", "init", "deriving"} : jpc' = [jpc EXCEPT ![j] = to]
  BY DEF LockObservations, LockMirror, DeriveLocks, JobStep
<1>3. /\ Spares(j) /\ holder' \in [Locks -> Actors \union {"nobody"}] /\ base' \in BOOLEAN
      /\ JobLocked(j)' /\ jpc[j] \in {"observe", "refresh", "derive"}
  <2>1. CASE LockObservations(j)
    <3>1. /\ jpc[j] = "observe" /\ jpc' = [jpc EXCEPT ![j] = "refresh"]
          /\ Lock(ObservationLock(JobRepo[j]), j)
      BY <2>1 DEF LockObservations, JobStep
    <3>2. jpc'[j] = "refresh"
      BY <1>0, <3>1 DEF MirrorTypeOK
    <3>3. /\ Spares(j) /\ holder' \in [Locks -> Actors \union {"nobody"}]
          /\ holder'[ObservationLock(JobRepo[j])] = j
          /\ \A k \in Locks \ {ObservationLock(JobRepo[j])} : holder'[k] = holder[k]
      BY <1>0, <3>1, LockSpares
    <3> QED
      BY <1>0, <3>1, <3>2, <3>3 DEF JobLocked, Lock
  <2>2. CASE LockMirror(j)
    <3>1. /\ jpc[j] = "refresh" /\ jpc' = [jpc EXCEPT ![j] = "init"]
          /\ Lock(MirrorLock(JobRepo[j]), j)
      BY <2>2 DEF LockMirror, JobStep
    <3>2. jpc'[j] = "init"
      BY <1>0, <3>1 DEF MirrorTypeOK
    <3>3. /\ Spares(j) /\ holder' \in [Locks -> Actors \union {"nobody"}]
          /\ holder'[MirrorLock(JobRepo[j])] = j
          /\ \A k \in Locks \ {MirrorLock(JobRepo[j])} : holder'[k] = holder[k]
      BY <1>0, <3>1, LockSpares
    <3> QED
      BY <1>0, <3>1, <3>2, <3>3 DEF JobLocked, Lock
  <2>3. CASE DeriveLocks(j) /\ base
    <3>1. /\ jpc[j] = "derive" /\ jpc' = [jpc EXCEPT ![j] = "deriving"]
          /\ Lock(MirrorLock(JobRepo[j]), j)
      BY <2>3 DEF DeriveLocks, JobStep
    <3>2. jpc'[j] = "deriving"
      BY <1>0, <3>1 DEF MirrorTypeOK
    <3>3. /\ Spares(j) /\ holder' \in [Locks -> Actors \union {"nobody"}]
          /\ holder'[MirrorLock(JobRepo[j])] = j
          /\ \A k \in Locks \ {MirrorLock(JobRepo[j])} : holder'[k] = holder[k]
      BY <1>0, <3>1, LockSpares
    <3> QED
      BY <1>0, <3>1, <3>2, <3>3 DEF JobLocked, Lock
  <2>4. CASE DeriveLocks(j) /\ ~base
    <3>1. /\ jpc[j] = "derive" /\ jpc' = [jpc EXCEPT ![j] = "deriving"]
          /\ UNCHANGED <<base, holder>>
      BY <2>4 DEF DeriveLocks, JobStep
    <3>2. jpc'[j] = "deriving"
      BY <1>0, <3>1 DEF MirrorTypeOK
    <3>3. Spares(j) /\ holder' \in [Locks -> Actors \union {"nobody"}] /\ base' \in BOOLEAN
      BY <1>0, <3>1 DEF Spares, MirrorTypeOK, Actors
    <3> QED
      BY <1>0, <3>1, <3>2, <3>3 DEF JobLocked
  <2> QED
    BY <2>1, <2>2, <2>3, <2>4
<1>4. MirrorTypes'
  BY <1>0, <1>1, <1>2, <1>3 DEF MirrorTypes, MirrorTypeOK, Actors
<1>5. JobGood(j)'
  BY <1>0, <1>1, <1>2, <1>3 DEF JobGood, MirrorTypeOK
<1>6. \A k \in Jobs \ {j} : SparesJob(k)
  BY <1>0, <1>1, <1>2 DEF SparesJob, MirrorTypeOK
<1>7. WritesLocked(j)
  BY <1>1 DEF WritesLocked
<1> QED
  BY <1>1, <1>3, <1>4, <1>5, <1>6, <1>7, JobStepKeeps

\* The child writes its mirror, under the lock it holds
LEMMA JobWritesKeeps ==
    ASSUME MirrorInv, NEW j \in Jobs, UNCHANGED starts, InitMirror(j) \/ Fetch(j)
    PROVE  MirrorInv'
<1>0. /\ MirrorTypes /\ MirrorTypeOK /\ JobGood(j) /\ JobLocked(j) /\ JobRepo[j] \in Repos
  BY JobFacts
<1>1. UNCHANGED <<base, remote, expired, holder, seen, known, observed, kills, rpc, want, based,
                  view, gpc, doomed, npc, npair>>
  BY DEF InitMirror, Fetch, world, readers, collector, renamer
<1>2. /\ jpc[j] \in {"init", "fetch"}
      /\ \E to \in {"fetch", "capture"} : jpc' = [jpc EXCEPT ![j] = to]
      /\ mirror' \in [Repos -> {"absent", "dir", "bare", "ready"}]
      /\ content' \in [Repos -> SUBSET Edges]
      /\ \A r \in Repos \ {JobRepo[j]} : mirror'[r] = mirror[r] /\ content'[r] = content[r]
      /\ jpc'[j] = "capture" => mirror'[JobRepo[j]] = "ready"
  <2>1. CASE InitMirror(j)
    BY <1>0, <2>1 DEF InitMirror, JobStep, HasHead, MirrorTypeOK
  <2>2. CASE Fetch(j)
    BY <1>0, <2>2 DEF Fetch, JobStep, MirrorTypeOK
  <2> QED
    BY <2>1, <2>2
<1>3. MirrorTypes'
  BY <1>0, <1>1, <1>2 DEF MirrorTypes, MirrorTypeOK
<1>4. jpc'[j] \in {"fetch", "capture"}
  BY <1>0, <1>2 DEF MirrorTypeOK
<1>5. JobLocked(j)'
  BY <1>0, <1>1, <1>2, <1>4 DEF JobLocked
<1>6. JobGood(j)'
  BY <1>0, <1>1, <1>2, <1>4, <1>5 DEF JobGood
<1>7. \A k \in Jobs \ {j} : SparesJob(k)
  BY <1>0, <1>1, <1>2 DEF SparesJob, MirrorTypeOK
<1>8. holder[MirrorLock(JobRepo[j])] = j
  BY <1>0, <1>2 DEF JobLocked
<1>9. Spares(j) /\ WritesLocked(j)
  BY <1>0, <1>1, <1>2, <1>8 DEF Spares, WritesLocked, MirrorTypeOK
<1> QED
  BY <1>1, <1>3, <1>6, <1>7, <1>9, JobStepKeeps

\* A child whose refresh fails drops its locks, as does one that ends
LEMMA JobDropsKeeps ==
    ASSUME MirrorInv, NEW j \in Jobs, UNCHANGED starts, RefreshFails(j) \/ DeriveEnds(j)
    PROVE  MirrorInv'
<1>0. /\ MirrorTypes /\ MirrorTypeOK /\ JobGood(j) /\ JobLocked(j) /\ j \in Actors
      /\ j # "nobody" /\ JobRepo[j] \in Repos
      /\ MirrorLock(JobRepo[j]) \in Locks /\ ObservationLock(JobRepo[j]) \in Locks
  BY JobFacts
<1>1. UNCHANGED <<base, mirror, content, remote, expired, seen, known, observed, kills, rpc, want,
                  based, view, gpc, doomed, npc, npair>>
  BY DEF RefreshFails, DeriveEnds, disk, world, readers, collector, renamer
<1>2. /\ jpc[j] \in {"init", "fetch", "deriving"}
      /\ \E to \in {"derive", "idle"} : jpc' = [jpc EXCEPT ![j] = to]
      /\ Unlock(HeldBy(j))
  BY DEF RefreshFails, DeriveEnds, JobStep
<1>3. jpc'[j] \in {"derive", "idle"}
  BY <1>0, <1>2 DEF MirrorTypeOK
<1>4. /\ Spares(j) /\ holder' \in [Locks -> Actors \union {"nobody"}]
      /\ \A l \in Locks : holder'[l] # j
  BY <1>0, <1>2, UnlockSpares DEF HeldBy
<1>5. MirrorTypes'
  BY <1>0, <1>1, <1>2, <1>4 DEF MirrorTypes, MirrorTypeOK, Actors
<1>6. JobLocked(j)'
  BY <1>0, <1>3, <1>4 DEF JobLocked
<1>7. JobGood(j)'
  BY <1>0, <1>1, <1>2, <1>3, <1>6 DEF JobGood
<1>8. \A k \in Jobs \ {j} : SparesJob(k)
  BY <1>0, <1>1, <1>2 DEF SparesJob, MirrorTypeOK
<1>9. WritesLocked(j)
  BY <1>1 DEF WritesLocked
<1> QED
  BY <1>1, <1>4, <1>5, <1>7, <1>8, <1>9, JobStepKeeps

\* The capture takes down what is stored already, and keeps the observation
\* lock when it drops the mirror
LEMMA CaptureKeeps ==
    ASSUME MirrorInv, NEW j \in Jobs, UNCHANGED starts, Capture(j)
    PROVE  MirrorInv'
<1>0. /\ MirrorTypes /\ MirrorTypeOK /\ JobGood(j) /\ JobLocked(j) /\ j \in Actors
      /\ j # "nobody" /\ JobRepo[j] \in Repos
      /\ MirrorLock(JobRepo[j]) \in Locks /\ ObservationLock(JobRepo[j]) \in Locks
      /\ MirrorLock(JobRepo[j]) # ObservationLock(JobRepo[j])
  BY JobFacts
<1>1. /\ jpc[j] = "capture" /\ jpc' = [jpc EXCEPT ![j] = "store"]
      /\ UNCHANGED <<base, mirror, content, remote, expired, observed, kills, rpc, want,
                     based, view, gpc, doomed, npc, npair>>
  BY DEF Capture, JobStep, disk, world, readers, collector, renamer
<1>2. /\ known' = [known EXCEPT ![j] = {e \in Edges : observed[<<JobRepo[j], e>>] # "nobody"}]
      /\ \E edges \in SUBSET Edges : seen' = [seen EXCEPT ![j] = edges]
      /\ Unlock({MirrorLock(JobRepo[j])})
  <2>1. JobEdges[j] \intersect content[JobRepo[j]] \in SUBSET Edges
    BY MirrorAssumption
  <2> QED
    BY <2>1 DEF Capture
<1>3. jpc'[j] = "store" /\ holder[MirrorLock(JobRepo[j])] = j
  BY <1>0, <1>1 DEF MirrorTypeOK, JobLocked
<1>4. /\ Spares(j) /\ holder' \in [Locks -> Actors \union {"nobody"}]
      /\ holder'[MirrorLock(JobRepo[j])] = "nobody"
      /\ \A l \in Locks \ {MirrorLock(JobRepo[j])} : holder'[l] = holder[l]
  BY <1>0, <1>2, <1>3, UnlockSpares
<1>5. MirrorTypes'
  BY <1>0, <1>1, <1>2, <1>4 DEF MirrorTypes, MirrorTypeOK, Actors
<1>6. JobLocked(j)'
  BY <1>0, <1>1, <1>3, <1>4 DEF JobLocked
<1>7. JobGood(j)'
  <2>1. seen'[j] \subseteq Edges
        /\ known'[j] = {e \in Edges : observed[<<JobRepo[j], e>>] # "nobody"}
    BY <1>0, <1>2 DEF MirrorTypeOK
  <2> QED
    BY <1>1, <1>3, <1>6, <2>1 DEF JobGood
<1>8. \A k \in Jobs \ {j} : SparesJob(k)
  BY <1>0, <1>1, <1>2 DEF SparesJob, MirrorTypeOK
<1>9. WritesLocked(j)
  BY <1>1 DEF WritesLocked
<1> QED
  BY <1>1, <1>4, <1>5, <1>7, <1>8, <1>9, JobStepKeeps

\* Two jobs that store edges of one repository at the same time are one job:
\* each holds the observation lock
LEMMA OneStoringJob ==
    ASSUME MirrorInv, NEW j \in Jobs, NEW k \in Jobs, jpc[j] = "store", jpc[k] = "store",
           JobRepo[j] = JobRepo[k]
    PROVE  j = k
BY DEF MirrorInv, JobGood, JobLocked

\* An edge is stored: the first row of it stays
LEMMA StoreObservationKeeps ==
    ASSUME MirrorInv, NEW j \in Jobs, NEW e \in Edges, UNCHANGED starts, StoreObservation(j, e)
    PROVE  MirrorInv'
<1>0. MirrorTypes /\ MirrorTypeOK /\ JobGood(j) /\ JobLocked(j) /\ JobRepo[j] \in Repos
  BY JobFacts
<1>1. /\ jpc[j] = "store" /\ seen' = [seen EXCEPT ![j] = seen[j] \ {e}]
      /\ UNCHANGED <<base, mirror, content, remote, expired, holder, jpc, known, kills, rpc, want,
                     based, view, gpc, doomed, npc, npair>>
  BY DEF StoreObservation, disk, world, readers, collector, renamer
<1>2. \/ observed' = observed
      \/ observed' = [observed EXCEPT ![<<JobRepo[j], e>>] = j]
  BY DEF StoreObservation
<1>3. <<JobRepo[j], e>> \in Repos \X Edges
  BY <1>0
<1>4. MirrorTypes'
  <2>1. observed' \in [Repos \X Edges -> Jobs \union {"nobody"}]
    BY <1>0, <1>2, <1>3 DEF MirrorTypeOK
  <2>2. seen' \in [Jobs -> SUBSET Edges]
    BY <1>0, <1>1 DEF MirrorTypeOK
  <2> QED
    BY <1>0, <1>1, <2>1, <2>2 DEF MirrorTypes, MirrorTypeOK
<1>5. JobLocked(j)'
  BY <1>0, <1>1 DEF JobLocked
<1>6. \A r \in Repos, f \in Edges :
          observed'[<<r, f>>] = observed[<<r, f>>] \/ (r = JobRepo[j] /\ observed'[<<r, f>>] = j)
  <2> TAKE r \in Repos, f \in Edges
  <2>1. <<r, f>> \in Repos \X Edges /\ (<<r, f>> = <<JobRepo[j], e>> => r = JobRepo[j])
    OBVIOUS
  <2>2. CASE observed' = [observed EXCEPT ![<<JobRepo[j], e>>] = j]
    <3> DEFINE o == <<r, f>>
               p == <<JobRepo[j], e>>
    <3>1. observed \in [Repos \X Edges -> Jobs \union {"nobody"}]
      BY <1>0 DEF MirrorTypeOK
    <3>2. o \in Repos \X Edges /\ observed' = [observed EXCEPT ![p] = j]
      BY <2>1, <2>2
    <3>3. (o = p /\ observed'[o] = j) \/ observed'[o] = observed[o]
      <4> HIDE DEF o, p
      <4> QED
        BY <3>1, <3>2
    <3> QED
      BY <2>1, <3>3
  <2> QED
    BY <1>2, <2>2
<1>7. JobGood(j)'
  <2>1. seen'[j] = seen[j] \ {e} /\ seen[j] \subseteq Edges
    BY <1>0, <1>1 DEF MirrorTypeOK
  <2>2. \A f \in seen'[j] :
           observed'[<<JobRepo[j], f>>] \in {"nobody", j} \/ f \in known'[j]
    BY <1>0, <1>1, <1>6, <2>1 DEF JobGood
  <2> QED
    BY <1>1, <1>5, <2>2 DEF JobGood
<1>8. \A k \in Jobs \ {j} : SparesJob(k)
  <2> TAKE k \in Jobs \ {j}
  <2>1. JobGood(k) /\ JobRepo[k] \in Repos /\ seen[k] \subseteq Edges
    BY <1>0, MirrorAssumption DEF MirrorInv, MirrorTypeOK
  <2>2. seen[k] = {} \/ JobRepo[k] # JobRepo[j]
    BY <1>1, <2>1, OneStoringJob DEF JobGood
  <2>3. \A f \in seen[k] : observed'[<<JobRepo[k], f>>] = observed[<<JobRepo[k], f>>]
    BY <1>6, <2>1, <2>2
  <2>4. jpc'[k] = jpc[k] /\ seen'[k] = seen[k] /\ known'[k] = known[k]
    BY <1>0, <1>1 DEF MirrorTypeOK
  <2> QED
    BY <2>3, <2>4 DEF SparesJob
<1>9. Spares(j) /\ WritesLocked(j)
  BY <1>1 DEF Spares, WritesLocked
<1> QED
  BY <1>1, <1>4, <1>7, <1>8, <1>9, JobStepKeeps

\* The capture ends and with it the hold on the observations
LEMMA CaptureEndsKeeps ==
    ASSUME MirrorInv, NEW j \in Jobs, UNCHANGED starts, CaptureEnds(j)
    PROVE  MirrorInv'
<1>0. /\ MirrorTypes /\ MirrorTypeOK /\ JobGood(j) /\ JobLocked(j) /\ j \in Actors
      /\ j # "nobody" /\ JobRepo[j] \in Repos
      /\ MirrorLock(JobRepo[j]) \in Locks /\ ObservationLock(JobRepo[j]) \in Locks
      /\ MirrorLock(JobRepo[j]) # ObservationLock(JobRepo[j])
  BY JobFacts
<1>1. /\ jpc[j] = "store" /\ jpc' = [jpc EXCEPT ![j] = "derive"]
      /\ seen' = [seen EXCEPT ![j] = {}] /\ known' = [known EXCEPT ![j] = {}]
      /\ Unlock({ObservationLock(JobRepo[j])})
      /\ UNCHANGED <<base, mirror, content, remote, expired, observed, kills, rpc, want,
                     based, view, gpc, doomed, npc, npair>>
  BY DEF CaptureEnds, JobStep, disk, world, readers, collector, renamer
<1>3. /\ jpc'[j] = "derive" /\ seen'[j] = {} /\ holder[ObservationLock(JobRepo[j])] = j
  BY <1>0, <1>1 DEF MirrorTypeOK, JobLocked
<1>4. /\ Spares(j) /\ holder' \in [Locks -> Actors \union {"nobody"}]
      /\ holder'[ObservationLock(JobRepo[j])] = "nobody"
      /\ \A l \in Locks \ {ObservationLock(JobRepo[j])} : holder'[l] = holder[l]
  BY <1>0, <1>1, <1>3, UnlockSpares
<1>5. MirrorTypes'
  BY <1>0, <1>1, <1>4 DEF MirrorTypes, MirrorTypeOK, Actors
<1>6. JobLocked(j)'
  BY <1>0, <1>1, <1>3, <1>4 DEF JobLocked
<1>7. JobGood(j)'
  BY <1>3, <1>6 DEF JobGood
<1>8. \A k \in Jobs \ {j} : SparesJob(k)
  BY <1>0, <1>1 DEF SparesJob, MirrorTypeOK
<1>9. WritesLocked(j)
  BY <1>1 DEF WritesLocked
<1> QED
  BY <1>1, <1>4, <1>5, <1>7, <1>8, <1>9, JobStepKeeps

\* A killed child drops its locks with its process, wherever it stands; what
\* it leaves half-written is its own mirror
LEMMA KillKeeps ==
    ASSUME MirrorInv, NEW j \in Jobs, UNCHANGED starts, Kill(j)
    PROVE  MirrorInv'
<1>0. /\ MirrorTypes /\ MirrorTypeOK /\ JobGood(j) /\ JobLocked(j) /\ j \in Actors
      /\ j # "nobody" /\ JobRepo[j] \in Repos
      /\ MirrorLock(JobRepo[j]) \in Locks /\ ObservationLock(JobRepo[j]) \in Locks
  BY JobFacts
<1>1. /\ kills < MaxKills /\ kills' = kills + 1 /\ jpc' = [jpc EXCEPT ![j] = "idle"]
      /\ seen' = [seen EXCEPT ![j] = {}] /\ known' = [known EXCEPT ![j] = {}]
      /\ Unlock(HeldBy(j))
      /\ UNCHANGED <<base, remote, expired, observed, rpc, want, based, view, gpc, doomed,
                     npc, npair>>
  BY DEF Kill, world, readers, collector, renamer
<1>2. /\ mirror' = mirror \/ /\ jpc[j] = "init"
                             /\ \E left \in {"absent", "dir", "bare", "ready"} :
                                   mirror' = [mirror EXCEPT ![JobRepo[j]] = left]
      /\ content' = content \/ /\ jpc[j] = "fetch"
                               /\ \E left \in SUBSET Edges :
                                     content' = [content EXCEPT ![JobRepo[j]] = left]
  BY <1>0 DEF Kill, MirrorTypeOK
<1>3. jpc'[j] = "idle" /\ seen'[j] = {}
  BY <1>0, <1>1 DEF MirrorTypeOK
<1>4. /\ Spares(j) /\ holder' \in [Locks -> Actors \union {"nobody"}]
      /\ \A l \in Locks : holder'[l] # j
  BY <1>0, <1>1, UnlockSpares DEF HeldBy
<1>5. MirrorTypes'
  <2>1. mirror' \in [Repos -> {"absent", "dir", "bare", "ready"}] /\ content' \in [Repos -> SUBSET Edges]
    BY <1>0, <1>2 DEF MirrorTypeOK
  <2> QED
    BY <1>0, <1>1, <1>4, <2>1, MirrorAssumption DEF MirrorTypes, MirrorTypeOK, Actors
<1>6. JobLocked(j)'
  BY <1>0, <1>3, <1>4 DEF JobLocked
<1>7. JobGood(j)'
  BY <1>3, <1>6 DEF JobGood
<1>8. \A k \in Jobs \ {j} : SparesJob(k)
  BY <1>0, <1>1 DEF SparesJob, MirrorTypeOK
<1>9. WritesLocked(j)
  <2>1. jpc[j] \in {"init", "fetch"} => holder[MirrorLock(JobRepo[j])] = j
    BY <1>0 DEF JobLocked
  <2>2. jpc[j] \notin {"init", "fetch"} => mirror' = mirror /\ content' = content
    BY <1>2
  <2>3. \A r \in Repos \ {JobRepo[j]} : mirror'[r] = mirror[r] /\ content'[r] = content[r]
    BY <1>0, <1>2 DEF MirrorTypeOK
  <2> QED
    BY <2>1, <2>2, <2>3 DEF WritesLocked
<1> QED
  BY <1>1, <1>4, <1>5, <1>7, <1>8, <1>9, JobStepKeeps

LEMMA JobNextKeeps ==
    ASSUME MirrorInv, NEW j \in Jobs, UNCHANGED starts, JobNext(j) \/ Kill(j)
    PROVE  MirrorInv'
BY JobLocksKeeps, JobWritesKeeps, JobDropsKeeps, CaptureKeeps, StoreObservationKeeps,
   CaptureEndsKeeps, KillKeeps DEF JobNext

-----------------------------------------------------------------------------
(* The readers                                                             *)

\* A step of a reader that leaves the other processes and the disk alone
LEMMA ReaderStepKeeps ==
    ASSUME MirrorInv, MirrorTypes', NEW d \in Readers, Spares(d), ReaderGood(d)',
           \A c \in Readers \ {d} : SparesReader(c),
           UNCHANGED <<mirror, content, jpc, seen, known, observed, gpc, doomed, npc, npair>>
    PROVE  MirrorInv'
<1>1. d \in Actors /\ d \notin Jobs /\ d # "gc" /\ d # "rename"
  BY MirrorAssumption DEF Actors
<1>2. StepOf(d)
  BY <1>1 DEF StepOf, SparesJob, WritesLocked
<1> QED
  BY <1>1, <1>2, StepKeeps

\* What a reader may count on about itself
LEMMA ReaderFacts ==
    ASSUME MirrorInv, NEW d \in Readers
    PROVE  /\ MirrorTypes /\ MirrorTypeOK /\ ReaderGood(d) /\ ReaderLocked(d)
           /\ d \in Actors /\ d # "nobody" /\ want[d] \subseteq Repos /\ DOMAIN view = Readers
BY MirrorAssumption DEF MirrorInv, MirrorTypes, MirrorTypeOK, ReaderGood, Actors

LEMMA SnapshotBeginsKeeps ==
    ASSUME MirrorInv, NEW d \in Readers, NEW keys \in SUBSET Repos, SnapshotBegins(d, keys)
    PROVE  MirrorInv'
<1>0. /\ MirrorTypes /\ MirrorTypeOK /\ ReaderGood(d) /\ ReaderLocked(d)
  BY ReaderFacts
<1>1. /\ rpc[d] = "idle" /\ starts < MaxStarts /\ starts' = starts + 1
      /\ want' = [want EXCEPT ![d] = keys] /\ based' = [based EXCEPT ![d] = base]
      /\ rpc' = [rpc EXCEPT ![d] = "locking"]
      /\ UNCHANGED <<base, mirror, content, holder, remote, expired, jpc, seen, known, observed,
                     kills, view, gpc, doomed, npc, npair>>
  BY DEF SnapshotBegins, Begin, disk, world, jobs, collector, renamer
<1>2. MirrorTypes'
  BY <1>0, <1>1, MirrorAssumption DEF MirrorTypes, MirrorTypeOK
<1>3. rpc'[d] = "locking" /\ \A l \in Locks : holder'[l] # d
  BY <1>0, <1>1 DEF MirrorTypeOK, ReaderLocked
<1>4. ReaderLocked(d)'
  <2>1. \A r \in want'[d] : holder'[MirrorLock(r)] # d
    BY <1>0, <1>1, <1>3, LockNames DEF MirrorTypeOK
  <2> QED
    BY <1>3, <2>1 DEF ReaderLocked
<1>5. ReaderGood(d)'
  BY <1>3, <1>4 DEF ReaderGood
<1>6. \A c \in Readers \ {d} : SparesReader(c)
  BY <1>0, <1>1 DEF SparesReader, MirrorTypeOK
<1>7. Spares(d)
  BY <1>1 DEF Spares
<1> QED
  BY <1>1, <1>2, <1>5, <1>6, <1>7, ReaderStepKeeps

\* The next lock is the first one missing, so the locks held are the first ones
LEMMA SnapshotLocksKeeps ==
    ASSUME MirrorInv, NEW d \in Readers, UNCHANGED starts, SnapshotLocks(d)
    PROVE  MirrorInv'
<1>0. /\ MirrorTypes /\ MirrorTypeOK /\ ReaderGood(d) /\ ReaderLocked(d)
      /\ d \in Actors /\ d # "nobody" /\ want[d] \subseteq Repos
  BY ReaderFacts
<1>1. /\ rpc[d] = "locking" /\ Unlocked(d) # {} /\ Lock(MirrorLock(NextLock(d)), d)
      /\ UNCHANGED <<mirror, content, remote, expired, jpc, seen, known, observed, kills, rpc, want,
                     based, view, gpc, doomed, npc, npair>>
  BY DEF SnapshotLocks, world, jobs, readers, collector, renamer
<1> DEFINE next == NextLock(d)
<1>2. /\ next \in want[d] /\ next \in Repos /\ MirrorLock(next) \in Locks
      /\ \A s \in want[d] : s < next => holder[MirrorLock(s)] = d
  <2>1. /\ next \in Unlocked(d) /\ next \in Repos /\ \A s \in Unlocked(d) : next <= s
    BY <1>0, <1>1, NextLockIsFirst
  <2>2. \A s \in want[d] : s \in Int /\ (holder[MirrorLock(s)] # d => s \in Unlocked(d))
    BY <1>0, MirrorAssumption DEF Unlocked, Repos
  <2>3. next \in want[d] /\ next \in Int
    BY <2>1, MirrorAssumption DEF Unlocked, Repos
  <2> HIDE DEF next
  <2> QED
    BY <2>1, <2>2, <2>3, LockNames
<1> HIDE DEF next
<1>3. /\ Spares(d) /\ holder' \in [Locks -> Actors \union {"nobody"}]
      /\ holder'[MirrorLock(next)] = d
      /\ \A k \in Locks \ {MirrorLock(next)} : holder'[k] = holder[k]
  BY <1>0, <1>1, <1>2, LockSpares DEF next
<1>4. MirrorTypes'
  BY <1>0, <1>1, <1>3 DEF MirrorTypes, MirrorTypeOK, Actors, Lock
<1>5. \A r \in want[d] : holder'[MirrorLock(r)] = d <=> holder[MirrorLock(r)] = d \/ r = next
  BY <1>0, <1>2, <1>3, LockNames
<1>6. ReaderLocked(d)'
  <2>1. \A l \in Locks : holder'[l] = d => \E r \in want[d] : l = MirrorLock(r)
    BY <1>0, <1>2, <1>3 DEF ReaderLocked
  <2>2. \A r, s \in want[d] :
            holder'[MirrorLock(r)] = d /\ s < r => holder'[MirrorLock(s)] = d
    BY <1>0, <1>2, <1>5 DEF ReaderLocked
  <2> QED
    BY <1>1, <2>1, <2>2 DEF ReaderLocked
<1>7. ReaderGood(d)'
  BY <1>1, <1>6 DEF ReaderGood
<1>8. \A c \in Readers \ {d} : SparesReader(c)
  BY <1>1 DEF SparesReader
<1> QED
  BY <1>1, <1>3, <1>4, <1>7, <1>8, ReaderStepKeeps

\* The snapshot opens what it has locked, or nothing when it found no base
LEMMA SnapshotReadyKeeps ==
    ASSUME MirrorInv, NEW d \in Readers, UNCHANGED starts, SnapshotReady(d)
    PROVE  MirrorInv'
<1>0. /\ MirrorTypes /\ MirrorTypeOK /\ ReaderGood(d) /\ ReaderLocked(d) /\ DOMAIN view = Readers
  BY ReaderFacts
<1>1. /\ rpc[d] = "locking" /\ (based[d] => Unlocked(d) = {})
      /\ rpc' = [rpc EXCEPT ![d] = "reading"]
      /\ view' = [view EXCEPT ![d] = [r \in want[d] |-> OpenRepository(d, r)]]
      /\ UNCHANGED <<base, mirror, content, holder, remote, expired, jpc, seen, known, observed, kills,
                     want, based, gpc, doomed, npc, npair>>
  BY DEF SnapshotReady, disk, world, jobs, collector, renamer
<1>2. MirrorTypes'
  BY <1>0, <1>1 DEF MirrorTypes, MirrorTypeOK
<1>3. rpc'[d] = "reading" /\ view'[d] = [r \in want[d] |-> OpenRepository(d, r)]
  BY <1>0, <1>1 DEF MirrorTypeOK
<1>4. ReaderLocked(d)'
  BY <1>0, <1>1, <1>3 DEF ReaderLocked, Unlocked
<1>5. \A r \in want[d] : OpenRepository(d, r)' = OpenRepository(d, r)
  BY <1>1 DEF OpenRepository, HasHead
<1>6. ReaderGood(d)'
  BY <1>1, <1>3, <1>4, <1>5 DEF ReaderGood
<1>7. \A c \in Readers \ {d} : SparesReader(c)
  BY <1>0, <1>1 DEF SparesReader, MirrorTypeOK
<1>8. Spares(d)
  BY <1>1 DEF Spares
<1> QED
  BY <1>1, <1>2, <1>6, <1>7, <1>8, ReaderStepKeeps

LEMMA SnapshotEndsKeeps ==
    ASSUME MirrorInv, NEW d \in Readers, UNCHANGED starts, SnapshotEnds(d)
    PROVE  MirrorInv'
<1>0. /\ MirrorTypes /\ MirrorTypeOK /\ ReaderGood(d) /\ ReaderLocked(d) /\ DOMAIN view = Readers
      /\ d \in Actors /\ d # "nobody"
  BY ReaderFacts
<1>1. /\ rpc' = [rpc EXCEPT ![d] = "idle"] /\ view' = [view EXCEPT ![d] = << >>]
      /\ want' = [want EXCEPT ![d] = {}] /\ based' = [based EXCEPT ![d] = FALSE]
      /\ Unlock(HeldBy(d))
      /\ UNCHANGED <<base, mirror, content, remote, expired, jpc, seen, known, observed, kills,
                     gpc, doomed, npc, npair>>
  BY DEF SnapshotEnds, disk, world, jobs, collector, renamer
<1>2. /\ Spares(d) /\ holder' \in [Locks -> Actors \union {"nobody"}]
      /\ \A l \in Locks : holder'[l] # d
  BY <1>0, <1>1, UnlockSpares DEF HeldBy
<1>3. MirrorTypes'
  BY <1>0, <1>1, <1>2 DEF MirrorTypes, MirrorTypeOK, Actors
<1>4. rpc'[d] = "idle" /\ want'[d] = {}
  BY <1>0, <1>1 DEF MirrorTypeOK
<1>5. ReaderGood(d)'
  BY <1>2, <1>4 DEF ReaderGood, ReaderLocked
<1>6. \A c \in Readers \ {d} : SparesReader(c)
  BY <1>0, <1>1 DEF SparesReader, MirrorTypeOK
<1> QED
  BY <1>1, <1>2, <1>3, <1>5, <1>6, ReaderStepKeeps

-----------------------------------------------------------------------------
(* Collection, rename and the outside                                      *)

\* A step of the collector or of the outside that leaves the jobs, the readers
\* and the rename alone
LEMMA CollectorStepKeeps ==
    ASSUME MirrorInv, MirrorTypes', Spares("gc"), WritesLocked("gc"), CollectorLocked',
           UNCHANGED <<jpc, seen, known, observed, rpc, want, based, view, npc, npair>>
    PROVE  MirrorInv'
<1>1. "gc" \in Actors /\ "gc" \notin Jobs /\ "gc" \notin Readers
  BY MirrorAssumption DEF Actors
<1>2. StepOf("gc")
  BY <1>1 DEF StepOf, SparesJob, SparesReader
<1> QED
  BY <1>1, <1>2, StepKeeps

\* The outside, and the collector's steps without a lock
LEMMA QuietKeeps ==
    ASSUME MirrorInv, starts' \in 0..MaxStarts,
           \/ GcReads \/ GcLists \/ GcEnds
           \/ \E r \in Repos : PushesAge(r) \/ \E e \in Edges : NotePushed(r, e)
    PROVE  MirrorInv'
<1>0. MirrorTypes /\ MirrorTypeOK /\ CollectorLocked
  BY DEF MirrorInv, MirrorTypes
<1>1. UNCHANGED <<base, mirror, content, holder, jpc, seen, known, observed, kills, rpc, want,
                  based, view, npc, npair>>
  BY DEF GcReads, GcLists, GcEnds, PushesAge, NotePushed, disk, jobs, readers, renamer
<1>2. /\ remote' \in [Repos -> SUBSET Edges] /\ expired' \in SUBSET Repos
      /\ doomed' \in SUBSET Repos
      /\ gpc' \in {"idle", "listing", "sweeping", "removing"}
      /\ gpc = "removing" => gpc' = gpc /\ doomed' = doomed
      /\ gpc # "removing" => gpc' # "removing"
  <2>1. CASE GcReads \/ GcLists \/ GcEnds
    BY <1>0, <2>1 DEF GcReads, GcLists, GcEnds, MirrorTypeOK, world
  <2>2. ASSUME NEW r \in Repos, PushesAge(r) \/ \E e \in Edges : NotePushed(r, e)
        PROVE  /\ remote' \in [Repos -> SUBSET Edges] /\ expired' \in SUBSET Repos
               /\ gpc' = gpc /\ doomed' = doomed
    BY <1>0, <2>2 DEF PushesAge, NotePushed, MirrorTypeOK, collector
  <2> QED
    BY <1>0, <2>1, <2>2 DEF MirrorTypeOK
<1>3. MirrorTypes'
  BY <1>0, <1>1, <1>2 DEF MirrorTypes, MirrorTypeOK
<1>4. CollectorLocked'
  BY <1>0, <1>1, <1>2 DEF CollectorLocked, Decided
<1>5. Spares("gc") /\ WritesLocked("gc")
  BY <1>1 DEF Spares, WritesLocked
<1> QED
  BY <1>1, <1>3, <1>4, <1>5, CollectorStepKeeps

LEMMA GcLocksKeeps ==
    ASSUME MirrorInv, UNCHANGED starts, GcLocks
    PROVE  MirrorInv'
<1>0. MirrorTypes /\ MirrorTypeOK /\ CollectorLocked /\ "gc" \in Actors /\ "gc" # "nobody"
  BY DEF MirrorInv, MirrorTypes, Actors
<1>1. /\ gpc = "sweeping" /\ doomed # {} /\ gpc' = "removing" /\ Lock(MirrorLock(Decided), "gc")
      /\ UNCHANGED <<mirror, content, remote, expired, jpc, seen, known, observed, kills, rpc, want,
                     based, view, doomed, npc, npair>>
  BY DEF GcLocks, world, jobs, readers, renamer
<1>2. MirrorLock(Decided) \in Locks
  BY <1>0, <1>1, DecidedIsFirst, LockNames
<1>3. /\ Spares("gc") /\ holder' \in [Locks -> Actors \union {"nobody"}]
      /\ holder'[MirrorLock(Decided)] = "gc"
      /\ \A k \in Locks \ {MirrorLock(Decided)} : holder'[k] = holder[k]
  BY <1>0, <1>1, <1>2, LockSpares
<1>4. MirrorTypes'
  BY <1>0, <1>1, <1>3 DEF MirrorTypes, MirrorTypeOK, Actors, Lock
<1>5. Decided' = Decided
  BY <1>1 DEF Decided
<1>6. CollectorLocked'
  BY <1>0, <1>1, <1>3, <1>5 DEF CollectorLocked
<1>7. WritesLocked("gc")
  BY <1>1 DEF WritesLocked
<1> QED
  BY <1>1, <1>3, <1>4, <1>6, <1>7, CollectorStepKeeps

LEMMA GcRemovesKeeps ==
    ASSUME MirrorInv, UNCHANGED starts, GcRemoves
    PROVE  MirrorInv'
<1>0. MirrorTypes /\ MirrorTypeOK /\ CollectorLocked /\ "gc" \in Actors /\ "gc" # "nobody"
  BY DEF MirrorInv, MirrorTypes, Actors
<1>1. /\ gpc = "removing" /\ gpc' = "sweeping" /\ doomed' = doomed \ {Decided}
      /\ \E rest \in {"absent", "dir", "bare"} : mirror' = [mirror EXCEPT ![Decided] = rest]
      /\ content' = [content EXCEPT ![Decided] = {}]
      /\ Unlock(HeldBy("gc"))
      /\ UNCHANGED <<base, remote, expired, jpc, seen, known, observed, kills, rpc, want,
                     based, view, npc, npair>>
  BY DEF GcRemoves, world, jobs, readers, renamer
<1>2. Decided \in Repos /\ holder[MirrorLock(Decided)] = "gc"
  BY <1>0, <1>1, DecidedIsFirst DEF CollectorLocked
<1>3. /\ Spares("gc") /\ holder' \in [Locks -> Actors \union {"nobody"}]
      /\ \A l \in Locks : holder'[l] # "gc"
  BY <1>0, <1>1, UnlockSpares DEF HeldBy
<1>4. MirrorTypes'
  BY <1>0, <1>1, <1>2, <1>3 DEF MirrorTypes, MirrorTypeOK, Actors
<1>5. CollectorLocked'
  BY <1>1, <1>3 DEF CollectorLocked
<1>6. WritesLocked("gc")
  BY <1>0, <1>1, <1>2 DEF WritesLocked, MirrorTypeOK
<1> QED
  BY <1>1, <1>3, <1>4, <1>5, <1>6, CollectorStepKeeps

\* A step of the rename that leaves the others alone
LEMMA RenameStepKeeps ==
    ASSUME MirrorInv, MirrorTypes', Spares("rename"), WritesLocked("rename"), RenamerLocked',
           UNCHANGED <<jpc, seen, known, observed, rpc, want, based, view, gpc, doomed>>
    PROVE  MirrorInv'
<1>1. "rename" \in Actors /\ "rename" \notin Jobs /\ "rename" \notin Readers
  BY MirrorAssumption DEF Actors
<1>2. StepOf("rename")
  BY <1>1 DEF StepOf, SparesJob, SparesReader
<1> QED
  BY <1>1, <1>2, StepKeeps

\* The two locks of a rename are two locks, in the order of paths
LEMMA RenamePair ==
    ASSUME MirrorTypes
    PROVE  /\ npair[1] \in Repos /\ npair[2] \in Repos
           /\ {Lower(npair), Upper(npair)} = {npair[1], npair[2]}
           /\ Lower(npair) \in Repos /\ Upper(npair) \in Repos
           /\ npc # "idle" => Lower(npair) < Upper(npair)
BY MirrorAssumption DEF MirrorTypes, Lower, Upper, Repos

LEMMA RenameBeginsKeeps ==
    ASSUME MirrorInv, NEW old \in Repos, NEW new \in Repos, RenameBegins(old, new)
    PROVE  MirrorInv'
<1>0. MirrorTypes /\ MirrorTypeOK /\ RenamerLocked
  BY DEF MirrorInv, MirrorTypes
<1>1. /\ npc = "idle" /\ old # new /\ starts < MaxStarts /\ starts' = starts + 1
      /\ npair' = <<old, new>> /\ npc' = "first"
      /\ UNCHANGED <<base, mirror, content, holder, remote, expired, jpc, seen, known, observed,
                     kills, rpc, want, based, view, gpc, doomed>>
  BY DEF RenameBegins, Begin, disk, world, jobs, readers, collector
<1>2. MirrorTypes'
  BY <1>0, <1>1, MirrorAssumption DEF MirrorTypes, MirrorTypeOK
<1>3. RenamerLocked'
  BY <1>0, <1>1 DEF RenamerLocked
<1>4. Spares("rename") /\ WritesLocked("rename")
  BY <1>1 DEF Spares, WritesLocked
<1> QED
  BY <1>1, <1>2, <1>3, <1>4, RenameStepKeeps

LEMMA RenameLocksKeeps ==
    ASSUME MirrorInv, UNCHANGED starts, RenameLocksFirst \/ RenameLocksSecond
    PROVE  MirrorInv'
<1>0. MirrorTypes /\ MirrorTypeOK /\ RenamerLocked /\ "rename" \in Actors /\ "rename" # "nobody"
  BY DEF MirrorInv, MirrorTypes, Actors
<1>1. UNCHANGED <<mirror, content, remote, expired, jpc, seen, known, observed, kills, rpc, want,
                  based, view, gpc, doomed, npair>>
  BY DEF RenameLocksFirst, RenameLocksSecond, world, jobs, readers, collector
<1>2. MirrorLock(Lower(npair)) \in Locks /\ MirrorLock(Upper(npair)) \in Locks
  BY <1>0, RenamePair, LockNames
<1>3. /\ npc' \in {"second", "move"} /\ npc # "idle"
      /\ Spares("rename") /\ holder' \in [Locks -> Actors \union {"nobody"}]
      /\ RenamerLocked' /\ base' = TRUE
  <2>1. CASE RenameLocksFirst
    BY <1>0, <1>1, <1>2, <2>1, LockSpares DEF RenameLocksFirst, RenamerLocked, Lock
  <2>2. CASE RenameLocksSecond
    <3>1. /\ npc = "second" /\ npc' = "move" /\ Lock(MirrorLock(Upper(npair)), "rename")
          /\ npair' = npair
      BY <1>1, <2>2 DEF RenameLocksSecond
    <3>2. /\ Spares("rename") /\ holder' \in [Locks -> Actors \union {"nobody"}]
          /\ holder'[MirrorLock(Upper(npair))] = "rename"
          /\ \A l \in Locks \ {MirrorLock(Upper(npair))} : holder'[l] = holder[l]
          /\ holder[MirrorLock(Upper(npair))] = "nobody" /\ base' = TRUE
      BY <1>0, <1>2, <3>1, LockSpares DEF Lock
    <3>3. RenamerLocked'
      BY <1>0, <1>2, <3>1, <3>2 DEF RenamerLocked
    <3> QED
      BY <3>1, <3>2, <3>3
  <2> QED
    BY <2>1, <2>2
<1>4. MirrorTypes'
  BY <1>0, <1>1, <1>3 DEF MirrorTypes, MirrorTypeOK, Actors
<1>5. WritesLocked("rename")
  BY <1>1 DEF WritesLocked
<1> QED
  BY <1>1, <1>3, <1>4, <1>5, RenameStepKeeps

LEMMA RenameMovesKeeps ==
    ASSUME MirrorInv, UNCHANGED starts, RenameMoves
    PROVE  MirrorInv'
<1>0. MirrorTypes /\ MirrorTypeOK /\ RenamerLocked /\ "rename" \in Actors /\ "rename" # "nobody"
  BY DEF MirrorInv, MirrorTypes, Actors
<1>1. /\ npc = "move" /\ npc' = "idle" /\ npair' = <<1, 1>> /\ Unlock(HeldBy("rename"))
      /\ UNCHANGED <<base, remote, expired, jpc, seen, known, observed, kills, rpc, want,
                     based, view, gpc, doomed>>
  BY DEF RenameMoves, world, jobs, readers, collector
<1>2. npair[1] \in Repos /\ npair[2] \in Repos /\ npair[1] # npair[2]
  BY <1>0, <1>1, RenamePair DEF MirrorTypes
<1>3. /\ mirror' \in [Repos -> {"absent", "dir", "bare", "ready"}]
      /\ content' \in [Repos -> SUBSET Edges]
      /\ \A r \in Repos \ {npair[1], npair[2]} : mirror'[r] = mirror[r] /\ content'[r] = content[r]
  BY <1>0, <1>2 DEF RenameMoves, MirrorTypeOK
<1>4. /\ Spares("rename") /\ holder' \in [Locks -> Actors \union {"nobody"}]
      /\ \A l \in Locks : holder'[l] # "rename"
  BY <1>0, <1>1, UnlockSpares DEF HeldBy
<1>5. MirrorTypes'
  BY <1>0, <1>1, <1>3, <1>4, MirrorAssumption DEF MirrorTypes, MirrorTypeOK, Actors, Repos
<1>6. RenamerLocked'
  BY <1>1, <1>4 DEF RenamerLocked
<1>7. holder[MirrorLock(npair[1])] = "rename" /\ holder[MirrorLock(npair[2])] = "rename"
  BY <1>0, <1>1, RenamePair, LockNames DEF RenamerLocked
<1>8. WritesLocked("rename")
  BY <1>3, <1>7 DEF WritesLocked
<1> QED
  BY <1>1, <1>4, <1>5, <1>6, <1>8, RenameStepKeeps

-----------------------------------------------------------------------------
(* The invariant and what it says                                          *)

LEMMA MirrorStarts ==
    ASSUME Init
    PROVE  MirrorInv
<1>1. MirrorTypes
  <2>1. 1 \in Repos
    BY MirrorAssumption DEF Repos
  <2> QED
    <3>1. npair \in Repos \X Repos /\ npc = "idle" /\ DOMAIN view = Readers
      BY <2>1 DEF Init
    <3>2. /\ holder \in [Locks -> Jobs \union Readers \union {"gc", "rename", "nobody"}]
          /\ observed \in [Repos \X Edges -> Jobs \union {"nobody"}]
      BY DEF Init
    <3>3. kills \in 0..MaxKills /\ starts \in 0..MaxStarts
      BY MirrorAssumption DEF Init
    <3>4. /\ base \in BOOLEAN /\ expired \in SUBSET Repos
          /\ mirror \in [Repos -> {"absent", "dir", "bare", "ready"}]
          /\ content \in [Repos -> SUBSET Edges] /\ remote \in [Repos -> SUBSET Edges]
      BY DEF Init
    <3>5. MirrorTypeOK
      BY <3>2, <3>3, <3>4 DEF Init, MirrorTypeOK
    <3> QED
      BY <3>1, <3>5 DEF MirrorTypes
<1>2. \A l \in Locks : holder[l] = "nobody"
  BY DEF Init
<1>3. ASSUME NEW j \in Jobs PROVE JobGood(j)
  <2>1. j # "nobody" /\ JobRepo[j] \in Repos
    BY MirrorAssumption
  <2>2. jpc[j] = "idle" /\ seen[j] = {}
    BY DEF Init
  <2> QED
    BY <1>2, <2>1, <2>2, LockNames DEF JobGood, JobLocked
<1>4. ASSUME NEW d \in Readers PROVE ReaderGood(d)
  <2>1. d # "nobody"
    BY MirrorAssumption
  <2>2. rpc[d] = "idle" /\ want[d] = {}
    BY DEF Init
  <2> QED
    BY <1>2, <2>1, <2>2 DEF ReaderGood, ReaderLocked
<1>5. CollectorLocked /\ RenamerLocked
  BY <1>2 DEF Init, CollectorLocked, RenamerLocked
<1> QED
  BY <1>1, <1>3, <1>4, <1>5 DEF MirrorInv

LEMMA MirrorKeeps ==
    ASSUME MirrorInv, [Next]_vars
    PROVE  MirrorInv'
<1>0. starts \in 0..MaxStarts
  BY DEF MirrorInv, MirrorTypes, MirrorTypeOK
<1>1. CASE UNCHANGED vars
  <2>1. MirrorTypes'
    BY <1>1 DEF vars, MirrorInv, MirrorTypes, MirrorTypeOK
  <2>2. CollectorLocked'
    BY <1>1 DEF vars, MirrorInv, CollectorLocked, Decided
  <2>3. Spares("gc") /\ WritesLocked("gc")
    BY <1>1 DEF vars, Spares, WritesLocked
  <2> QED
    BY <1>1, <2>1, <2>2, <2>3, CollectorStepKeeps DEF vars
<1>2. CASE \E j \in Jobs : Deliver(j)
  BY <1>2, DeliverKeeps
<1>3. CASE \E d \in Readers, keys \in SUBSET Repos : SnapshotBegins(d, keys)
  BY <1>3, SnapshotBeginsKeeps
<1>4. CASE GcReads
  <2>1. starts' \in 0..MaxStarts
    BY <1>0, <1>4, MirrorAssumption DEF GcReads, Begin
  <2> QED
    BY <1>4, <2>1, QuietKeeps
<1>5. CASE \E old, new \in Repos : RenameBegins(old, new)
  BY <1>5, RenameBeginsKeeps
<1>6. CASE UNCHANGED starts /\ \E j \in Jobs : JobNext(j) \/ Kill(j)
  BY <1>6, JobNextKeeps
<1>7. CASE UNCHANGED starts /\ \E d \in Readers : ReaderNext(d)
  BY <1>7, SnapshotLocksKeeps, SnapshotReadyKeeps, SnapshotEndsKeeps DEF ReaderNext
<1>8. CASE UNCHANGED starts /\ (GcNext \/ RenameNext)
  BY <1>0, <1>8, QuietKeeps, GcLocksKeeps, GcRemovesKeeps, RenameLocksKeeps, RenameMovesKeeps
     DEF GcNext, RenameNext
<1>9. CASE UNCHANGED starts /\ \E r \in Repos : PushesAge(r) \/ \E e \in Edges : NotePushed(r, e)
  BY <1>0, <1>9, QuietKeeps
<1> QED
  BY <1>1, <1>2, <1>3, <1>4, <1>5, <1>6, <1>7, <1>8, <1>9 DEF Next

\* In every reachable state each process holds the locks that its step needs,
\* and no others
LEMMA MirrorInvariant == Spec => []MirrorInv
BY MirrorStarts, MirrorKeeps, PTL DEF Spec

\* What a derivation opened stays as it was until its snapshot ends
THEOREM SnapshotsAreStable == Spec => []SnapshotIsStable
<1>1. MirrorInv => SnapshotIsStable
  BY DEF MirrorInv, ReaderGood, SnapshotIsStable
<1> QED
  BY <1>1, MirrorInvariant, PTL

\* The notes are read from the mirror that was just fetched
THEOREM CapturesSeeTheirFetch == Spec => []CaptureSeesItsFetch
<1>1. MirrorInv => CaptureSeesItsFetch
  BY DEF MirrorInv, JobGood, CaptureSeesItsFetch
<1> QED
  BY <1>1, MirrorInvariant, PTL

\* No other Push becomes the source of an edge that a capture saw first
THEOREM FirstSightsPersist == Spec => []FirstSightPersists
<1>1. MirrorInv => FirstSightPersists
  BY DEF MirrorInv, JobGood, FirstSightPersists
<1> QED
  BY <1>1, MirrorInvariant, PTL

-----------------------------------------------------------------------------
(* No deadlock: a process waits only for a lock that comes after every one *)
(* it holds, observations before mirrors and mirrors in the order of paths *)

Place(l) == IF l[1] = "observation" THEN 0 ELSE l[2]

\* The locks have a place in the order
LEMMA Places ==
    /\ \A l \in Locks : Place(l) \in 0..RepoCount
    /\ \A r \in Repos : Place(MirrorLock(r)) = r /\ r >= 1 /\ Place(ObservationLock(r)) = 0
BY MirrorAssumption DEF Place, Locks, MirrorLock, ObservationLock, Repos

\* What a process waits for comes after what it holds
LEMMA WaitsInOrder ==
    ASSUME MirrorInv, NEW who \in Actors, NEW l \in Waits(who),
           NEW k \in Locks, holder[k] = who
    PROVE  l \in Locks /\ Place(k) < Place(l)
<1>1. CASE who \in Jobs
  <2>1. /\ JobLocked(who) /\ JobRepo[who] \in Repos
        /\ MirrorLock(JobRepo[who]) \in Locks /\ ObservationLock(JobRepo[who]) \in Locks
    BY <1>1, JobFacts
  <2>2. \/ jpc[who] = "observe" /\ l = ObservationLock(JobRepo[who])
        \/ jpc[who] \in {"refresh", "derive"} /\ l = MirrorLock(JobRepo[who])
    BY <1>1 DEF Waits
  <2>3. jpc[who] = "refresh" /\ k = ObservationLock(JobRepo[who]) /\ l = MirrorLock(JobRepo[who])
    BY <2>1, <2>2 DEF JobLocked
  <2> QED
    BY <2>1, <2>3, Places
<1>2. CASE who \in Readers
  <2>1. /\ MirrorTypeOK /\ ReaderLocked(who) /\ want[who] \subseteq Repos
    BY <1>2, ReaderFacts
  <2>2. who \notin Jobs
    BY <1>2, MirrorAssumption
  <2>3. Unlocked(who) # {} /\ l = MirrorLock(NextLock(who))
    BY <1>2, <2>2 DEF Waits
  <2> DEFINE next == NextLock(who)
  <2>4. next \in Unlocked(who) /\ next \in Repos
    BY <1>2, <2>1, <2>3, NextLockIsFirst
  <2>5. next \in want[who] /\ holder[MirrorLock(next)] # who
    BY <2>4 DEF Unlocked
  <2> HIDE DEF next
  <2>6. PICK r \in want[who] : k = MirrorLock(r)
    BY <2>1 DEF ReaderLocked
  <2>7. r \in Repos /\ ~(next < r) /\ r # next
    BY <2>1, <2>5, <2>6 DEF ReaderLocked
  <2>8. r < next
    BY <2>4, <2>7, MirrorAssumption DEF Repos
  <2> QED
    BY <2>3, <2>4, <2>6, <2>7, <2>8, Places, LockNames DEF next
<1>3. CASE who = "gc"
  <2>1. who \notin Jobs /\ who \notin Readers
    BY <1>3, MirrorAssumption
  <2>2. gpc = "sweeping"
    BY <1>3, <2>1 DEF Waits
  <2> QED
    BY <1>3, <2>2 DEF MirrorInv, CollectorLocked
<1>4. CASE who = "rename"
  <2>1. who \notin Jobs /\ who \notin Readers /\ who # "gc"
    BY <1>4, MirrorAssumption
  <2>2. \/ npc = "first" /\ l = MirrorLock(Lower(npair))
        \/ npc = "second" /\ l = MirrorLock(Upper(npair))
    BY <1>4, <2>1 DEF Waits
  <2>3. npc = "second" /\ k = MirrorLock(Lower(npair)) /\ l = MirrorLock(Upper(npair))
    BY <1>4, <2>2 DEF MirrorInv, RenamerLocked
  <2> QED
    BY <2>3, RenamePair, Places, LockNames DEF MirrorInv
<1> QED
  BY <1>1, <1>2, <1>3, <1>4 DEF Actors

\* What a process waits for is a lock
LEMMA WaitsAreLocks ==
    ASSUME MirrorInv, NEW who \in Actors
    PROVE  Waits(who) \subseteq Locks
<1>0. MirrorTypes /\ MirrorTypeOK
  BY DEF MirrorInv, MirrorTypes
<1>1. CASE who \in Jobs
  BY <1>1, JobFacts DEF Waits
<1>2. CASE who \in Readers
  BY <1>0, <1>2, NextLockIsFirst, LockNames, MirrorAssumption DEF Waits
<1>3. CASE who = "gc"
  BY <1>0, <1>3, DecidedIsFirst, LockNames, MirrorAssumption DEF Waits
<1>4. CASE who = "rename"
  BY <1>0, <1>4, RenamePair, LockNames, MirrorAssumption DEF Waits
<1> QED
  BY <1>1, <1>2, <1>3, <1>4 DEF Actors

\* No set of processes waits only on its own members: the one that waits for
\* the lock furthest in the order waits for one that waits further still
THEOREM LocksAreOrdered == Spec => []LocksNeverDeadlock
<1>1. ASSUME MirrorInv PROVE LocksNeverDeadlock
  <2> SUFFICES ASSUME NEW stuck \in SUBSET Actors, stuck # {},
                      \A who \in stuck : \E l \in Waits(who) : holder[l] \in stuck
               PROVE  FALSE
    BY DEF LocksNeverDeadlock, Actors
  <2> DEFINE left == {n \in Nat : \E who \in stuck : \E l \in Waits(who) :
                                      l \in Locks /\ holder[l] \in stuck /\ n = RepoCount - Place(l)}
  <2>1. \A who \in stuck : Waits(who) \subseteq Locks
    BY <1>1, WaitsAreLocks
  <2>2. left # {}
    <3>1. PICK who \in stuck : TRUE
      OBVIOUS
    <3>2. PICK l \in Waits(who) : holder[l] \in stuck
      BY <3>1
    <3>3. l \in Locks
      BY <2>1, <3>1, <3>2
    <3>4. Place(l) \in 0..RepoCount
      BY <3>3, Places
    <3>5. RepoCount - Place(l) \in Nat
      BY <3>4, MirrorAssumption
    <3> QED
      BY <3>1, <3>2, <3>3, <3>5
  <2>3. PICK n \in left : \A m \in left : n <= m
    BY <2>2, LeastNumber
  <2>4. PICK l \in Locks : holder[l] \in stuck /\ n = RepoCount - Place(l)
    BY <2>3
  <2>5. PICK k \in Waits(holder[l]) : holder[k] \in stuck
    BY <2>4
  <2>6. k \in Locks /\ Place(l) < Place(k)
    BY <1>1, <2>4, <2>5, WaitsInOrder
  <2>7. RepoCount - Place(k) \in left /\ RepoCount - Place(k) < n
    BY <2>4, <2>5, <2>6, Places, MirrorAssumption
  <2> QED
    BY <2>3, <2>7
<1> QED
  BY <1>1, MirrorInvariant, PTL

=============================================================================
