----------------------------- MODULE MirrorWork -----------------------------
(***************************************************************************)
(* What the processes that share one directory of bare Git mirrors do to   *)
(* it: the children that refresh a mirror for a Push and capture its Git   *)
(* notes (forge.py, worker.py), the readers that hold mirrors stable for a *)
(* derivation, the legacy rename (mirror.py) and garbage collection        *)
(* (gc.py).                                                                *)
(*                                                                         *)
(* Every process locks with flock: one mirror lock per repository, and one *)
(* observation lock per repository around refresh-to-persistence.  A       *)
(* process that dies drops its locks.  A child may be killed between any   *)
(* two of its steps: its budget ends or the API shuts down.                *)
(***************************************************************************)
EXTENDS Naturals, FiniteSets

CONSTANTS
    RepoCount,    \* repositories 1..RepoCount, numbered in the order of their paths
    Jobs,         \* refresh jobs, one per Push
    JobRepo,      \* job -> the repository of its Push
    JobEdges,     \* job -> the Git-note edges on the commits of its Push
    Edges,        \* (commit, session) edges a note may state
    Readers,      \* derivations that read mirrors
    MaxKills,     \* bound on killed children
    MaxStarts     \* bound on the operations that are ever begun

Repos == 1..RepoCount

ASSUME MirrorAssumption ==
    /\ RepoCount \in Nat \ {0}
    /\ MaxKills \in Nat /\ MaxStarts \in Nat
    /\ JobRepo \in [Jobs -> Repos]
    /\ JobEdges \in [Jobs -> SUBSET Edges]
    /\ Jobs \intersect Readers = {} /\ {"gc", "rename", "nobody"} \intersect (Jobs \union Readers) = {}

VARIABLES
    base,     \* the base directory exists
    mirror,   \* repository -> "absent", "dir" (no HEAD), "bare" (HEAD only), "ready"
    content,  \* repository -> the note edges its mirror holds
    remote,   \* repository -> the note edges at the forge
    expired,  \* repositories whose newest unquarantined Push is past retention
    holder,   \* lock -> the process that holds it, or "nobody"
    jpc,      \* job -> the step its child is at
    seen,     \* job -> the edges its capture collected and has not stored
    known,    \* job -> the edges already stored when it collected (history)
    observed, \* <<repository, edge>> -> the job whose Push is the stored source
    rpc,      \* reader -> "idle", "locking" or "reading"
    want,     \* reader -> the repositories of its snapshot
    based,    \* reader -> whether the base directory existed at its start
    view,     \* reader -> what it opened for each repository (history)
    gpc,      \* collector: "idle", "listing", "sweeping" or "removing"
    doomed,   \* the collector: expired repositories it read, then those it has
              \* listed and has still to remove
    npc,      \* rename: "idle", "first", "second" or "move"
    npair,    \* rename: <<old, new>>
    kills,    \* children killed so far
    starts    \* operations begun so far

disk == <<base, mirror, content>>
jobs == <<jpc, seen, known, observed, kills>>
readers == <<rpc, want, based, view>>
collector == <<gpc, doomed>>
renamer == <<npc, npair>>
world == <<remote, expired>>
vars == <<base, mirror, content, remote, expired, holder, jpc, seen, known, observed,
          rpc, want, based, view, gpc, doomed, npc, npair, kills, starts>>

MirrorLock(r) == <<"mirror", r>>
ObservationLock(r) == <<"observation", r>>
Locks == {MirrorLock(r) : r \in Repos} \union {ObservationLock(r) : r \in Repos}

Begin == starts < MaxStarts /\ starts' = starts + 1

HasHead(r) == mirror[r] \in {"bare", "ready"}

Init ==
    /\ base = FALSE
    /\ mirror = [r \in Repos |-> "absent"]
    /\ content = [r \in Repos |-> {}]
    /\ remote = [r \in Repos |-> {}]
    /\ expired = {}
    /\ holder = [l \in Locks |-> "nobody"]
    /\ jpc = [j \in Jobs |-> "idle"]
    /\ seen = [j \in Jobs |-> {}]
    /\ known = [j \in Jobs |-> {}]
    /\ observed = [o \in Repos \X Edges |-> "nobody"]
    /\ rpc = [d \in Readers |-> "idle"]
    /\ want = [d \in Readers |-> {}]
    /\ based = [d \in Readers |-> FALSE]
    /\ view = [d \in Readers |-> << >>]
    /\ gpc = "idle" /\ doomed = {}
    /\ npc = "idle" /\ npair = <<1, 1>>
    /\ kills = 0 /\ starts = 0

-----------------------------------------------------------------------------
(* flock.  Opening the lock file creates the base directory.               *)

Lock(l, who) ==
    /\ holder[l] = "nobody"
    /\ holder' = [holder EXCEPT ![l] = who]
    /\ base' = TRUE

Unlock(locks) == holder' = [l \in Locks |-> IF l \in locks THEN "nobody" ELSE holder[l]]

HeldBy(who) == {l \in Locks : holder[l] = who}

-----------------------------------------------------------------------------
(* _refresh_mirror, in a child                                             *)

JobStep(j, from, to) == jpc[j] = from /\ jpc' = [jpc EXCEPT ![j] = to]

\* ingest_push stored the Push (a redelivery finds it stored) and the
\* supervisor admitted its work.  The repository context is read before any
\* lock; a Push it declines does no Git work and is not a job here.
Deliver(j) ==
    /\ JobStep(j, "idle", "observe") /\ Begin
    /\ expired' = expired \ {JobRepo[j]}
    /\ UNCHANGED <<disk, holder, remote, seen, known, observed, kills, readers, collector, renamer>>

\* Mutant: two captures of a repository may overlap.
LockObservationsFreely(j) ==
    /\ JobStep(j, "observe", "refresh")
    /\ UNCHANGED <<disk, holder, world, seen, known, observed, kills, readers, collector, renamer>>

LockObservations(j) ==
    /\ JobStep(j, "observe", "refresh")
    /\ Lock(ObservationLock(JobRepo[j]), j)
    /\ UNCHANGED <<mirror, content, world, seen, known, observed, kills, readers, collector, renamer>>

LockMirror(j) ==
    /\ JobStep(j, "refresh", "init")
    /\ Lock(MirrorLock(JobRepo[j]), j)
    /\ UNCHANGED <<mirror, content, world, seen, known, observed, kills, readers, collector, renamer>>

\* git init, only when there is no HEAD; then git config, which creates or
\* updates the remote and so repairs a mirror whose creation was cut short.
InitMirror(j) ==
    /\ JobStep(j, "init", "fetch")
    /\ mirror' = [mirror EXCEPT ![JobRepo[j]] = IF HasHead(JobRepo[j]) THEN @ ELSE "bare"]
    /\ UNCHANGED <<base, content, holder, world, seen, known, observed, kills, readers, collector, renamer>>

\* git fetch --prune: the mirror becomes what the forge has.
Fetch(j) ==
    /\ JobStep(j, "fetch", "capture")
    /\ mirror' = [mirror EXCEPT ![JobRepo[j]] = "ready"]
    /\ content' = [content EXCEPT ![JobRepo[j]] = remote[JobRepo[j]]]
    /\ UNCHANGED <<base, holder, world, seen, known, observed, kills, readers, collector, renamer>>

\* A Git step fails (MirrorError): both locks are released, and the
\* derivation runs over whatever the mirror holds.
RefreshFails(j) ==
    /\ jpc[j] \in {"init", "fetch"}
    /\ jpc' = [jpc EXCEPT ![j] = "derive"]
    /\ Unlock(HeldBy(j))
    /\ UNCHANGED <<disk, world, seen, known, observed, kills, readers, collector, renamer>>

\* _capture_session_commit_observations reads the notes of the commits of
\* the Push and releases the mirror, not the observation lock.  An error in
\* it leaves no observations.
Capture(j) ==
    /\ JobStep(j, "capture", "store")
    /\ \E edges \in {JobEdges[j] \intersect content[JobRepo[j]], {}} :
          seen' = [seen EXCEPT ![j] = edges]
    /\ known' = [known EXCEPT ![j] = {e \in Edges : observed[<<JobRepo[j], e>>] # "nobody"}]
    /\ Unlock({MirrorLock(JobRepo[j])})
    /\ UNCHANGED <<disk, world, observed, kills, readers, collector, renamer>>

\* store_session_commit_observation: the first stored row of an edge stays.
\* The row of an edge that fails alone is skipped.
StoreObservation(j, e) ==
    /\ jpc[j] = "store" /\ e \in seen[j]
    /\ seen' = [seen EXCEPT ![j] = @ \ {e}]
    /\ \E stored \in {TRUE, FALSE} :
          observed' = IF stored /\ observed[<<JobRepo[j], e>>] = "nobody"
                      THEN [observed EXCEPT ![<<JobRepo[j], e>>] = j] ELSE observed
    /\ UNCHANGED <<disk, holder, world, jpc, known, kills, readers, collector, renamer>>

\* Every edge was tried, or the database is unavailable and the rest is left.
CaptureEnds(j) ==
    /\ JobStep(j, "store", "derive")
    /\ seen' = [seen EXCEPT ![j] = {}]
    /\ known' = [known EXCEPT ![j] = {}]
    /\ Unlock({ObservationLock(JobRepo[j])})
    /\ UNCHANGED <<disk, world, observed, kills, readers, collector, renamer>>

\* _derive_push_attributions holds the mirror for a derivation it discards.
DeriveLocks(j) ==
    /\ JobStep(j, "derive", "deriving")
    /\ IF base THEN Lock(MirrorLock(JobRepo[j]), j) ELSE UNCHANGED <<base, holder>>
    /\ UNCHANGED <<mirror, content, world, seen, known, observed, kills, readers, collector, renamer>>

DeriveEnds(j) ==
    /\ JobStep(j, "deriving", "idle")
    /\ Unlock(HeldBy(j))
    /\ UNCHANGED <<disk, world, seen, known, observed, kills, readers, collector, renamer>>

\* The supervisor ends the process group.  git init may have got anywhere;
\* a fetch that was cut short leaves the refs it had or the refs it fetched.
Kill(j) ==
    /\ kills < MaxKills /\ jpc[j] # "idle"
    /\ kills' = kills + 1
    /\ jpc' = [jpc EXCEPT ![j] = "idle"]
    /\ seen' = [seen EXCEPT ![j] = {}]
    /\ known' = [known EXCEPT ![j] = {}]
    /\ Unlock(HeldBy(j))
    /\ IF jpc[j] = "init" /\ ~HasHead(JobRepo[j])
       THEN \E left \in {mirror[JobRepo[j]], "dir", "bare"} : mirror' = [mirror EXCEPT ![JobRepo[j]] = left]
       ELSE UNCHANGED mirror
    /\ IF jpc[j] = "fetch"
       THEN \E left \in {content[JobRepo[j]], remote[JobRepo[j]]} :
              content' = [content EXCEPT ![JobRepo[j]] = left]
       ELSE UNCHANGED content
    /\ UNCHANGED <<base, world, observed, readers, collector, renamer>>

-----------------------------------------------------------------------------
(* read_repository_snapshot                                                *)

\* Mutant: a snapshot that found no base directory looks again.
OpenRepositoryLate(d, r) ==
    IF HasHead(r) THEN <<mirror[r], content[r]>> ELSE <<"absent", {}>>

\* open_repository: nothing is open in a snapshot that began without a base.
OpenRepository(d, r) ==
    IF based[d] /\ HasHead(r) THEN <<mirror[r], content[r]>> ELSE <<"absent", {}>>

SnapshotBegins(d, keys) ==
    /\ rpc[d] = "idle" /\ keys # {} /\ Begin
    /\ want' = [want EXCEPT ![d] = keys]
    /\ based' = [based EXCEPT ![d] = base]
    /\ rpc' = [rpc EXCEPT ![d] = "locking"]
    /\ UNCHANGED <<disk, holder, world, jobs, view, collector, renamer>>

\* The next lock in the order of paths.
Unlocked(d) == {r \in want[d] : holder[MirrorLock(r)] # d}
\* Mutant: locks are taken from the other end.
NextLockBackwards(d) == CHOOSE r \in Unlocked(d) : \A s \in Unlocked(d) : r >= s
NextLock(d) == CHOOSE r \in Unlocked(d) : \A s \in Unlocked(d) : r <= s

SnapshotLocks(d) ==
    /\ rpc[d] = "locking" /\ based[d] /\ Unlocked(d) # {}
    /\ Lock(MirrorLock(NextLock(d)), d)
    /\ UNCHANGED <<mirror, content, world, jobs, readers, collector, renamer>>

SnapshotReady(d) ==
    /\ rpc[d] = "locking" /\ (based[d] => Unlocked(d) = {})
    /\ rpc' = [rpc EXCEPT ![d] = "reading"]
    /\ view' = [view EXCEPT ![d] = [r \in want[d] |-> OpenRepository(d, r)]]
    /\ UNCHANGED <<disk, holder, world, jobs, want, based, collector, renamer>>

SnapshotEnds(d) ==
    /\ rpc[d] = "reading"
    /\ rpc' = [rpc EXCEPT ![d] = "idle"]
    /\ view' = [view EXCEPT ![d] = << >>]
    /\ want' = [want EXCEPT ![d] = {}]
    /\ based' = [based EXCEPT ![d] = FALSE]
    /\ Unlock(HeldBy(d))
    /\ UNCHANGED <<disk, world, jobs, collector, renamer>>

-----------------------------------------------------------------------------
(* gc_mirrors, with --apply                                                *)

\* The Pushes are read once; the mirrors are listed after that.  A repository
\* without a visible Push, or with a recent one, is kept.
GcReads ==
    /\ gpc = "idle" /\ gpc' = "listing" /\ Begin
    /\ doomed' = expired
    /\ UNCHANGED <<disk, holder, world, jobs, readers, renamer>>

GcLists ==
    /\ gpc = "listing" /\ gpc' = "sweeping"
    /\ doomed' = {r \in doomed : HasHead(r)}
    /\ UNCHANGED <<disk, holder, world, jobs, readers, renamer>>

\* The mirrors are handled in the order of their keys.
Decided == CHOOSE r \in doomed : \A s \in doomed : r <= s

\* Mutant: a mirror is removed without its lock.
GcSkipsLock ==
    /\ gpc = "sweeping" /\ doomed # {} /\ gpc' = "removing"
    /\ UNCHANGED <<disk, holder, world, jobs, readers, doomed, renamer>>

GcLocks ==
    /\ gpc = "sweeping" /\ doomed # {} /\ gpc' = "removing"
    /\ Lock(MirrorLock(Decided), "gc")
    /\ UNCHANGED <<mirror, content, world, jobs, readers, doomed, renamer>>

\* remove_repository.  An rmtree that raises is reported and leaves what it
\* had not yet removed, with or without the HEAD file.
GcRemoves ==
    /\ gpc = "removing" /\ gpc' = "sweeping"
    /\ \E rest \in IF mirror[Decided] = "absent" THEN {"absent"} ELSE {"absent", "dir", "bare"} :
          mirror' = [mirror EXCEPT ![Decided] = rest]
    /\ content' = [content EXCEPT ![Decided] = {}]
    /\ doomed' = doomed \ {Decided}
    /\ Unlock(HeldBy("gc"))
    /\ UNCHANGED <<base, world, jobs, readers, renamer>>

GcEnds ==
    /\ gpc = "sweeping" /\ doomed = {} /\ gpc' = "idle"
    /\ UNCHANGED <<disk, holder, world, jobs, readers, doomed, renamer>>

-----------------------------------------------------------------------------
(* rename: both locks, in sorted order; never over an existing mirror      *)

Lower(pair) == IF pair[1] < pair[2] THEN pair[1] ELSE pair[2]
Upper(pair) == IF pair[1] < pair[2] THEN pair[2] ELSE pair[1]

RenameBegins(old, new) ==
    /\ npc = "idle" /\ old # new /\ Begin
    /\ npair' = <<old, new>>
    /\ npc' = "first"
    /\ UNCHANGED <<disk, holder, world, jobs, readers, collector>>

RenameLocksFirst ==
    /\ npc = "first" /\ npc' = "second"
    /\ Lock(MirrorLock(Lower(npair)), "rename")
    /\ UNCHANGED <<mirror, content, world, jobs, readers, collector, npair>>

RenameLocksSecond ==
    /\ npc = "second" /\ npc' = "move"
    /\ Lock(MirrorLock(Upper(npair)), "rename")
    /\ UNCHANGED <<mirror, content, world, jobs, readers, collector, npair>>

RenameMoves ==
    /\ npc = "move" /\ npc' = "idle"
    /\ LET old == npair[1] new == npair[2]
       IN  IF mirror[old] # "absent" /\ mirror[new] = "absent"
           THEN /\ mirror' = [mirror EXCEPT ![new] = mirror[old], ![old] = "absent"]
                /\ content' = [content EXCEPT ![new] = content[old], ![old] = {}]
           ELSE UNCHANGED <<mirror, content>>
    /\ npair' = <<1, 1>>
    /\ Unlock(HeldBy("rename"))
    /\ UNCHANGED <<base, world, jobs, readers, collector>>

-----------------------------------------------------------------------------
(* The outside: developers push notes; Pushes age or recent ones are       *)
(* quarantined                                                             *)

NotePushed(r, e) ==
    /\ r \in {JobRepo[j] : j \in Jobs} /\ e \notin remote[r]
    /\ remote' = [remote EXCEPT ![r] = @ \union {e}]
    /\ UNCHANGED <<disk, holder, expired, jobs, readers, collector, renamer>>

PushesAge(r) ==
    /\ r \notin expired
    /\ expired' = expired \union {r}
    /\ UNCHANGED <<disk, holder, remote, jobs, readers, collector, renamer>>

-----------------------------------------------------------------------------

JobNext(j) ==
    \/ LockObservations(j) \/ LockMirror(j) \/ InitMirror(j) \/ Fetch(j)
    \/ RefreshFails(j) \/ Capture(j) \/ (\E e \in Edges : StoreObservation(j, e))
    \/ CaptureEnds(j) \/ DeriveLocks(j) \/ DeriveEnds(j)
ReaderNext(d) == SnapshotLocks(d) \/ SnapshotReady(d) \/ SnapshotEnds(d)
GcNext == GcLists \/ GcLocks \/ GcRemoves \/ GcEnds
RenameNext == RenameLocksFirst \/ RenameLocksSecond \/ RenameMoves

Next ==
    \/ \E j \in Jobs : Deliver(j)
    \/ \E d \in Readers, keys \in SUBSET Repos : SnapshotBegins(d, keys)
    \/ GcReads
    \/ \E old, new \in Repos : RenameBegins(old, new)
    \/ /\ \/ \E j \in Jobs : JobNext(j) \/ Kill(j)
          \/ \E d \in Readers : ReaderNext(d)
          \/ GcNext \/ RenameNext
          \/ \E r \in Repos : PushesAge(r) \/ \E e \in Edges : NotePushed(r, e)
       /\ UNCHANGED starts

Spec == Init /\ [][Next]_vars

-----------------------------------------------------------------------------
(* Properties                                                              *)

\* The types of the variables.
MirrorTypeOK ==
    /\ base \in BOOLEAN
    /\ mirror \in [Repos -> {"absent", "dir", "bare", "ready"}]
    /\ content \in [Repos -> SUBSET Edges] /\ remote \in [Repos -> SUBSET Edges]
    /\ expired \in SUBSET Repos
    /\ holder \in [Locks -> Jobs \union Readers \union {"gc", "rename", "nobody"}]
    /\ jpc \in [Jobs -> {"idle", "observe", "refresh", "init", "fetch", "capture", "store",
                         "derive", "deriving"}]
    /\ seen \in [Jobs -> SUBSET Edges] /\ known \in [Jobs -> SUBSET Edges]
    /\ observed \in [Repos \X Edges -> Jobs \union {"nobody"}]
    /\ rpc \in [Readers -> {"idle", "locking", "reading"}]
    /\ want \in [Readers -> SUBSET Repos] /\ based \in [Readers -> BOOLEAN]
    /\ gpc \in {"idle", "listing", "sweeping", "removing"} /\ doomed \in SUBSET Repos
    /\ npc \in {"idle", "first", "second", "move"}
    /\ kills \in 0..MaxKills /\ starts \in 0..MaxStarts

\* What a derivation opened stays exactly as it was until its snapshot ends,
\* whatever refresh, rename or collection does meanwhile, also when the first
\* clone begins during a snapshot that found no base directory ("a first
\* clone that starts mid-read is never seen half-built", mirror.py).
SnapshotIsStable ==
    \A d \in Readers : rpc[d] = "reading" =>
        \A r \in want[d] : view[d][r] = OpenRepository(d, r)

\* While a capture is persisting what it saw, no other Push becomes the source
\* of an edge it saw first: the observation lock outlives the mirror lock
\* (mirror.py, observation_capture).
FirstSightPersists ==
    \A j \in Jobs : \A e \in seen[j] :
        observed[<<JobRepo[j], e>>] \in {"nobody", j} \/ e \in known[j]

\* The mirror a child has just fetched is there when it reads the notes: no
\* collection, rename or other refresh comes between (gc.py: a freshly
\* refreshed mirror may be removed, but only once its lock is free).
CaptureSeesItsFetch ==
    \A j \in Jobs : jpc[j] = "capture" => mirror[JobRepo[j]] = "ready"

\* The lock a process waits for, and the processes that wait for each other.
Waits(who) ==
    IF who \in Jobs THEN
        IF jpc[who] = "observe" THEN {ObservationLock(JobRepo[who])}
        ELSE IF jpc[who] \in {"refresh", "derive"} THEN {MirrorLock(JobRepo[who])} ELSE {}
    ELSE IF who \in Readers THEN
        IF rpc[who] = "locking" /\ based[who] /\ Unlocked(who) # {}
        THEN {MirrorLock(NextLock(who))} ELSE {}
    ELSE IF who = "gc" THEN
        IF gpc = "sweeping" /\ doomed # {} THEN {MirrorLock(Decided)} ELSE {}
    ELSE IF npc = "first" THEN {MirrorLock(Lower(npair))}
    ELSE IF npc = "second" THEN {MirrorLock(Upper(npair))} ELSE {}

\* Some process that another one waits for can go on: no set of processes
\* waits only on its own members (mirror.py, "deadlock-free order").
LocksNeverDeadlock ==
    LET actors == Jobs \union Readers \union {"gc", "rename"}
    IN  \A stuck \in (SUBSET actors) \ {{}} :
            \E who \in stuck : \A l \in Waits(who) : holder[l] \notin stuck

=============================================================================
