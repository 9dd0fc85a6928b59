---------------------------- MODULE SessionNotes ----------------------------
(***************************************************************************)
(* How the Git hooks of the Sediment CLI turn agent activity into Session   *)
(* notes (cli/sediment_cli/attribution.py).                                 *)
(*                                                                          *)
(* An agent hook marks its Session in the worktree's marker file; every     *)
(* mark gives the Session a new generation.  The post-commit hook stamps:   *)
(* it pins HEAD, snapshots the markers, merges them with the commit's note  *)
(* and, once the note is written, removes the generations it snapshotted.   *)
(* The pre-push hook and repair-notes reconcile the clone's notes ref with  *)
(* the one of origin and push it.  Linked worktrees of a clone share the    *)
(* notes ref and the nonblocking lock around every local writer of it.      *)
(*                                                                          *)
(* A note is the set of Sessions its payloads name: readers union whatever  *)
(* was concatenated, so the cat_sort_uniq merge of two notes is their       *)
(* union.  The marker file is replaced as a whole under its own lock, and   *)
(* no other step is taken inside that lock: its sections are single steps.  *)
(***************************************************************************)
EXTENDS Integers, FiniteSets

CONSTANTS
    Clones,       \* clones of one repository
    Worktrees,    \* linked worktrees
    Settings,     \* where to start: the clone of each worktree, the commits that
                  \* exist, and how much of MaxFaults is spent (bounds on the
                  \* larger ones)
    Commits,      \* commits, Base among them
    Base,         \* the commit everyone starts from
    Sessions,     \* (tool, session_id)
    MaxMarks,     \* bound: generations
    MaxWrites,    \* bound: commits of notes refs
    MaxFaults,    \* bound: dead hooks, failing Git commands and pushes
    MaxMisreads,  \* bound: times that git rev-parse fails on an existing ref
    None

ASSUME SettingsAssumption ==
    \A g \in Settings :
        /\ g \in [clone : [Worktrees -> Clones], made : SUBSET Commits, faults : 0..MaxFaults]
        /\ Base \in g.made

ASSUME CommitAssumption ==
    /\ Base \in Commits /\ None \notin Commits \cup Clones
    /\ None \notin {"stamp", "push"} \X Worktrees

ASSUME BoundAssumption ==
    /\ MaxMarks \in Nat /\ MaxWrites \in Nat
    /\ MaxFaults \in Nat /\ MaxMisreads \in Nat

VARIABLES
    cloneOf,    \* the clone of each worktree, fixed
    head,       \* HEAD of each worktree
    made,       \* commits that exist
    marker,     \* marker file of each worktree: generation per Session, 0 none
    marks,      \* last generation given
    ref,        \* refs/notes/sediment of each clone
    remote,     \* refs/notes/sediment of origin
    writes,     \* last notes commit made
    mutex,      \* notes lock of each clone: its holder
    hook,       \* the commit hook running in each worktree
    push,       \* the push-notes or repair-notes running in each worktree
    faults, misreads,
    recorded,   \* history: the last generation recorded, per worktree and Session
    credited,   \* history: the commits whose note that generation went into
    delivered   \* history: <<commit, Session>> of commands that ended well

gitVars   == <<cloneOf, ref, remote, writes>>
ghostVars == <<recorded, credited, delivered>>
vars == <<cloneOf, head, made, marker, marks, ref, remote, writes, mutex, hook, push,
          faults, misreads, recorded, credited, delivered>>

\* A notes ref: the notes commits in its history, and what the notes say.
Ref == [hist : SUBSET Nat, note : [Commits -> SUBSET Sessions]]
NoRef == [hist |-> {}, note |-> [c \in Commits |-> {}]]

Noted(r) == {cs \in Commits \X Sessions : cs[2] \in r.note[cs[1]]}

Marks == [Sessions -> Nat]
NoMarks == [s \in Sessions |-> 0]

\* cmd_stamp's and cmd_union_squash_notes' locals
Hook == [stage : {"idle", "squash", "lock", "write", "clean"},
         sha : Commits \cup {None}, snapshot : Marks, sessions : SUBSET Sessions]
IdleHook == [stage |-> "idle", sha |-> None, snapshot |-> NoMarks, sessions |-> {}]

\* _reconciled_push's attempts left, and refs/notes/sediment-remote, which is
\* only read after its fetch under the lock; "owed" is a history field, the
\* notes of the clone when the command began.
Push == [stage : {"idle", "lock", "merge", "push"},
         left : 0..3, tracking : Ref, owed : SUBSET (Commits \X Sessions)]
IdlePush == [stage |-> "idle", left |-> 0, tracking |-> NoRef, owed |-> {}]

Init ==
    /\ head = [w \in Worktrees |-> Base]
    /\ marker = [w \in Worktrees |-> NoMarks]
    /\ marks = 0
    /\ ref = [k \in Clones |-> NoRef]
    /\ remote = NoRef
    /\ writes = 0
    /\ mutex = [k \in Clones |-> None]
    /\ hook = [w \in Worktrees |-> IdleHook]
    /\ push = [w \in Worktrees |-> IdlePush]
    /\ \E g \in Settings : cloneOf = g.clone /\ made = g.made /\ faults = g.faults
    /\ misreads = 0
    /\ recorded = [w \in Worktrees |-> NoMarks]
    /\ credited = [w \in Worktrees |-> [s \in Sessions |-> {}]]
    /\ delivered = {}

-----------------------------------------------------------------------------
(* Marker files *)

Marked(m) == {s \in Sessions : m[s] # 0}

\* The sessions of S get the next generation, the others keep theirs.
Refresh(m, S) == [s \in Sessions |-> IF s \in S THEN marks + 1 ELSE m[s]]

\* The sessions of S get the next generation in the marker file of w; it is in
\* no note yet.
Record(w, S) ==
    /\ marks < MaxMarks
    /\ marks' = marks + 1
    /\ marker' = [marker EXCEPT ![w] = Refresh(@, S)]
    /\ recorded' = [recorded EXCEPT ![w] = Refresh(@, S)]
    /\ credited' = [credited EXCEPT ![w] = [s \in Sessions |-> IF s \in S THEN {} ELSE @[s]]]

\* _record_marker: after every edit of an agent.
Mark(w, s) ==
    /\ Record(w, {s})
    /\ UNCHANGED <<head, made, gitVars, mutex, hook, push, faults, misreads, delivered>>

\* _read_note_sessions: the union of a note's payloads.
NoteSessions(w, c) == ref[cloneOf[w]].note[c]

\* cmd_union_squash_notes, outside every lock: the Sessions noted on the
\* squashed commits.
SquashRead(w, C) ==
    /\ hook[w].stage = "idle"
    /\ LET union == UNION {NoteSessions(w, c) : c \in C}
       IN  /\ union # {}
           /\ hook' = [hook EXCEPT ![w] = [IdleHook EXCEPT !.stage = "squash",
                                                           !.sessions = union]]
    /\ UNCHANGED <<head, made, marker, marks, gitVars, mutex, push, faults,
                   misreads, ghostVars>>

\* The markers that are live by now keep their generations.
SquashWrite(w) ==
    /\ hook[w].stage = "squash"
    /\ Record(w, hook[w].sessions \ Marked(marker[w]))
    /\ hook' = [hook EXCEPT ![w] = IdleHook]
    /\ UNCHANGED <<head, made, gitVars, mutex, push, faults, misreads, delivered>>

-----------------------------------------------------------------------------
(* The notes lock *)

\* _file_lock on the common Git directory: never waited for.
TakeMutex(w, who) ==
    /\ mutex[cloneOf[w]] = None
    /\ mutex' = [mutex EXCEPT ![cloneOf[w]] = <<who, w>>]

FreeMutex(w) == mutex' = [mutex EXCEPT ![cloneOf[w]] = None]

-----------------------------------------------------------------------------
(* git commit and cmd_stamp *)

\* git commit moves HEAD and runs the post-commit hook, which pins HEAD: one
\* commit operation per worktree.
Commit(w, c) ==
    /\ hook[w].stage = "idle"
    /\ c \notin made
    /\ made' = made \cup {c}
    /\ head' = [head EXCEPT ![w] = c]
    /\ hook' = [hook EXCEPT ![w] = [IdleHook EXCEPT !.stage = "lock", !.sha = c]]
    /\ UNCHANGED <<marker, marks, gitVars, mutex, push, faults, misreads, ghostVars>>

\* `sediment stamp', run by hand to recover a pending stamp.
StampAgain(w) ==
    /\ hook[w].stage = "idle"
    /\ Marked(marker[w]) # {}
    /\ hook' = [hook EXCEPT ![w] = [IdleHook EXCEPT !.stage = "lock", !.sha = head[w]]]
    /\ UNCHANGED <<head, made, marker, marks, gitVars, mutex, push, faults,
                   misreads, ghostVars>>

\* The hook is done; the lock, if it has it, goes with it.
EndHook(w) ==
    /\ hook' = [hook EXCEPT ![w] = IdleHook]
    /\ IF mutex[cloneOf[w]] = <<"stamp", w>> THEN FreeMutex(w) ELSE UNCHANGED mutex

\* No marker file: nothing to stamp.
NothingMarked(w) ==
    /\ hook[w].stage = "lock"
    /\ Marked(marker[w]) = {}
    /\ EndHook(w)
    /\ UNCHANGED <<head, made, marker, marks, gitVars, push, faults, misreads, ghostVars>>

\* With the notes lock: the generations to stamp, and the payload to write, the
\* note's Sessions and the snapshot's.  Nothing this step reads twice can change
\* in between, the note because of the lock.
StampLock(w) ==
    /\ hook[w].stage = "lock"
    /\ Marked(marker[w]) # {}
    /\ TakeMutex(w, "stamp")
    /\ hook' = [hook EXCEPT ![w].stage = "write", ![w].snapshot = marker[w],
                            ![w].sessions = NoteSessions(w, hook[w].sha) \cup Marked(marker[w])]
    /\ UNCHANGED <<head, made, marker, marks, gitVars, push, faults, misreads, ghostVars>>

\* stamp_busy: the markers stay for a later stamp.
StampBusy(w) ==
    /\ hook[w].stage = "lock"
    /\ mutex[cloneOf[w]] # None
    /\ EndHook(w)
    /\ UNCHANGED <<head, made, marker, marks, gitVars, push, faults, misreads, ghostVars>>

\* git notes add -f: the note is replaced, in a new notes commit.
WriteNote(w) ==
    /\ hook[w].stage = "write"
    /\ writes < MaxWrites
    /\ writes' = writes + 1
    /\ ref' = [ref EXCEPT ![cloneOf[w]] =
                 [hist |-> @.hist \cup {writes + 1},
                  note |-> [@.note EXCEPT ![hook[w].sha] = hook[w].sessions]]]
    /\ credited' = [credited EXCEPT ![w] =
                      [s \in Sessions |->
                         @[s] \cup {c \in {hook[w].sha} :
                                      /\ s \in Marked(hook[w].snapshot)
                                      /\ hook[w].snapshot[s] = recorded[w][s]}]]
    /\ hook' = [hook EXCEPT ![w].stage = "clean"]
    /\ UNCHANGED <<cloneOf, head, made, marker, marks, remote, mutex, push, faults,
                   misreads, recorded, delivered>>

\* Mutant: cleanup removes the Sessions of the snapshot, whatever their
\* generation
RemainingBySession(live, snapshot) ==
    [s \in Sessions |-> IF snapshot[s] # 0 THEN 0 ELSE live[s]]

\* What cleanup leaves: all but the generations of the snapshot.
Remaining(live, snapshot) ==
    [s \in Sessions |-> IF live[s] = snapshot[s] THEN 0 ELSE live[s]]

Cleanup(w) ==
    /\ hook[w].stage = "clean"
    /\ marker' = [marker EXCEPT ![w] = Remaining(@, hook[w].snapshot)]
    /\ EndHook(w)
    /\ UNCHANGED <<head, made, marks, gitVars, push, faults, misreads, ghostVars>>

\* A Git command, a write or the hook itself fails, at any point.
HookFails(w) ==
    /\ hook[w].stage # "idle"
    /\ faults < MaxFaults
    /\ faults' = faults + 1
    /\ EndHook(w)
    /\ UNCHANGED <<head, made, marker, marks, gitVars, push, misreads, ghostVars>>

-----------------------------------------------------------------------------
(* push-notes and repair-notes *)

\* The command begins: push-notes has two attempts, and only with a notes ref;
\* repair-notes reconciles once before them.
BeginPush(w, attempts) ==
    /\ push[w].stage = "idle"
    /\ attempts = 2 => ref[cloneOf[w]].hist # {}
    /\ push' = [push EXCEPT ![w] = [IdlePush EXCEPT !.stage = "lock", !.left = attempts,
                                                    !.owed = Noted(ref[cloneOf[w]])]]
    /\ UNCHANGED <<head, made, marker, marks, gitVars, mutex, hook, faults,
                   misreads, ghostVars>>

\* The command is over.  With ok, the remote took the notes it owed, or there was
\* none to push (the hook exits with 0 either way).
EndPush(w, ok) ==
    /\ push' = [push EXCEPT ![w] = IdlePush]
    /\ delivered' = IF ok THEN delivered \cup push[w].owed ELSE delivered

\* notes_reconcile_busy: the command gives up.
ReconcileBusy(w) ==
    /\ push[w].stage = "lock"
    /\ mutex[cloneOf[w]] # None
    /\ EndPush(w, FALSE)
    /\ UNCHANGED <<head, made, marker, marks, gitVars, mutex, hook, faults,
                   misreads, recorded, credited>>

GoOn(w, stage, left) ==
    /\ push' = [push EXCEPT ![w].stage = stage, ![w].left = left, ![w].tracking = NoRef]
    /\ UNCHANGED delivered

\* Reconciled: on to the push, or, after the first one of repair-notes, to the
\* next reconciliation, unless there is still no notes ref to push.
Reconciled(w) ==
    /\ FreeMutex(w)
    /\ IF push[w].left = 3
       THEN IF ref'[cloneOf[w]].hist = {} THEN EndPush(w, TRUE)
            ELSE GoOn(w, "lock", 2)
       ELSE GoOn(w, "push", push[w].left)

\* With the notes lock: fetch the remote's notes into the tracking ref.
Fetch(w) ==
    /\ push[w].stage = "lock"
    /\ TakeMutex(w, "push")
    /\ remote.hist # {}
    /\ push' = [push EXCEPT ![w].stage = "merge", ![w].tracking = remote]
    /\ UNCHANGED <<head, made, marker, marks, gitVars, hook, faults, misreads, ghostVars>>

\* Unreachable, or no notes ref there yet: the lock is free again and the push
\* decides.
FetchNothing(w) ==
    /\ push[w].stage = "lock"
    /\ mutex[cloneOf[w]] = None
    /\ faults' \in {faults, faults + 1} /\ faults' <= MaxFaults
    /\ remote.hist = {} \/ faults' > faults
    /\ UNCHANGED <<head, made, marker, marks, gitVars, hook, misreads, recorded, credited>>
    /\ Reconciled(w)

\* `Fresh machine: adopt the remote's history outright': whenever git rev-parse
\* does not print the local ref, also when it failed for another reason.
AdoptRemote(w) ==
    /\ push[w].stage = "merge"
    /\ misreads' \in {misreads, misreads + 1} /\ misreads' <= MaxMisreads
    /\ ref[cloneOf[w]].hist = {} \/ misreads' > misreads
    /\ ref' = [ref EXCEPT ![cloneOf[w]] = push[w].tracking]
    /\ Reconciled(w)
    /\ UNCHANGED <<cloneOf, head, made, marker, marks, remote, writes, hook, faults,
                   recorded, credited>>

\* The local ref contains the history of the remote one.
AlreadyMerged(w) ==
    /\ push[w].stage = "merge"
    /\ ref[cloneOf[w]].hist # {}
    /\ push[w].tracking.hist \subseteq ref[cloneOf[w]].hist
    /\ UNCHANGED <<head, made, marker, marks, gitVars, hook, faults, misreads, recorded,
                   credited>>
    /\ Reconciled(w)

\* Mutant: the remote's note replaces the local one of the same commit
MergedTheirs(mine, theirs) ==
    [c \in Commits |-> IF theirs[c] # {} THEN theirs[c] ELSE mine[c]]

\* git notes merge -s cat_sort_uniq
Merged(mine, theirs) == [c \in Commits |-> mine[c] \cup theirs[c]]

Merge(w) ==
    /\ push[w].stage = "merge"
    /\ writes < MaxWrites
    /\ LET mine == ref[cloneOf[w]]
           theirs == push[w].tracking
       IN  /\ mine.hist # {}
           /\ ~ theirs.hist \subseteq mine.hist
           /\ ref' = [ref EXCEPT ![cloneOf[w]] =
                        [hist |-> mine.hist \cup theirs.hist \cup {writes + 1},
                         note |-> Merged(mine.note, theirs.note)]]
    /\ writes' = writes + 1
    /\ Reconciled(w)
    /\ UNCHANGED <<cloneOf, head, made, marker, marks, remote, hook, faults, misreads,
                   recorded, credited>>

\* Mutant: git push --force
AnyPush(mine, theirs) == TRUE

\* A plain push needs a fast-forward of what the remote has.
FastForward(mine, theirs) == theirs.hist \subseteq mine.hist

PushRef(w) ==
    /\ push[w].stage = "push"
    /\ FastForward(ref[cloneOf[w]], remote)
    /\ remote' = ref[cloneOf[w]]
    /\ EndPush(w, TRUE)
    /\ UNCHANGED <<cloneOf, head, made, marker, marks, ref, writes, mutex, hook, faults,
                   misreads, recorded, credited>>

\* The remote moved, or the push failed: reconcile and try once more.
PushRejected(w) ==
    /\ push[w].stage = "push"
    /\ faults' \in {faults, faults + 1} /\ faults' <= MaxFaults
    /\ ~FastForward(ref[cloneOf[w]], remote) \/ faults' > faults
    /\ IF push[w].left = 1 THEN EndPush(w, FALSE)
       ELSE GoOn(w, "lock", push[w].left - 1)
    /\ UNCHANGED <<head, made, marker, marks, gitVars, mutex, hook, misreads,
                   recorded, credited>>

\* The command dies or a Git command of it fails; after a timeout nobody knows
\* whether the push arrived.
PushFails(w) ==
    /\ push[w].stage # "idle"
    /\ faults < MaxFaults
    /\ faults' = faults + 1
    /\ remote' \in {remote} \cup
         (IF push[w].stage = "push" /\ FastForward(ref[cloneOf[w]], remote)
          THEN {ref[cloneOf[w]]} ELSE {})
    /\ EndPush(w, FALSE)
    /\ IF mutex[cloneOf[w]] = <<"push", w>> THEN FreeMutex(w) ELSE UNCHANGED mutex
    /\ UNCHANGED <<cloneOf, head, made, marker, marks, ref, writes, hook, misreads,
                   recorded, credited>>

-----------------------------------------------------------------------------
CommitHook(w) ==
    \/ SquashWrite(w) \/ StampAgain(w) \/ NothingMarked(w)
    \/ StampLock(w) \/ StampBusy(w) \/ WriteNote(w)
    \/ Cleanup(w) \/ HookFails(w)
    \/ \E c \in Commits : Commit(w, c)
    \/ \E C \in SUBSET Commits : SquashRead(w, C)

PushHook(w) ==
    \/ \E attempts \in {2, 3} : BeginPush(w, attempts)
    \/ ReconcileBusy(w) \/ Fetch(w) \/ FetchNothing(w)
    \/ AdoptRemote(w) \/ AlreadyMerged(w) \/ Merge(w)
    \/ PushRef(w) \/ PushRejected(w) \/ PushFails(w)

Next ==
    \E w \in Worktrees :
        \/ \E s \in Sessions : Mark(w, s)
        \/ CommitHook(w)
        \/ PushHook(w)

Spec == Init /\ [][Next]_vars

-----------------------------------------------------------------------------
(* Properties *)

\* What files, refs and running hooks hold; who is past its lock step is the
\* holder of its clone's notes lock, and nobody else is.
NotesTypeOK ==
    /\ head \in [Worktrees -> Commits] /\ made \subseteq Commits
    /\ marker \in [Worktrees -> Marks] /\ marks \in Nat
    /\ ref \in [Clones -> Ref] /\ remote \in Ref
    /\ writes \in Nat /\ faults \in Nat /\ misreads \in Nat
    /\ hook \in [Worktrees -> Hook] /\ push \in [Worktrees -> Push]
    /\ recorded \in [Worktrees -> Marks]
    /\ credited \in [Worktrees -> [Sessions -> SUBSET Commits]]
    /\ delivered \subseteq Commits \X Sessions
    /\ \A w \in Worktrees :
          /\ hook[w].stage \in {"write", "clean"}
                <=> mutex[cloneOf[w]] = <<"stamp", w>>
          /\ push[w].stage = "merge"
                <=> mutex[cloneOf[w]] = <<"push", w>>

\* "This protocol retains evidence": the last mark of a Session is still in the
\* marker file, or that very generation was snapshotted for a commit whose note
\* names the Session and still does, whatever was marked, stamped, squashed,
\* reconciled or interrupted since.
EvidenceRetained ==
    \A w \in Worktrees, s \in Sessions :
        \/ marker[w][s] = recorded[w][s]
        \/ \E c \in credited[w][s] : s \in ref[cloneOf[w]].note[c]

\* "The lock prevents lost updates": no step of any hook takes a Session out of
\* a note, neither in a clone nor at origin.
NotesNeverShrink ==
    [][\A c \in Commits :
         /\ \A k \in Clones : ref[k].note[c] \subseteq ref'[k].note[c]
         /\ remote.note[c] \subseteq remote'.note[c]]_vars

\* repair-notes "reports what happened": when it, or push-notes, ends well,
\* origin has every Session note the clone had when the command began.
SuccessMeansPushed == delivered \subseteq Noted(remote)
=============================================================================
