------------------------- MODULE SessionNotesProofs -------------------------
(***************************************************************************)
(* Proofs about the notes protocol, for any number of clones, worktrees,   *)
(* commits, Sessions, marks, notes commits and faults.                     *)
(***************************************************************************)
EXTENDS SessionNotes, TLAPS

-----------------------------------------------------------------------------
(* The inductive invariant                                                 *)

\* The types, those of the clones and of the lock included
NotesTyped ==
    /\ cloneOf \in [Worktrees -> Clones]
    /\ mutex \in [Clones -> ({"stamp", "push"} \X Worktrees) \cup {None}]
    /\ head \in [Worktrees -> Commits] /\ made \subseteq Commits
    /\ marker \in [Worktrees -> Marks] /\ marks \in Nat
    /\ ref \in [Clones -> Ref] /\ remote \in Ref
    /\ writes \in Nat /\ faults \in Nat /\ misreads \in 0..MaxMisreads
    /\ hook \in [Worktrees -> Hook] /\ push \in [Worktrees -> Push]
    /\ recorded \in [Worktrees -> Marks]
    /\ credited \in [Worktrees -> [Sessions -> SUBSET Commits]]
    /\ delivered \subseteq Commits \X Sessions

\* Who is past its lock step holds the notes lock of its clone
HookLocked(w) == hook[w].stage \in {"write", "clean"} <=> mutex[cloneOf[w]] = <<"stamp", w>>
PushLocked(w) == push[w].stage = "merge" <=> mutex[cloneOf[w]] = <<"push", w>>

\* The notes refs there are: of the clones, of origin, and what was fetched
AllRefs == {ref[k] : k \in Clones} \cup {remote} \cup {push[w].tracking : w \in Worktrees}

\* Everything that note a says, note b says
Below(a, b) == \A c \in Commits : a.note[c] \subseteq b.note[c]

\* The notes commit that made a ref is the last one in its history
Tip(a, t) == t \in a.hist /\ \A n \in a.hist : n <= t

\* The refs R descend from notes commits 1..n: a ref whose history contains
\* the tip of another contains all of it, and says all that the other says
Descended(R, n) ==
    /\ \A a \in R :
          /\ a \in Ref /\ a.hist \subseteq 1..n
          /\ a.hist = {} => Below(a, NoRef)
          /\ a.hist # {} => \E t \in a.hist : Tip(a, t)
    /\ \A a, b \in R : \A t \in b.hist : Tip(a, t) => a.hist \subseteq b.hist /\ Below(a, b)

\* A commit hook: what it is about to write contains the note it replaces and
\* the Sessions it snapshotted, and what it is about to clean is in a note
HookGood(w) ==
    /\ hook[w].stage \in {"lock", "write", "clean"} => hook[w].sha \in Commits
    /\ \A s \in Sessions : hook[w].snapshot[s] <= marks /\ marker[w][s] <= marks
    /\ hook[w].stage = "write" =>
          ref[cloneOf[w]].note[hook[w].sha] \cup Marked(hook[w].snapshot) \subseteq hook[w].sessions
    /\ hook[w].stage = "clean" =>
          \A s \in Marked(hook[w].snapshot) : hook[w].snapshot[s] = recorded[w][s] =>
              \E c \in credited[w][s] : s \in ref[cloneOf[w]].note[c]

\* A push: it has attempts left, and the clone still has what it began with
PushGood(w) ==
    push[w].stage # "idle" => push[w].left \in 1..3 /\ push[w].owed \subseteq Noted(ref[cloneOf[w]])

\* The last mark of each Session is in the marker file or in a note
Retained(w) ==
    \A s \in Sessions : \/ marker[w][s] = recorded[w][s]
                        \/ \E c \in credited[w][s] : s \in ref[cloneOf[w]].note[c]

NotesInv ==
    /\ NotesTyped
    /\ Descended(AllRefs, writes)
    /\ \A w \in Worktrees : HookLocked(w) /\ HookGood(w) /\ Retained(w)
    /\ \A w \in Worktrees : PushLocked(w) /\ PushGood(w)
    /\ SuccessMeansPushed

-----------------------------------------------------------------------------
(* Histories of notes refs                                                 *)

\* A ref that is forgotten, or that is new and empty, changes nothing
LEMMA FewerRefs ==
    ASSUME NEW R, NEW n \in Nat, Descended(R, n), NEW Q, Q \subseteq R \cup {NoRef}
    PROVE  Descended(Q, n)
<1>1. NoRef \in Ref /\ NoRef.hist = {} /\ Below(NoRef, NoRef)
  BY DEF NoRef, Ref, Below
<1>2. \A a \in Q :
          /\ a \in Ref /\ a.hist \subseteq 1..n
          /\ a.hist = {} => Below(a, NoRef)
          /\ a.hist # {} => \E t \in a.hist : Tip(a, t)
  BY <1>1 DEF Descended
<1>3. \A a, b \in Q : \A t \in b.hist : Tip(a, t) => a.hist \subseteq b.hist /\ Below(a, b)
  BY <1>1 DEF Descended, Tip
<1> QED
  BY <1>2, <1>3 DEF Descended

\* A history that contains another's says all that the other one says
LEMMA Contained ==
    ASSUME NEW R, NEW n \in Nat, Descended(R, n), NEW a \in R, NEW b \in R,
           a.hist \subseteq b.hist
    PROVE  Below(a, b)
<1>1. CASE a.hist = {}
  BY <1>1 DEF Descended, Below, NoRef
<1>2. CASE a.hist # {}
  <2>1. PICK t \in a.hist : Tip(a, t)
    BY <1>2 DEF Descended
  <2> QED
    BY <2>1 DEF Descended
<1> QED
  BY <1>1, <1>2

\* A new notes commit on top of two histories contains both and says what both
\* of them say
LEMMA OneMoreRef ==
    ASSUME NEW R, NEW n \in Nat, Descended(R, n), NEW mine \in R, NEW theirs \in R,
           NEW new \in Ref, new.hist = mine.hist \cup theirs.hist \cup {n + 1},
           Below(mine, new), Below(theirs, new), NEW Q, Q \subseteq R \cup {NoRef, new}
    PROVE  Descended(Q, n + 1)
<1>1. /\ NoRef \in Ref /\ NoRef.hist = {} /\ Below(NoRef, NoRef)
      /\ NoRef.hist \subseteq 1..(n + 1)
  BY DEF NoRef, Ref, Below
<1>2. \A a \in R : a.hist \subseteq 1..n /\ n + 1 \notin a.hist /\ a.hist \subseteq 1..(n + 1)
  BY DEF Descended
<1>3. new.hist \subseteq 1..(n + 1) /\ new.hist # {} /\ Tip(new, n + 1)
  <2>1. \A k \in new.hist : k \in 1..(n + 1)
    BY <1>2
  <2> QED
    BY <2>1 DEF Tip
<1>4. \A t : Tip(new, t) => t = n + 1
  BY <1>3 DEF Tip
<1>5. \A a \in Q :
          /\ a \in Ref /\ a.hist \subseteq 1..(n + 1)
          /\ a.hist = {} => Below(a, NoRef)
          /\ a.hist # {} => \E t \in a.hist : Tip(a, t)
  BY <1>1, <1>2, <1>3 DEF Descended, Tip
<1>6. ASSUME NEW a \in Q, NEW b \in Q, NEW t \in b.hist, Tip(a, t)
      PROVE  a.hist \subseteq b.hist /\ Below(a, b)
  <2>1. a # NoRef /\ b # NoRef
    BY <1>1, <1>6 DEF Tip
  <2>2. CASE a \in R /\ b \in R
    BY <1>6, <2>2 DEF Descended
  <2>3. CASE a \in R /\ b = new
    <3>1. t \in a.hist /\ t # n + 1
      BY <1>2, <1>6, <2>3 DEF Tip
    <3>2. t \in mine.hist \/ t \in theirs.hist
      BY <1>6, <2>3, <3>1
    <3>3. (a.hist \subseteq mine.hist /\ Below(a, mine))
          \/ (a.hist \subseteq theirs.hist /\ Below(a, theirs))
      BY <1>6, <2>3, <3>2 DEF Descended
    <3> QED
      BY <2>3, <3>3 DEF Below
  <2>4. CASE a = new
    <3>1. b = new
      BY <1>2, <1>4, <1>6, <2>1, <2>4
    <3> QED
      BY <2>4, <3>1 DEF Below
  <2> QED
    BY <2>1, <2>2, <2>3, <2>4
<1> QED
  BY <1>5, <1>6 DEF Descended

-----------------------------------------------------------------------------
(* What a step leaves alone                                                *)

\* No note loses a Session
Grows ==
    /\ cloneOf' = cloneOf
    /\ \A k \in Clones : Below(ref[k], ref'[k])
    /\ Below(remote, remote')

\* The notes lock is taken or given back by who, at work in w
MutexStep(who, w) ==
    \/ mutex' = mutex
    \/ TakeMutex(w, who)
    \/ mutex[cloneOf[w]] = <<who, w>> /\ FreeMutex(w)

\* The lock of another one stays where it is
LEMMA OtherLock ==
    ASSUME NotesTyped, cloneOf' = cloneOf, NEW who \in {"stamp", "push"}, NEW w \in Worktrees,
           MutexStep(who, w), NEW x \in {"stamp", "push"}, NEW v \in Worktrees,
           x # who \/ v # w
    PROVE  mutex'[cloneOf[v]] = <<x, v>> <=> mutex[cloneOf[v]] = <<x, v>>
<1>1. cloneOf[v] \in Clones /\ cloneOf[w] \in Clones
  BY DEF NotesTyped
<1>2. <<x, v>> # <<who, w>> /\ <<x, v>> # None /\ <<who, w>> # None
  BY CommitAssumption
<1> DEFINE mark == <<x, v>>
           own == <<who, w>>
<1>3. mark # own /\ mark # None /\ own # None
  BY <1>2
<1>4. \/ mutex' = mutex
      \/ mutex[cloneOf[w]] = None /\ mutex' = [mutex EXCEPT ![cloneOf[w]] = own]
      \/ mutex[cloneOf[w]] = own /\ mutex' = [mutex EXCEPT ![cloneOf[w]] = None]
  BY DEF MutexStep, TakeMutex, FreeMutex
<1>5. mutex'[cloneOf[v]] = mark <=> mutex[cloneOf[v]] = mark
  <2> HIDE DEF mark, own
  <2> QED
    BY <1>1, <1>3, <1>4 DEF NotesTyped
<1> QED
  BY <1>5

LEMMA MutexTyped ==
    ASSUME NotesTyped, NEW who \in {"stamp", "push"}, NEW w \in Worktrees, MutexStep(who, w)
    PROVE  mutex' \in [Clones -> ({"stamp", "push"} \X Worktrees) \cup {None}]
<1> DEFINE own == <<who, w>>
           owners == {"stamp", "push"} \X Worktrees
<1>1. \/ mutex' = mutex \/ mutex' = [mutex EXCEPT ![cloneOf[w]] = own]
      \/ mutex' = [mutex EXCEPT ![cloneOf[w]] = None]
  BY DEF MutexStep, TakeMutex, FreeMutex
<1>2. own \in owners /\ mutex \in [Clones -> owners \cup {None}]
  BY DEF NotesTyped
<1>3. mutex' \in [Clones -> owners \cup {None}]
  <2> HIDE DEF own, owners
  <2> QED
    BY <1>1, <1>2
<1> QED
  BY <1>3

\* A hook that is not moved stays as good as it was, while its clone's notes
\* are not replaced under it
LEMMA HookStays ==
    ASSUME NotesTyped, NotesTyped', Grows, NEW w \in Worktrees, HookGood(w), Retained(w),
           hook'[w] = hook[w], marker'[w] = marker[w], recorded'[w] = recorded[w],
           credited'[w] = credited[w], marks' >= marks,
           hook[w].stage = "write" => ref'[cloneOf[w]] = ref[cloneOf[w]]
    PROVE  HookGood(w)' /\ Retained(w)'
<1>1. \A c \in Commits : ref[cloneOf[w]].note[c] \subseteq ref'[cloneOf[w]].note[c]
  BY DEF Grows, Below, NotesTyped
<1>2. \A s \in Sessions : credited[w][s] \subseteq Commits
  BY DEF NotesTyped
<1>3. \A s \in Sessions : (\E c \in credited[w][s] : s \in ref[cloneOf[w]].note[c]) =>
                          (\E c \in credited'[w][s] : s \in ref'[cloneOf[w]].note[c])
  BY <1>1, <1>2
<1>4. Retained(w)'
  BY <1>3 DEF Retained, Grows
<1>5. \A s \in Sessions : hook'[w].snapshot[s] <= marks' /\ marker'[w][s] <= marks'
  <2>1. \A s \in Sessions : /\ hook[w].snapshot[s] \in Nat /\ marker[w][s] \in Nat
                             /\ marks \in Nat /\ marks' \in Nat
    BY DEF NotesTyped, Hook, Marks
  <2> QED
    BY <2>1 DEF HookGood
<1>6. HookGood(w)'
  BY <1>3, <1>5 DEF HookGood, Grows, Marked
<1> QED
  BY <1>4, <1>6

\* A push that is not moved stays as good as it was
LEMMA PushStays ==
    ASSUME NotesTyped, Grows, NEW w \in Worktrees, PushGood(w), push'[w] = push[w]
    PROVE  PushGood(w)'
<1>1. \A c \in Commits : ref[cloneOf[w]].note[c] \subseteq ref'[cloneOf[w]].note[c]
  BY DEF Grows, Below, NotesTyped
<1>2. Noted(ref[cloneOf[w]]) \subseteq Noted(ref'[cloneOf[w]])
  BY <1>1 DEF Noted
<1> QED
  BY <1>2 DEF PushGood, Grows

\* A step of the commit hook of w
LEMMA HookStep ==
    ASSUME NotesInv, NotesTyped', NEW w \in Worktrees, Grows, Descended(AllRefs', writes'),
           UNCHANGED <<remote, push, delivered>>, marks' >= marks, MutexStep("stamp", w),
           \A v \in Worktrees \ {w} :
               /\ hook'[v] = hook[v] /\ marker'[v] = marker[v] /\ recorded'[v] = recorded[v]
               /\ credited'[v] = credited[v]
               /\ hook[v].stage = "write" => ref'[cloneOf[v]] = ref[cloneOf[v]],
           HookLocked(w)', HookGood(w)', Retained(w)'
    PROVE  NotesInv' /\ Grows
<1>1. NotesTyped /\ cloneOf' = cloneOf
  BY DEF NotesInv, Grows
<1>2. \A v \in Worktrees : HookGood(v)' /\ Retained(v)'
  BY <1>1, HookStays DEF NotesInv
<1>3. \A v \in Worktrees : HookLocked(v)'
  <2> TAKE v \in Worktrees
  <2>1. v # w => (mutex'[cloneOf[v]] = <<"stamp", v>> <=> mutex[cloneOf[v]] = <<"stamp", v>>)
    BY <1>1, OtherLock
  <2> QED
    BY <1>1, <2>1 DEF NotesInv, HookLocked
<1>4. \A v \in Worktrees : PushLocked(v)'
  <2> TAKE v \in Worktrees
  <2>1. mutex'[cloneOf[v]] = <<"push", v>> <=> mutex[cloneOf[v]] = <<"push", v>>
    BY <1>1, OtherLock
  <2> QED
    BY <1>1, <2>1 DEF NotesInv, PushLocked
<1>5. \A v \in Worktrees : PushGood(v)'
  BY <1>1, PushStays DEF NotesInv
<1>6. SuccessMeansPushed'
  BY DEF NotesInv, SuccessMeansPushed
<1> QED
  BY <1>2, <1>3, <1>4, <1>5, <1>6 DEF NotesInv

\* A step of the push of w
LEMMA PushStep ==
    ASSUME NotesInv, NotesTyped', NEW w \in Worktrees, Grows, Descended(AllRefs', writes'),
           UNCHANGED <<marker, marks, hook, recorded, credited>>, MutexStep("push", w),
           \A v \in Worktrees \ {w} : push'[v] = push[v],
           \A v \in Worktrees : hook[v].stage = "write" => ref'[cloneOf[v]] = ref[cloneOf[v]],
           PushLocked(w)', PushGood(w)', delivered' \subseteq Noted(remote')
    PROVE  NotesInv' /\ Grows
<1>1. NotesTyped /\ cloneOf' = cloneOf /\ marks' >= marks
  BY DEF NotesInv, Grows, NotesTyped
<1>2. \A v \in Worktrees : HookGood(v)' /\ Retained(v)'
  BY <1>1, HookStays DEF NotesInv
<1>3. \A v \in Worktrees : PushLocked(v)'
  <2> TAKE v \in Worktrees
  <2>1. v # w => (mutex'[cloneOf[v]] = <<"push", v>> <=> mutex[cloneOf[v]] = <<"push", v>>)
    BY <1>1, OtherLock
  <2> QED
    BY <1>1, <2>1 DEF NotesInv, PushLocked
<1>4. \A v \in Worktrees : HookLocked(v)'
  <2> TAKE v \in Worktrees
  <2>1. mutex'[cloneOf[v]] = <<"stamp", v>> <=> mutex[cloneOf[v]] = <<"stamp", v>>
    BY <1>1, OtherLock
  <2> QED
    BY <1>1, <2>1 DEF NotesInv, HookLocked
<1>5. \A v \in Worktrees : PushGood(v)'
  BY <1>1, PushStays DEF NotesInv
<1>6. SuccessMeansPushed'
  BY DEF SuccessMeansPushed
<1> QED
  BY <1>2, <1>3, <1>4, <1>5, <1>6 DEF NotesInv

-----------------------------------------------------------------------------
(* Marker files and the commit hook                                        *)

\* Steps that write no notes
LEMMA QuietRefs ==
    ASSUME NotesInv, UNCHANGED <<cloneOf, ref, remote, writes>>,
           \A v \in Worktrees : push'[v].tracking \in AllRefs \cup {NoRef}
    PROVE  Grows /\ Descended(AllRefs', writes')
<1>1. AllRefs' \subseteq AllRefs \cup {NoRef}
  BY DEF AllRefs
<1>2. Descended(AllRefs, writes) /\ writes \in Nat
  BY DEF NotesInv, NotesTyped
<1>3. Descended(AllRefs', writes)
  BY <1>1, <1>2, FewerRefs
<1> QED
  BY <1>3 DEF Grows, Below

LEMMA QuietHook ==
    ASSUME NotesInv, UNCHANGED <<cloneOf, ref, remote, writes, push>>
    PROVE  Grows /\ Descended(AllRefs', writes')
<1>1. \A v \in Worktrees : push'[v].tracking \in AllRefs \cup {NoRef}
  BY DEF AllRefs
<1> QED
  BY <1>1, QuietRefs

LEMMA IdleHookType == IdleHook \in Hook /\ IdleHook.stage = "idle" /\ IdleHook.snapshot = NoMarks
BY DEF IdleHook, Hook, NoMarks, Marks

\* The facts about one worktree
LEMMA HookFacts ==
    ASSUME NotesInv, NEW w \in Worktrees
    PROVE  /\ NotesTyped /\ HookLocked(w) /\ HookGood(w) /\ Retained(w)
           /\ hook[w] \in Hook /\ marker[w] \in Marks /\ recorded[w] \in Marks
           /\ credited[w] \in [Sessions -> SUBSET Commits] /\ marks \in Nat
           /\ cloneOf[w] \in Clones /\ ref[cloneOf[w]] \in Ref
BY DEF NotesInv, NotesTyped

\* A mark: it is in the marker file, and newer than anything a hook has seen
LEMMA RecordKeeps ==
    ASSUME NotesInv, NEW w \in Worktrees, NEW S \in SUBSET Sessions, Record(w, S),
           hook' \in [Worktrees -> Hook], \A v \in Worktrees \ {w} : hook'[v] = hook[v],
           hook'[w] = hook[w] \/ (hook'[w] = IdleHook /\ hook[w].stage = "squash"),
           UNCHANGED <<cloneOf, ref, remote, writes, head, made, mutex, push, faults, misreads,
                       delivered>>
    PROVE  NotesInv' /\ Grows
<1>0. /\ NotesTyped /\ HookLocked(w) /\ HookGood(w) /\ Retained(w)
      /\ hook[w] \in Hook /\ marker[w] \in Marks /\ recorded[w] \in Marks
      /\ credited[w] \in [Sessions -> SUBSET Commits] /\ marks \in Nat
  BY HookFacts
<1>1. /\ marks' = marks + 1
      /\ marker' = [marker EXCEPT ![w] = Refresh(marker[w], S)]
      /\ recorded' = [recorded EXCEPT ![w] = Refresh(recorded[w], S)]
      /\ credited' = [credited EXCEPT ![w] =
                        [s \in Sessions |-> IF s \in S THEN {} ELSE credited[w][s]]]
  BY DEF Record
<1>2. Refresh(marker[w], S) \in Marks /\ Refresh(recorded[w], S) \in Marks
  BY <1>0 DEF Refresh, Marks
<1>3. /\ marker' \in [Worktrees -> Marks] /\ recorded' \in [Worktrees -> Marks]
      /\ credited' \in [Worktrees -> [Sessions -> SUBSET Commits]] /\ marks' \in Nat
  BY <1>0, <1>1, <1>2 DEF NotesTyped
<1>4. NotesTyped'
  BY <1>0, <1>3 DEF NotesTyped
<1>5. /\ marker'[w] = Refresh(marker[w], S) /\ recorded'[w] = Refresh(recorded[w], S)
      /\ credited'[w] = [s \in Sessions |-> IF s \in S THEN {} ELSE credited[w][s]]
      /\ \A v \in Worktrees \ {w} : /\ marker'[v] = marker[v] /\ recorded'[v] = recorded[v]
                                     /\ credited'[v] = credited[v]
  BY <1>0, <1>1 DEF NotesTyped
<1>6. /\ \A s \in S : marker'[w][s] = marks + 1 /\ recorded'[w][s] = marks + 1
      /\ \A s \in Sessions \ S : /\ marker'[w][s] = marker[w][s] /\ recorded'[w][s] = recorded[w][s]
                                  /\ credited'[w][s] = credited[w][s]
  BY <1>5 DEF Refresh
<1>7. Retained(w)'
  BY <1>0, <1>6 DEF Retained
<1>8. HookGood(w)'
  <2>1. \A s \in Sessions : hook[w].snapshot[s] \in Nat /\ marker[w][s] \in Nat
    BY <1>0 DEF Hook, Marks
  <2>2. \A s \in Sessions : marker'[w][s] <= marks'
    BY <1>0, <1>1, <1>6, <2>1 DEF HookGood
  <2>3. CASE hook'[w] = hook[w]
    <3>1. \A s \in Sessions : hook[w].snapshot[s] <= marks' /\ hook[w].snapshot[s] # marks + 1
      BY <1>0, <1>1, <2>1 DEF HookGood
    <3>2. hook[w].stage = "clean" =>
             \A s \in Marked(hook[w].snapshot) : hook[w].snapshot[s] = recorded'[w][s] =>
                 \E c \in credited'[w][s] : s \in ref[cloneOf[w]].note[c]
      BY <1>0, <1>6, <3>1 DEF HookGood, Marked
    <3> QED
      BY <1>0, <2>2, <2>3, <3>1, <3>2 DEF HookGood
  <2>4. CASE hook'[w] = IdleHook
    <3>1. \A s \in Sessions : hook'[w].snapshot[s] <= marks'
      BY <1>0, <1>1, <2>4, IdleHookType DEF NoMarks
    <3> QED
      BY <2>2, <2>4, <3>1, IdleHookType DEF HookGood
  <2> QED
    BY <2>3, <2>4
<1>9. HookLocked(w)'
  BY <1>0, IdleHookType DEF HookLocked
<1>10. marks' >= marks /\ MutexStep("stamp", w) /\ Grows /\ Descended(AllRefs', writes')
  BY <1>0, <1>1, QuietHook DEF MutexStep
<1> QED
  BY <1>4, <1>5, <1>7, <1>8, <1>9, <1>10, HookStep

LEMMA MarkKeeps ==
    ASSUME NotesInv, NEW w \in Worktrees, NEW s \in Sessions, Mark(w, s)
    PROVE  NotesInv' /\ Grows
<1>1. /\ Record(w, {s}) /\ hook' = hook
      /\ UNCHANGED <<cloneOf, ref, remote, writes, head, made, mutex, push, faults, misreads,
                     delivered>>
  BY DEF Mark, gitVars
<1>2. hook' \in [Worktrees -> Hook] /\ {s} \in SUBSET Sessions
  BY <1>1 DEF NotesInv, NotesTyped
<1> QED
  BY <1>1, <1>2, RecordKeeps

LEMMA SquashWriteKeeps ==
    ASSUME NotesInv, NEW w \in Worktrees, SquashWrite(w)
    PROVE  NotesInv' /\ Grows
<1>0. NotesTyped /\ hook[w] \in Hook
  BY HookFacts
<1> DEFINE S == hook[w].sessions \ Marked(marker[w])
<1>1. /\ hook[w].stage = "squash" /\ Record(w, S) /\ hook' = [hook EXCEPT ![w] = IdleHook]
      /\ UNCHANGED <<cloneOf, ref, remote, writes, head, made, mutex, push, faults, misreads,
                     delivered>>
  BY DEF SquashWrite, gitVars
<1>2. /\ hook' \in [Worktrees -> Hook] /\ hook'[w] = IdleHook
      /\ \A v \in Worktrees \ {w} : hook'[v] = hook[v]
  BY <1>0, <1>1, IdleHookType DEF NotesTyped
<1>3. S \in SUBSET Sessions
  BY <1>0 DEF Hook
<1> HIDE DEF S
<1> QED
  BY <1>1, <1>2, <1>3, RecordKeeps

\* A step of a hook that marks nothing and writes no note: it moves to another
\* stage, takes or gives back the lock
LEMMA QuietHookStep ==
    ASSUME NotesInv, NEW w \in Worktrees, NEW h \in Hook, hook' = [hook EXCEPT ![w] = h],
           UNCHANGED <<cloneOf, ref, remote, writes, push, delivered, marker, marks, recorded,
                       credited, misreads>>,
           head' \in [Worktrees -> Commits], made' \subseteq Commits, faults' \in Nat,
           MutexStep("stamp", w),
           h.stage \in {"write", "clean"} <=> mutex'[cloneOf[w]] = <<"stamp", w>>,
           h.stage \in {"idle", "squash", "lock", "write"},
           h.stage \in {"lock", "write"} => h.sha \in Commits,
           \A s \in Sessions : h.snapshot[s] <= marks,
           h.stage = "write" =>
               ref[cloneOf[w]].note[h.sha] \cup Marked(h.snapshot) \subseteq h.sessions
    PROVE  NotesInv' /\ Grows
<1>0. /\ NotesTyped /\ HookLocked(w) /\ HookGood(w) /\ Retained(w) /\ marks \in Nat
      /\ cloneOf[w] \in Clones
  BY HookFacts
<1>1. /\ hook'[w] = h /\ hook' \in [Worktrees -> Hook]
      /\ \A v \in Worktrees \ {w} : hook'[v] = hook[v]
  BY <1>0 DEF NotesTyped
<1>2. mutex' \in [Clones -> ({"stamp", "push"} \X Worktrees) \cup {None}]
  BY <1>0, MutexTyped
<1>3. NotesTyped'
  BY <1>0, <1>1, <1>2 DEF NotesTyped
<1>4. HookLocked(w)'
  BY <1>1 DEF HookLocked
<1>5. HookGood(w)' /\ Retained(w)'
  BY <1>0, <1>1 DEF HookGood, Retained
<1>6. marks' >= marks /\ Grows /\ Descended(AllRefs', writes')
  BY <1>0, QuietHook
<1> QED
  BY <1>1, <1>3, <1>4, <1>5, <1>6, HookStep

\* A hook begins, with nothing snapshotted yet
LEMMA HookBeginsKeeps ==
    ASSUME NotesInv, NEW w \in Worktrees, NEW h \in Hook, hook[w].stage = "idle",
           hook' = [hook EXCEPT ![w] = h], h.snapshot = NoMarks,
           h.stage = "squash" \/ (h.stage = "lock" /\ h.sha \in Commits),
           head' \in [Worktrees -> Commits], made' \subseteq Commits,
           UNCHANGED <<cloneOf, ref, remote, writes, push, delivered, marker, marks, recorded,
                       credited, misreads, mutex, faults>>
    PROVE  NotesInv' /\ Grows
<1>0. NotesTyped /\ HookLocked(w) /\ marks \in Nat
  BY HookFacts
<1>1. \A s \in Sessions : h.snapshot[s] <= marks
  BY <1>0 DEF NoMarks
<1>2. mutex'[cloneOf[w]] # <<"stamp", w>> /\ MutexStep("stamp", w) /\ faults' \in Nat
  BY <1>0 DEF HookLocked, MutexStep, NotesTyped
<1> QED
  BY <1>1, <1>2, QuietHookStep

\* A commit, or the user, asks for a stamp
LEMMA StampBeginsKeeps ==
    ASSUME NotesInv, NEW w \in Worktrees, StampAgain(w) \/ \E c \in Commits : Commit(w, c)
    PROVE  NotesInv' /\ Grows
<1>0. NotesTyped /\ head[w] \in Commits
  BY HookFacts DEF NotesTyped
<1>1. /\ UNCHANGED <<cloneOf, ref, remote, writes, push, delivered, marker, marks, recorded,
                     credited, misreads, mutex, faults>>
      /\ hook[w].stage = "idle"
  BY DEF StampAgain, Commit, gitVars, ghostVars
<1>2. PICK c \in Commits :
          hook' = [hook EXCEPT ![w] = [IdleHook EXCEPT !.stage = "lock", !.sha = c]]
  BY <1>0 DEF StampAgain, Commit
<1>5. head' \in [Worktrees -> Commits] /\ made' \subseteq Commits
  <2>1. CASE StampAgain(w)
    BY <1>0, <2>1 DEF StampAgain, NotesTyped
  <2>2. CASE \E d \in Commits : Commit(w, d)
    <3>1. PICK d \in Commits : made' = made \cup {d} /\ head' = [head EXCEPT ![w] = d]
      BY <2>2 DEF Commit
    <3> QED
      BY <1>0, <3>1 DEF NotesTyped
  <2> QED
    BY <2>1, <2>2
<1> DEFINE h == [IdleHook EXCEPT !.stage = "lock", !.sha = c]
<1>3. h \in Hook /\ h.snapshot = NoMarks /\ h.stage = "lock" /\ h.sha \in Commits
  BY IdleHookType DEF IdleHook, Hook
<1>4. hook' = [hook EXCEPT ![w] = h]
  BY <1>2
<1> HIDE DEF h
<1> QED
  BY <1>1, <1>3, <1>4, <1>5, HookBeginsKeeps

\* A squash reads the notes of the squashed commits
LEMMA SquashReadKeeps ==
    ASSUME NotesInv, NEW w \in Worktrees, NEW C \in SUBSET Commits, SquashRead(w, C)
    PROVE  NotesInv' /\ Grows
<1>0. NotesTyped /\ ref[cloneOf[w]] \in Ref
  BY HookFacts
<1> DEFINE union == UNION {NoteSessions(w, c) : c \in C}
           h == [IdleHook EXCEPT !.stage = "squash", !.sessions = union]
<1>1. \A c \in C : NoteSessions(w, c) \subseteq Sessions
  BY <1>0 DEF NoteSessions, Ref
<1>2. union \subseteq Sessions
  BY <1>1
<1>3. /\ UNCHANGED <<cloneOf, ref, remote, writes, push, delivered, marker, marks, recorded,
                     credited, misreads, mutex, faults, head, made>>
      /\ hook[w].stage = "idle"
  BY DEF SquashRead, gitVars, ghostVars
<1>4. hook' = [hook EXCEPT ![w] = h]
  BY DEF SquashRead
<1> HIDE DEF union
<1>5. h \in Hook /\ h.snapshot = NoMarks /\ h.stage = "squash"
  BY <1>2, IdleHookType DEF IdleHook, Hook
<1>6. head' \in [Worktrees -> Commits] /\ made' \subseteq Commits
  BY <1>0, <1>3 DEF NotesTyped
<1> HIDE DEF h
<1> QED
  BY <1>3, <1>4, <1>5, <1>6, HookBeginsKeeps

\* What EndHook does to the lock
LEMMA EndHookLock ==
    ASSUME NotesInv, NEW w \in Worktrees, EndHook(w), UNCHANGED cloneOf
    PROVE  MutexStep("stamp", w) /\ mutex'[cloneOf[w]] # <<"stamp", w>>
<1>1. cloneOf[w] \in Clones /\ <<"stamp", w>> # None /\ NotesTyped
  BY HookFacts, CommitAssumption
<1> QED
  BY <1>1 DEF EndHook, MutexStep, FreeMutex, NotesTyped

\* A hook that ends without a stamp leaves the markers to the next one
LEMMA HookEndsKeeps ==
    ASSUME NotesInv, NEW w \in Worktrees, NothingMarked(w) \/ StampBusy(w) \/ HookFails(w)
    PROVE  NotesInv' /\ Grows
<1>0. NotesTyped /\ marks \in Nat
  BY HookFacts
<1>1. /\ EndHook(w) /\ hook' = [hook EXCEPT ![w] = IdleHook]
      /\ UNCHANGED <<cloneOf, ref, remote, writes, push, delivered, marker, marks, recorded,
                     credited, misreads, head, made>>
      /\ faults' \in Nat
  BY <1>0 DEF NothingMarked, StampBusy, HookFails, EndHook, gitVars, ghostVars, NotesTyped
<1>2. MutexStep("stamp", w) /\ mutex'[cloneOf[w]] # <<"stamp", w>>
  BY <1>1, EndHookLock
<1>3. \A s \in Sessions : IdleHook.snapshot[s] <= marks
  BY <1>0, IdleHookType DEF NoMarks
<1>4. head' \in [Worktrees -> Commits] /\ made' \subseteq Commits
  BY <1>0, <1>1 DEF NotesTyped
<1> QED
  BY <1>1, <1>2, <1>3, <1>4, IdleHookType, QuietHookStep

\* The stamp takes the lock, snapshots the markers and reads the note
LEMMA StampLockKeeps ==
    ASSUME NotesInv, NEW w \in Worktrees, StampLock(w)
    PROVE  NotesInv' /\ Grows
<1>0. /\ NotesTyped /\ HookLocked(w) /\ HookGood(w) /\ hook[w] \in Hook /\ marker[w] \in Marks
      /\ cloneOf[w] \in Clones /\ ref[cloneOf[w]] \in Ref
  BY HookFacts
<1> DEFINE new == NoteSessions(w, hook[w].sha) \cup Marked(marker[w])
           h == [hook[w] EXCEPT !.stage = "write", !.snapshot = marker[w], !.sessions = new]
<1>1. /\ hook[w].stage = "lock" /\ TakeMutex(w, "stamp")
      /\ hook' = [hook EXCEPT ![w] = h]
      /\ UNCHANGED <<cloneOf, ref, remote, writes, push, delivered, marker, marks, recorded,
                     credited, misreads, head, made, faults>>
  BY <1>0 DEF StampLock, gitVars, ghostVars, NotesTyped
<1>2. hook[w].sha \in Commits
  BY <1>0, <1>1 DEF HookGood
<1>3. new \subseteq Sessions /\ ref[cloneOf[w]].note[hook[w].sha] \cup Marked(marker[w]) \subseteq new
  BY <1>0, <1>2 DEF NoteSessions, Marked, Ref
<1>4. /\ h \in Hook /\ h.stage = "write" /\ h.sha = hook[w].sha /\ h.snapshot = marker[w]
      /\ h.sessions = new
  <2> HIDE DEF new
  <2> QED
    BY <1>0, <1>3 DEF Hook
<1>5. \A s \in Sessions : h.snapshot[s] <= marks
  BY <1>0, <1>4 DEF HookGood
<1>6. MutexStep("stamp", w) /\ mutex'[cloneOf[w]] = <<"stamp", w>>
  BY <1>0, <1>1 DEF TakeMutex, MutexStep, NotesTyped
<1>7. head' \in [Worktrees -> Commits] /\ made' \subseteq Commits /\ faults' \in Nat
  BY <1>0, <1>1 DEF NotesTyped
<1> HIDE DEF h, new
<1> QED
  BY <1>1, <1>2, <1>3, <1>4, <1>5, <1>6, <1>7, QuietHookStep

\* The note is replaced by one that says at least as much, and the markers of
\* the snapshot are in it
LEMMA WriteNoteKeeps ==
    ASSUME NotesInv, NEW w \in Worktrees, WriteNote(w)
    PROVE  NotesInv' /\ Grows
<1>0. /\ NotesTyped /\ HookLocked(w) /\ HookGood(w) /\ Retained(w)
      /\ hook[w] \in Hook /\ marker[w] \in Marks /\ recorded[w] \in Marks
      /\ credited[w] \in [Sessions -> SUBSET Commits] /\ marks \in Nat
      /\ cloneOf[w] \in Clones /\ ref[cloneOf[w]] \in Ref
  BY HookFacts
<1> DEFINE k == cloneOf[w]
           sha == hook[w].sha
           new == [hist |-> ref[k].hist \cup {writes + 1},
                   note |-> [ref[k].note EXCEPT ![sha] = hook[w].sessions]]
           credit == [s \in Sessions |->
                        credited[w][s] \cup {c \in {sha} :
                                               /\ s \in Marked(hook[w].snapshot)
                                               /\ hook[w].snapshot[s] = recorded[w][s]}]
<1>1. /\ hook[w].stage = "write" /\ writes' = writes + 1
      /\ ref' = [ref EXCEPT ![k] = new]
      /\ credited' = [credited EXCEPT ![w] = credit]
      /\ hook' = [hook EXCEPT ![w] = [hook[w] EXCEPT !.stage = "clean"]]
      /\ UNCHANGED <<cloneOf, head, made, marker, marks, remote, mutex, push, faults, misreads,
                     recorded, delivered>>
  BY <1>0 DEF WriteNote, NotesTyped
<1>2. /\ sha \in Commits /\ hook[w].sessions \subseteq Sessions /\ k \in Clones
      /\ ref[k].note[sha] \cup Marked(hook[w].snapshot) \subseteq hook[w].sessions
  BY <1>0, <1>1 DEF HookGood, Hook
<1>3. /\ new \in Ref /\ new.hist = ref[k].hist \cup ref[k].hist \cup {writes + 1}
      /\ new.note[sha] = hook[w].sessions /\ Below(ref[k], new)
  <2>1. ref[k].hist \in SUBSET Nat /\ ref[k].note \in [Commits -> SUBSET Sessions] /\ writes \in Nat
    BY <1>0 DEF Ref, NotesTyped
  <2> QED
    BY <1>2, <2>1 DEF Ref, Below
<1>4. credit \in [Sessions -> SUBSET Commits]
  BY <1>0, <1>2
<1>5. \A s \in Marked(hook[w].snapshot) : hook[w].snapshot[s] = recorded[w][s] => sha \in credit[s]
  BY DEF Marked
<1>6. \A s \in Sessions : credited[w][s] \subseteq credit[s]
  OBVIOUS
<1> HIDE DEF new, credit, k, sha
<1>7. /\ hook'[w].stage = "clean" /\ hook'[w].sha = sha /\ hook'[w].snapshot = hook[w].snapshot
      /\ hook' \in [Worktrees -> Hook] /\ \A v \in Worktrees \ {w} : hook'[v] = hook[v]
  BY <1>0, <1>1 DEF NotesTyped, Hook, sha
<1>8. NotesTyped'
  <2>1. ref' \in [Clones -> Ref] /\ writes' \in Nat
    <3>1. ref \in [Clones -> Ref] /\ writes \in Nat /\ new \in Ref
      BY <1>0, <1>3 DEF NotesTyped
    <3>2. ref' = [ref EXCEPT ![k] = new] /\ writes' = writes + 1
      BY <1>1
    <3>3. ref' \in [Clones -> Ref]
      BY <3>1, <3>2
    <3>4. writes' \in Nat
      BY <3>1, <3>2
    <3> QED
      BY <3>3, <3>4
  <2>2. credited' \in [Worktrees -> [Sessions -> SUBSET Commits]]
    BY <1>0, <1>1, <1>4 DEF NotesTyped
  <2> QED
    BY <1>0, <1>1, <1>7, <2>1, <2>2 DEF NotesTyped
<1>9. /\ credited'[w] = credit /\ \A v \in Worktrees \ {w} : credited'[v] = credited[v]
      /\ ref'[k] = new /\ \A i \in Clones \ {k} : ref'[i] = ref[i]
  BY <1>0, <1>1, <1>2 DEF NotesTyped
<1>10. Grows
  BY <1>1, <1>3, <1>9 DEF Grows, Below
<1>11. Descended(AllRefs', writes')
  <2>1. ref[k] \in AllRefs /\ Descended(AllRefs, writes) /\ writes \in Nat
    BY <1>0, <1>2 DEF AllRefs, NotesInv, NotesTyped
  <2>2. AllRefs' \subseteq AllRefs \cup {NoRef, new}
    BY <1>1, <1>9 DEF AllRefs
  <2> QED
    BY <1>1, <1>3, <2>1, <2>2, OneMoreRef
<1>12. \A v \in Worktrees \ {w} : hook[v].stage = "write" => ref'[cloneOf[v]] = ref[cloneOf[v]]
  <2> TAKE v \in Worktrees \ {w}
  <2>1. hook[v].stage = "write" => cloneOf[v] # k
    BY <1>0, <1>1 DEF NotesInv, HookLocked, k
  <2> QED
    BY <1>0, <1>9, <2>1 DEF NotesTyped
<1>13. Retained(w)'
  <2>1. \A s \in Sessions : \A c \in credited[w][s] :
           s \in ref[k].note[c] => c \in credited'[w][s] /\ s \in ref'[k].note[c]
    BY <1>0, <1>3, <1>6, <1>9 DEF Below
  <2> QED
    BY <1>0, <1>1, <2>1 DEF Retained, k
<1>14. HookGood(w)'
  <2>1. \A s \in Marked(hook[w].snapshot) : hook[w].snapshot[s] = recorded[w][s] =>
            sha \in credited'[w][s] /\ s \in ref'[k].note[sha]
    BY <1>2, <1>3, <1>5, <1>9
  <2> QED
    BY <1>0, <1>1, <1>2, <1>7, <2>1 DEF HookGood, k, Marked
<1>15. HookLocked(w)' /\ MutexStep("stamp", w) /\ marks' >= marks
  BY <1>0, <1>1, <1>7 DEF HookLocked, MutexStep
<1> QED
  BY <1>1, <1>7, <1>8, <1>9, <1>10, <1>11, <1>12, <1>13, <1>14, <1>15, HookStep

\* Cleanup removes the generations it snapshotted, and those are in the note
LEMMA CleanupKeeps ==
    ASSUME NotesInv, NEW w \in Worktrees, Cleanup(w)
    PROVE  NotesInv' /\ Grows
<1>0. /\ NotesTyped /\ HookLocked(w) /\ HookGood(w) /\ Retained(w)
      /\ hook[w] \in Hook /\ marker[w] \in Marks /\ recorded[w] \in Marks /\ marks \in Nat
      /\ cloneOf[w] \in Clones
  BY HookFacts
<1> DEFINE rest == Remaining(marker[w], hook[w].snapshot)
<1>1. /\ hook[w].stage = "clean" /\ EndHook(w) /\ hook' = [hook EXCEPT ![w] = IdleHook]
      /\ marker' = [marker EXCEPT ![w] = rest]
      /\ UNCHANGED <<cloneOf, ref, remote, writes, push, delivered, marks, recorded,
                     credited, misreads, head, made, faults>>
  BY DEF Cleanup, EndHook, gitVars, ghostVars
<1>2. MutexStep("stamp", w) /\ mutex'[cloneOf[w]] # <<"stamp", w>>
  BY <1>1, EndHookLock
<1>3. /\ rest \in Marks /\ \A s \in Sessions : rest[s] = marker[w][s] \/ rest[s] = 0
      /\ \A s \in Sessions : marker[w][s] # hook[w].snapshot[s] => rest[s] = marker[w][s]
  BY <1>0 DEF Remaining, Marks
<1> HIDE DEF rest
<1>4. /\ marker'[w] = rest /\ hook'[w] = IdleHook
      /\ \A v \in Worktrees \ {w} : hook'[v] = hook[v] /\ marker'[v] = marker[v]
  BY <1>0, <1>1 DEF NotesTyped
<1>5. NotesTyped'
  BY <1>0, <1>1, <1>2, <1>3, IdleHookType, MutexTyped DEF NotesTyped
<1>6. HookLocked(w)'
  BY <1>1, <1>2, <1>4, IdleHookType DEF HookLocked
<1>7. HookGood(w)'
  <2>1. \A s \in Sessions : IdleHook.snapshot[s] <= marks /\ rest[s] <= marks
    BY <1>0, <1>3, IdleHookType DEF NoMarks, HookGood
  <2> QED
    BY <1>1, <1>4, <2>1, IdleHookType DEF HookGood
<1>8. Retained(w)'
  <2> SUFFICES ASSUME NEW s \in Sessions
               PROVE  \/ rest[s] = recorded[w][s]
                      \/ \E c \in credited[w][s] : s \in ref[cloneOf[w]].note[c]
    BY <1>1, <1>4 DEF Retained
  <2>1. CASE marker[w][s] = recorded[w][s] /\ marker[w][s] = hook[w].snapshot[s]
             /\ marker[w][s] # 0
    BY <1>0, <1>1, <2>1 DEF HookGood, Marked
  <2> QED
    BY <1>0, <1>3, <2>1 DEF Retained
<1>9. marks' >= marks /\ Grows /\ Descended(AllRefs', writes')
  BY <1>0, <1>1, QuietHook
<1> QED
  BY <1>1, <1>2, <1>4, <1>5, <1>6, <1>7, <1>8, <1>9, HookStep

-----------------------------------------------------------------------------
(* push-notes and repair-notes                                             *)

LEMMA IdlePushType ==
    /\ IdlePush \in Push /\ IdlePush.stage = "idle" /\ IdlePush.tracking = NoRef
    /\ NoRef \in Ref
<1>1. NoRef \in Ref
  BY DEF NoRef, Ref
<1>2. {} \in SUBSET (Commits \X Sessions) /\ 0 \in 0..3
  OBVIOUS
<1> QED
  BY <1>1, <1>2 DEF IdlePush, Push

\* The facts about one push
LEMMA PushFacts ==
    ASSUME NotesInv, NEW w \in Worktrees
    PROVE  /\ NotesTyped /\ PushLocked(w) /\ PushGood(w) /\ push[w] \in Push
           /\ cloneOf[w] \in Clones /\ ref[cloneOf[w]] \in Ref /\ ref[cloneOf[w]] \in AllRefs
           /\ remote \in AllRefs /\ push[w].tracking \in AllRefs
           /\ push[w].tracking \in Ref
           /\ Descended(AllRefs, writes) /\ writes \in Nat /\ <<"push", w>> # None
BY CommitAssumption DEF NotesInv, NotesTyped, AllRefs, Push

\* A step of the push of w, which alone may change the notes of its clone, and
\* those only while it holds the lock
LEMMA PushMoves ==
    ASSUME NotesInv, NEW w \in Worktrees, NEW p \in Push, push' = [push EXCEPT ![w] = p],
           ref' \in [Clones -> Ref],
           \A k \in Clones : \/ ref'[k] = ref[k]
                             \/ k = cloneOf[w] /\ mutex[k] = <<"push", w>> /\ Below(ref[k], ref'[k]),
           remote' \in Ref, Below(remote, remote'),
           writes' \in Nat, Descended(AllRefs', writes'),
           UNCHANGED <<cloneOf, head, made, marker, marks, hook, recorded, credited>>,
           faults' \in Nat, misreads' \in 0..MaxMisreads, MutexStep("push", w),
           p.stage = "merge" <=> mutex'[cloneOf[w]] = <<"push", w>>,
           p.stage # "idle" => p.left \in 1..3 /\ p.owed \subseteq Noted(ref'[cloneOf[w]]),
           delivered' \subseteq Noted(remote')
    PROVE  NotesInv' /\ Grows
<1>0. NotesTyped /\ cloneOf[w] \in Clones
  BY PushFacts
<1>1. /\ push'[w] = p /\ push' \in [Worktrees -> Push]
      /\ \A v \in Worktrees \ {w} : push'[v] = push[v]
  BY <1>0 DEF NotesTyped
<1>2. mutex' \in [Clones -> ({"stamp", "push"} \X Worktrees) \cup {None}]
  BY <1>0, MutexTyped
<1>3. Noted(remote') \subseteq Commits \X Sessions
  BY DEF Noted
<1>4. NotesTyped'
  BY <1>0, <1>1, <1>2, <1>3 DEF NotesTyped
<1>5. Grows
  BY DEF Grows, Below
<1>6. \A v \in Worktrees : hook[v].stage = "write" => ref'[cloneOf[v]] = ref[cloneOf[v]]
  <2> SUFFICES ASSUME NEW v \in Worktrees, hook[v].stage = "write"
               PROVE  ref'[cloneOf[v]] = ref[cloneOf[v]]
    OBVIOUS
  <2>1. mutex[cloneOf[v]] = <<"stamp", v>> /\ cloneOf[v] \in Clones
    BY <1>0 DEF NotesInv, HookLocked, NotesTyped
  <2>2. mutex[cloneOf[v]] # <<"push", w>>
    BY <2>1
  <2> QED
    BY <2>1, <2>2
<1>7. PushLocked(w)' /\ PushGood(w)'
  BY <1>1 DEF PushLocked, PushGood
<1> QED
  BY <1>1, <1>4, <1>5, <1>6, <1>7, PushStep

\* A step of a push that changes no notes
LEMMA QuietPush ==
    ASSUME NotesInv, NEW w \in Worktrees, NEW p \in Push, push' = [push EXCEPT ![w] = p],
           p.tracking \in AllRefs \cup {NoRef},
           UNCHANGED <<cloneOf, ref, remote, writes, head, made, marker, marks, hook, recorded,
                       credited, misreads, delivered>>,
           faults' \in Nat, MutexStep("push", w),
           p.stage = "merge" <=> mutex'[cloneOf[w]] = <<"push", w>>,
           p.stage # "idle" => p.left \in 1..3 /\ p.owed \subseteq Noted(ref[cloneOf[w]])
    PROVE  NotesInv' /\ Grows
<1>0. NotesTyped /\ Descended(AllRefs, writes)
  BY PushFacts
<1>1. \A v \in Worktrees : push'[v].tracking \in AllRefs \cup {NoRef}
  <2> TAKE v \in Worktrees
  <2>1. push'[v] = p \/ push'[v] = push[v]
    BY <1>0 DEF NotesTyped
  <2> QED
    BY <2>1 DEF AllRefs
<1>2. Grows /\ Descended(AllRefs', writes')
  BY <1>1, QuietRefs
<1>3. /\ ref' \in [Clones -> Ref] /\ remote' \in Ref /\ writes' \in Nat
      /\ misreads' \in 0..MaxMisreads /\ Below(remote, remote')
  BY <1>0 DEF NotesTyped, Below
<1>4. delivered' \subseteq Noted(remote')
  BY DEF NotesInv, SuccessMeansPushed
<1>5. \A k \in Clones : ref'[k] = ref[k]
  OBVIOUS
<1> QED
  BY <1>2, <1>3, <1>4, <1>5, PushMoves

LEMMA BeginPushKeeps ==
    ASSUME NotesInv, NEW w \in Worktrees, NEW attempts \in {2, 3}, BeginPush(w, attempts)
    PROVE  NotesInv' /\ Grows
<1>0. NotesTyped /\ PushLocked(w) /\ PushGood(w)
  BY PushFacts
<1> DEFINE owed == Noted(ref[cloneOf[w]])
           p == [IdlePush EXCEPT !.stage = "lock", !.left = attempts, !.owed = owed]
<1>1. /\ push[w].stage = "idle" /\ push' = [push EXCEPT ![w] = p]
      /\ UNCHANGED <<cloneOf, ref, remote, writes, head, made, marker, marks, hook, recorded,
                     credited, misreads, delivered, mutex, faults>>
  BY DEF BeginPush, gitVars, ghostVars
<1>2. owed \in SUBSET (Commits \X Sessions)
  BY DEF Noted
<1>3. /\ p \in Push /\ p.stage = "lock" /\ p.left = attempts /\ p.owed = owed
      /\ p.tracking = NoRef
  <2> HIDE DEF owed
  <2>1. attempts \in 0..3
    OBVIOUS
  <2> QED
    BY <1>2, <2>1, IdlePushType DEF IdlePush, Push
<1>4. mutex'[cloneOf[w]] # <<"push", w>> /\ MutexStep("push", w) /\ faults' \in Nat
  BY <1>0, <1>1 DEF PushLocked, MutexStep, NotesTyped
<1>5. p.left \in 1..3 /\ p.owed \subseteq Noted(ref[cloneOf[w]])
  BY <1>3
<1> HIDE DEF p
<1> QED
  BY <1>1, <1>3, <1>4, <1>5, QuietPush

\* The push goes idle and reports no success
LEMMA GivesUpKeeps ==
    ASSUME NotesInv, NEW w \in Worktrees, push' = [push EXCEPT ![w] = IdlePush],
           UNCHANGED <<cloneOf, ref, remote, writes, head, made, marker, marks, hook, recorded,
                       credited, misreads, delivered>>, faults' \in Nat, MutexStep("push", w),
           mutex'[cloneOf[w]] # <<"push", w>>
    PROVE  NotesInv' /\ Grows
BY IdlePushType, QuietPush

LEMMA ReconcileBusyKeeps ==
    ASSUME NotesInv, NEW w \in Worktrees, ReconcileBusy(w)
    PROVE  NotesInv' /\ Grows
<1>0. NotesTyped /\ PushLocked(w)
  BY PushFacts
<1>1. /\ push[w].stage = "lock" /\ push' = [push EXCEPT ![w] = IdlePush]
      /\ UNCHANGED <<cloneOf, ref, remote, writes, head, made, marker, marks, hook, recorded,
                     credited, misreads, delivered, mutex, faults>>
  BY DEF ReconcileBusy, EndPush, gitVars
<1>2. mutex'[cloneOf[w]] # <<"push", w>> /\ MutexStep("push", w) /\ faults' \in Nat
  BY <1>0, <1>1 DEF PushLocked, MutexStep, NotesTyped
<1> QED
  BY <1>1, <1>2, GivesUpKeeps

\* Under the lock, the remote's notes are fetched
LEMMA FetchKeeps ==
    ASSUME NotesInv, NEW w \in Worktrees, Fetch(w)
    PROVE  NotesInv' /\ Grows
<1>0. /\ NotesTyped /\ PushLocked(w) /\ PushGood(w) /\ push[w] \in Push /\ cloneOf[w] \in Clones
      /\ remote \in AllRefs /\ remote \in Ref
  BY PushFacts DEF NotesTyped
<1> DEFINE p == [push[w] EXCEPT !.stage = "merge", !.tracking = remote]
<1>1. /\ push[w].stage = "lock" /\ TakeMutex(w, "push") /\ push' = [push EXCEPT ![w] = p]
      /\ UNCHANGED <<cloneOf, ref, remote, writes, head, made, marker, marks, hook, recorded,
                     credited, misreads, delivered, faults>>
  BY <1>0 DEF Fetch, gitVars, ghostVars, NotesTyped
<1>2. /\ p \in Push /\ p.stage = "merge" /\ p.left = push[w].left /\ p.owed = push[w].owed
      /\ p.tracking = remote
  BY <1>0 DEF Push
<1>3. p.left \in 1..3 /\ p.owed \subseteq Noted(ref[cloneOf[w]])
  BY <1>0, <1>1, <1>2 DEF PushGood
<1>4. mutex'[cloneOf[w]] = <<"push", w>> /\ MutexStep("push", w) /\ faults' \in Nat
  BY <1>0, <1>1 DEF TakeMutex, MutexStep, NotesTyped
<1> HIDE DEF p
<1> QED
  BY <1>0, <1>1, <1>2, <1>3, <1>4, QuietPush

\* A push that goes on keeps what it owes and has attempts left
LEMMA GoOnMoves ==
    ASSUME NotesInv, NEW w \in Worktrees, NEW stage \in {"lock", "push"}, NEW left \in 1..3,
           GoOn(w, stage, left)
    PROVE  /\ delivered' = delivered
           /\ \E p \in Push : /\ push' = [push EXCEPT ![w] = p] /\ p.stage = stage
                               /\ p.left = left /\ p.owed = push[w].owed /\ p.tracking = NoRef
<1>0. NotesTyped /\ push[w] \in Push
  BY PushFacts
<1> DEFINE p == [push[w] EXCEPT !.stage = stage, !.left = left, !.tracking = NoRef]
<1>1. push' = [push EXCEPT ![w] = p] /\ delivered' = delivered
  BY <1>0 DEF GoOn, NotesTyped
<1>2. /\ p \in Push /\ p.stage = stage /\ p.left = left /\ p.owed = push[w].owed
      /\ p.tracking = NoRef
  <2>1. left \in 0..3 /\ NoRef \in Ref /\ stage \in {"idle", "lock", "merge", "push"}
    BY IdlePushType
  <2>2. [push[w] EXCEPT !.stage = stage] \in Push
    BY <1>0, <2>1 DEF Push
  <2>3. [[push[w] EXCEPT !.stage = stage] EXCEPT !.left = left] \in Push
    BY <2>1, <2>2 DEF Push
  <2>4. p \in Push
    BY <2>1, <2>3 DEF Push
  <2>5. p.stage = stage /\ p.left = left /\ p.tracking = NoRef /\ p.owed = push[w].owed
    BY <1>0 DEF Push
  <2> QED
    BY <2>4, <2>5
<1> HIDE DEF p
<1> QED
  BY <1>1, <1>2

\* The end of a reconciliation: the push goes on, or there is nothing to push
LEMMA ReconciledMoves ==
    ASSUME NotesInv, NEW w \in Worktrees, push[w].stage # "idle", Reconciled(w),
           ref' \in [Clones -> Ref]
    PROVE  /\ mutex' = [mutex EXCEPT ![cloneOf[w]] = None]
           /\ \E p \in Push :
                 /\ push' = [push EXCEPT ![w] = p] /\ p.tracking = NoRef
                 /\ \/ /\ p.stage \in {"lock", "push"} /\ p.left \in 1..3
                       /\ p.owed = push[w].owed /\ delivered' = delivered
                    \/ /\ p.stage = "idle" /\ ref'[cloneOf[w]].hist = {}
                       /\ delivered' = delivered \cup push[w].owed
<1>0. PushGood(w) /\ push[w].left \in 1..3
  BY PushFacts DEF PushGood
<1>1. mutex' = [mutex EXCEPT ![cloneOf[w]] = None]
  BY DEF Reconciled, FreeMutex
<1>2. CASE push[w].left = 3 /\ ref'[cloneOf[w]].hist = {}
  <2>1. EndPush(w, TRUE)
    BY <1>2 DEF Reconciled
  <2>2. push' = [push EXCEPT ![w] = IdlePush] /\ delivered' = delivered \cup push[w].owed
    BY <2>1 DEF EndPush
  <2> QED
    BY <1>1, <1>2, <2>2, IdlePushType
<1>3. CASE push[w].left = 3 /\ ref'[cloneOf[w]].hist # {}
  <2>1. GoOn(w, "lock", 2)
    BY <1>3 DEF Reconciled
  <2> QED
    BY <1>1, <2>1, GoOnMoves
<1>4. CASE push[w].left # 3
  <2>1. GoOn(w, "push", push[w].left)
    BY <1>4 DEF Reconciled
  <2> QED
    BY <1>0, <1>1, <2>1, GoOnMoves
<1> QED
  BY <1>2, <1>3, <1>4

\* A reconciliation that leaves the clone with at least the notes it had
LEMMA ReconciledKeeps ==
    ASSUME NotesInv, NEW w \in Worktrees, push[w].stage # "idle", Reconciled(w),
           mutex[cloneOf[w]] \in {None, <<"push", w>>},
           ref' \in [Clones -> Ref],
           \A k \in Clones : \/ ref'[k] = ref[k]
                             \/ k = cloneOf[w] /\ mutex[k] = <<"push", w>> /\ Below(ref[k], ref'[k]),
           NEW Q, Descended(Q, writes'), {ref'[k] : k \in Clones} \cup AllRefs \subseteq Q,
           writes' \in Nat,
           UNCHANGED <<cloneOf, remote, head, made, marker, marks, hook, recorded, credited>>,
           faults' \in Nat, misreads' \in 0..MaxMisreads
    PROVE  NotesInv' /\ Grows
<1>0. /\ NotesTyped /\ PushGood(w) /\ cloneOf[w] \in Clones /\ <<"push", w>> # None
      /\ remote \in Ref
  BY PushFacts DEF NotesTyped
<1>1. PICK p \in Push :
         /\ push' = [push EXCEPT ![w] = p] /\ p.tracking = NoRef
         /\ \/ /\ p.stage \in {"lock", "push"} /\ p.left \in 1..3
               /\ p.owed = push[w].owed /\ delivered' = delivered
            \/ /\ p.stage = "idle" /\ ref'[cloneOf[w]].hist = {}
               /\ delivered' = delivered \cup push[w].owed
  BY ReconciledMoves
<1>2. mutex' = [mutex EXCEPT ![cloneOf[w]] = None]
  BY ReconciledMoves
<1>3. MutexStep("push", w) /\ mutex'[cloneOf[w]] = None
  <2>1. mutex'[cloneOf[w]] = None
    BY <1>0, <1>2 DEF NotesTyped
  <2>2. mutex[cloneOf[w]] = None => mutex' = mutex
    BY <1>0, <1>2 DEF NotesTyped
  <2> QED
    BY <1>2, <2>1, <2>2 DEF MutexStep, FreeMutex
<1>4. Descended(AllRefs', writes')
  <2>1. \A v \in Worktrees : push'[v].tracking \in AllRefs \cup {NoRef}
    BY <1>0, <1>1 DEF AllRefs, NotesTyped
  <2>2. AllRefs' \subseteq Q \cup {NoRef}
    BY <2>1 DEF AllRefs
  <2> QED
    BY <2>2, FewerRefs
<1>5. Noted(ref[cloneOf[w]]) \subseteq Noted(ref'[cloneOf[w]])
  <2>1. Below(ref[cloneOf[w]], ref'[cloneOf[w]])
    BY <1>0 DEF Below
  <2> QED
    BY <2>1 DEF Below, Noted
<1>6. push[w].owed \subseteq Noted(ref'[cloneOf[w]])
  BY <1>0, <1>5 DEF PushGood
<1>7. delivered' \subseteq Noted(remote')
  <2>1. ref'[cloneOf[w]].hist = {} => Below(ref'[cloneOf[w]], NoRef)
    <3>1. ref'[cloneOf[w]] \in Q
      BY <1>0
    <3> QED
      BY <3>1 DEF Descended
  <2>2. ref'[cloneOf[w]].hist = {} => Noted(ref'[cloneOf[w]]) = {}
    BY <2>1 DEF Noted, Below, NoRef
  <2> QED
    BY <1>1, <1>6, <2>2 DEF NotesInv, SuccessMeansPushed
<1>8. remote' \in Ref /\ Below(remote, remote')
  BY <1>0 DEF Below
<1>9. p.stage # "merge" /\ mutex'[cloneOf[w]] # <<"push", w>>
  BY <1>0, <1>1, <1>3
<1> QED
  BY <1>1, <1>3, <1>4, <1>6, <1>7, <1>8, <1>9, PushMoves

\* Nothing was fetched, or what was fetched is contained already
LEMMA NothingNewKeeps ==
    ASSUME NotesInv, NEW w \in Worktrees, FetchNothing(w) \/ AlreadyMerged(w)
    PROVE  NotesInv' /\ Grows
<1>0. NotesTyped /\ PushLocked(w) /\ Descended(AllRefs, writes) /\ writes \in Nat
  BY PushFacts
<1>1. /\ push[w].stage \in {"lock", "merge"} /\ Reconciled(w)
      /\ UNCHANGED <<cloneOf, ref, remote, writes, head, made, marker, marks, hook, recorded,
                     credited, misreads>>
  BY DEF FetchNothing, AlreadyMerged, gitVars
<1>2. mutex[cloneOf[w]] \in {None, <<"push", w>>} /\ faults' \in Nat
  BY <1>0 DEF FetchNothing, AlreadyMerged, PushLocked, NotesTyped
<1>3. {ref'[k] : k \in Clones} \cup AllRefs \subseteq AllRefs
  BY <1>1 DEF AllRefs
<1>4. ref' \in [Clones -> Ref] /\ misreads' \in 0..MaxMisreads
  BY <1>0, <1>1 DEF NotesTyped
<1>5. Descended(AllRefs, writes') /\ writes' \in Nat /\ \A k \in Clones : ref'[k] = ref[k]
  BY <1>0, <1>1
<1> QED
  BY <1>1, <1>2, <1>3, <1>4, <1>5, ReconciledKeeps

\* A clone without notes adopts those of origin.  With every git rev-parse
\* answering, no clone that has notes is taken for one without
LEMMA AdoptRemoteKeeps ==
    ASSUME NotesInv, MaxMisreads = 0, NEW w \in Worktrees, AdoptRemote(w)
    PROVE  NotesInv' /\ Grows
<1>0. /\ NotesTyped /\ PushLocked(w) /\ cloneOf[w] \in Clones /\ ref[cloneOf[w]] \in AllRefs
      /\ push[w].tracking \in AllRefs /\ push[w].tracking \in Ref
      /\ Descended(AllRefs, writes) /\ writes \in Nat
  BY PushFacts
<1> DEFINE k == cloneOf[w]
           new == push[w].tracking
<1>1. /\ push[w].stage = "merge" /\ Reconciled(w) /\ ref' = [ref EXCEPT ![k] = new]
      /\ misreads' \in {misreads, misreads + 1} /\ misreads' <= MaxMisreads
      /\ ref[k].hist = {} \/ misreads' > misreads
      /\ UNCHANGED <<cloneOf, remote, writes, head, made, marker, marks, hook, recorded,
                     credited, faults>>
  BY DEF AdoptRemote
<1>2. ref[k].hist = {} /\ misreads' \in 0..MaxMisreads
  <2>1. misreads \in 0..0
    BY <1>0 DEF NotesTyped
  <2> QED
    BY <1>1, <2>1
<1>3. Below(ref[k], new)
  BY <1>0, <1>2 DEF Descended, Below, NoRef
<1>4. mutex[k] = <<"push", w>> /\ faults' \in Nat
  BY <1>0, <1>1 DEF PushLocked, NotesTyped
<1> HIDE DEF k, new
<1>5. /\ ref'[k] = new /\ \A i \in Clones \ {k} : ref'[i] = ref[i]
      /\ ref' \in [Clones -> Ref]
  <2>1. ref \in [Clones -> Ref] /\ k \in Clones /\ new \in Ref
    BY <1>0 DEF NotesTyped, k, new
  <2>2. ref' = [ref EXCEPT ![k] = new]
    BY <1>1
  <2> QED
    BY <2>1, <2>2
<1>6. {ref'[i] : i \in Clones} \cup AllRefs \subseteq AllRefs
  BY <1>0, <1>5 DEF AllRefs, k, new
<1>7. Descended(AllRefs, writes') /\ writes' \in Nat
  BY <1>0, <1>1
<1>8. \A i \in Clones : \/ ref'[i] = ref[i]
                        \/ i = cloneOf[w] /\ mutex[i] = <<"push", w>> /\ Below(ref[i], ref'[i])
  BY <1>3, <1>4, <1>5 DEF k
<1> QED
  BY <1>1, <1>2, <1>4, <1>5, <1>6, <1>7, <1>8, ReconciledKeeps DEF k

\* The merge says what both sides say
LEMMA MergeKeeps ==
    ASSUME NotesInv, NEW w \in Worktrees, Merge(w)
    PROVE  NotesInv' /\ Grows
<1>0. /\ NotesTyped /\ PushLocked(w) /\ cloneOf[w] \in Clones /\ ref[cloneOf[w]] \in AllRefs
      /\ ref[cloneOf[w]] \in Ref /\ push[w].tracking \in AllRefs /\ push[w].tracking \in Ref
      /\ Descended(AllRefs, writes) /\ writes \in Nat
  BY PushFacts
<1> DEFINE k == cloneOf[w]
           mine == ref[k]
           theirs == push[w].tracking
           new == [hist |-> mine.hist \cup theirs.hist \cup {writes + 1},
                   note |-> Merged(mine.note, theirs.note)]
<1>1. /\ push[w].stage = "merge" /\ Reconciled(w) /\ ref' = [ref EXCEPT ![k] = new]
      /\ writes' = writes + 1
      /\ UNCHANGED <<cloneOf, remote, head, made, marker, marks, hook, recorded,
                     credited, faults, misreads>>
  BY DEF Merge
<1>2. /\ new \in Ref /\ new.hist = mine.hist \cup theirs.hist \cup {writes + 1}
      /\ Below(mine, new) /\ Below(theirs, new)
  <2>1. /\ mine.hist \in SUBSET Nat /\ mine.note \in [Commits -> SUBSET Sessions]
        /\ theirs.hist \in SUBSET Nat /\ theirs.note \in [Commits -> SUBSET Sessions]
        /\ writes + 1 \in Nat
    BY <1>0 DEF Ref
  <2>2. /\ Merged(mine.note, theirs.note) \in [Commits -> SUBSET Sessions]
        /\ \A c \in Commits : Merged(mine.note, theirs.note)[c] = mine.note[c] \cup theirs.note[c]
    BY <2>1 DEF Merged
  <2>3. new \in Ref
    BY <2>1, <2>2 DEF Ref
  <2> QED
    BY <2>2, <2>3 DEF Below
<1>3. mutex[k] = <<"push", w>> /\ faults' \in Nat /\ misreads' \in 0..MaxMisreads
  BY <1>0, <1>1 DEF PushLocked, NotesTyped
<1>4. mine \in AllRefs /\ theirs \in AllRefs
  BY <1>0
<1> HIDE DEF k, new, mine, theirs
<1>5. /\ ref'[k] = new /\ \A i \in Clones \ {k} : ref'[i] = ref[i]
      /\ ref' \in [Clones -> Ref]
  <2>1. ref \in [Clones -> Ref] /\ k \in Clones /\ new \in Ref
    BY <1>0, <1>2 DEF NotesTyped, k
  <2>2. ref' = [ref EXCEPT ![k] = new]
    BY <1>1
  <2> QED
    BY <2>1, <2>2
<1> DEFINE Q == AllRefs \cup {NoRef, new}
<1>6. {ref'[i] : i \in Clones} \cup AllRefs \subseteq Q
  BY <1>5 DEF AllRefs
<1>7. Descended(Q, writes') /\ writes' \in Nat
  <2>1. Descended(Q, writes + 1)
    <3>1. Q \subseteq AllRefs \cup {NoRef, new}
      OBVIOUS
    <3> HIDE DEF Q
    <3> QED
      BY <1>0, <1>2, <1>4, <3>1, OneMoreRef
  <2> QED
    BY <1>0, <1>1, <2>1
<1>8. \A i \in Clones : \/ ref'[i] = ref[i]
                        \/ i = cloneOf[w] /\ mutex[i] = <<"push", w>> /\ Below(ref[i], ref'[i])
  BY <1>2, <1>3, <1>5 DEF k, mine
<1> HIDE DEF Q
<1> QED
  BY <1>1, <1>3, <1>5, <1>6, <1>7, <1>8, ReconciledKeeps DEF k

-----------------------------------------------------------------------------
(* The push itself                                                         *)

\* The end of a push after which origin may have the clone's notes: it has them
\* when the command reports success
LEMMA PushEndsKeeps ==
    ASSUME NotesInv, NEW w \in Worktrees, push' = [push EXCEPT ![w] = IdlePush],
           remote' \in {remote, ref[cloneOf[w]]},
           remote' = remote \/ FastForward(ref[cloneOf[w]], remote),
           UNCHANGED <<cloneOf, ref, writes, head, made, marker, marks, hook, recorded,
                       credited, misreads>>,
           faults' \in Nat, MutexStep("push", w), mutex'[cloneOf[w]] # <<"push", w>>,
           push[w].stage # "idle",
           \/ delivered' = delivered
           \/ delivered' = delivered \cup push[w].owed /\ remote' = ref[cloneOf[w]]
    PROVE  NotesInv' /\ Grows
<1>0. /\ NotesTyped /\ PushGood(w) /\ cloneOf[w] \in Clones /\ ref[cloneOf[w]] \in AllRefs
      /\ ref[cloneOf[w]] \in Ref /\ remote \in AllRefs /\ remote \in Ref
      /\ Descended(AllRefs, writes) /\ writes \in Nat /\ SuccessMeansPushed
  BY PushFacts DEF NotesTyped, NotesInv
<1>1. Below(remote, remote') /\ remote' \in Ref
  <2>1. CASE remote' = remote
    BY <1>0, <2>1 DEF Below
  <2>2. CASE remote' # remote
    <3>1. remote' = ref[cloneOf[w]] /\ remote.hist \subseteq ref[cloneOf[w]].hist
      BY <2>2 DEF FastForward
    <3>2. Below(remote, ref[cloneOf[w]])
      BY <1>0, <3>1, Contained
    <3> QED
      BY <1>0, <3>1, <3>2
  <2> QED
    BY <2>1, <2>2
<1>2. Noted(remote) \subseteq Noted(remote')
  BY <1>1 DEF Below, Noted
<1>3. delivered' \subseteq Noted(remote')
  BY <1>0, <1>2 DEF SuccessMeansPushed, PushGood
<1>4. Descended(AllRefs', writes')
  <2>1. \A v \in Worktrees : push'[v].tracking \in AllRefs \cup {NoRef}
    <3> TAKE v \in Worktrees
    <3>1. push'[v] = IdlePush \/ push'[v] = push[v]
      BY <1>0 DEF NotesTyped
    <3> QED
      BY <3>1, IdlePushType DEF AllRefs
  <2>2. AllRefs' \subseteq AllRefs \cup {NoRef}
    <3>1. remote' \in AllRefs
      BY <1>0
    <3>2. \A k \in Clones : ref'[k] \in AllRefs
      BY DEF AllRefs
    <3>3. AllRefs' = {ref'[k] : k \in Clones} \cup {remote'} \cup {push'[v].tracking : v \in Worktrees}
      BY DEF AllRefs
    <3> HIDE DEF AllRefs
    <3> QED
      BY <2>1, <3>1, <3>2, <3>3
  <2> QED
    BY <1>0, <2>2, FewerRefs
<1>5. ref' \in [Clones -> Ref] /\ writes' \in Nat /\ misreads' \in 0..MaxMisreads
  BY <1>0 DEF NotesTyped
<1>6. \A k \in Clones : ref'[k] = ref[k]
  OBVIOUS
<1> QED
  BY <1>1, <1>3, <1>4, <1>5, <1>6, IdlePushType, PushMoves

\* git push arrives
LEMMA PushRefKeeps ==
    ASSUME NotesInv, NEW w \in Worktrees, PushRef(w)
    PROVE  NotesInv' /\ Grows
<1>0. NotesTyped /\ PushLocked(w)
  BY PushFacts
<1>1. /\ push[w].stage = "push" /\ push' = [push EXCEPT ![w] = IdlePush]
      /\ remote' = ref[cloneOf[w]] /\ FastForward(ref[cloneOf[w]], remote)
      /\ delivered' = delivered \cup push[w].owed
      /\ UNCHANGED <<cloneOf, ref, writes, head, made, marker, marks, hook, recorded,
                     credited, misreads, mutex, faults>>
  BY DEF PushRef, EndPush
<1>2. mutex'[cloneOf[w]] # <<"push", w>> /\ MutexStep("push", w) /\ faults' \in Nat
  BY <1>0, <1>1 DEF PushLocked, MutexStep, NotesTyped
<1> QED
  BY <1>1, <1>2, PushEndsKeeps

\* The push is refused: reconcile and try again, or give up
LEMMA PushRejectedKeeps ==
    ASSUME NotesInv, NEW w \in Worktrees, PushRejected(w)
    PROVE  NotesInv' /\ Grows
<1>0. NotesTyped /\ PushLocked(w) /\ PushGood(w)
  BY PushFacts
<1>1. /\ push[w].stage = "push" /\ faults' \in {faults, faults + 1}
      /\ UNCHANGED <<cloneOf, ref, remote, writes, head, made, marker, marks, hook, recorded,
                     credited, misreads, mutex>>
      /\ IF push[w].left = 1 THEN EndPush(w, FALSE) ELSE GoOn(w, "lock", push[w].left - 1)
  BY DEF PushRejected, gitVars
<1>2. mutex'[cloneOf[w]] # <<"push", w>> /\ MutexStep("push", w)
  BY <1>0, <1>1 DEF PushLocked, MutexStep
<1>3. faults' \in Nat
  BY <1>0, <1>1 DEF NotesTyped
<1>4. CASE push[w].left = 1
  <2>1. push' = [push EXCEPT ![w] = IdlePush] /\ delivered' = delivered
    BY <1>1, <1>4 DEF EndPush
  <2> QED
    BY <1>1, <1>2, <1>3, <2>1, GivesUpKeeps
<1>5. CASE push[w].left # 1
  <2>1. push[w].left - 1 \in 1..3
    BY <1>0, <1>1, <1>5 DEF PushGood
  <2>2. delivered' = delivered
    BY <1>1, <1>5, <2>1, GoOnMoves
  <2>3. PICK p \in Push : /\ push' = [push EXCEPT ![w] = p] /\ p.stage = "lock"
                          /\ p.left \in 1..3 /\ p.owed = push[w].owed /\ p.tracking = NoRef
    BY <1>1, <1>5, <2>1, GoOnMoves
  <2>4. p.owed \subseteq Noted(ref[cloneOf[w]])
    BY <1>0, <1>1, <2>3 DEF PushGood
  <2> QED
    BY <1>1, <1>2, <1>3, <2>2, <2>3, <2>4, QuietPush
<1> QED
  BY <1>4, <1>5

\* The command dies; the push may have arrived
LEMMA PushFailsKeeps ==
    ASSUME NotesInv, NEW w \in Worktrees, PushFails(w)
    PROVE  NotesInv' /\ Grows
<1>0. NotesTyped /\ PushLocked(w) /\ cloneOf[w] \in Clones /\ <<"push", w>> # None
  BY PushFacts
<1>1. /\ push[w].stage # "idle" /\ push' = [push EXCEPT ![w] = IdlePush]
      /\ remote' \in {remote, ref[cloneOf[w]]}
      /\ remote' = remote \/ FastForward(ref[cloneOf[w]], remote)
      /\ delivered' = delivered /\ faults' = faults + 1
      /\ UNCHANGED <<cloneOf, ref, writes, head, made, marker, marks, hook, recorded,
                     credited, misreads>>
  BY DEF PushFails, EndPush
<1>2. mutex'[cloneOf[w]] # <<"push", w>> /\ MutexStep("push", w)
  <2>1. CASE mutex[cloneOf[w]] = <<"push", w>>
    <3>1. FreeMutex(w)
      BY <2>1 DEF PushFails
    <3>2. mutex'[cloneOf[w]] = None
      BY <1>0, <3>1 DEF FreeMutex, NotesTyped
    <3> QED
      BY <1>0, <2>1, <3>1, <3>2 DEF MutexStep
  <2>2. CASE mutex[cloneOf[w]] # <<"push", w>>
    BY <1>1, <2>2 DEF PushFails, MutexStep
  <2> QED
    BY <2>1, <2>2
<1>3. faults' \in Nat
  BY <1>0, <1>1 DEF NotesTyped
<1> QED
  BY <1>1, <1>2, <1>3, PushEndsKeeps

-----------------------------------------------------------------------------
(* The protocol                                                            *)

\* Nothing is marked, noted or running
LEMMA NotesStart == Init => NotesInv
<1> SUFFICES ASSUME Init PROVE NotesInv
  OBVIOUS
<1>1. NoRef \in Ref /\ NoRef.hist = {} /\ IdlePush \in Push /\ IdlePush.stage = "idle" /\ IdlePush.tracking = NoRef
  BY IdlePushType DEF NoRef
<1>2. IdleHook \in Hook /\ IdleHook.stage = "idle" /\ IdleHook.snapshot = NoMarks
  BY IdleHookType
<1>3. NoMarks \in Marks /\ \A s \in Sessions : NoMarks[s] = 0
  BY DEF NoMarks, Marks
<1>4. cloneOf \in [Worktrees -> Clones] /\ made \subseteq Commits /\ faults \in Nat
  <2>1. PICK g \in Settings : cloneOf = g.clone /\ made = g.made /\ faults = g.faults
    BY DEF Init
  <2>2. /\ g.clone \in [Worktrees -> Clones] /\ g.made \in SUBSET Commits
        /\ g.faults \in 0..MaxFaults
    BY SettingsAssumption
  <2> QED
    BY <2>1, <2>2, BoundAssumption
<1>5. /\ ref = [k \in Clones |-> NoRef] /\ remote = NoRef /\ writes = 0
      /\ push = [w \in Worktrees |-> IdlePush] /\ hook = [w \in Worktrees |-> IdleHook]
      /\ mutex = [k \in Clones |-> None] /\ delivered = {} /\ marks = 0
      /\ marker = [w \in Worktrees |-> NoMarks] /\ recorded = [w \in Worktrees |-> NoMarks]
  BY DEF Init
<1>6. NotesTyped
  <2>1. /\ head = [w \in Worktrees |-> Base] /\ misreads = 0
        /\ credited = [w \in Worktrees |-> [s \in Sessions |-> {}]]
    BY DEF Init
  <2>2. credited \in [Worktrees -> [Sessions -> SUBSET Commits]]
    BY <2>1
  <2>3. misreads \in 0..MaxMisreads
    BY <2>1, BoundAssumption
  <2>4. head \in [Worktrees -> Commits]
    BY <2>1, CommitAssumption
  <2>5. /\ marker \in [Worktrees -> Marks] /\ recorded \in [Worktrees -> Marks]
        /\ hook \in [Worktrees -> Hook] /\ push \in [Worktrees -> Push]
        /\ ref \in [Clones -> Ref] /\ remote \in Ref
    BY <1>1, <1>2, <1>3, <1>5
  <2>6. mutex \in [Clones -> ({"stamp", "push"} \X Worktrees) \cup {None}]
    BY <1>5
  <2>7. marks \in Nat /\ writes \in Nat /\ delivered \subseteq Commits \X Sessions
    BY <1>5
  <2> QED
    BY <1>4, <2>2, <2>3, <2>4, <2>5, <2>6, <2>7 DEF NotesTyped
<1>7. Descended(AllRefs, writes)
  <2>1. \A a \in AllRefs : a = NoRef
    BY <1>1, <1>5 DEF AllRefs
  <2>2. Below(NoRef, NoRef)
    BY DEF Below
  <2> QED
    BY <1>1, <2>1, <2>2 DEF Descended
<1>8. ASSUME NEW w \in Worktrees
      PROVE  HookLocked(w) /\ HookGood(w) /\ Retained(w) /\ PushLocked(w) /\ PushGood(w)
  <2>1. mutex[cloneOf[w]] = None /\ <<"stamp", w>> # None /\ <<"push", w>> # None
    BY <1>4, <1>5, CommitAssumption
  <2>2. HookLocked(w) /\ PushLocked(w) /\ PushGood(w)
    BY <1>1, <1>2, <1>5, <2>1 DEF HookLocked, PushLocked, PushGood
  <2>3. HookGood(w) /\ Retained(w)
    BY <1>2, <1>3, <1>5 DEF HookGood, Retained
  <2> QED
    BY <2>2, <2>3
<1>9. SuccessMeansPushed
  BY <1>5 DEF SuccessMeansPushed
<1> QED
  BY <1>6, <1>7, <1>8, <1>9 DEF NotesInv

\* One step of any command, when every git rev-parse of an existing ref answers
LEMMA NotesStep ==
    ASSUME MaxMisreads = 0, NotesInv, [Next]_vars
    PROVE  NotesInv' /\ (Grows \/ UNCHANGED vars)
<1>1. CASE UNCHANGED vars
  BY <1>1 DEF vars, NotesInv, NotesTyped, AllRefs, HookLocked, HookGood, Retained, PushLocked,
              PushGood, SuccessMeansPushed, Marked
<1>2. ASSUME NEW w \in Worktrees, NEW s \in Sessions, Mark(w, s)
      PROVE  NotesInv' /\ Grows
  BY <1>2, MarkKeeps
<1>3. ASSUME NEW w \in Worktrees, CommitHook(w)
      PROVE  NotesInv' /\ Grows
  <2>1. CASE SquashWrite(w)
    BY <2>1, SquashWriteKeeps
  <2>2. CASE StampAgain(w) \/ \E c \in Commits : Commit(w, c)
    BY <2>2, StampBeginsKeeps
  <2>3. CASE NothingMarked(w) \/ StampBusy(w) \/ HookFails(w)
    BY <2>3, HookEndsKeeps
  <2>4. CASE StampLock(w)
    BY <2>4, StampLockKeeps
  <2>5. CASE WriteNote(w)
    BY <2>5, WriteNoteKeeps
  <2>6. CASE Cleanup(w)
    BY <2>6, CleanupKeeps
  <2>7. CASE \E C \in SUBSET Commits : SquashRead(w, C)
    BY <2>7, SquashReadKeeps
  <2> QED
    BY <1>3, <2>1, <2>2, <2>3, <2>4, <2>5, <2>6, <2>7 DEF CommitHook
<1>4. ASSUME NEW w \in Worktrees, PushHook(w)
      PROVE  NotesInv' /\ Grows
  <2>1. CASE \E attempts \in {2, 3} : BeginPush(w, attempts)
    BY <2>1, BeginPushKeeps
  <2>2. CASE ReconcileBusy(w)
    BY <2>2, ReconcileBusyKeeps
  <2>3. CASE Fetch(w)
    BY <2>3, FetchKeeps
  <2>4. CASE FetchNothing(w) \/ AlreadyMerged(w)
    BY <2>4, NothingNewKeeps
  <2>5. CASE AdoptRemote(w)
    BY <2>5, AdoptRemoteKeeps
  <2>6. CASE Merge(w)
    BY <2>6, MergeKeeps
  <2>7. CASE PushRef(w)
    BY <2>7, PushRefKeeps
  <2>8. CASE PushRejected(w)
    BY <2>8, PushRejectedKeeps
  <2>9. CASE PushFails(w)
    BY <2>9, PushFailsKeeps
  <2> QED
    BY <1>4, <2>1, <2>2, <2>3, <2>4, <2>5, <2>6, <2>7, <2>8, <2>9 DEF PushHook
<1> QED
  BY <1>1, <1>2, <1>3, <1>4 DEF Next

\* The invariant holds in every state, when every git rev-parse answers
LEMMA NotesHold ==
    ASSUME MaxMisreads = 0
    PROVE  Spec => []NotesInv
<1>1. NotesInv /\ [Next]_vars => NotesInv'
  BY NotesStep
<1> QED
  BY <1>1, NotesStart, PTL DEF Spec

\* However marks, stamps, squashes, reconciliations and failures interleave,
\* over any number of worktrees and clones, the last mark of a Session is in
\* its marker file or in a note that still names it (cmd_stamp snapshots the
\* generations and removes only those).  The hypothesis is the one the code
\* relies on: no `git rev-parse' fails on a ref that exists.
THEOREM EvidenceIsRetained ==
    ASSUME MaxMisreads = 0
    PROVE  Spec => []EvidenceRetained
<1>1. NotesInv => EvidenceRetained
  BY DEF NotesInv, Retained, EvidenceRetained
<1> QED
  BY <1>1, NotesHold, PTL

\* push-notes and repair-notes report success only when origin has every note
\* the clone had when they began (_reconciled_push).
THEOREM SuccessIsTrue ==
    ASSUME MaxMisreads = 0
    PROVE  Spec => []SuccessMeansPushed
<1>1. NotesInv => SuccessMeansPushed
  BY DEF NotesInv
<1> QED
  BY <1>1, NotesHold, PTL

\* No step of any hook takes a Session out of a note, in a clone or at origin:
\* the notes lock, the union merge and the fast-forward together.
THEOREM NotesOnlyGrow ==
    ASSUME MaxMisreads = 0
    PROVE  Spec => NotesNeverShrink
<1> DEFINE Growth == \A c \in Commits :
                        /\ \A k \in Clones : ref[k].note[c] \subseteq ref'[k].note[c]
                        /\ remote.note[c] \subseteq remote'.note[c]
<1>1. NotesInv /\ [Next]_vars => [Growth]_vars
  <2> SUFFICES ASSUME NotesInv, [Next]_vars PROVE [Growth]_vars
    OBVIOUS
  <2>1. CASE Grows
    BY <2>1 DEF Grows, Below
  <2> QED
    BY <2>1, NotesStep
<1> QED
  BY <1>1, NotesHold, PTL DEF Spec, NotesNeverShrink

=============================================================================
