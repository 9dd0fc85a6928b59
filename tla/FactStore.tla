------------------------------ MODULE FactStore ------------------------------
(***************************************************************************)
(* The PostgreSQL Fact store of packages/core/sediment_core/store.py: how   *)
(* Facts are appended exactly once, how the sessions table follows them,    *)
(* and how quarantine decides what a Derivation's snapshot sees.            *)
(*                                                                          *)
(* Every store_* method is one READ COMMITTED transaction:                  *)
(*                                                                          *)
(*   INSERT ... ON CONFLICT DO NOTHING      (InsertKept, InsertSkipped)     *)
(*   stored: upsert the Session rows        (Upsert), then Commit           *)
(*   not stored: look the retained row up   (LookupKnown, LookupConflict)   *)
(*                                                                          *)
(* PostgreSQL is external and is modelled by what the store relies on:      *)
(* unique indexes (an INSERT waits for an uncommitted row it conflicts      *)
(* with), row locks on sessions, statement snapshots of committed rows,     *)
(* REPEATABLE READ for read_snapshot, identity values that are drawn at     *)
(* INSERT and not at COMMIT, rollback, and the deadlock detector.           *)
(***************************************************************************)
EXTENDS Integers, FiniteSets, Sequences, FiniteSetsExt

CONSTANTS
    Facts,          \* the Facts captures submit, see Fact below
    Batches,        \* the argument lists of the store_* calls, sequences of Facts
    Sessions,       \* session ids, naturals: upserts follow their order
    Users,          \* known user identities
    Writers,        \* connections that store Facts
    Operators,      \* connections that append quarantine records
    Readers,        \* Derivations, each with one read snapshot
    MaxLists,       \* bound: different argument lists that are submitted
    MaxRevision,    \* bound: quarantine records drawn from the sequence
    MaxReports,     \* bound: reports the Readers publish
    None

(***************************************************************************)
(* A Fact keeps what storage tells apart.  "id" is its primary key, "key"   *)
(* the columns of its natural unique index (None: the partial index does    *)
(* not cover the row), "ident" the further identity columns a receipt       *)
(* compares (the repository of a Push or an observation; organisation and   *)
(* provider of a call that has no natural key; else 0), "source" the Push   *)
(* an identified observation names, and "at" its observation time.  A Push  *)
(* belongs to no Session.                                                   *)
(***************************************************************************)
Tables == {"inference_calls", "developer_decisions", "compute_allocations",
           "pushes", "session_commit_observations"}

Fact == [table : Tables, id : Nat, key : Nat \cup {None}, ident : Nat,
         session : Sessions \cup {None}, user : Users \cup {None},
         at : Nat, source : Nat \cup {None}]

RepositoryTables == {"pushes", "session_commit_observations"}

ASSUME FactsAssumption ==
    /\ Facts \subseteq Fact
    /\ \A f \in Facts :
          /\ f.key = None => f.table = "inference_calls"
          /\ f.session = None <=> f.table = "pushes"
          /\ f.source # None => f.table = "session_commit_observations"
          /\ f.table \notin RepositoryTables /\ f.key # None => f.ident = 0

ASSUME BatchesAssumption ==
    /\ Batches \subseteq Seq(Facts)
    /\ \A b \in Batches :
          /\ Len(b) > 0
          /\ \A i \in DOMAIN b : b[i].table = b[1].table
          /\ b[1].table # "developer_decisions" => Len(b) = 1

ASSUME BoundsAssumption ==
    /\ Sessions \subseteq Nat /\ None \notin Nat /\ None \notin Users
    /\ MaxLists \in Nat /\ MaxRevision \in Nat /\ MaxReports \in Nat

SessionRow == [first : Nat, last : Nat, user : Users \cup {None},
               conflict : BOOLEAN]

ASSUME RowsAssumption == None \notin SessionRow

VARIABLES
    rows,           \* committed Facts
    sess,           \* committed sessions rows
    log,            \* committed fact_quarantine rows
    sequence,       \* last value drawn from quarantine_revision's identity
    txn,            \* per Writer: its transaction
    append,         \* per Operator: its uncommitted quarantine records
    reply,          \* per Writer: what its last call returned, per argument
    reader,         \* per Reader: its snapshot and what it read from it
    reports,        \* what Derivations published
    submitted       \* the argument lists in use so far, up to MaxLists

vars == <<rows, sess, log, sequence, txn, append, reply, reader, reports, submitted>>

Record == [revision : Nat, table : Tables, id : Nat,
           action : {"quarantine", "release"}]

Stages == {"idle", "source", "insert", "lookup", "upsert"}

Idle == [stage |-> "idle", batch |-> <<>>, next |-> 0, kept |-> {},
         wrote |-> [s \in Sessions |-> None]]

Closed == [view |-> None, revision |-> None, seen |-> None, since |-> {}]

Init ==
    /\ rows = {}
    /\ sess = [s \in Sessions |-> None]
    /\ log = {}
    /\ sequence = 0
    /\ txn = [w \in Writers |-> Idle]
    /\ append = [o \in Operators |-> {}]
    /\ reply = [w \in Writers |-> {}]
    /\ reader = [r \in Readers |-> Closed]
    /\ reports = {}
    /\ submitted = {}

\* ghost: every committed state since a Reader opened its snapshot.
Observe ==
    reader' = [r \in Readers |->
                 IF reader[r].view = None THEN reader[r]
                 ELSE [reader[r] EXCEPT !.since =
                         @ \cup {[rows |-> rows', log |-> log']}]]

-----------------------------------------------------------------------------
(* Visibility *)

\* What a quarantine record is about.
Target(f) == [table |-> f.table, id |-> f.id]

\* _quarantine_revision: the greatest revision, 0 when clean.
Revision(L) == Max({0} \cup {q.revision : q \in L})

\* _fact_conditions: the latest action by revision is not "quarantine".
Visible(R, L) ==
    {f \in R : ~\E q \in L :
        /\ q.action = "quarantine"
        /\ Target(q) = Target(f)
        /\ \A p \in L : Target(p) = Target(f) => p.revision <= q.revision}

-----------------------------------------------------------------------------
(* Storing Facts *)

\* The row r occupies the primary key or the natural key of f.
Conflicts(r, f) ==
    /\ r.table = f.table
    /\ r.id = f.id \/ (f.key # None /\ r.key = f.key)

\* Rows that w's open transaction has inserted.
Uncommitted(w) == {txn[w].batch[i] : i \in txn[w].kept}

\* The Fact w inserts or looks up next.
Current(w) == txn[w].batch[txn[w].next]

Begin(w, b) ==
    /\ submitted' = submitted \cup {b}
    /\ Cardinality(submitted') <= MaxLists
    /\ txn[w].stage = "idle"
    /\ txn' = [txn EXCEPT ![w] =
                 [Idle EXCEPT !.stage = IF b[1].source = None
                                        THEN "insert" ELSE "source",
                              !.batch = b, !.next = 1]]
    /\ reply' = [reply EXCEPT ![w] = {}]
    /\ UNCHANGED <<rows, sess, log, sequence, append, reader, reports>>

\* The transaction ends and the call answers "outcome" for the Fact f.
Answer(w, f, id, outcome) ==
    /\ txn' = [txn EXCEPT ![w] = Idle]
    /\ reply' = [reply EXCEPT ![w] =
                   {[fact |-> f, id |-> id, outcome |-> outcome]}]
    /\ UNCHANGED <<rows, sess, log, sequence, append, reader, reports, submitted>>

\* Mutant: the source Push is not looked up
SourceUnchecked(f) == TRUE

\* The retained source Push of an identified observation.
SourceAgrees(f) ==
    \E p \in rows : p.table = "pushes" /\ p.id = f.source /\ p.ident = f.ident

\* An identified observation needs its retained source Push, with the same
\* repository identity, before it is inserted.
CheckSource(w) ==
    /\ txn[w].stage = "source"
    /\ SourceAgrees(Current(w))
    /\ txn' = [txn EXCEPT ![w].stage = "insert"]
    /\ UNCHANGED <<rows, sess, log, sequence, append, reply, reader, reports, submitted>>

RefuseSource(w) ==
    /\ txn[w].stage = "source"
    /\ ~SourceAgrees(Current(w))
    /\ Answer(w, Current(w), None, "no source")

\* store_decisions inserts its list in one statement, then goes on.
Advance(t) ==
    IF t.next < Len(t.batch) THEN [t EXCEPT !.next = @ + 1]
                             ELSE [t EXCEPT !.stage = "upsert"]

\* Mutant: no unique index makes an INSERT wait
NoInsertWait(w) == {}

\* An INSERT that meets an uncommitted row of another transaction waits.
InsertWaitsFor(w) ==
    {v \in Writers \ {w} : \E r \in Uncommitted(v) : Conflicts(r, Current(w))}

\* A conflicting row that makes ON CONFLICT DO NOTHING skip the Fact.
Duplicate(w) == \E r \in rows \cup Uncommitted(w) : Conflicts(r, Current(w))

InsertKept(w) ==
    /\ txn[w].stage = "insert"
    /\ ~Duplicate(w)
    /\ InsertWaitsFor(w) = {}
    /\ LET t == txn[w]
       IN  txn' = [txn EXCEPT ![w] = Advance([t EXCEPT !.kept = t.kept \cup {t.next}])]
    /\ UNCHANGED <<rows, sess, log, sequence, append, reply, reader, reports, submitted>>

\* Receipt methods read the retained row back; the others report "not stored".
ReadsBack(f) == f.table \in {"inference_calls", "compute_allocations"}
                            \cup RepositoryTables

InsertSkipped(w) ==
    /\ txn[w].stage = "insert"
    /\ Duplicate(w)
    /\ txn' = [txn EXCEPT ![w] = IF ReadsBack(Current(w))
                                 THEN [@ EXCEPT !.stage = "lookup"]
                                 ELSE Advance(@)]
    /\ UNCHANGED <<rows, sess, log, sequence, append, reply, reader, reports, submitted>>

\* Mutant: the lookup leaves quarantined rows out
MatchesVisible(f) == {r \in Visible(rows, log) : Conflicts(r, f)}

\* Committed rows the lookup after a skipped INSERT selects, quarantined ones
\* included.  A Compute allocation is looked up by its natural key alone.
Matches(f) ==
    {r \in rows : Conflicts(r, f) /\
                  (f.table = "compute_allocations" => r.key = f.key)}

\* Mutant: a row that shares the id is taken for the Fact
AnyIdentity(r, f) == TRUE

\* The retained row has the identity of the submitted Fact.
SameIdentity(r, f) ==
    /\ r.key = f.key
    /\ f.table \in RepositoryTables \/ f.key = None => r.ident = f.ident

LookupKnown(w) ==
    /\ txn[w].stage = "lookup"
    /\ \E r \in rows :
          /\ Matches(Current(w)) = {r}
          /\ SameIdentity(r, Current(w))
          /\ Answer(w, Current(w), r.id, "known")

LookupConflict(w) ==
    /\ txn[w].stage = "lookup"
    /\ ~\E r \in rows : Matches(Current(w)) = {r} /\ SameIdentity(r, Current(w))
    /\ Answer(w, Current(w), None, "conflict")

-----------------------------------------------------------------------------
(* The sessions table *)

\* _session_metadata over one Session's stored Facts; _session_upsert is the
\* case of a single Fact.
Metadata(F) ==
    LET users == {f.user : f \in F} \ {None}
        times == {f.at : f \in F}
    IN  [first    |-> Min(times),
         last     |-> Max(times),
         user     |-> IF Cardinality(users) = 1 THEN CHOOSE u \in users : TRUE
                                                ELSE None,
         conflict |-> Cardinality(users) > 1]

\* Mutant: the conflict marker is computed afresh by every upsert
MergeForgetful(old, new) ==
    LET conflict == old.user # None /\ new.user # None /\ old.user # new.user
    IN  [first    |-> Min({old.first, new.first}),
         last     |-> Max({old.last, new.last}),
         user     |-> IF conflict THEN None
                      ELSE IF old.user # None THEN old.user ELSE new.user,
         conflict |-> conflict]

\* ON CONFLICT (org_id, session_id) DO UPDATE: the conflict marker is sticky.
Merge(old, new) ==
    LET conflict == \/ old.conflict
                    \/ new.conflict
                    \/ old.user # None /\ new.user # None /\ old.user # new.user
    IN  [first    |-> Min({old.first, new.first}),
         last     |-> Max({old.last, new.last}),
         user     |-> IF conflict THEN None
                      ELSE IF old.user # None THEN old.user ELSE new.user,
         conflict |-> conflict]

Stored(w, s) == {f \in Uncommitted(w) : f.session = s}

\* Session rows w's transaction still has to upsert.
Pending(w) == {s \in Sessions : Stored(w, s) # {} /\ txn[w].wrote[s] = None}

\* Mutant: Session rows are written in the order of the list
NextSessionAsGiven(w) ==
    LET ours == {i \in txn[w].kept : txn[w].batch[i].session \in Pending(w)}
    IN  txn[w].batch[Min(ours)].session

\* Session rows are written in sorted order.
NextSession(w) == Min(Pending(w))

\* The row lock of a written session is held until its transaction ends.
UpsertWaitsFor(w) ==
    {v \in Writers \ {w} : txn[v].wrote[NextSession(w)] # None}

Upserted(old, new) == IF old = None THEN new ELSE Merge(old, new)

Upsert(w) ==
    /\ txn[w].stage = "upsert"
    /\ Pending(w) # {}
    /\ UpsertWaitsFor(w) = {}
    /\ LET s == NextSession(w)
       IN  txn' = [txn EXCEPT ![w].wrote[s] =
                     Upserted(sess[s], Metadata(Stored(w, s)))]
    /\ UNCHANGED <<rows, sess, log, sequence, append, reply, reader, reports, submitted>>

\* What a call returns once it has committed: one disposition per argument.
Dispositions(w) ==
    {[fact    |-> txn[w].batch[i],
      id      |-> IF i \in txn[w].kept THEN txn[w].batch[i].id ELSE None,
      outcome |-> IF i \in txn[w].kept THEN "stored" ELSE "known"]
        : i \in DOMAIN txn[w].batch}

\* The caller may be gone when the COMMIT succeeds: heard = FALSE.
Commit(w) ==
    /\ txn[w].stage = "upsert"
    /\ Pending(w) = {}
    /\ rows' = rows \cup Uncommitted(w)
    /\ sess' = [s \in Sessions |->
                  IF txn[w].wrote[s] = None THEN sess[s] ELSE txn[w].wrote[s]]
    /\ txn' = [txn EXCEPT ![w] = Idle]
    /\ \E heard \in BOOLEAN :
          reply' = [reply EXCEPT ![w] = IF heard THEN Dispositions(w) ELSE {}]
    /\ UNCHANGED <<log, sequence, append, reports, submitted>>
    /\ Observe

-----------------------------------------------------------------------------
(* Waiting, rollback and the deadlock detector *)

WaitsFor(w) ==
    CASE txn[w].stage = "insert" /\ ~Duplicate(w) -> InsertWaitsFor(w)
      [] txn[w].stage = "upsert" /\ Pending(w) # {} -> UpsertWaitsFor(w)
      [] OTHER -> {}

\* A cycle of transactions that wait for each other.
Deadlocked(C) ==
    /\ C # {}
    /\ \A w \in C : WaitsFor(w) \cap C # {}
    /\ \A D \in (SUBSET C) \ {{}, C} : \E w \in D : WaitsFor(w) \cap D = {}

\* Mutant: a failed call leaves its transaction open
RollbackHoldsLocks(w) ==
    /\ txn' = [txn EXCEPT ![w].stage = "idle"]
    /\ UNCHANGED <<rows, sess, log, sequence, append, reply, reader, reports, submitted>>

Rollback(w) ==
    /\ txn' = [txn EXCEPT ![w] = Idle]
    /\ UNCHANGED <<rows, sess, log, sequence, append, reply, reader, reports, submitted>>

\* A connection, a statement or the whole process fails inside a transaction.
Abort(w) == txn[w].stage # "idle" /\ Rollback(w)

\* PostgreSQL rolls back one transaction of every wait cycle.
BreakDeadlock(w) ==
    /\ \E C \in SUBSET Writers : w \in C /\ Deadlocked(C)
    /\ Rollback(w)

-----------------------------------------------------------------------------
(* Quarantine *)

\* Identity values are drawn when the INSERT runs; rows of one statement get
\* consecutive ones in id order.
Draw(o, targets, action) ==
    /\ append[o] = {}
    /\ sequence + Cardinality(targets) <= MaxRevision
    /\ sequence' = sequence + Cardinality(targets)
    /\ append' = [append EXCEPT ![o] =
                    {[revision |-> sequence + 1
                                     + Cardinality({u \in targets : u.id < t.id}),
                      table |-> t.table, id |-> t.id, action |-> action]
                        : t \in targets}]
    /\ UNCHANGED <<rows, sess, log, txn, reply, reader, reports, submitted>>

\* quarantine_fact and release_fact: a target that does not exist is legal.
AppendQuarantine(o) ==
    \E f \in Facts, action \in {"quarantine", "release"} :
        Draw(o, {Target(f)}, action)

\* quarantine_inference_calls_where, filtered by Session.
QuarantineWhere(o) ==
    \E s \in Sessions :
        LET matching == {f \in rows : f.table = "inference_calls" /\ f.session = s}
        IN  /\ matching # {}
            /\ Draw(o, {Target(f) : f \in matching}, "quarantine")

CommitAppend(o) ==
    /\ append[o] # {}
    /\ log' = log \cup append[o]
    /\ append' = [append EXCEPT ![o] = {}]
    /\ UNCHANGED <<rows, sess, sequence, txn, reply, reports, submitted>>
    /\ Observe

\* A rolled back INSERT leaves a gap in the sequence.
AbortAppend(o) ==
    /\ append[o] # {}
    /\ append' = [append EXCEPT ![o] = {}]
    /\ UNCHANGED <<rows, sess, log, sequence, txn, reply, reader, reports, submitted>>

-----------------------------------------------------------------------------
(* Snapshots *)

\* read_snapshot fixes its view at entry.
OpenSnapshot(r) ==
    /\ reader[r].view = None
    /\ Cardinality(reports) < MaxReports
    /\ LET now == [rows |-> rows, log |-> log]
       IN  reader' = [reader EXCEPT ![r].view = now, ![r].since = {now}]
    /\ UNCHANGED <<rows, sess, log, sequence, txn, append, reply, reports, submitted>>

ReadRevision(r) ==
    /\ reader[r].view # None
    /\ reader[r].revision = None
    /\ reader' = [reader EXCEPT ![r].revision = Revision(reader[r].view.log)]
    /\ UNCHANGED <<rows, sess, log, sequence, txn, append, reply, reports, submitted>>

\* Mutant: reads outside read_snapshot see whatever is committed by then.
ReadFactsLive(r) ==
    /\ reader[r].view # None
    /\ reader[r].seen = None
    /\ reader' = [reader EXCEPT ![r].seen = Visible(rows, log)]
    /\ UNCHANGED <<rows, sess, log, sequence, txn, append, reply, reports, submitted>>

ReadFacts(r) ==
    /\ reader[r].view # None
    /\ reader[r].seen = None
    /\ reader' = [reader EXCEPT ![r].seen =
                    Visible(reader[r].view.rows, reader[r].view.log)]
    /\ UNCHANGED <<rows, sess, log, sequence, txn, append, reply, reports, submitted>>

\* A Derivation stamps the revision into its Provenance.
Publish(r) ==
    /\ reader[r].view # None
    /\ reader[r].revision # None
    /\ reader[r].seen # None
    /\ reports' = reports \cup
                    {[revision |-> reader[r].revision,
                      seen     |-> reader[r].seen,
                      hidden   |-> reader[r].view.rows \ reader[r].seen,
                      since    |-> reader[r].since]}
    /\ reader' = [reader EXCEPT ![r] = Closed]
    /\ UNCHANGED <<rows, sess, log, sequence, txn, append, reply, submitted>>

-----------------------------------------------------------------------------
Writer(w) ==
    \/ CheckSource(w)
    \/ RefuseSource(w)
    \/ InsertKept(w)
    \/ InsertSkipped(w)
    \/ LookupKnown(w)
    \/ LookupConflict(w)
    \/ Upsert(w)
    \/ Commit(w)

Operator(o) ==
    \/ AppendQuarantine(o)
    \/ QuarantineWhere(o)
    \/ CommitAppend(o)
    \/ AbortAppend(o)

Reader(r) ==
    \/ OpenSnapshot(r)
    \/ ReadRevision(r)
    \/ ReadFacts(r)
    \/ Publish(r)

Next ==
    \/ \E w \in Writers : Writer(w)
    \/ \E w \in Writers, b \in Batches : Begin(w, b)
    \/ \E w \in Writers : Abort(w)
    \/ \E w \in Writers : BreakDeadlock(w)
    \/ \E o \in Operators : Operator(o)
    \/ \E r \in Readers : Reader(r)

Spec == Init /\ [][Next]_vars

(***************************************************************************)
(* Fairness.  A statement that can run runs; PostgreSQL queues the waiters  *)
(* of a lock in arrival order, so a waiter whose turn keeps coming gets it  *)
(* (strong fairness); the deadlock detector runs after deadlock_timeout.    *)
(***************************************************************************)
Fairness ==
    \A w \in Writers : SF_vars(Writer(w)) /\ SF_vars(BreakDeadlock(w))

FairSpec == Spec /\ Fairness

-----------------------------------------------------------------------------
(* Properties *)

\* What the store's tables and open transactions hold: the committed rows are
\* submitted Facts, an idle connection has nothing uncommitted, and a Reader
\* without a snapshot has read nothing.
StoreTypeOK ==
    /\ rows \subseteq Facts
    /\ submitted \subseteq Batches
    /\ sess \in [Sessions -> SessionRow \cup {None}]
    /\ log \subseteq Record
    /\ sequence \in 0..MaxRevision
    /\ DOMAIN txn = Writers
    /\ \A w \in Writers :
          /\ txn[w].stage \in Stages
          /\ txn[w].kept \subseteq DOMAIN txn[w].batch
          /\ txn[w].wrote \in [Sessions -> SessionRow \cup {None}]
          /\ txn[w].stage = "idle" <=> txn[w] = Idle
    /\ \A o \in Operators : append[o] \subseteq Record
    /\ \A r \in Readers : reader[r].view = None <=> reader[r] = Closed

\* "Merges session metadata without depending on fact arrival order": whatever
\* the interleaving of transactions, batches, duplicates and rollbacks, the
\* committed sessions row is the summary of exactly the committed Facts of its
\* Session: tight time bounds, the one known user, the marker iff two differ.
SessionFollowsFacts ==
    \A s \in Sessions :
        LET F == {f \in rows : f.session = s}
            K == {f \in F : f.user # None}
        IN  IF F = {} THEN sess[s] = None
            ELSE /\ sess[s] # None
                 /\ \A f \in F : sess[s].first <= f.at /\ f.at <= sess[s].last
                 /\ \E f, g \in F : f.at = sess[s].first /\ g.at = sess[s].last
                 /\ sess[s].conflict <=> \E f, g \in K : f.user # g.user
                 /\ IF K = {} \/ sess[s].conflict THEN sess[s].user = None
                    ELSE \A f \in K : sess[s].user = f.user

\* A receipt never names a row that is not retained or that has another
\* identity, also when the row it met was inserted by a transaction that is
\* still open or that rolled back, and when that row is quarantined; and a
\* conflict is answered only when retained evidence contradicts the Fact.
ReceiptsAreTrue ==
    \A w \in Writers : \A a \in reply[w] :
        /\ a.outcome = "stored" => a.fact \in rows
        /\ a.outcome = "known" =>
              \E r \in rows : Conflicts(r, a.fact) /\
                 (a.id # None => r.id = a.id /\ r.key = a.fact.key
                                 /\ r.ident = a.fact.ident)
        /\ a.outcome = "conflict" =>
              \E r \in rows : Conflicts(r, a.fact) /\
                 (r.key # a.fact.key \/ r.ident # a.fact.ident)

\* Replays and concurrent deliveries converge: no two retained rows of a table
\* share a primary key or a natural key.
OneRowPerIdentity ==
    \A r, f \in rows : Conflicts(r, f) => r = f

\* An identified observation never outlives or contradicts its source Push.
ObservationHasSource ==
    \A f \in rows : f.source # None =>
        \E p \in rows : p.table = "pushes" /\ p.id = f.source
                        /\ p.ident = f.ident

\* Transactions that write several Session rows take their locks in one order,
\* and hold no lock an inserter waits for while they wait for an inserter: a
\* wait cycle never includes a transaction that is upserting Sessions.
SessionsNeverDeadlock ==
    \A C \in SUBSET Writers :
        Deadlocked(C) => \A w \in C : txn[w].stage = "insert"

\* A Derivation's Facts and the revision it stamps come from one committed
\* state that existed while it ran, whatever commits between its reads.
ReportIsOneState ==
    \A p \in reports : \E i \in p.since :
        p.revision = Revision(i.log) /\ p.seen = Visible(i.rows, i.log)

\* "Quarantine revision describes visibility": two Derivations that carry the
\* same revision never disagree on whether a Fact both could read is hidden.
RevisionNamesVisibility ==
    \A p, q \in reports : p.revision = q.revision => p.seen \cap q.hidden = {}

\* Every store call ends, with an answer or with an error its caller can retry.
CallsEnd == \A w \in Writers : txn[w].stage # "idle" ~> txn[w].stage = "idle"
=============================================================================
