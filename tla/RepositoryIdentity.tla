------------------------- MODULE RepositoryIdentity -------------------------
(***************************************************************************)
(* Which repository a captured Fact belongs to                             *)
(* (packages/derive/sediment_derive/repository_identity.py).               *)
(*                                                                         *)
(* A Fact names its repository by the slug it had at capture and, since    *)
(* forges report one, by an identity that survives renames.  A context is  *)
(* built from a whole population up to a boundary; it resolves a Fact to   *)
(* an identified key, to the legacy key of its slug, or to a reason why    *)
(* neither is safe.  The organization is fixed: every read is filtered by  *)
(* it.  The label of a key, the least of its names, is left out.           *)
(***************************************************************************)
EXTENDS Integers, FiniteSets

CONSTANT None   \* no identity, no key, no reason, no slug

(***************************************************************************)
(* A Fact is a record with at least its table, its id and captured_at (at).*)
(* Facts about a repository also have repo and identity, observations the  *)
(* Push they were made at, pull requests head_repo and head_identity.      *)
(***************************************************************************)
PullRequestTables == {"pull_request_merges", "pull_request_revisions"}

EvidenceTables == PullRequestTables \cup
    {"pushes", "ci_outcomes", "session_commit_observations"}

Identified(i) == [kind |-> "identified", of |-> i]
Legacy(repo) == [kind |-> "legacy", of |-> repo]

IsIdentified(key) == key # None /\ key.kind = "identified"

Resolved(key) == [key |-> key, reason |-> None]
Declined(reason) == [key |-> None, reason |-> reason]

\* One row for each role in which a Fact names a repository
Row(f, role, repo, identity) ==
    [table |-> f.table, id |-> f.id, role |-> role, repo |-> repo,
     identity |-> identity, at |-> f.at,
     push |-> IF f.table = "session_commit_observations" THEN f.push ELSE None]

Evidence(f) ==
    {Row(f, "repo", f.repo, f.identity)} \cup
    (IF f.table \in PullRequestTables
     THEN {Row(f, "head_repo", f.head_repo, f.head_identity)} ELSE {})

SourceKey(row) == <<row.table, row.id, row.role>>

\* The Facts of F that a boundary admits
Through(F, table, t) == {f \in F : f.table = table /\ f.at <= t}

\* Rows eligible at the boundary, and the sources whose copies disagree
Rows(F, t) ==
    UNION {Evidence(f) : f \in {g \in F : g.table \in EvidenceTables /\ g.at <= t}}

Conflicting(rows) ==
    {SourceKey(r) : r \in {q \in rows :
        \E other \in rows : SourceKey(other) = SourceKey(q) /\ other # q}}

-----------------------------------------------------------------------------
(* Renames claim both of their slugs.  Copies of one id, or redeliveries of *)
(* one event, that disagree make their slugs unsafe and prove nothing.      *)

SameDelivery(r, q) == r.event # None /\ r.event = q.event

\* The code compares occurred_at as well; it is left out, as storage keeps one
\* rename of an event.
RenameContent(r) == <<r.identity, r.old, r.new>>

\* Mutant: renames are read whatever their capture time
RenamesAtAnyTime(F, t) == {f \in F : f.table = "repository_renames"}

Renames(F, t) == Through(F, "repository_renames", t)

RenameConflicts(R) ==
    {r.id : r \in {q \in R :
        \E other \in R :
            \/ other.id = q.id /\ other # q
            \/ SameDelivery(other, q) /\ RenameContent(other) # RenameContent(q)}}

-----------------------------------------------------------------------------
(* build_repository_context                                                *)

\* Mutant: a legacy source takes the identity that another one gives its slug
IdentityOfSlug(row, sources, conflicts) ==
    LET same == {s \in sources : s.repo = row.repo /\ s.identity # None} IN
    [identity |-> IF row.identity = None /\ same # {}
                  THEN (CHOOSE s \in same : TRUE).identity ELSE row.identity,
     reason |-> None]

\* _source_identity: an observation has the identity of its source Push, and
\* no other; every other source has its own
SourceIdentity(row, sources, conflicts) ==
    LET pushKey == <<"pushes", row.push, "repo">>
        pushes == {s \in sources : SourceKey(s) = pushKey}
    IN  IF row.table # "session_commit_observations"
        THEN [identity |-> row.identity, reason |-> None]
        ELSE IF pushKey \in conflicts
        THEN [identity |-> None, reason |-> "conflict"]
        ELSE IF pushes = {}
        THEN [identity |-> row.identity,
              reason |-> IF row.identity = None THEN None ELSE "absent source"]
        ELSE LET push == CHOOSE s \in pushes : TRUE IN
             IF push.identity = None
             THEN [identity |-> None,
                   reason |-> IF row.identity # None THEN "unresolved"
                              ELSE IF row.repo # push.repo THEN "conflict" ELSE None]
             ELSE IF row.identity \notin {None, push.identity}
             THEN [identity |-> None, reason |-> "conflict"]
             ELSE [identity |-> push.identity, reason |-> None]

\* The lookups of a RepositoryContext: for each slug the identities that claim
\* it, the slugs with contradictory evidence, <<key, slug>> for every name a key
\* was seen under, and the sources with the identity each of them proves
BuildContext(rows, renames, t) ==
    LET conflicts == Conflicting(rows)
        badRenames == RenameConflicts(renames)
        goodRenames == {r \in renames : r.id \notin badRenames}
        sources == {r \in rows : SourceKey(r) \notin conflicts}
        proven == {[row |-> r, proof |-> SourceIdentity(r, sources, conflicts)] : r \in sources}
        named == {p \in proven : p.proof.reason = None /\ p.row.repo # None}
    IN  [asOf |-> t,
         conflicts |-> conflicts,
         proven |-> proven,
         unsafe |-> UNION {{r.old, r.new} : r \in renames \ goodRenames}
                    \cup {r.repo : r \in rows \ sources},
         claims |-> {<<r.old, r.identity>> : r \in renames}
                    \cup {<<r.new, r.identity>> : r \in renames}
                    \cup {<<r.repo, r.identity>> :
                            r \in {q \in rows : q.identity # None /\ q.repo # None}}
                    \cup {<<p.row.repo, p.proof.identity>> :
                            p \in {q \in named : q.proof.identity # None}},
         names |-> {<<Identified(r.identity), r.old>> : r \in goodRenames}
                   \cup {<<Identified(r.identity), r.new>> : r \in goodRenames}
                   \cup {<<IF p.proof.identity = None THEN Legacy(p.row.repo)
                           ELSE Identified(p.proof.identity), p.row.repo>> : p \in named}]

\* read_repository_context: the whole population; supplements, if any, are in F
Context(F, t) == BuildContext(Rows(F, t), Renames(F, t), t)

Claims(ctx, repo) == {c[2] : c \in {d \in ctx.claims : d[1] = repo}}

Names(ctx, key) == {n[2] : n \in {m \in ctx.names : m[1] = key}}

\* repository_keys()
Keys(ctx) == {n[1] : n \in ctx.names}

\* resolve_reference: a slug alone is safe only while no identity claims it
ResolveReference(ctx, repo, identity) ==
    IF repo = None THEN Declined("absent")
    ELSE IF identity = None
    THEN IF Claims(ctx, repo) # {} \/ repo \in ctx.unsafe
         THEN Declined("unresolved") ELSE Resolved(Legacy(repo))
    ELSE IF repo \in Names(ctx, Identified(identity)) THEN Resolved(Identified(identity))
    ELSE Declined("unresolved")

\* resolve_source
ResolveSource(ctx, source) ==
    IF source \in ctx.conflicts THEN Declined("conflict")
    ELSE LET known == {p \in ctx.proven : SourceKey(p.row) = source} IN
         IF known = {} THEN Declined("absent source")
         ELSE LET p == CHOOSE p \in known : TRUE IN
              IF p.proof.reason # None THEN Declined(p.proof.reason)
              ELSE ResolveReference(ctx, p.row.repo, p.proof.identity)

\* resolve_fact: the supplied Fact must be the source, in every column
ResolveRow(ctx, row, source) ==
    LET known == {p.row : p \in ctx.proven} IN
    IF source \in ctx.conflicts \/ row \in known THEN ResolveSource(ctx, source)
    ELSE IF source \in {SourceKey(r) : r \in known} THEN Declined("conflict")
    ELSE Declined("absent source")

RowOf(f, role) == CHOOSE r \in Evidence(f) : r.role = role

ResolveFact(ctx, f, role) == ResolveRow(ctx, RowOf(f, role), <<f.table, f.id, role>>)

\* repo_for: whether a key has an eligible label at all
HasLabel(ctx, key) ==
    IF IsIdentified(key) THEN Names(ctx, key) # {}
    ELSE ResolveReference(ctx, key.of, None).key = key

\* select_repository by name: its only lifetime, or RepositoryReadAmbiguous
SelectRepository(ctx, repo) ==
    LET claims == Claims(ctx, repo) IN
    IF repo \in ctx.unsafe \/ Cardinality(claims) > 1 THEN Declined("ambiguous")
    ELSE IF claims = {} THEN Resolved(Legacy(repo))
    ELSE LET key == Identified(CHOOSE i \in claims : TRUE) IN
         IF repo \in Names(ctx, key) THEN Resolved(key) ELSE Declined("ambiguous")

\* Mutant: an identified source refreshes any location it was seen at
RefreshWhereNamed(ctx, source, repo) ==
    LET result == ResolveSource(ctx, source) IN
    IF result.key = None \/ repo \in ctx.unsafe THEN Declined("mirror unresolved")
    ELSE IF IsIdentified(result.key)
    THEN IF repo \in Names(ctx, result.key) THEN result ELSE Declined("mirror unresolved")
    ELSE IF repo = result.key.of THEN result ELSE Declined("mirror unresolved")

\* mirror_refresh_resolution: the location repo may be fetched for a source only
\* when nobody else was seen there
MirrorRefresh(ctx, source, repo) ==
    LET result == ResolveSource(ctx, source) IN
    IF result.key = None \/ repo \in ctx.unsafe THEN Declined("mirror unresolved")
    ELSE IF IsIdentified(result.key)
    THEN IF repo \in Names(ctx, result.key) /\ Claims(ctx, repo) = {result.key.of}
         THEN result ELSE Declined("mirror unresolved")
    ELSE IF repo = result.key.of THEN result ELSE Declined("mirror unresolved")

-----------------------------------------------------------------------------
(* read_repository_witness_context: one row for each distinct state instead *)
(* of the population, and the sources the caller asks for.                  *)

\* An observation is retained with the Push it was made at
Anchors(rows, row) ==
    IF row.table = "session_commit_observations"
    THEN {r \in rows : SourceKey(r) = <<"pushes", row.push, "repo">>} ELSE {}

\* Mutant: the state of an observation leaves out the Push it was made at
StateWithoutAnchor(rows, row) == <<row.table, row.role, row.identity, row.repo, {}>>

\* What two rows of a table share when only one of them is kept
State(rows, row) ==
    <<row.table, row.role, row.identity, row.repo,
      {<<a.identity, a.repo>> : a \in Anchors(rows, row)}>>

WitnessRows(rows, requested) ==
    LET kept == {r \in rows :
            \/ SourceKey(r) \in requested
            \/ \A other \in rows : State(rows, other) = State(rows, r) => r.id <= other.id}
    IN  kept \cup UNION {Anchors(rows, r) : r \in kept}

WitnessRenames(renames) ==
    {r \in renames : \A other \in renames :
        RenameContent(other) = RenameContent(r) => r.id <= other.id}

WitnessContext(F, t, requested) ==
    BuildContext(WitnessRows(Rows(F, t), requested), WitnessRenames(Renames(F, t)), t)
=============================================================================
