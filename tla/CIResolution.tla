---------------------------- MODULE CIResolution ----------------------------
(***************************************************************************)
(* What CI said about a commit                                             *)
(* (packages/derive/sediment_derive/ci_resolution.py and attachment.py).   *)
(*                                                                         *)
(* A CI outcome Fact is one observed result of one attempt of a run.  The  *)
(* attempts of a run are ordered into a lineage; a run is declined as a    *)
(* whole when one of its sources is, and when its sources contradict each  *)
(* other.  A commit has the verdict its runs agree on.  Workflow ids,      *)
(* names and paths identify a run as its branch does and are one field.    *)
(***************************************************************************)
EXTENDS RepositoryIdentity, FiniteSetsExt

Verdicts == {"passed", "failed"}

Outcomes(F, t) == Through(F, "ci_outcomes", t)

Commit(key, sha) == [repository |-> key, sha |-> sha]

\* _run_key: the repository's identity stays outside, one run cannot belong to
\* two lifetimes
RunKey(o) == [kind |-> IF o.identity = None THEN "legacy" ELSE "identified", run |-> o.run]

\* index_ci_outcomes_by_commit_key_result, for one source
IndexedKey(ctx, o) == ResolveFact(ctx, o, "repo").key

RunOutcomes(F, t, run) == {o \in Outcomes(F, t) : RunKey(o) = run}

\* A declined source keeps its run from a falsely clean partial lineage
Incomplete(ctx, sources) == \E o \in sources : IndexedKey(ctx, o) = None

RunCommits(ctx, sources) ==
    {c \in {Commit(IndexedKey(ctx, o), o.commit) : o \in sources} : c.repository # None}

\* _run_identity: one branch and workflow, one result for each attempt
Consistent(sources) ==
    /\ Cardinality({o.branch : o \in sources}) = 1
    /\ Cardinality({o.workflow : o \in sources} \ {None}) <= 1
    /\ \A o, p \in sources : o.attempt = p.attempt => o.result = p.result

Ordered(o, p) == o.attempt < p.attempt \/ (o.attempt = p.attempt /\ o.id <= p.id)

\* Mutant: attempts in the order of their capture
LastByCapture(S) == CHOOSE o \in S : \A p \in S : p.at < o.at \/ (p.at = o.at /\ p.id <= o.id)

\* The last source of a nonempty set by (attempt, outcome id)
LastOutcome(S) == CHOOSE o \in S : \A p \in S : Ordered(p, o)

\* _resolve_workflow
Lineage(sources) ==
    LET verdicts == {o \in sources : o.result \in Verdicts} IN
    [verdict |-> IF verdicts = {} THEN None ELSE LastOutcome(verdicts).result,
     attempt |-> IF verdicts = {} THEN None ELSE LastOutcome(verdicts).attempt,
     flake   |-> Cardinality({o.result : o \in verdicts}) > 1]

\* One run: skipped, conflicting, or the lineage of its commit
ResolveRun(ctx, sources, commits) ==
    IF Incomplete(ctx, sources) THEN [status |-> "incomplete", commits |-> {}]
    ELSE IF ~Consistent(sources) \/ Cardinality(commits) # 1
    THEN [status |-> "conflict", commits |-> commits]
    ELSE [status |-> "resolved", commits |-> commits, lineage |-> Lineage(sources)]

RunResolution(F, ctx, run) ==
    LET sources == RunOutcomes(F, ctx.asOf, run) IN
    ResolveRun(ctx, sources, RunCommits(ctx, sources))

Runs(F, t) == {RunKey(o) : o \in Outcomes(F, t)}

RunResolutions(F, ctx) == [run \in Runs(F, ctx.asOf) |-> RunResolution(F, ctx, run)]

\* conflicting_commit_keys
ConflictingCommits(R) ==
    UNION {R[r].commits : r \in {q \in DOMAIN R : R[q].status = "conflict"}}

\* The lineages of a commit, its verdict, and its reliability: 1 clean, 0 when
\* any of them is a suspected flake (the default policy)
LineagesOf(R, commit) ==
    {R[r].lineage : r \in {q \in DOMAIN R : R[q].status = "resolved" /\ R[q].commits = {commit}}}

ResolvedCommits(R) ==
    UNION {R[r].commits : r \in {q \in DOMAIN R : R[q].status = "resolved"}}

CommitResolution(R, commit) ==
    LET lineages == LineagesOf(R, commit)
        verdicts == {l.verdict : l \in lineages} \ {None}
    IN  [verdict |-> IF Cardinality(verdicts) = 1 THEN CHOOSE v \in verdicts : TRUE ELSE None,
         reliability |-> IF Cardinality(verdicts) # 1 THEN None
                         ELSE IF \E l \in lineages : l.verdict # None /\ l.flake THEN 0 ELSE 1,
         flake |-> \E l \in lineages : l.flake]

CommitResolutions(R) == [c \in ResolvedCommits(R) |-> CommitResolution(R, c)]

CIResolutions(F, ctx) == CommitResolutions(RunResolutions(F, ctx))
=============================================================================
