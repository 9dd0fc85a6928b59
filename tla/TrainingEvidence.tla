-------------------------- MODULE TrainingEvidence --------------------------
(***************************************************************************)
(* The rows that training and reports are made of: which Decisions belong  *)
(* to which call (packages/derive/sediment_derive/attachment.py),          *)
(* attributed completions (packages/export/sediment_export/                *)
(* attributed_completions.py), rollouts (rollout.py), recovery pairs       *)
(* (recovery.py) and accepted Sessions (abandonment.py).                   *)
(*                                                                         *)
(* The order of rows, edit retention scores and the evaluation split are   *)
(* left out, and so are counts of what was skipped.  Messages are compared *)
(* as values; accepted, explicit and the mode of a Decision are its        *)
(* verdict.                                                                *)
(***************************************************************************)
EXTENDS MergeMembership

CONSTANTS DiffLines,           \* changed lines between two commits
          MaxRecoveryDiffLines

ASSUME RecoveryAssumption == MaxRecoveryDiffLines \in Nat

-----------------------------------------------------------------------------
(* Decisions.  A call is reachable under its own id and those of its tool   *)
(* calls.                                                                   *)

Decisions(F, t) == Through(F, "developer_decisions", t)

SameDecision(d, e) ==
    <<d.session, d.verdict, d.occurred, d.call>> = <<e.session, e.verdict, e.occurred, e.call>>

\* Mutant: any Decision of the call with a path stands for the one without
SubsumedByCall(d, D) ==
    /\ d.harness = "codex" /\ d.path = None /\ d.call # None
    /\ \E e \in D : e.harness = "codex" /\ e.path # None /\ e.call = d.call

\* drop_subsumed_codex_decisions: a redelivery without a path repeats a Decision
\* that is there for each of its files
Subsumed(d, D) ==
    /\ d.harness = "codex" /\ d.path = None /\ d.call # None
    /\ \E e \in D : e.harness = "codex" /\ e.path # None /\ SameDecision(d, e)

Reaches(d, calls) == {c \in calls : d.call \in c.ids}

\* join_decisions_by_call_id_result: unique in the given calls, or dropped
Joined(calls, D) ==
    {j \in {d \in D : ~Subsumed(d, D)} \X calls :
        Reaches(j[1], calls) = {j[2]} /\ j[2].session = j[1].session}

DecisionsOf(joined, call) == {j[1].id : j \in {k \in joined : k[2].id = call}}

-----------------------------------------------------------------------------
(* Evidence of a commit: the outcomes of its complete, consistent runs, and *)
(* the observations that bind a Session to it                               *)

OutcomesAt(F, R, t, commit) ==
    UNION {{o.id : o \in RunOutcomes(F, t, run)} :
           run \in {r \in DOMAIN R : R[r].status = "resolved" /\ R[r].commits = {commit}}}

ObservationsAt(F, ctx, commit, session) ==
    {o.id : o \in {p \in Observations(F, ctx.asOf) :
        /\ p.session = session /\ p.commit = commit.sha
        /\ ResolveFact(ctx, p, "repo").key = commit.repository}}

\* Mutant: the observed Sessions stand for the notes of legacy repositories too
ObservedNotes(F, ctx, M, push) == BoundNotes(F, ctx, M)

\* The notes an assembly attributes by: observed ones for identified Pushes,
\* those of the mirror for legacy ones
AssemblyNotes(F, ctx, M, push) ==
    IF push.identity # None THEN BoundNotes(F, ctx, M) ELSE DefaultNotes(F, ctx, M)

\* assemble_attributed_completion_result.  Decisions join in the whole org.
AttributedCompletions(F, ctx, M) ==
    LET t == ctx.asOf
        R == RunResolutions(F, ctx)
        joined == Joined(Calls(F, t), Decisions(F, t))
        rows == UNION {LET push == CHOOSE p \in part : TRUE
                       IN  Attributions(F, ctx, M, part, AssemblyNotes(F, ctx, M, push)) :
                       part \in {{p \in Pushes(F, t) : p.identity = None},
                                 {p \in Pushes(F, t) : p.identity # None}} \ {{}}}
    IN  {[attribution |-> a,
          decisions |-> DecisionsOf(joined, a.call),
          outcomes |-> OutcomesAt(F, R, t, Commit(a.key, a.commit)),
          observations |-> ObservationsAt(F, ctx, Commit(a.key, a.commit), a.session)] :
         a \in {b \in rows : ResolveSource(ctx, <<"pushes", b.push, "repo">>).key = b.key}}

-----------------------------------------------------------------------------
(* Rollouts: the turns of a Session, its commits and how they ended         *)

\* _fragment_reason: why a call does not continue the previous one
FragmentReason(previous, current) ==
    IF previous.output = << >> THEN "prior_output_absent"
    ELSE IF ~IsPrefix(previous.input, current.input) THEN "input_history_changed"
    ELSE IF ~IsPrefix(previous.input \o previous.output, current.input)
    THEN "prior_output_not_replayed" ELSE None

\* project_session_turns, of the calls and the Decisions of one Session
Turns(calls, decisions) ==
    LET order == SetToSortSeq(calls, Earlier)
        joined == Joined(calls, decisions)
        starts == {i \in DOMAIN order : i = 1 \/ FragmentReason(order[i - 1], order[i]) # None}
    IN  [i \in DOMAIN order |->
            [call |-> order[i].id,
             segment |-> Cardinality({j \in starts : j <= i}),
             messages |-> IF i \in starts THEN order[i].input
                          ELSE SubSeq(order[i].input, Len(order[i - 1].input) + 1,
                                      Len(order[i].input)),
             decisions |-> DecisionsOf(joined, order[i].id)]]

\* session_commits_from_notes_result for a legacy mirror whose slug is safe, and
\* the observations of identified repositories
NotedSessions(F, ctx, M) ==
    LET noted(key, commit) ==
            IF IsIdentified(key) THEN BoundSessions(F, ctx, key, commit)
            ELSE IF /\ key \in DOMAIN M /\ commit \in M[key]
                    /\ ResolveReference(ctx, key.of, None).key = key
            THEN MirrorNotes[commit] ELSE {}
    IN  [at \in (Keys(ctx) \cup DOMAIN M) \X Commits |-> noted(at[1], at[2])]

\* Notes supersede attributions, for each Session
RolloutCommits(F, ctx, M, session, notes) ==
    LET noted == {Commit(p[1], p[2]) : p \in {q \in DOMAIN notes : session \in notes[q]}}
        attributed == {Commit(a.key, a.commit) : a \in
            {b \in Attributions(F, ctx, M, Pushes(F, ctx.asOf), notes) : b.session = session}}
    IN  IF noted # {} THEN [source |-> "git_notes", commits |-> noted]
        ELSE [source |-> "jaccard", commits |-> attributed]

Rollout(F, ctx, R, session, bound) ==
    [session |-> session,
     turns |-> Turns({c \in Calls(F, ctx.asOf) : c.session = session},
                     {d \in Decisions(F, ctx.asOf) : d.session = session}),
     source |-> bound.source,
     commits |-> bound.commits,
     outcomes |-> UNION {OutcomesAt(F, R, ctx.asOf, c) : c \in bound.commits},
     observations |-> UNION {ObservationsAt(F, ctx, c, session) : c \in bound.commits}]

Rollouts(F, ctx, M) ==
    {Rollout(F, ctx, RunResolutions(F, ctx), s,
             RolloutCommits(F, ctx, M, s, NotedSessions(F, ctx, M))) :
        s \in {c.session : c \in Calls(F, ctx.asOf)}}

-----------------------------------------------------------------------------
(* Recovery pairs: a check that went from red to green, and the fix         *)

\* Mutant: a run that was red and green counts by its last attempt
TrustedFlakes(R, run) ==
    /\ R[run].status = "resolved" /\ R[run].lineage.verdict # None
    /\ \A c \in R[run].commits : CommitResolution(R, c).verdict # None

\* Runs that may seed a pair: no flake, on a commit whose runs agree
Trusted(R, run) ==
    /\ R[run].status = "resolved" /\ R[run].lineage.verdict # None /\ ~R[run].lineage.flake
    /\ \A c \in R[run].commits : CommitResolution(R, c).verdict # None

\* The check of a run, and the outcome that gave its verdict
Check(sources) ==
    LET known == {o.workflow : o \in sources} \ {None} IN
    IF known = {} THEN None ELSE CHOOSE w \in known : TRUE

VerdictOutcome(sources) == LastOutcome({o \in sources : o.result \in Verdicts})

\* One entry for each trusted run with a workflow identity
Entry(ctx, sources, outcome) ==
    [check |-> <<IndexedKey(ctx, outcome), outcome.branch, Check(sources)>>,
     outcome |-> outcome]

Stream(F, ctx, R) ==
    LET sources(run) == RunOutcomes(F, ctx.asOf, run) IN
    {Entry(ctx, sources(run), VerdictOutcome(sources(run))) :
        run \in {r \in DOMAIN R : Trusted(R, r) /\ Check(sources(r)) # None}}

\* The last red before a green, in the order of capture
Transitions(stream) ==
    LET between(red, green) ==
            {e \in stream : e.check = red.check /\ Earlier(red.outcome, e.outcome)
                                                /\ Earlier(e.outcome, green.outcome)}
    IN  {p \in stream \X stream :
            /\ p[1].check = p[2].check
            /\ p[1].outcome.result = "failed" /\ p[2].outcome.result = "passed"
            /\ Earlier(p[1].outcome, p[2].outcome)
            /\ between(p[1], p[2]) = {}}

\* _try_pair
IsFix(M, key, red, green) ==
    /\ key \in DOMAIN M
    /\ red.commit # green.commit
    /\ Decidable(M[key], red.commit, green.commit)
    /\ red.commit \in Ancestors[green.commit]
    /\ DiffLines[<<red.commit, green.commit>>] <= MaxRecoveryDiffLines

Pair(rows, red, green) ==
    LET key == red.check[1]
        calls(commit) == {a.call : a \in {b \in rows : b.key = key /\ b.commit = commit}}
    IN  [key |-> key, red |-> red.outcome, green |-> green.outcome,
         redCalls |-> calls(red.outcome.commit), greenCalls |-> calls(green.outcome.commit)]

Recoveries(F, ctx, M) ==
    LET rows == Attributions(F, ctx, M, Pushes(F, ctx.asOf), DefaultNotes(F, ctx, M))
    IN  {Pair(rows, p[1], p[2]) :
         p \in {q \in Transitions(Stream(F, ctx, RunResolutions(F, ctx))) :
                    IsFix(M, q[1].check[1], q[1].outcome, q[2].outcome)}}

-----------------------------------------------------------------------------
(* derive_abandonment: the Sessions with an accepted Decision, and whether  *)
(* one of their commits was observed                                        *)

AcceptedSessions(F, ctx) ==
    LET decisions == Decisions(F, ctx.asOf)
        accepted(s) == {d \in decisions : d.session = s /\ d.verdict = "accept"}
        observed == {o.session : o \in {p \in Observations(F, ctx.asOf) :
                        ResolveFact(ctx, p, "repo").key # None}}
    IN  {[session |-> s, accepted |-> Cardinality(accepted(s)),
          last |-> Max({d.occurred : d \in {e \in decisions : e.session = s}}),
          status |-> IF s \in observed THEN "committed" ELSE "attribution_unavailable"] :
         s \in {d.session : d \in {e \in decisions : e.verdict = "accept"}}}
=============================================================================
