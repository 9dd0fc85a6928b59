-------------------------- MODULE MergeMembership ---------------------------
(***************************************************************************)
(* Which merged pull request an attributed commit belongs to               *)
(* (packages/derive/sediment_derive/merge_retention.py).                   *)
(*                                                                         *)
(* An Attribution counts when an observation binds its Session to its      *)
(* commit.  A pull request has the commit when CI reported it there, or    *)
(* when one of the heads it ever had contains the commit and its base does *)
(* not.  What cannot be decided is said to be unresolved.  The retention   *)
(* scores of the joined rows are file contents and left out.               *)
(***************************************************************************)
EXTENDS Attribution, CIResolution

Merges(F, t) == Through(F, "pull_request_merges", t)
Revisions(F, t) == Through(F, "pull_request_revisions", t)

\* The attributions of the boundary, anchored at their Push and observed
Qualified(F, ctx, M) ==
    {a \in Attributions(F, ctx, M, Pushes(F, ctx.asOf), DefaultNotes(F, ctx, M)) :
        /\ IsIdentified(a.key) => ResolveSource(ctx, <<"pushes", a.push, "repo">>).key = a.key
        /\ a.session \in BoundSessions(F, ctx, a.key, a.commit)}

\* The slugs of merges, revisions and CI outcomes that resolve to no repository
UnresolvedNames(F, ctx) ==
    LET t == ctx.asOf IN
    {f.repo : f \in {g \in Merges(F, t) \cup Revisions(F, t)
                           \cup {o \in Outcomes(F, t) : o.pr # None} :
                     ResolveFact(ctx, g, "repo").key = None}}

\* ci_memberships: a run of the pull request was at this commit
CIMember(F, ctx, key, commit, pr) ==
    \E o \in Outcomes(F, ctx.asOf) :
        o.pr = pr /\ o.commit = commit /\ ResolveFact(ctx, o, "repo").key = key

\* The heads a pull request had: the merged one, and of each revision the new
\* and the replaced one
Heads(F, ctx, key, merge) ==
    {<<ResolveFact(ctx, merge, "head_repo").key, merge.head>>} \cup
    UNION {{<<ResolveFact(ctx, r, "head_repo").key, sha>> : sha \in {r.head, r.previous} \ {None}} :
            r \in {q \in Revisions(F, ctx.asOf) :
                     q.pr = merge.pr /\ ResolveFact(ctx, q, "repo").key = key}}

\* is_ancestor, which fails when the mirror lacks one of the two
Decidable(mirror, commit, head) == {commit, head} \subseteq mirror

\* Mutant: what a mirror does not have is taken to be outside the pull request
VerdictOfWhatIsThere(M, key, merge, commit, head) ==
    IF /\ {head[1], key} \subseteq DOMAIN M
       /\ commit \in Ancestors[head[2]] /\ commit \notin Ancestors[merge.base]
    THEN "in" ELSE "out"

\* _membership_candidates for one merge: whether it has the commit, or may have it
HeadVerdict(M, key, merge, commit, head) ==
    IF {head[1], key} \subseteq DOMAIN M /\ Decidable(M[head[1]], commit, head[2])
    THEN IF commit \notin Ancestors[head[2]] THEN "out"
         ELSE IF ~Decidable(M[key], commit, merge.base) THEN "unresolved"
         ELSE IF commit \in Ancestors[merge.base] THEN "out" ELSE "in"
    ELSE "unresolved"

Strongest(verdicts) ==
    IF "in" \in verdicts THEN "in" ELSE IF "unresolved" \in verdicts THEN "unresolved" ELSE "out"

Verdict(F, ctx, M, key, commit, merge) ==
    IF CIMember(F, ctx, key, commit, merge.pr) THEN "in"
    ELSE Strongest({HeadVerdict(M, key, merge, commit, h) : h \in Heads(F, ctx, key, merge)})

\* The membership of a commit: the merge it is joined to, or why there is none
MembershipBy(verdict, unnamed) ==
    LET candidates == {m \in DOMAIN verdict : verdict[m] = "in"}
        uncertain == unnamed # {} \/ \E m \in DOMAIN verdict : verdict[m] = "unresolved"
    IN  IF uncertain THEN [status |-> "ancestry_unresolved", merge |-> None]
        ELSE IF candidates = {} THEN [status |-> "without_merge", merge |-> None]
        ELSE IF Cardinality(candidates) # 1 THEN [status |-> "ambiguous", merge |-> None]
        ELSE [status |-> "joined", merge |-> (CHOOSE m \in candidates : TRUE).id]

MergesOf(F, ctx, key) ==
    {m \in Merges(F, ctx.asOf) : ResolveFact(ctx, m, "repo").key = key}

Membership(F, ctx, M, key, commit) ==
    MembershipBy([m \in MergesOf(F, ctx, key) |-> Verdict(F, ctx, M, key, commit, m)],
                 UnresolvedNames(F, ctx) \cap Names(ctx, key))

Memberships(F, ctx, M) ==
    {[key |-> q.key, commit |-> q.commit, outcome |-> Membership(F, ctx, M, q.key, q.commit)] :
        q \in Qualified(F, ctx, M)}
=============================================================================
