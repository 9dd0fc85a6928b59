---------------------------- MODULE Attribution -----------------------------
(***************************************************************************)
(* Which inference call wrote which file of a commit                       *)
(* (packages/derive/sediment_derive/attribution.py, session_commit.py and  *)
(* attribution_share.py).                                                  *)
(*                                                                         *)
(* Nothing is stored: an Attribution is computed from the Facts up to a    *)
(* boundary and the objects of the mirrors.  Two programs compute it: the  *)
(* full derivation walks every Push, the commit query looks for the Push   *)
(* that owns one commit.  The text of a call and the added lines of a file *)
(* are compared by a scorer, here a table of similarities.                 *)
(***************************************************************************)
EXTENDS RepositoryIdentity, FiniteSetsExt, SequencesExt

CONSTANTS Commits,          \* the commits, numbered in the order of their dates
          Parents,          \* the parents of a commit, older than it
          Files,            \* the code files a commit adds lines to
          Similarity,       \* the score of a file against the text of a call
          MirrorNotes,      \* the Sessions in the note a mirror has for a commit
          JaccardLookback, NotesLookback, Grace,
          JaccardFloor, NotesFloor,
          MaxCommits,       \* max_commits_per_push
          BatchSize,        \* the Pushes examined together, 256 in the code
          ShareWindow       \* window_days

ASSUME GitAssumption ==
    /\ Commits \subseteq Nat
    /\ Parents \in [Commits -> SUBSET Commits]
    /\ \A c \in Commits : \A p \in Parents[c] : p < c

ASSUME PolicyAssumption ==
    /\ {JaccardLookback, NotesLookback, MaxCommits, BatchSize} \subseteq Nat \ {0}
    /\ Grace \in Nat

-----------------------------------------------------------------------------
(* Git.  A mirror is the set of the commits it has, with their ancestors.   *)

\* A commit and everything it can be reached from
Ancestors[c \in Commits] == {c} \cup UNION {Ancestors[p] : p \in Parents[c]}

Newest(S, n) == {c \in S : Cardinality({d \in S : d > c}) < n}

\* list_push_commits: no range, an unknown end and an empty range leave the head
ListPushCommits(mirror, push) ==
    LET range == Ancestors[push.after] \ Ancestors[push.before] IN
    IF push.forced \/ push.before = None \/ ~({push.before, push.after} \subseteq mirror)
    THEN {push.after}
    ELSE IF range = {} THEN {push.after} ELSE Newest(range, MaxCommits)

\* Mutant: one head that precedes the commit is taken for all of them
SomeHeadPrecedesCommit(mirror, commit, heads) ==
    heads = {} \/ \E h \in heads : \E p \in Parents[commit] : h \in Ancestors[p]

\* heads_precede_commit: every head is an ancestor of a parent; FALSE when git
\* does not know a head
HeadsPrecedeCommit(mirror, commit, heads) ==
    /\ heads \subseteq mirror
    /\ heads \subseteq UNION {Ancestors[p] : p \in Parents[commit]}

-----------------------------------------------------------------------------
(* Scoring                                                                  *)

Earlier(f, g) == f.at < g.at \/ (f.at = g.at /\ f.id < g.id)

Pushes(F, t) == Through(F, "pushes", t)
Calls(F, t) == Through(F, "inference_calls", t)

\* _window: anchored on the Push
Window(calls, push, lookback) ==
    {c \in calls : push.at - lookback <= c.at /\ c.at <= push.at + Grace}

\* _best_match: the highest score above the floor, the earliest call among equals
BestMatch(calls, file, floor) ==
    LET score(c) == Similarity[file][c.text]
        matches == {c \in calls : score(c) > 0 /\ score(c) >= floor}
    IN  IF matches = {} THEN None
        ELSE CHOOSE best \in matches : \A c \in matches \ {best} :
                \/ score(c) < score(best)
                \/ score(c) = score(best) /\ Earlier(best, c)

\* _attribute_commit, for an owned commit: the noted Sessions before the guess
AttributeCommit(mirror, key, push, commit, org, noted) ==
    LET match(file) ==
            LET named == BestMatch(noted, file, NotesFloor) IN
            IF named # None THEN [call |-> named, source |-> "git_notes"]
            ELSE [call |-> BestMatch(org, file, JaccardFloor), source |-> "jaccard"]
    IN  IF commit \notin mirror THEN {}
        ELSE {[key |-> key, commit |-> commit, file |-> file, call |-> match(file).call.id,
               session |-> match(file).call.session, source |-> match(file).source,
               push |-> push.id] :
               file \in {g \in Files[commit] : match(g).call # None}}

-----------------------------------------------------------------------------
(* bind_session_commit_keys_result: the Sessions observed at a commit       *)

Observations(F, t) == Through(F, "session_commit_observations", t)

BoundSessions(F, ctx, key, commit) ==
    {o.session : o \in {p \in Observations(F, ctx.asOf) :
        p.commit = commit /\ ResolveFact(ctx, p, "repo").key = key}}

\* The observed Sessions of every commit, as the map a caller hands in
BoundNotes(F, ctx, M) ==
    [at \in (DOMAIN M) \X Commits |-> BoundSessions(F, ctx, at[1], at[2])]

\* Without a map from the caller, a legacy repository has the note of its mirror
DefaultNotes(F, ctx, M) ==
    [at \in (DOMAIN M) \X Commits |->
        IF IsIdentified(at[1]) THEN BoundSessions(F, ctx, at[1], at[2]) ELSE MirrorNotes[at[2]]]

-----------------------------------------------------------------------------
(* derive_attribution_result                                                *)

ResolvedPushes(ctx, pushes) ==
    {[push |-> p, key |-> ResolveFact(ctx, p, "repo").key] : p \in pushes}

\* The first of the given Pushes that lists a commit owns it
Owned(M, resolved) ==
    LET listed == {r \in resolved : r.key \in DOMAIN M}
        lists(r, c) == c \in ListPushCommits(M[r.key], r.push)
        first(r, c) == \A q \in listed : q.key = r.key /\ lists(q, c) => ~Earlier(q.push, r.push)
    IN  {<<own[1].key, own[2], own[1].push>> :
            own \in {pair \in listed \X Commits : lists(pair[1], pair[2]) /\ first(pair[1], pair[2])}}

Attributions(F, ctx, M, pushes, notes) ==
    LET calls == Calls(F, ctx.asOf) IN
    UNION {AttributeCommit(M[o[1]], o[1], o[3], o[2],
                           Window(calls, o[3], JaccardLookback),
                           {c \in Window(calls, o[3], NotesLookback) :
                                c.session \in notes[<<o[1], o[2]>>]}) :
           o \in Owned(M, ResolvedPushes(ctx, pushes))}

-----------------------------------------------------------------------------
(* derive_commit_attributions: one commit, without walking every Push       *)

\* iter_attribution_pushes: a key's stored Pushes
KeyPushes(F, ctx, key) ==
    {p \in Pushes(F, ctx.asOf) : IF IsIdentified(key) THEN p.identity = key.of
                                 ELSE p.identity = None /\ p.repo = key.of}

\* batched: the Pushes examined together with one of them, in the order of capture
Batch(pushes, push) ==
    LET number(p) == Cardinality({q \in pushes : Earlier(q, p)}) \div BatchSize IN
    {p \in pushes : number(p) = number(push)}

\* The first of a set of Facts that is not empty
First(S) == CHOOSE f \in S : \A g \in S \ {f} : Earlier(f, g)

\* _find_commit_owner
FindCommitOwner(F, ctx, mirror, key, commit) ==
    LET pushes == KeyPushes(F, ctx, key)
        qualifies(p) == ResolveReference(ctx, p.repo, p.identity).key = key
        head(p) == qualifies(p) /\ p.after = commit
        needsRange(p) ==
            /\ qualifies(p)
            /\ p.after # commit /\ ~p.forced
            /\ p.before \notin {None, commit, p.after}
        candidates(p) == {q \in Batch(pushes, p) :
                            \A h \in Batch(pushes, p) : head(h) => ~Earlier(h, q)}
        rangesPossible(p) == ~HeadsPrecedeCommit(mirror, commit,
            {q.after : q \in {r \in candidates(p) : needsRange(r)}})
        owners == {p \in pushes :
            \/ head(p)
            \/ needsRange(p) /\ rangesPossible(p) /\ commit \in ListPushCommits(mirror, p)}
    IN  IF owners = {} THEN None ELSE First(owners)

\* _attribute_owned_commit reads the candidates of one owner
OwnedCandidates(F, ctx, push, sessions) ==
    {c \in Calls(F, ctx.asOf) :
        /\ c.at <= Min({ctx.asOf, push.at + Grace})
        /\ \/ push.at - JaccardLookback <= c.at
           \/ c.session \in sessions /\ push.at - NotesLookback <= c.at}

AttributeOwned(F, ctx, mirror, key, owner, commit, sessions) ==
    LET candidates == OwnedCandidates(F, ctx, owner, sessions) IN
    IF owner = None THEN {}
    ELSE AttributeCommit(mirror, key, owner, commit,
             Window(candidates, owner, JaccardLookback),
             {c \in Window(candidates, owner, NotesLookback) : c.session \in sessions})

CommitAttributions(F, ctx, M, commit, notes) ==
    UNION {AttributeOwned(F, ctx, M[key], key, FindCommitOwner(F, ctx, M[key], key, commit),
                          commit, notes[<<key, commit>>]) :
           key \in {k \in Keys(ctx) \cap DOMAIN M : HasLabel(ctx, k) /\ commit \in M[k]}}

-----------------------------------------------------------------------------
(* derive_attribution_share_result: what share of a repository's commits a  *)
(* note attributed, of those an agent may have written.                     *)

ShareScope(ctx, pushes, key) ==
    LET mine == {p \in pushes : ResolveFact(ctx, p, "repo").key = key}
        end == Max({p.at : p \in mine})
    IN  {p \in mine : end - ShareWindow <= p.at}

\* A call in the organization's window, or one of a noted Session in the longer one
Plausible(calls, push, sessions) ==
    \/ Window(calls, push, JaccardLookback) # {}
    \/ \E c \in Window(calls, push, NotesLookback) : c.session \in sessions

\* The commits of one repository by class
PlausibleCommits(F, ctx, M, key, scope, notes) ==
    {o[2] : o \in {p \in Owned(M, ResolvedPushes(ctx, scope)) :
        Plausible(Calls(F, ctx.asOf), p[3], notes[<<key, p[2]>>])}}

Classes(plausible, rows) ==
    LET by(source) == {a.commit : a \in {b \in rows : b.source = source}} IN
    [plausible |-> plausible,
     notes |-> plausible \cap by("git_notes"),
     jaccard |-> (plausible \cap by("jaccard")) \ by("git_notes"),
     unattributed |-> plausible \ (by("git_notes") \cup by("jaccard"))]

ShareOf(F, ctx, M, key, scope, notes) ==
    Classes(PlausibleCommits(F, ctx, M, key, scope, notes), Attributions(F, ctx, M, scope, notes))

Share(F, ctx, M, key) ==
    ShareOf(F, ctx, M, key, ShareScope(ctx, Pushes(F, ctx.asOf), key), DefaultNotes(F, ctx, M))
=============================================================================
