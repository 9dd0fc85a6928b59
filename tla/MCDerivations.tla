--------------------------- MODULE MCDerivations ----------------------------
(* Small populations of Facts for the derivations. *)
EXTENDS Derivations, TLC

CONSTANTS i1, i2, r1, r2, s1, s2

\* The history: 0 - 1 - 2 - 3 on the branch, 4 rewrites 2 and 3, 5 merges 3
MCParents == (0 :> {}) @@ (1 :> {0}) @@ (2 :> {1}) @@ (3 :> {2}) @@ (4 :> {1}) @@ (5 :> {3, 4})

\* Commits 1 to 3 add code, commit 2 to two files; commit 0 and the merge do not
MCFiles == (0 :> {}) @@ (1 :> {"f"}) @@ (2 :> {"f", "g"}) @@ (3 :> {"g"}) @@ (4 :> {"f"}) @@ (5 :> {})
MCSimilarity == ("f" :> ("x" :> 9 @@ "y" :> 5 @@ "z" :> 4)) @@ ("g" :> ("x" :> 0 @@ "y" :> 5 @@ "z" :> 0))
MCMirrorNotes == [c \in Commits |-> IF c = 1 THEN {s1} ELSE {}]

Push(id, at, repo, identity, before, after, forced) ==
    [table |-> "pushes", id |-> id, at |-> at, repo |-> repo, identity |-> identity,
     before |-> before, after |-> after, forced |-> forced]
Observed(id, at, repo, identity, push, commit, session) ==
    [table |-> "session_commit_observations", id |-> id, at |-> at, repo |-> repo,
     identity |-> identity, push |-> push, commit |-> commit, session |-> session]
Renamed(id, at, identity, old, new, event) ==
    [table |-> "repository_renames", id |-> id, at |-> at, identity |-> identity,
     old |-> old, new |-> new, event |-> event]
Turn(id, at, session, text, ids, input, output) ==
    [table |-> "inference_calls", id |-> id, at |-> at, session |-> session, text |-> text,
     ids |-> ids, input |-> input, output |-> output]
Called(id, at, session, text) == Turn(id, at, session, text, {}, <<"q">>, <<text>>)
Decided(id, at, session, verdict, occurred, call, harness, path) ==
    [table |-> "developer_decisions", id |-> id, at |-> at, session |-> session,
     verdict |-> verdict, occurred |-> occurred, call |-> call, harness |-> harness,
     path |-> path]
Ran(id, at, repo, identity, commit, run, attempt, result, pr) ==
    [table |-> "ci_outcomes", id |-> id, at |-> at, repo |-> repo, identity |-> identity,
     commit |-> commit, run |-> run, attempt |-> attempt, result |-> result, pr |-> pr,
     branch |-> "main", workflow |-> None]
Checked(id, at, commit, run, attempt, result, workflow) ==
    [Ran(id, at, r1, i1, commit, run, attempt, result, None) EXCEPT !.workflow = workflow]
PullRequest(table, id, at, repo, identity, headRepo, headIdentity, pr, head, previous, base) ==
    [table |-> table, id |-> id, at |-> at, repo |-> repo, identity |-> identity,
     head_repo |-> headRepo, head_identity |-> headIdentity, pr |-> pr, head |-> head,
     previous |-> previous, base |-> base]
Merged(id, at, repo, identity, headRepo, headIdentity, pr, head, base) ==
    PullRequest("pull_request_merges", id, at, repo, identity, headRepo, headIdentity,
                pr, head, None, base)
Revised(id, at, repo, identity, headRepo, headIdentity, pr, head, previous) ==
    PullRequest("pull_request_revisions", id, at, repo, identity, headRepo, headIdentity,
                pr, head, previous, None)

MCDiffLines == [p \in Commits \X Commits |-> 2 * (p[2] - p[1])]

Everything == {0, 1, 2, 3, 4, 5}
All(keys) == [k \in keys |-> Everything]

\* A slug that passes from no identity to i1 and, renamed away, to i2
ReusedSlug ==
    [facts |-> {Push(1, 1, r1, None, None, 1, FALSE), Push(2, 2, r1, i1, 1, 2, FALSE),
                Push(3, 3, r1, i2, None, 4, FALSE), Push(4, 2, r2, None, None, 1, FALSE),
                Renamed(1, 3, i1, r1, r2, "e1"), Renamed(2, 3, i1, r1, r2, None),
                Observed(1, 2, r2, None, 4, 1, s1), Observed(2, 2, r2, None, 2, 2, s1),
                Observed(3, 3, r1, i2, 3, 4, s2), Called(1, 1, s1, "x")},
     suspect |-> {Push(2, 2, r1, i1, 1, 2, FALSE)},
     supplied |-> {Push(2, 2, r1, None, 1, 2, FALSE), Observed(4, 2, r1, None, 1, 1, s2)},
     objects |-> All({Legacy(r1), Identified(i1)})]

\* Attempts of a run that arrive out of order, before and after the slug is claimed
LateAttempts ==
    [facts |-> {Ran(1, 1, r1, None, 1, "u", 1, "failed", None),
                Ran(2, 2, r1, None, 1, "u", 2, "passed", None),
                Ran(3, 1, r2, None, 1, "u", 3, "cancelled", None),
                Ran(4, 2, r1, i1, 1, "v", 2, "failed", None),
                Ran(5, 3, r1, i1, 1, "v", 1, "passed", None),
                Ran(6, 3, r1, i1, 1, "v", 3, "passed", None),
                Ran(7, 3, r1, i1, 2, "v", 1, "passed", None),
                Push(1, 3, r2, i1, None, 1, FALSE)},
     suspect |-> {Ran(6, 3, r1, i1, 1, "v", 3, "passed", None)},
     supplied |-> {Ran(5, 3, r1, None, 1, "v", 1, "passed", None)},
     objects |-> All({})]

\* Pushes that overlap, rewrite and outrun what the mirror has
Overlapping ==
    [facts |-> {Push(1, 1, r1, i1, 0, 1, FALSE), Push(2, 2, r1, i1, 1, 3, FALSE),
                Push(3, 2, r1, i1, 1, 2, FALSE), Push(4, 3, r1, i1, 3, 4, TRUE),
                Push(5, 3, r1, i1, 2, 5, FALSE),
                Called(1, 0, s2, "z"), Called(2, 2, s1, "x"), Called(3, 3, s1, "y"),
                Observed(1, 2, r1, i1, 2, 2, s2)},
     suspect |-> {Push(2, 2, r1, i1, 1, 3, FALSE)},
     supplied |-> {},
     objects |-> All({Identified(i1)})]

\* Two merges of one line of history, with a fork and a head that was replaced
TwoMerges ==
    [facts |-> {Push(1, 1, r1, i1, 1, 3, FALSE), Called(1, 1, s1, "y"),
                Observed(1, 1, r1, i1, 1, 2, s1),
                Push(2, 1, r2, i2, None, 3, FALSE),
                Merged(1, 2, r1, i1, r2, i2, 7, 3, 1), Merged(2, 3, r1, i1, r1, i1, 8, 5, 1),
                Revised(1, 2, r1, i1, r1, i1, 7, 4, 2),
                Merged(3, 3, r1, None, r1, None, 9, 3, 1),
                Ran(1, 3, r1, i1, 2, "u", 1, "passed", 8)},
     suspect |-> {Push(1, 1, r1, i1, 1, 3, FALSE)},
     supplied |-> {},
     objects |-> All({Identified(i1)}) @@ (Identified(i2) :> {0, 1, 2, 3})]

\* A check that is red, flaky and green along the branch and beside it
RedToGreen ==
    [facts |-> {Push(1, 1, r1, i1, 0, 3, FALSE), Called(1, 1, s1, "x"),
                Checked(1, 1, 1, "u", 1, "passed", "ci"), Checked(2, 2, 1, "u", 2, "failed", None),
                Checked(3, 3, 2, "v", 1, "passed", "ci"), Checked(4, 2, 1, "w", 1, "failed", "ci"),
                Checked(5, 3, 4, "x", 1, "failed", "ci"), Checked(6, 4, 2, "y", 1, "failed", "lint")},
     suspect |-> {Checked(1, 1, 1, "u", 1, "passed", "ci")},
     supplied |-> {},
     objects |-> All({Identified(i1)})]

\* Redelivered Decisions, a re-prompted call, and an id two calls share
Reprompted ==
    [facts |-> {Turn(1, 1, s1, "x", {"c1", "c2"}, <<"q">>, <<"a">>),
                Turn(2, 2, s1, "y", {"c3"}, <<"q", "a", "r">>, << >>),
                Turn(3, 3, s2, "z", {"c3"}, <<"q">>, <<"b">>),
                Turn(4, 3, s1, "z", {"c4"}, <<"q", "a", "r", "b">>, <<"b">>),
                Decided(1, 2, s1, "reject", 1, "c1", "codex", None),
                Decided(2, 2, s1, "accept", 2, "c1", "codex", "f"),
                Decided(3, 3, s1, "accept", 2, "c1", "codex", None),
                Decided(4, 3, s1, "accept", 2, "c3", "other", None)},
     suspect |-> {Decided(2, 2, s1, "accept", 2, "c1", "codex", "f")},
     supplied |-> {},
     objects |-> All({})]

MCPopulations == {ReusedSlug, LateAttempts, Overlapping, TwoMerges, RedToGreen, Reprompted}
=============================================================================
