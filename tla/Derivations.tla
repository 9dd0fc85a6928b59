---------------------------- MODULE Derivations -----------------------------
(***************************************************************************)
(* The Derivations over a growing Fact store                               *)
(* (packages/derive/sediment_derive).                                      *)
(*                                                                         *)
(* A Derivation is a pure function of the visible Facts, a boundary and    *)
(* the mirrors; RepositoryIdentity, CIResolution, Attribution,             *)
(* MergeMembership and TrainingEvidence define it.  Here Facts are         *)
(* captured in any order, quarantined and released, and mirrors fetched    *)
(* and collected, and the question is what a reader who derives again may  *)
(* find changed, and whether two derivations agree.                        *)
(***************************************************************************)
EXTENDS TrainingEvidence

CONSTANTS Populations,   \* what may be captured: [facts, suspect, supplied, objects]
          Boundaries,    \* the as_of of the reads
          Now            \* after every capture

\* Ids, times and attempts are ordered, a merge has a pull request, a caller preloads
\* finitely many copies, and objects are those of a repository and hold commits
ASSUME PopulationAssumption ==
    \A p \in Populations :
        /\ \A f \in p.facts :
            /\ f.id \in Nat /\ f.at \in Nat
            /\ f.table = "ci_outcomes" => f.attempt \in Nat
            /\ f.table = "pull_request_merges" => f.pr # None
        /\ None \notin p.facts
        /\ IsFiniteSet(p.supplied)
        /\ None \notin DOMAIN p.objects
        /\ \A k \in DOMAIN p.objects : p.objects[k] \subseteq Commits

ASSUME BoundaryAssumption == Boundaries \subseteq Nat

VARIABLES population,    \* the one of this behaviour
          facts,         \* the rows of the Fact tables
          hidden,        \* those in quarantine
          supplied,      \* legacy copies a caller preloads: evidence, no Facts
          mirrored       \* the repository keys that have a mirror

vars == <<population, facts, hidden, supplied, mirrored>>

-----------------------------------------------------------------------------

\* The default read path excludes the quarantine
Visible == facts \ hidden

\* The context of a derivation with preloaded legacy Facts
ContextAt(t) == Context(Visible \cup supplied, t)

\* The mirrors that exist, each with the objects its remote offered
Mirrors == [k \in mirrored |-> population.objects[k]]

\* Primary keys, the delivery of a rename, and the Push of an observation
Storable(f) ==
    /\ \A g \in facts : g.table = f.table =>
        /\ g.id # f.id
        /\ f.table = "repository_renames" => ~SameDelivery(f, g)
    /\ f.table = "session_commit_observations" =>
        \E p \in facts : /\ p.table = "pushes" /\ p.id = f.push
                         /\ f.identity \in {None, p.identity}

Capture(f) ==
    /\ f \notin facts
    /\ Storable(f)
    /\ facts' = facts \cup {f}
    /\ UNCHANGED <<population, hidden, supplied, mirrored>>

\* An operator names a Fact.  Bound: the suspect ones of the population
Quarantine(f) ==
    /\ f \in population.suspect \ hidden
    /\ hidden' = hidden \cup {f}
    /\ UNCHANGED <<population, facts, supplied, mirrored>>

Release(f) ==
    /\ hidden' = hidden \ {f}
    /\ UNCHANGED <<population, facts, supplied, mirrored>>

\* A Push refreshes the mirror of its repository from a location, when the whole
\* population has nobody else there
Fetch(p, repo) ==
    LET key == MirrorRefresh(Context(Visible, Now), <<"pushes", p.id, "repo">>, repo).key IN
    /\ key \in DOMAIN population.objects \ mirrored
    /\ mirrored' = mirrored \cup {key}
    /\ UNCHANGED <<population, facts, hidden, supplied>>

\* The mirror is collected
Collect(key) ==
    /\ mirrored' = mirrored \ {key}
    /\ UNCHANGED <<population, facts, hidden, supplied>>

Init ==
    /\ population \in Populations
    /\ supplied \in {{}, population.supplied}
    /\ facts = {}
    /\ hidden = {}
    /\ mirrored = {}

Next ==
    \/ \E f \in population.facts : Capture(f)
    \/ \E f \in facts : Quarantine(f)
    \/ \E f \in hidden : Release(f)
    \/ \E p \in Pushes(Visible, Now) : \E repo \in {q.repo : q \in Pushes(facts, Now)} :
            Fetch(p, repo)
    \/ \E key \in mirrored : Collect(key)

Spec == Init /\ [][Next]_vars

-----------------------------------------------------------------------------
(* Repository identity                                                      *)

\* The Facts a boundary admits that may have been the last to become visible: all
\* but the Pushes an observation was made at
Latest(t) ==
    {f \in Visible : /\ f.at <= t
                     /\ \A o \in Observations(Visible \cup supplied, t) :
                            ~(f.table = "pushes" /\ f.id = o.push)}

(* One location is never fetched for two repositories, and the repository a *)
(* name selects is the one of every source that was captured under it and  *)
(* resolves: repository_identity.py must keep the lifetimes of a reused    *)
(* slug apart however late the evidence for the second one arrives.        *)
LifetimesApart ==
    \A t \in Boundaries :
        LET ctx == ContextAt(t)
            resolves == {p \in ctx.proven : ResolveSource(ctx, SourceKey(p.row)).key # None}
        IN  /\ \A p, q \in resolves : \A repo \in {p.row.repo, q.row.repo} :
                LET here == MirrorRefresh(ctx, SourceKey(p.row), repo).key
                    there == MirrorRefresh(ctx, SourceKey(q.row), repo).key
                IN  None \in {here, there} \/ here = there
            /\ \A p \in resolves :
                SelectRepository(ctx, p.row.repo).key
                    \in {None, ResolveSource(ctx, SourceKey(p.row)).key}

(* Whichever Fact was captured last, a source that resolved before and      *)
(* still does is in the same repository: evidence that arrives late may     *)
(* decline a source, it never hands it over to another repository.          *)
SourceNeverMoves ==
    \A t \in Boundaries :
        LET after == ContextAt(t) IN
        \A f \in Latest(t) :
            LET before == Context((Visible \ {f}) \cup supplied, t) IN
            \A p \in before.proven :
                LET old == ResolveSource(before, SourceKey(p.row)).key
                    new == ResolveSource(after, SourceKey(p.row)).key
                IN  None \in {old, new} \/ old = new

\* What the query of one commit asks its witnesses about
RequestedSources(t, commit) ==
    {SourceKey(r) : r \in UNION {Evidence(f) :
        f \in {g \in Observations(Visible, t) \cup Outcomes(Visible, t) : g.commit = commit}}}

(* The compact witnesses of a commit query know the names, the claims and   *)
(* the keys that the whole population proves, and resolve the requested     *)
(* sources as it does.                                                      *)
WitnessesSuffice ==
    \A t \in Boundaries : \A commit \in Commits :
        LET whole == Context(Visible, t)
            requested == RequestedSources(t, commit)
            compact == WitnessContext(Visible, t, requested)
        IN  /\ compact.names = whole.names
            /\ compact.claims = whole.claims
            /\ compact.unsafe = whole.unsafe
            /\ \A s \in requested : ResolveSource(compact, s) = ResolveSource(whole, s)

-----------------------------------------------------------------------------
(* The derived rows                                                         *)

DerivedView(F, ctx) ==
    [names |-> ctx.names,
     ci |-> CIResolutions(F, ctx),
     shares |-> [k \in Keys(ctx) \cap DOMAIN Mirrors |->
                    IF ShareScope(ctx, Pushes(F, ctx.asOf), k) = {} THEN None
                    ELSE Share(F, ctx, Mirrors, k)],
     memberships |-> Memberships(F, ctx, Mirrors),
     completions |-> AttributedCompletions(F, ctx, Mirrors),
     rollouts |-> Rollouts(F, ctx, Mirrors),
     recoveries |-> Recoveries(F, ctx, Mirrors),
     accepted |-> AcceptedSessions(F, ctx)]

(* A read as of a boundary does not see what was captured after it: a       *)
(* derivation repeated later over more Facts gives the rows it gave then.   *)
LaterFactsInvisible ==
    \A t \in Boundaries :
        LET through(F) == {f \in F : f.at <= t} IN
        Cardinality({DerivedView(read[1], Context(read[1] \cup read[2], t)) :
            read \in {<<Visible, supplied>>, <<through(Visible), through(supplied)>>}}) = 1

IsClean(resolution) == resolution.status = "resolved" /\ ~resolution.lineage.flake

MayBecome(old, new) ==
    old.status = "resolved" /\ new.status = "resolved" =>
        /\ new.commits = old.commits
        /\ old.lineage.verdict \notin {None, new.lineage.verdict}
                => new.lineage.attempt > old.lineage.attempt

(* A run whose visible attempts disagree is never clean: it is a suspected  *)
(* flake, or declined as incomplete or conflicting, also when the source of *)
(* one of them resolves to nothing.  And whichever Fact was captured last,  *)
(* the run has the commit it had and its verdict changed only by a later    *)
(* attempt.                                                                 *)
RunHistoryIsHonest ==
    \A t \in Boundaries :
        LET now == RunResolutions(Visible, ContextAt(t)) IN
        /\ \A run \in Runs(Visible, t) : IsClean(now[run]) =>
            Cardinality({o.result : o \in RunOutcomes(Visible, t, run)} \cap Verdicts) <= 1
        /\ \A f \in Latest(t) :
            LET earlier == Visible \ {f} IN
            \A run \in Runs(earlier, t) :
                MayBecome(RunResolution(earlier, Context(earlier \cup supplied, t), run), now[run])

(* The query of one commit, with its witnesses, its batches of Pushes and   *)
(* its narrow read of the calls, attributes the files of the commit as the  *)
(* full derivation does.                                                    *)
CommitViewAgrees ==
    \A t \in Boundaries :
        LET whole == Context(Visible, t)
            all == Attributions(Visible, whole, Mirrors, Pushes(Visible, t),
                                BoundNotes(Visible, whole, Mirrors))
        IN  \A commit \in Commits :
                LET compact == WitnessContext(Visible, t, RequestedSources(t, commit))
                IN  CommitAttributions(Visible, compact, Mirrors, commit,
                                       BoundNotes(Visible, compact, Mirrors))
                        = {a \in all : a.commit = commit}

AttributedIn(share) == share.notes \cup share.jaccard

ReportsAgreeIn(ctx) ==
    LET Attributed(pushes) ==
            Attributions(Visible, ctx, Mirrors, pushes, DefaultNotes(Visible, ctx, Mirrors))
        pushed == Pushes(Visible, ctx.asOf)
    IN  /\ \A key \in Keys(ctx) \cap mirrored :
            LET scope == ShareScope(ctx, pushed, key) IN
            scope # {} => AttributedIn(Share(Visible, ctx, Mirrors, key))
                            = {a.commit : a \in Attributed(scope)}
        /\ {c.attribution : c \in AttributedCompletions(Visible, ctx, Mirrors)} = Attributed(pushed)

(* Reports over the attributions name the same commits as they do: the      *)
(* share report counts each commit a note or a guess attributed among those *)
(* an agent could have written, and the assembly of completions, which      *)
(* takes identified and legacy Pushes apart, loses and invents none.        *)
ReportsAgree ==
    \A t \in Boundaries : ReportsAgreeIn(ContextAt(t))

AreReal(pairs, ci, t) ==
    \A p \in pairs :
        /\ ci[Commit(p.key, p.red.commit)].verdict = "failed"
        /\ ci[Commit(p.key, p.green.commit)].verdict = "passed"
        /\ p.red.commit \in Ancestors[p.green.commit] \ {p.green.commit}
        /\ \A o \in Outcomes(Visible, t) :
            /\ RunKey(o) = RunKey(p.red) => o.result # "passed"
            /\ RunKey(o) = RunKey(p.green) => o.result # "failed"
        /\ \A q \in pairs : q.red = p.red \/ q.green = p.green => q = p

(* A recovery pair goes from a commit that CI as a whole calls red to a     *)
(* descendant that it calls green; no attempt of the red run passed and     *)
(* none of the green one failed, whatever their order of arrival; and no    *)
(* red or green is spent twice (recovery.py: "a zero-trust red would        *)
(* fabricate a fixing diff").                                               *)
RecoveriesAreReal ==
    \A t \in Boundaries :
        LET ctx == ContextAt(t) IN
        AreReal(Recoveries(Visible, ctx, Mirrors), CIResolutions(Visible, ctx), t)

(* A Decision that reaches exactly one call of its Session counts there:    *)
(* what stands for it has its verdict and its time, so a reject is never    *)
(* dropped for an accept of the same call (attachment.py: "label-flipping   *)
(* poisoning").  And what the whole organization joins, its Session joins   *)
(* to the same call.                                                        *)
DecisionsKeepTheirVerdict ==
    \A t \in Boundaries :
        LET calls == Calls(Visible, t)
            decisions == Decisions(Visible, t)
            org == Joined(calls, decisions)
            own(s) == Joined({c \in calls : c.session = s}, {d \in decisions : d.session = s})
        IN  /\ \A d \in decisions : \A c \in calls :
                Reaches(d, {e \in calls : e.session = d.session}) = {c} =>
                    \E j \in own(d.session) :
                        j[2] = c /\ j[1].verdict = d.verdict /\ j[1].occurred = d.occurred
            /\ \A j \in org : j \in own(j[1].session)

SameCommit(o, n) == o.key = n.key /\ o.commit = n.commit

HoldsWithFact(old, new) ==
    /\ old.status = "joined" =>
        new = old \/ new.status \in {"ambiguous", "ancestry_unresolved"}
    /\ old.status = "ambiguous" => new.status \in {"ambiguous", "ancestry_unresolved"}

HoldsWithMirror(old, new) == old.status # "ancestry_unresolved" => new = old

(* Whichever Fact was captured last, a commit joined to a merge has not     *)
(* been handed to another one, nor is it said to have none.  Whichever      *)
(* mirror was fetched last, an outcome decided without it stands: what a    *)
(* missing mirror leaves open is left open.                                 *)
MembershipHolds ==
    \A t \in Boundaries :
        \A before \in {[facts |-> Visible \ {f}, mirrored |-> mirrored] : f \in Latest(t)}
                      \cup {[facts |-> Visible, mirrored |-> mirrored \ {k}] : k \in mirrored} :
            LET MembersOf(F, keys) == Memberships(F, Context(F \cup supplied, t),
                                             [k \in keys |-> population.objects[k]])
            IN  \A o \in MembersOf(before.facts, before.mirrored) :
                \A n \in {m \in MembersOf(Visible, mirrored) : SameCommit(o, m)} :
                    IF before.facts = Visible
                    THEN HoldsWithMirror(o.outcome, n.outcome) ELSE HoldsWithFact(o.outcome, n.outcome)
=============================================================================
