------------------------- MODULE DerivationsProofs --------------------------
(***************************************************************************)
(* Proofs about the derivations, for every population of Facts, every      *)
(* order of capture, quarantine and release, and every set of mirrors.     *)
(***************************************************************************)
EXTENDS Derivations, FiniteSetTheorems, WellFoundedInduction, TLAPS

-----------------------------------------------------------------------------
(* Contexts                                                                *)

\* The rows whose copies agree, and what each of them proves
SourcesOf(rows) == {r \in rows : SourceKey(r) \notin Conflicting(rows)}
ProofOf(rows, r) == SourceIdentity(r, SourcesOf(rows), Conflicting(rows))

\* The sources that name a repository
Naming(rows) == {r \in SourcesOf(rows) : ProofOf(rows, r).reason = None /\ r.repo # None}

KeyOf(identity, repo) == IF identity = None THEN Legacy(repo) ELSE Identified(identity)

LEMMA ContextFields ==
    ASSUME NEW rows, NEW renames, NEW t
    PROVE  LET ctx == BuildContext(rows, renames, t) IN
           /\ ctx.asOf = t
           /\ ctx.conflicts = Conflicting(rows)
           /\ ctx.proven = {[row |-> r, proof |-> ProofOf(rows, r)] : r \in SourcesOf(rows)}
BY DEF BuildContext, SourcesOf, ProofOf

LEMMA NamedRows ==
    ASSUME NEW rows, NEW renames, NEW t, NEW r \in Naming(rows)
    PROVE  LET ctx == BuildContext(rows, renames, t)
               i == ProofOf(rows, r).identity
           IN  /\ r.repo \in Names(ctx, KeyOf(i, r.repo))
               /\ i # None => i \in Claims(ctx, r.repo)
<1> DEFINE ctx == BuildContext(rows, renames, t)
           p == [row |-> r, proof |-> ProofOf(rows, r)]
           proven == {[row |-> q, proof |-> ProofOf(rows, q)] : q \in SourcesOf(rows)}
           named == {q \in proven : q.proof.reason = None /\ q.row.repo # None}
<1>1. p \in named /\ p.row = r /\ p.proof = ProofOf(rows, r)
  BY DEF Naming
<1>2. {<<IF q.proof.identity = None THEN Legacy(q.row.repo)
         ELSE Identified(q.proof.identity), q.row.repo>> : q \in named} \subseteq ctx.names
  BY DEF BuildContext, SourcesOf, ProofOf
<1>3. {<<q.row.repo, q.proof.identity>> : q \in {m \in named : m.proof.identity # None}}
        \subseteq ctx.claims
  BY DEF BuildContext, SourcesOf, ProofOf
<1> HIDE DEF ctx, p, named
<1>4. <<KeyOf(p.proof.identity, p.row.repo), p.row.repo>> \in ctx.names
  BY <1>1, <1>2 DEF KeyOf
<1>5. p.proof.identity # None => <<p.row.repo, p.proof.identity>> \in ctx.claims
  BY <1>1, <1>3
<1> QED
  BY <1>1, <1>4, <1>5 DEF Names, Claims, ctx

\* Copies that agree are one row
LEMMA OneRowPerSource ==
    ASSUME NEW rows, NEW r \in SourcesOf(rows), NEW q \in rows, SourceKey(q) = SourceKey(r)
    PROVE  q = r
BY DEF SourcesOf, Conflicting

\* What the resolution of a source says, by its row
LEMMA SourceResolution ==
    ASSUME NEW rows, NEW renames, NEW t, NEW r \in SourcesOf(rows)
    PROVE  LET ctx == BuildContext(rows, renames, t) IN
           ResolveSource(ctx, SourceKey(r)) =
              IF ProofOf(rows, r).reason # None THEN Declined(ProofOf(rows, r).reason)
              ELSE ResolveReference(ctx, r.repo, ProofOf(rows, r).identity)
<1> DEFINE ctx == BuildContext(rows, renames, t)
           p == [row |-> r, proof |-> ProofOf(rows, r)]
           known == {q \in ctx.proven : SourceKey(q.row) = SourceKey(r)}
<1>1. /\ ctx.conflicts = Conflicting(rows)
      /\ ctx.proven = {[row |-> q, proof |-> ProofOf(rows, q)] : q \in SourcesOf(rows)}
  BY ContextFields
<1>2. SourceKey(r) \notin ctx.conflicts
  BY <1>1 DEF SourcesOf
<1>3. p \in known
  BY <1>1
<1>4. \A q \in known : q = p
  <2> TAKE q \in known
  <2>1. PICK s \in SourcesOf(rows) : q = [row |-> s, proof |-> ProofOf(rows, s)]
    BY <1>1
  <2>2. s = r
    BY <2>1, OneRowPerSource DEF SourcesOf
  <2> QED
    BY <2>1, <2>2
<1> DEFINE chosen == CHOOSE q \in known : TRUE
<1>5. known # {} /\ chosen = p
  BY <1>3, <1>4
<1>6. ResolveSource(ctx, SourceKey(r)) =
        IF SourceKey(r) \in ctx.conflicts THEN Declined("conflict")
        ELSE IF known = {} THEN Declined("absent source")
        ELSE IF chosen.proof.reason # None THEN Declined(chosen.proof.reason)
        ELSE ResolveReference(ctx, chosen.row.repo, chosen.proof.identity)
  BY DEF ResolveSource
<1>7. p.row = r /\ p.proof = ProofOf(rows, r)
  OBVIOUS
<1> HIDE DEF p, known, chosen
<1> QED
  BY <1>2, <1>5, <1>6, <1>7

LEMMA ReferenceShape ==
    ASSUME NEW ctx, NEW repo, NEW i, ResolveReference(ctx, repo, i).key # None
    PROVE  /\ repo # None
           /\ i = None => Claims(ctx, repo) = {} /\ repo \notin ctx.unsafe
           /\ i # None => repo \in Names(ctx, Identified(i))
           /\ ResolveReference(ctx, repo, i).key = KeyOf(i, repo)
BY DEF ResolveReference, Declined, Resolved, KeyOf

\* A row whose source resolves names a repository, and the source has its key
LEMMA RowResolution ==
    ASSUME NEW rows, NEW renames, NEW t, NEW r \in SourcesOf(rows),
           ResolveSource(BuildContext(rows, renames, t), SourceKey(r)).key # None
    PROVE  LET ctx == BuildContext(rows, renames, t)
               i == ProofOf(rows, r).identity
           IN  /\ r \in Naming(rows)
               /\ ResolveSource(ctx, SourceKey(r)).key = KeyOf(i, r.repo)
               /\ i = None => Claims(ctx, r.repo) = {}
<1> DEFINE ctx == BuildContext(rows, renames, t)
           s == SourceKey(r)
<1>3. ResolveSource(ctx, s) =
        IF ProofOf(rows, r).reason # None THEN Declined(ProofOf(rows, r).reason)
        ELSE ResolveReference(ctx, r.repo, ProofOf(rows, r).identity)
  BY SourceResolution
<1> HIDE DEF ctx, s
<1>4. /\ ProofOf(rows, r).reason = None
      /\ ResolveReference(ctx, r.repo, ProofOf(rows, r).identity).key # None
  BY <1>3 DEF Declined, ctx, s
<1>5. /\ r.repo # None
      /\ ProofOf(rows, r).identity = None => Claims(ctx, r.repo) = {}
      /\ ResolveSource(ctx, s).key = KeyOf(ProofOf(rows, r).identity, r.repo)
  BY <1>3, <1>4, ReferenceShape
<1>6. r \in Naming(rows)
  BY <1>4, <1>5 DEF Naming
<1> QED
  BY <1>5, <1>6 DEF ctx, s

\* Every source that resolves has a row
LEMMA ResolvedSources ==
    ASSUME NEW rows, NEW renames, NEW t, NEW s,
           ResolveSource(BuildContext(rows, renames, t), s).key # None
    PROVE  \E r \in SourcesOf(rows) : SourceKey(r) = s
<1> DEFINE ctx == BuildContext(rows, renames, t)
<1>1. /\ s \notin ctx.conflicts
      /\ {q \in ctx.proven : SourceKey(q.row) = s} # {}
  BY DEF ResolveSource, Declined
<1> QED
  BY <1>1, ContextFields

-----------------------------------------------------------------------------
(* Repositories that share a slug are kept apart                           *)

\* A location that may be fetched for two sources is of one repository
LEMMA RefreshesAgree ==
    ASSUME NEW rows, NEW renames, NEW t, NEW s, NEW u, NEW repo,
           MirrorRefresh(BuildContext(rows, renames, t), s, repo).key # None,
           MirrorRefresh(BuildContext(rows, renames, t), u, repo).key # None
    PROVE  MirrorRefresh(BuildContext(rows, renames, t), s, repo).key
              = MirrorRefresh(BuildContext(rows, renames, t), u, repo).key
<1> DEFINE ctx == BuildContext(rows, renames, t)
           Settled(src) ==
              LET key == MirrorRefresh(ctx, src, repo).key IN
              \/ Claims(ctx, repo) = {key.of} /\ key = Identified(key.of)
              \/ Claims(ctx, repo) = {} /\ key = Legacy(repo)
<1>1. ASSUME NEW src, MirrorRefresh(ctx, src, repo).key # None
      PROVE  Settled(src)
  <2> DEFINE result == ResolveSource(ctx, src)
  <2>1. /\ result.key # None /\ MirrorRefresh(ctx, src, repo).key = result.key
        /\ IsIdentified(result.key) => Claims(ctx, repo) = {result.key.of}
        /\ ~IsIdentified(result.key) => repo = result.key.of
    BY <1>1 DEF MirrorRefresh, Declined
  <2>a. PICK r \in SourcesOf(rows) : SourceKey(r) = src
    BY <2>1, ResolvedSources
  <2>2. /\ result.key = KeyOf(ProofOf(rows, r).identity, r.repo)
        /\ ProofOf(rows, r).identity = None => Claims(ctx, r.repo) = {}
    BY <2>1, <2>a, RowResolution
  <2> HIDE DEF result, ctx
  <2>3. CASE ProofOf(rows, r).identity = None
    <3>1. result.key = Legacy(r.repo) /\ Claims(ctx, r.repo) = {}
      BY <2>2, <2>3 DEF KeyOf
    <3>2. ~IsIdentified(result.key) /\ result.key.of = r.repo
      BY <3>1 DEF IsIdentified, Legacy
    <3> QED
      BY <2>1, <3>1, <3>2
  <2>4. CASE ProofOf(rows, r).identity # None
    <3>1. result.key = Identified(ProofOf(rows, r).identity)
      BY <2>2, <2>4 DEF KeyOf
    <3>2. IsIdentified(result.key) /\ result.key = Identified(result.key.of)
      BY <2>1, <3>1 DEF IsIdentified, Identified
    <3> QED
      BY <2>1, <3>2
  <2> QED
    BY <2>3, <2>4
<1>2. Settled(s) /\ Settled(u)
  BY <1>1
<1> QED
  BY <1>2

\* The image of a finite set is finite
LEMMA FiniteImage ==
    ASSUME NEW S, IsFiniteSet(S), NEW g, DOMAIN g = S
    PROVE  IsFiniteSet({g[x] : x \in S})
<1> DEFINE h == [x \in S |-> g[x]]
           T == {g[x] : x \in S}
<1>1. h \in Surjection(S, T)
  BY DEF Surjection
<1> QED
  BY <1>1, FS_Surjection

LEMMA FiniteRows ==
    ASSUME NEW F, IsFiniteSet(F), NEW t
    PROVE  IsFiniteSet(Rows(F, t)) /\ IsFiniteSet(Renames(F, t))
<1> DEFINE own == [f \in F |-> Row(f, "repo", f.repo, f.identity)]
           head == [f \in F |-> Row(f, "head_repo", f.head_repo, f.head_identity)]
           both == {own[f] : f \in F} \cup {head[f] : f \in F}
<1>1. IsFiniteSet({own[f] : f \in F}) /\ IsFiniteSet({head[f] : f \in F})
  BY FiniteImage
<1>2. IsFiniteSet(both)
  BY <1>1, FS_Union
<1>3. Rows(F, t) \subseteq both
  BY DEF Rows, Evidence
<1>4. Renames(F, t) \subseteq F
  BY DEF Renames, Through
<1> QED
  BY <1>2, <1>3, <1>4, FS_Subset

LEMMA ProvenIdentity ==
    ASSUME NEW rows, NEW r \in SourcesOf(rows)
    PROVE  ProofOf(rows, r).identity = None
           \/ \E q \in rows : ProofOf(rows, r).identity = q.identity
<1> DEFINE sources == SourcesOf(rows)
           conflicts == Conflicting(rows)
           pushes == {s \in sources : SourceKey(s) = <<"pushes", r.push, "repo">>}
           push == CHOOSE s \in pushes : TRUE
<1>1. pushes # {} => push \in rows
  BY DEF SourcesOf
<1>2. ProofOf(rows, r).identity \in {None, r.identity}
        \/ (pushes # {} /\ ProofOf(rows, r).identity = push.identity)
  BY DEF ProofOf, SourceIdentity
<1> QED
  BY <1>1, <1>2 DEF SourcesOf

LEMMA FiniteClaims ==
    ASSUME NEW F, IsFiniteSet(F), NEW t, NEW repo
    PROVE  IsFiniteSet(Claims(Context(F, t), repo))
<1> DEFINE rows == Rows(F, t)
           renames == Renames(F, t)
           ctx == BuildContext(rows, renames, t)
           ofRow == [r \in rows |-> r.identity]
           ofRename == [r \in renames |-> r.identity]
           all == {ofRow[r] : r \in rows} \cup {ofRename[r] : r \in renames}
<1>1. IsFiniteSet(all)
  <2>1. IsFiniteSet(rows) /\ IsFiniteSet(renames)
    BY FiniteRows
  <2> HIDE DEF rows, renames
  <2>2. IsFiniteSet({ofRow[r] : r \in rows}) /\ IsFiniteSet({ofRename[r] : r \in renames})
    BY <2>1, FiniteImage
  <2> QED
    BY <2>2, FS_Union
<1>2. Claims(ctx, repo) \subseteq all
  <2> HIDE DEF rows, renames
  <2> DEFINE proven == {[row |-> q, proof |-> ProofOf(rows, q)] : q \in SourcesOf(rows)}
             named == {q \in proven : q.proof.reason = None /\ q.row.repo # None}
             real == {q \in named : q.proof.identity # None}
  <2>1. ctx.claims = {<<r.old, r.identity>> : r \in renames}
                     \cup {<<r.new, r.identity>> : r \in renames}
                     \cup {<<r.repo, r.identity>> :
                             r \in {q \in rows : q.identity # None /\ q.repo # None}}
                     \cup {<<p.row.repo, p.proof.identity>> : p \in real}
    BY DEF BuildContext, SourcesOf, ProofOf
  <2>2. \A p \in real : \E q \in rows : p.proof.identity = q.identity
    BY ProvenIdentity
  <2> HIDE DEF ctx, real
  <2>3. \A c \in ctx.claims : (\E r \in renames : c[2] = r.identity)
                              \/ (\E r \in rows : c[2] = r.identity)
    BY <2>1, <2>2
  <2> QED
    BY <2>3 DEF Claims
<1> QED
  BY <1>1, <1>2, FS_Subset DEF Context

\* A slug that selects a repository selects that of each source which was
\* captured under it and resolves
LEMMA SelectionAgrees ==
    ASSUME NEW F, IsFiniteSet(F), NEW t, NEW r \in SourcesOf(Rows(F, t)),
           ResolveSource(Context(F, t), SourceKey(r)).key # None
    PROVE  SelectRepository(Context(F, t), r.repo).key
              \in {None, ResolveSource(Context(F, t), SourceKey(r)).key}
<1> DEFINE rows == Rows(F, t)
           renames == Renames(F, t)
           ctx == BuildContext(rows, renames, t)
           claims == Claims(ctx, r.repo)
           i == ProofOf(rows, r).identity
           result == ResolveSource(ctx, SourceKey(r))
<1>1. /\ r \in Naming(rows)
      /\ result.key = KeyOf(i, r.repo)
      /\ i = None => claims = {}
  <2>1. ctx = Context(F, t)
    BY DEF Context
  <2>2. ResolveSource(ctx, SourceKey(r)).key # None
    BY <2>1
  <2> QED
    BY <2>2, RowResolution
<1>2. i # None => i \in claims
  BY <1>1, NamedRows
<1>3. IsFiniteSet(claims) /\ Cardinality(claims) \in Nat
  BY FiniteClaims, FS_CardinalityType DEF Context
<1>4. ctx = Context(F, t)
  BY DEF Context
<1> HIDE DEF rows, renames, ctx, claims, i, result
<1>5. CASE i = None
  <2>1. claims = {} /\ result.key = Legacy(r.repo)
    BY <1>1, <1>5 DEF KeyOf
  <2>2. SelectRepository(ctx, r.repo).key \in {None, Legacy(r.repo)}
    BY <2>1 DEF SelectRepository, Declined, Resolved, claims
  <2> QED
    BY <1>4, <2>1, <2>2 DEF result
<1>6. CASE i # None
  <2>1. claims # {} /\ result.key = Identified(i)
    BY <1>1, <1>2, <1>6 DEF KeyOf
  <2>2. CASE Cardinality(claims) > 1
    BY <1>4, <2>2 DEF SelectRepository, Declined, claims
  <2>3. CASE ~(Cardinality(claims) > 1)
    <3>1. Cardinality(claims) = 1
      BY <1>3, <2>1, <2>3, FS_EmptySet
    <3>2. claims = {i}
      BY <1>2, <1>3, <1>6, <3>1, FS_Singleton
    <3>3. (CHOOSE c \in claims : TRUE) = i
      BY <3>2
    <3>4. SelectRepository(ctx, r.repo).key \in {None, Identified(CHOOSE c \in claims : TRUE)}
      BY <2>1 DEF SelectRepository, Declined, Resolved, claims
    <3> QED
      BY <1>4, <2>1, <3>3, <3>4 DEF result
  <2> QED
    BY <2>2, <2>3
<1> QED
  BY <1>5, <1>6

-----------------------------------------------------------------------------
(* The state                                                               *)

\* Two Facts with one primary key, or two renames of one delivery, are one
Unique(F) ==
    \A f, g \in F : f.table = g.table =>
        /\ f.id = g.id => f = g
        /\ f.table = "repository_renames" /\ SameDelivery(f, g) => f = g

StateInv ==
    /\ population \in Populations
    /\ supplied \in {{}, population.supplied}
    /\ facts \subseteq population.facts
    /\ IsFiniteSet(facts)
    /\ Unique(facts)
    /\ mirrored \subseteq DOMAIN population.objects

LEMMA StateInvariant == Spec => []StateInv
<1>1. Init => StateInv
  BY FS_EmptySet DEF Init, StateInv, Unique
<1>2. StateInv /\ [Next]_vars => StateInv'
  <2> SUFFICES ASSUME StateInv, [Next]_vars PROVE StateInv'
    OBVIOUS
  <2>1. ASSUME NEW f \in population.facts, Capture(f) PROVE StateInv'
    <3>1. facts' = facts \cup {f} /\ UNCHANGED <<population, supplied, mirrored>>
      BY <2>1 DEF Capture
    <3>2. IsFiniteSet(facts')
      BY <3>1, FS_AddElement DEF StateInv
    <3>3. Unique(facts')
      <4>1. \A g \in facts : g.table = f.table =>
              g.id # f.id /\ (f.table = "repository_renames" => ~SameDelivery(f, g))
        BY <2>1 DEF Capture, Storable
      <4>2. \A g \in facts : SameDelivery(f, g) <=> SameDelivery(g, f)
        BY DEF SameDelivery
      <4> QED
        BY <3>1, <4>1, <4>2 DEF Unique, StateInv
    <3>4. population' \in Populations /\ supplied' \in {{}, population'.supplied}
          /\ facts' \subseteq population'.facts /\ mirrored' \subseteq DOMAIN population'.objects
      BY <3>1 DEF StateInv
    <3> QED
      BY <3>2, <3>3, <3>4 DEF StateInv, Unique
  <2>2. CASE UNCHANGED <<population, facts, supplied, mirrored>>
    BY <2>2 DEF StateInv, Unique
  <2>3. ASSUME UNCHANGED <<population, facts, supplied>>,
               mirrored' \subseteq DOMAIN population.objects
        PROVE  StateInv'
    BY <2>3 DEF StateInv, Unique
  <2>4. ASSUME NEW f, Quarantine(f) \/ Release(f) PROVE StateInv'
    BY <2>2, <2>4 DEF Quarantine, Release
  <2>5. ASSUME NEW p, NEW repo, Fetch(p, repo) PROVE StateInv'
    BY <2>3, <2>5 DEF Fetch, StateInv
  <2>6. ASSUME NEW key, Collect(key) PROVE StateInv'
    BY <2>3, <2>6 DEF Collect, StateInv
  <2>7. CASE UNCHANGED vars
    BY <2>2, <2>7 DEF vars
  <2> QED
    BY <2>1, <2>4, <2>5, <2>6, <2>7 DEF Next
<1> QED
  BY <1>1, <1>2, PTL DEF Spec

LEMMA FiniteReads ==
    ASSUME StateInv
    PROVE  IsFiniteSet(Visible) /\ IsFiniteSet(Visible \cup supplied)
<1>1. IsFiniteSet(Visible)
  BY FS_Subset DEF StateInv, Visible
<1>2. IsFiniteSet(supplied)
  BY PopulationAssumption, FS_EmptySet DEF StateInv
<1> QED
  BY <1>1, <1>2, FS_Union

(* Repositories that share a slug are kept apart in every state, for every  *)
(* population of Facts and every boundary.                                  *)
THEOREM LifetimesStayApart == Spec => []LifetimesApart
<1>1. StateInv => LifetimesApart
  <2> SUFFICES ASSUME StateInv, NEW t \in Boundaries
               PROVE  LET ctx == ContextAt(t)
                          resolves == {p \in ctx.proven :
                                         ResolveSource(ctx, SourceKey(p.row)).key # None}
                      IN  /\ \A p, q \in resolves : \A repo \in {p.row.repo, q.row.repo} :
                              LET here == MirrorRefresh(ctx, SourceKey(p.row), repo).key
                                  there == MirrorRefresh(ctx, SourceKey(q.row), repo).key
                              IN  None \in {here, there} \/ here = there
                          /\ \A p \in resolves :
                              SelectRepository(ctx, p.row.repo).key
                                  \in {None, ResolveSource(ctx, SourceKey(p.row)).key}
    BY DEF LifetimesApart
  <2> DEFINE F == Visible \cup supplied
             ctx == Context(F, t)
  <2>1. ctx = ContextAt(t) /\ ctx = BuildContext(Rows(F, t), Renames(F, t), t)
    BY DEF ContextAt, Context
  <2>2. IsFiniteSet(F)
    BY FiniteReads
  <2> HIDE DEF F
  <2>3. ASSUME NEW s, NEW u, NEW repo
        PROVE  LET here == MirrorRefresh(ctx, s, repo).key
                   there == MirrorRefresh(ctx, u, repo).key
               IN  None \in {here, there} \/ here = there
    BY <2>1, RefreshesAgree
  <2>4. ASSUME NEW p \in ctx.proven, ResolveSource(ctx, SourceKey(p.row)).key # None
        PROVE  SelectRepository(ctx, p.row.repo).key
                  \in {None, ResolveSource(ctx, SourceKey(p.row)).key}
    <3>1. p.row \in SourcesOf(Rows(F, t))
      BY <2>1, <2>4, ContextFields
    <3> QED
      BY <2>2, <2>4, <3>1, SelectionAgrees
  <2> HIDE DEF ctx
  <2> QED
    BY <2>1, <2>3, <2>4
<1> QED
  BY <1>1, StateInvariant, PTL

-----------------------------------------------------------------------------
(* Late evidence                                                           *)

\* A row keeps its proof while no row of its source Push is added
LEMMA ProofsStay ==
    ASSUME NEW old, NEW new, old \subseteq new, NEW r \in old,
           r.table = "session_commit_observations" =>
              \A q \in new : SourceKey(q) = <<"pushes", r.push, "repo">> => q \in old
    PROVE  ProofOf(old, r) = ProofOf(new, r)
<1>1. CASE r.table # "session_commit_observations"
  BY <1>1 DEF ProofOf, SourceIdentity
<1>2. CASE r.table = "session_commit_observations"
  <2> DEFINE key == <<"pushes", r.push, "repo">>
             pushes(rows) == {s \in SourcesOf(rows) : SourceKey(s) = key}
  <2>1. \A q \in new : SourceKey(q) = key <=> q \in old /\ SourceKey(q) = key
    BY <1>2
  <2>2. key \in Conflicting(old) <=> key \in Conflicting(new)
    <3> HIDE DEF key
    <3>1. \A rows : key \in Conflicting(rows) <=>
            \E q, o \in rows : SourceKey(q) = key /\ SourceKey(o) = key /\ o # q
      BY DEF Conflicting
    <3> QED
      BY <2>1, <3>1
  <2>3. pushes(old) = pushes(new)
    <3> HIDE DEF key
    <3> QED
      BY <2>1, <2>2 DEF SourcesOf
  <2> QED
    BY <2>2, <2>3 DEF ProofOf, SourceIdentity
<1> QED
  BY <1>1, <1>2

\* A row with a source that resolves has no contradicting copy
LEMMA ResolvedRow ==
    ASSUME NEW rows, NEW renames, NEW t, NEW r \in rows,
           ResolveSource(BuildContext(rows, renames, t), SourceKey(r)).key # None
    PROVE  r \in SourcesOf(rows)
<1>1. PICK q \in SourcesOf(rows) : SourceKey(q) = SourceKey(r)
  BY ResolvedSources
<1> QED
  BY <1>1 DEF SourcesOf

\* More evidence does not hand a source over to another repository
LEMMA LateRows ==
    ASSUME NEW old, NEW new, old \subseteq new, NEW fewer, NEW more, NEW t, NEW r \in old,
           r.table = "session_commit_observations" =>
              \A q \in new : SourceKey(q) = <<"pushes", r.push, "repo">> => q \in old,
           ResolveSource(BuildContext(old, fewer, t), SourceKey(r)).key # None,
           ResolveSource(BuildContext(new, more, t), SourceKey(r)).key # None
    PROVE  ResolveSource(BuildContext(old, fewer, t), SourceKey(r)).key
              = ResolveSource(BuildContext(new, more, t), SourceKey(r)).key
<1>1. r \in SourcesOf(old) /\ r \in SourcesOf(new)
  BY ResolvedRow
<1>2. /\ ResolveSource(BuildContext(old, fewer, t), SourceKey(r)).key
            = KeyOf(ProofOf(old, r).identity, r.repo)
      /\ ResolveSource(BuildContext(new, more, t), SourceKey(r)).key
            = KeyOf(ProofOf(new, r).identity, r.repo)
  BY <1>1, RowResolution
<1> QED
  BY <1>2, ProofsStay

\* What was read before the last Fact
Before(f) == (Visible \ {f}) \cup supplied

LEMMA RowsBefore ==
    ASSUME NEW t, NEW f \in Latest(t)
    PROVE  /\ Rows(Before(f), t) \subseteq Rows(Visible \cup supplied, t)
           /\ \A r \in Rows(Before(f), t) : r.table = "session_commit_observations" =>
                 \A q \in Rows(Visible \cup supplied, t) :
                    SourceKey(q) = <<"pushes", r.push, "repo">> => q \in Rows(Before(f), t)
<1> DEFINE All == Visible \cup supplied
<1>1. Before(f) \subseteq All
  BY DEF Before
<1>2. ASSUME NEW r \in Rows(Before(f), t), r.table = "session_commit_observations",
             NEW q \in Rows(All, t), SourceKey(q) = <<"pushes", r.push, "repo">>
      PROVE  q \in Rows(Before(f), t)
  <2>1. PICK o \in Before(f) : o.table \in EvidenceTables /\ o.at <= t /\ r \in Evidence(o)
    BY DEF Rows
  <2>2. r.table = o.table /\ r.push = o.push
    BY <1>2, <2>1 DEF Evidence, Row
  <2>3. o \in Observations(All, t)
    BY <1>1, <1>2, <2>1, <2>2 DEF Observations, Through
  <2>4. PICK p \in All : p.table \in EvidenceTables /\ p.at <= t /\ q \in Evidence(p)
    BY DEF Rows
  <2>5. q.table = p.table /\ q.id = p.id
    BY <2>4 DEF Evidence, Row
  <2>6. p.table = "pushes" /\ p.id = o.push
    BY <1>2, <2>2, <2>5 DEF SourceKey
  <2>7. p # f
    BY <2>3, <2>6 DEF Latest
  <2>8. p \in Before(f)
    BY <2>4, <2>7 DEF Before
  <2> QED
    BY <2>4, <2>8 DEF Rows
<1> QED
  BY <1>1, <1>2 DEF Rows

\* What the last Fact may change of a source: nothing, or that it is declined
LEMMA SourcesStay ==
    ASSUME NEW t, NEW f \in Latest(t), NEW s,
           ResolveSource(Context(Before(f), t), s).key # None,
           ResolveSource(ContextAt(t), s).key # None
    PROVE  ResolveSource(Context(Before(f), t), s).key = ResolveSource(ContextAt(t), s).key
<1> DEFINE old == Rows(Before(f), t)
           new == Rows(Visible \cup supplied, t)
           fewer == Renames(Before(f), t)
           more == Renames(Visible \cup supplied, t)
<1>1. /\ Context(Before(f), t) = BuildContext(old, fewer, t)
      /\ ContextAt(t) = BuildContext(new, more, t)
  BY DEF Context, ContextAt
<1>2. /\ old \subseteq new
      /\ \A r \in old : r.table = "session_commit_observations" =>
            \A q \in new : SourceKey(q) = <<"pushes", r.push, "repo">> => q \in old
  BY RowsBefore
<1> HIDE DEF old, new, fewer, more
<1>3. PICK r \in SourcesOf(old) : SourceKey(r) = s
  BY <1>1, ResolvedSources
<1>4. r \in old
  BY DEF SourcesOf
<1> QED
  BY <1>1, <1>2, <1>3, <1>4, LateRows

(* Evidence that arrives late, or is released, may decline a source; it     *)
(* never hands it over to another repository.                               *)
THEOREM SourcesNeverMove == Spec => []SourceNeverMoves
<1>1. SourceNeverMoves
  BY SourcesStay DEF SourceNeverMoves, Before
<1> QED
  BY <1>1, PTL

-----------------------------------------------------------------------------
(* Facts and their sources                                                 *)

\* The roles in which a Fact names a repository
Roles(f) == IF f.table \in PullRequestTables THEN {"repo", "head_repo"} ELSE {"repo"}

LEMMA RoleRows ==
    ASSUME NEW f, NEW role \in Roles(f)
    PROVE  /\ RowOf(f, role) \in Evidence(f)
           /\ SourceKey(RowOf(f, role)) = <<f.table, f.id, role>>
           /\ RowOf(f, role).table = f.table
           /\ RowOf(f, role) = IF role = "repo" THEN Row(f, "repo", f.repo, f.identity)
                               ELSE Row(f, "head_repo", f.head_repo, f.head_identity)
<1> DEFINE own == Row(f, "repo", f.repo, f.identity)
           head == Row(f, "head_repo", f.head_repo, f.head_identity)
<1>1. own.role = "repo" /\ head.role = "head_repo" /\ own.table = f.table /\ own.id = f.id
      /\ head.table = f.table /\ head.id = f.id
  BY DEF Row
<1>2. own \in Evidence(f) /\ Evidence(f) \subseteq {own, head}
      /\ (f.table \in PullRequestTables => head \in Evidence(f))
  BY DEF Evidence
<1> HIDE DEF own, head
<1>3. CASE role = "repo"
  <2>1. RowOf(f, role) = own
    BY <1>1, <1>2, <1>3 DEF RowOf
  <2> QED
    BY <1>1, <1>2, <1>3, <2>1 DEF SourceKey, own
<1>4. CASE role = "head_repo"
  <2>1. head \in Evidence(f)
    BY <1>2, <1>4 DEF Roles
  <2>2. RowOf(f, role) = head
    BY <1>1, <1>2, <1>4, <2>1 DEF RowOf
  <2> QED
    BY <1>1, <1>2, <1>4, <2>1, <2>2 DEF SourceKey, head
<1> QED
  BY <1>3, <1>4 DEF Roles

LEMMA Unconflicted ==
    ASSUME NEW ctx, NEW s, ResolveSource(ctx, s).key # None
    PROVE  s \notin ctx.conflicts
BY DEF ResolveSource, Declined

\* A Fact that resolves does so as its source, whose row it is
LEMMA FactResolution ==
    ASSUME NEW rows, NEW renames, NEW t, NEW f, NEW role \in Roles(f),
           ResolveFact(BuildContext(rows, renames, t), f, role).key # None
    PROVE  /\ RowOf(f, role) \in SourcesOf(rows)
           /\ ResolveFact(BuildContext(rows, renames, t), f, role)
                 = ResolveSource(BuildContext(rows, renames, t), <<f.table, f.id, role>>)
<1> DEFINE ctx == BuildContext(rows, renames, t)
           source == <<f.table, f.id, role>>
           known == {p.row : p \in ctx.proven}
<1>1. ResolveFact(ctx, f, role) = ResolveSource(ctx, source)
      /\ (source \in ctx.conflicts \/ RowOf(f, role) \in known)
  BY DEF ResolveFact, ResolveRow, Declined
<1>2. source \notin ctx.conflicts
  BY <1>1, Unconflicted
<1>3. known \subseteq SourcesOf(rows)
  BY ContextFields
<1> QED
  BY <1>1, <1>2, <1>3

\* A Fact that resolved before the last one, and still does, is where it was
LEMMA FactsStay ==
    ASSUME NEW t, NEW f \in Latest(t), NEW g, NEW role \in Roles(g),
           ResolveFact(Context(Before(f), t), g, role).key # None,
           ResolveFact(ContextAt(t), g, role).key # None
    PROVE  ResolveFact(Context(Before(f), t), g, role).key = ResolveFact(ContextAt(t), g, role).key
<1> DEFINE s == <<g.table, g.id, role>>
<1>1. /\ Context(Before(f), t) = BuildContext(Rows(Before(f), t), Renames(Before(f), t), t)
      /\ ContextAt(t) = BuildContext(Rows(Visible \cup supplied, t),
                                     Renames(Visible \cup supplied, t), t)
  BY DEF Context, ContextAt
<1>2. /\ ResolveFact(Context(Before(f), t), g, role) = ResolveSource(Context(Before(f), t), s)
      /\ ResolveFact(ContextAt(t), g, role) = ResolveSource(ContextAt(t), s)
  BY <1>1, FactResolution
<1> HIDE DEF s
<1> QED
  BY <1>2, SourcesStay

-----------------------------------------------------------------------------
(* Runs                                                                    *)

\* Every set of numbers that is not empty has a least one
LEMMA LeastNumber ==
    ASSUME NEW S \in SUBSET Nat, S # {}
    PROVE  \E m \in S : \A n \in S : m <= n
<1>1. PICK m \in S : \A n \in S : ~(<<n, m>> \in OpToRel(<, Nat))
  BY NatLessThanWellFounded, WFMin
<1>2. \A n \in S : ~(n < m)
  BY <1>1 DEF OpToRel
<1> QED
  BY <1>2

\* A finite set of numbered outcomes has a last one: the one after which the
\* fewest come
LEMMA LastOutcomes ==
    ASSUME NEW S, IsFiniteSet(S), S # {}, \A o \in S : o.id \in Nat /\ o.attempt \in Nat
    PROVE  LastOutcome(S) \in S /\ \A p \in S : Ordered(p, LastOutcome(S))
<1> DEFINE after(o) == {p \in S : ~Ordered(p, o)}
           counts == {Cardinality(after(o)) : o \in S}
<1>1. \A o \in S : IsFiniteSet(after(o)) /\ Cardinality(after(o)) \in Nat
  BY FS_Subset, FS_CardinalityType
<1>2. PICK o \in S : \A p \in S : Cardinality(after(o)) <= Cardinality(after(p))
  <2>1. counts \in SUBSET Nat /\ counts # {}
    BY <1>1
  <2>2. PICK m \in counts : \A n \in counts : m <= n
    BY <2>1, LeastNumber
  <2> QED
    BY <2>2
<1>3. \A p \in S : Ordered(p, o)
  <2>1. SUFFICES ASSUME NEW p \in S, ~Ordered(p, o) PROVE FALSE
    OBVIOUS
  <2>2. after(p) \subseteq after(o) /\ p \in after(o) /\ p \notin after(p)
    BY <2>1 DEF Ordered
  <2> HIDE DEF after
  <2>3. Cardinality(after(p)) <= Cardinality(after(o)) /\ Cardinality(after(p)) # Cardinality(after(o))
    BY <1>1, <2>2, FS_Subset
  <2> QED
    BY <1>1, <1>2, <2>3
<1> QED
  BY <1>3 DEF LastOutcome

\* A run that is clean has one verdict among its visible attempts
LEMMA CleanRuns ==
    ASSUME NEW ctx, NEW sources, NEW commits, IsClean(ResolveRun(ctx, sources, commits))
    PROVE  Cardinality({o.result : o \in sources} \cap Verdicts) <= 1
<1> DEFINE verdicts == {o \in sources : o.result \in Verdicts}
           results == {o.result : o \in verdicts}
<1>1. ~(Cardinality(results) > 1)
  BY DEF IsClean, ResolveRun, Lineage
<1>2. results = {o.result : o \in sources} \cap Verdicts
  OBVIOUS
<1>3. IsFiniteSet(Verdicts)
  <2>1. IsFiniteSet({"passed"} \cup {"failed"}) /\ Verdicts = {"passed"} \cup {"failed"}
    BY FS_Singleton, FS_AddElement DEF Verdicts
  <2> QED
    BY <2>1
<1> HIDE DEF results
<1>4. Cardinality(results) \in Nat
  BY <1>2, <1>3, FS_Subset, FS_CardinalityType
<1> QED
  BY <1>1, <1>2, <1>4

LEMMA AsOf ==
    ASSUME NEW F, NEW t
    PROVE  Context(F, t).asOf = t
BY ContextFields DEF Context

\* What a run that both reads resolve may have changed
LEMMA RunsStay ==
    ASSUME StateInv, NEW t, NEW f \in Latest(t), NEW run \in Runs(Visible \ {f}, t)
    PROVE  MayBecome(RunResolution(Visible \ {f}, Context(Before(f), t), run),
                     RunResolution(Visible, ContextAt(t), run))
<1> DEFINE before == Context(Before(f), t)
           after == ContextAt(t)
           old == RunOutcomes(Visible \ {f}, t, run)
           new == RunOutcomes(Visible, t, run)
           oldCommits == RunCommits(before, old)
           newCommits == RunCommits(after, new)
           oldRun == ResolveRun(before, old, oldCommits)
           newRun == ResolveRun(after, new, newCommits)
<1>1. /\ RunResolution(Visible \ {f}, before, run) = oldRun
      /\ RunResolution(Visible, after, run) = newRun
  BY AsOf DEF RunResolution, ContextAt
<1>2. old \subseteq new /\ old # {}
  BY DEF RunOutcomes, Outcomes, Through, Runs
<1>3. \A o \in new : o \in Visible /\ o.table = "ci_outcomes" /\ o.id \in Nat /\ o.attempt \in Nat
  BY PopulationAssumption DEF RunOutcomes, Outcomes, Through, StateInv, Visible
<1>4. IsFiniteSet(new) /\ IsFiniteSet(old)
  <2>1. new \subseteq Visible
    BY <1>3
  <2> HIDE DEF new, old
  <2> QED
    BY <1>2, <2>1, FiniteReads, FS_Subset
<1> SUFFICES ASSUME oldRun.status = "resolved", newRun.status = "resolved"
             PROVE  /\ newRun.commits = oldRun.commits
                    /\ oldRun.lineage.verdict \notin {None, newRun.lineage.verdict}
                          => newRun.lineage.attempt > oldRun.lineage.attempt
  BY <1>1 DEF MayBecome
<1>5. /\ ~Incomplete(before, old) /\ ~Incomplete(after, new)
      /\ Consistent(new)
      /\ Cardinality(oldCommits) = 1 /\ Cardinality(newCommits) = 1
      /\ oldRun = [status |-> "resolved", commits |-> oldCommits, lineage |-> Lineage(old)]
      /\ newRun = [status |-> "resolved", commits |-> newCommits, lineage |-> Lineage(new)]
  BY DEF ResolveRun
<1>6. newCommits = oldCommits
  <2>1. PICK o \in old : TRUE
    BY <1>2
  <2>2. IndexedKey(before, o) # None /\ IndexedKey(after, o) # None
    BY <1>2, <1>5, <2>1 DEF Incomplete
  <2>3. IndexedKey(before, o) = IndexedKey(after, o)
    <3>1. "repo" \in Roles(o)
      BY DEF Roles
    <3> QED
      BY <2>2, <3>1, FactsStay DEF IndexedKey
  <2> DEFINE c == Commit(IndexedKey(before, o), o.commit)
  <2>4. c.repository # None
    BY <2>2 DEF Commit
  <2> HIDE DEF before, after, old, new
  <2>5. c \in oldCommits
    BY <2>1, <2>4 DEF RunCommits
  <2>6. c \in newCommits
    BY <1>2, <2>1, <2>3, <2>4 DEF RunCommits
  <2>7. IsFiniteSet(oldCommits) /\ IsFiniteSet(newCommits)
    <3> DEFINE commit(ctx, S) == [p \in S |-> Commit(IndexedKey(ctx, p), p.commit)]
               image(ctx, S) == {commit(ctx, S)[p] : p \in S}
    <3>1. IsFiniteSet(image(before, old)) /\ IsFiniteSet(image(after, new))
      BY <1>4, FiniteImage
    <3>2. oldCommits \subseteq image(before, old) /\ newCommits \subseteq image(after, new)
      BY DEF RunCommits
    <3> QED
      BY <3>1, <3>2, FS_Subset
  <2> HIDE DEF oldCommits, newCommits, c
  <2>8. oldCommits = {c} /\ newCommits = {c}
    BY <1>5, <2>5, <2>6, <2>7, FS_Singleton
  <2> QED
    BY <2>8
<1>7. ASSUME Lineage(old).verdict \notin {None, Lineage(new).verdict}
      PROVE  Lineage(new).attempt > Lineage(old).attempt
  <2> DEFINE reds == {o \in old : o.result \in Verdicts}
             greens == {o \in new : o.result \in Verdicts}
             o == LastOutcome(reds)
             n == LastOutcome(greens)
  <2> HIDE DEF old, new
  <2>1. reds # {} /\ reds \subseteq greens
    BY <1>2, <1>7 DEF Lineage
  <2>2. /\ Lineage(old).verdict = o.result /\ Lineage(old).attempt = o.attempt
        /\ Lineage(new).verdict = n.result /\ Lineage(new).attempt = n.attempt
    BY <2>1 DEF Lineage
  <2>3. o \in reds
    <3>1. IsFiniteSet(reds) /\ \A p \in reds : p.id \in Nat /\ p.attempt \in Nat
      BY <1>2, <1>3, <1>4, FS_Subset
    <3> HIDE DEF reds
    <3> QED
      BY <2>1, <3>1, LastOutcomes
  <2>4. n \in greens /\ \A p \in greens : Ordered(p, n)
    <3>1. IsFiniteSet(greens) /\ greens # {} /\ \A p \in greens : p.id \in Nat /\ p.attempt \in Nat
      BY <1>3, <1>4, <2>1, FS_Subset
    <3> HIDE DEF greens
    <3> QED
      BY <3>1, LastOutcomes
  <2> HIDE DEF o, n
  <2>5. o \in new /\ n \in new /\ Ordered(o, n) /\ o.result # n.result
    BY <1>2, <1>7, <2>1, <2>2, <2>3, <2>4
  <2>6. o.attempt # n.attempt
    BY <1>5, <2>5 DEF Consistent
  <2>7. o.attempt \in Nat /\ n.attempt \in Nat
    BY <1>3, <2>5
  <2> QED
    BY <2>2, <2>5, <2>6, <2>7 DEF Ordered
<1> HIDE DEF oldCommits, newCommits
<1> QED
  BY <1>5, <1>6, <1>7

(* A run whose visible attempts disagree is never clean, and the last Fact  *)
(* changes neither the commit of a run nor, but by a later attempt, its     *)
(* verdict, for every history of runs.                                      *)
THEOREM RunHistoriesAreHonest == Spec => []RunHistoryIsHonest
<1>1. StateInv => RunHistoryIsHonest
  <2> SUFFICES ASSUME StateInv, NEW t \in Boundaries
               PROVE  LET now == RunResolutions(Visible, ContextAt(t)) IN
                      /\ \A run \in Runs(Visible, t) : IsClean(now[run]) =>
                          Cardinality({o.result : o \in RunOutcomes(Visible, t, run)}
                                        \cap Verdicts) <= 1
                      /\ \A f \in Latest(t) :
                          LET earlier == Visible \ {f} IN
                          \A run \in Runs(earlier, t) :
                              MayBecome(RunResolution(earlier, Context(earlier \cup supplied, t),
                                                      run), now[run])
    BY DEF RunHistoryIsHonest
  <2> DEFINE now == RunResolutions(Visible, ContextAt(t))
  <2>1. ContextAt(t).asOf = t
    BY ContextFields DEF ContextAt, Context
  <2>2. \A run \in Runs(Visible, t) : now[run] = RunResolution(Visible, ContextAt(t), run)
    BY <2>1 DEF RunResolutions
  <2> HIDE DEF now
  <2>3. ASSUME NEW run \in Runs(Visible, t), IsClean(now[run])
        PROVE  Cardinality({o.result : o \in RunOutcomes(Visible, t, run)} \cap Verdicts) <= 1
    <3>1. IsClean(ResolveRun(ContextAt(t), RunOutcomes(Visible, t, run),
                             RunCommits(ContextAt(t), RunOutcomes(Visible, t, run))))
      BY <2>1, <2>2, <2>3 DEF RunResolution
    <3> QED
      BY <3>1, CleanRuns
  <2>4. ASSUME NEW f \in Latest(t), NEW run \in Runs(Visible \ {f}, t)
        PROVE  MayBecome(RunResolution(Visible \ {f}, Context((Visible \ {f}) \cup supplied, t),
                                       run), now[run])
    <3>1. run \in Runs(Visible, t)
      BY DEF Runs, Outcomes, Through
    <3> QED
      BY <2>2, <3>1, RunsStay DEF Before
  <2> QED
    BY <2>3, <2>4 DEF now
<1> QED
  BY <1>1, StateInvariant, PTL

-----------------------------------------------------------------------------
(* Merges                                                                  *)

\* A Fact about a repository that is no observation
IsPlain(g) == g.table \in EvidenceTables \ {"session_commit_observations"}

\* The last Fact contradicts no row that was visible before it
LEMMA RowsKept ==
    ASSUME StateInv, NEW t, NEW f \in Latest(t), NEW g \in Visible \ {f},
           NEW role \in Roles(g), RowOf(g, role) \in SourcesOf(Rows(Before(f), t))
    PROVE  RowOf(g, role) \in SourcesOf(Rows(Visible \cup supplied, t))
<1> DEFINE r == RowOf(g, role)
           old == Rows(Before(f), t)
           new == Rows(Visible \cup supplied, t)
<1>1. old \subseteq new /\ r \in old
  BY RowsBefore DEF SourcesOf
<1>2. SUFFICES ASSUME NEW q \in new, SourceKey(q) = SourceKey(r) PROVE q = r
  <2> HIDE DEF old, new, r
  <2>1. SourceKey(r) \notin Conflicting(new)
    BY <1>2 DEF Conflicting
  <2> QED
    BY <1>1, <2>1 DEF SourcesOf, r, new
<1>3. PICK h \in Visible \cup supplied : h.table \in EvidenceTables /\ h.at <= t /\ q \in Evidence(h)
  BY DEF Rows
<1>4. q.table = h.table /\ q.id = h.id
  BY <1>3 DEF Evidence, Row
<1>5. h.table = g.table /\ h.id = g.id
  BY <1>2, <1>4, RoleRows DEF SourceKey
<1>6. h # f
  <2>1. f \in facts /\ g \in facts /\ f # g
    BY DEF Latest, Visible
  <2> QED
    BY <1>5, <2>1 DEF StateInv, Unique
<1>7. q \in old
  BY <1>3, <1>6 DEF Before, Rows
<1> HIDE DEF old, new, r
<1> QED
  BY <1>2, <1>7, OneRowPerSource DEF r, old

\* A plain Fact that resolved is where it was, or leaves its slug in doubt
LEMMA PlainFactsStay ==
    ASSUME StateInv, NEW t, NEW f \in Latest(t), NEW g \in Visible \ {f}, IsPlain(g), NEW key,
           key # None, ResolveFact(Context(Before(f), t), g, "repo").key = key
    PROVE  \/ ResolveFact(ContextAt(t), g, "repo").key = key
           \/ /\ ResolveFact(ContextAt(t), g, "repo").key = None
              /\ g.repo \in Names(ContextAt(t), key)
<1> DEFINE r == RowOf(g, "repo")
           s == <<g.table, g.id, "repo">>
           old == Rows(Before(f), t)
           new == Rows(Visible \cup supplied, t)
           fewer == Renames(Before(f), t)
           more == Renames(Visible \cup supplied, t)
           before == BuildContext(old, fewer, t)
           after == BuildContext(new, more, t)
<1>1. Context(Before(f), t) = before /\ ContextAt(t) = after
  BY DEF Context, ContextAt
<1>2. /\ "repo" \in Roles(g) /\ r.table = g.table /\ r.repo = g.repo /\ SourceKey(r) = s
      /\ r.table # "session_commit_observations"
  <2>1. "repo" \in Roles(g)
    BY DEF Roles
  <2>2. r = Row(g, "repo", g.repo, g.identity) /\ SourceKey(r) = s
    BY <2>1, RoleRows
  <2> QED
    BY <2>1, <2>2 DEF IsPlain, Row
<1>3. r \in SourcesOf(old) /\ ResolveSource(before, s).key = key
  BY <1>1, <1>2, FactResolution
<1>4. r \in SourcesOf(new)
  BY <1>2, <1>3, RowsKept
<1> HIDE DEF r, s, old, new, fewer, more
<1>5. r \in Naming(old) /\ key = KeyOf(ProofOf(old, r).identity, r.repo)
  BY <1>2, <1>3, RowResolution
<1>6. /\ ProofOf(old, r) = [identity |-> r.identity, reason |-> None]
      /\ ProofOf(new, r) = [identity |-> r.identity, reason |-> None]
  BY <1>2 DEF ProofOf, SourceIdentity
<1>7. r \in Naming(new)
  BY <1>4, <1>5, <1>6 DEF Naming
<1>8. r.repo \in Names(after, key)
  BY <1>5, <1>6, <1>7, NamedRows
<1> QED
  BY <1>1, <1>2, <1>8, FactsStay

\* A head that was in a pull request is in it, or can no longer be placed
LEMMA HeadsStay ==
    ASSUME NEW M, NEW key, NEW merge, NEW commit, NEW k, NEW j, NEW sha, None \notin DOMAIN M,
           HeadVerdict(M, key, merge, commit, <<k, sha>>) = "in", j \in {k, None}
    PROVE  HeadVerdict(M, key, merge, commit, <<j, sha>>) \in {"in", "unresolved"}
<1>1. CASE j = k
  BY <1>1
<1>2. CASE j = None
  BY <1>2 DEF HeadVerdict
<1> QED
  BY <1>1, <1>2

LEMMA StrongestVerdict ==
    ASSUME NEW verdicts
    PROVE  /\ Strongest(verdicts) = "in" <=> "in" \in verdicts
           /\ "unresolved" \in verdicts => Strongest(verdicts) \in {"in", "unresolved"}
           /\ Strongest(verdicts) \in {"in", "unresolved", "out"}
BY DEF Strongest

\* The names of merges, revisions and outcomes that resolve to nothing
LEMMA LeftOpen ==
    ASSUME NEW F, NEW t, NEW ctx, ctx.asOf = t, NEW g,
           \/ g \in Merges(F, t) \cup Revisions(F, t)
           \/ g \in Outcomes(F, t) /\ g.pr # None,
           ResolveFact(ctx, g, "repo").key = None
    PROVE  g.repo \in UnresolvedNames(F, ctx)
BY DEF UnresolvedNames

\* A merge that has the commit still has it, or it is open whether it does, if no
\* name of the repository is left open
LEMMA MergesStay ==
    ASSUME StateInv, NEW t, NEW f \in Latest(t), NEW M, None \notin DOMAIN M,
           NEW key, key # None, NEW commit,
           NEW m \in MergesOf(Visible \ {f}, Context(Before(f), t), key),
           Verdict(Visible \ {f}, Context(Before(f), t), M, key, commit, m) = "in",
           UnresolvedNames(Visible, ContextAt(t)) \cap Names(ContextAt(t), key) = {}
    PROVE  /\ m \in MergesOf(Visible, ContextAt(t), key)
           /\ Verdict(Visible, ContextAt(t), M, key, commit, m) \in {"in", "unresolved"}
<1> DEFINE before == Context(Before(f), t)
           after == ContextAt(t)
           less == Visible \ {f}
<1>1. before.asOf = t /\ after.asOf = t
  BY AsOf DEF ContextAt
<1>2. ASSUME NEW g,
             \/ g \in Merges(less, t) \cup Revisions(less, t)
             \/ g \in Outcomes(less, t) /\ g.pr # None,
             ResolveFact(before, g, "repo").key = key
      PROVE  ResolveFact(after, g, "repo").key = key
  <2>1. /\ g \in less /\ IsPlain(g)
        /\ \/ g \in Merges(Visible, t) \cup Revisions(Visible, t)
           \/ g \in Outcomes(Visible, t) /\ g.pr # None
    BY <1>2 DEF Merges, Revisions, Outcomes, Through, IsPlain, EvidenceTables, PullRequestTables
  <2>2. ResolveFact(after, g, "repo").key = None => g.repo \in UnresolvedNames(Visible, after)
    BY <1>1, <2>1, LeftOpen
  <2> QED
    BY <1>2, <2>1, <2>2, PlainFactsStay
<1>3. /\ m \in Merges(less, t) /\ ResolveFact(before, m, "repo").key = key
      /\ m \in Visible /\ m.table = "pull_request_merges" /\ m.pr # None
  BY <1>1, PopulationAssumption DEF MergesOf, Merges, Through, Visible, StateInv
<1>4. m \in MergesOf(Visible, after, key)
  BY <1>1, <1>2, <1>3 DEF MergesOf, Merges, Through
<1>5. CASE CIMember(less, before, key, commit, m.pr)
  <2>1. PICK o \in Outcomes(less, t) :
          o.pr = m.pr /\ o.commit = commit /\ ResolveFact(before, o, "repo").key = key
    BY <1>1, <1>5 DEF CIMember
  <2>2. ResolveFact(after, o, "repo").key = key
    BY <1>2, <1>3, <2>1
  <2>3. o \in Outcomes(Visible, t)
    BY <2>1 DEF Outcomes, Through
  <2>4. CIMember(Visible, after, key, commit, m.pr)
    BY <1>1, <2>1, <2>2, <2>3 DEF CIMember
  <2> QED
    BY <1>4, <2>4 DEF Verdict
<1>6. CASE ~CIMember(less, before, key, commit, m.pr)
  <2> DEFINE oldHeads == Heads(less, before, key, m)
             newHeads == Heads(Visible, after, key, m)
  <2>1. PICK h \in oldHeads : HeadVerdict(M, key, m, commit, h) = "in"
    <3>1. Strongest({HeadVerdict(M, key, m, commit, h) : h \in oldHeads}) = "in"
      BY <1>6 DEF Verdict
    <3> HIDE DEF oldHeads
    <3> QED
      BY <3>1, StrongestVerdict
  <2>2. ASSUME NEW g \in Visible, g.table \in PullRequestTables, NEW sha,
               h = <<ResolveFact(before, g, "head_repo").key, sha>>,
               <<ResolveFact(after, g, "head_repo").key, sha>> \in newHeads
        PROVE  \E n \in newHeads : HeadVerdict(M, key, m, commit, n) \in {"in", "unresolved"}
    <3> DEFINE k == ResolveFact(before, g, "head_repo").key
               j == ResolveFact(after, g, "head_repo").key
    <3>1. k # None
      BY <2>1, <2>2 DEF HeadVerdict
    <3>2. j \in {k, None}
      <4>1. "head_repo" \in Roles(g)
        BY <2>2 DEF Roles
      <4> QED
        BY <3>1, <4>1, FactsStay
    <3> HIDE DEF k, j
    <3>3. HeadVerdict(M, key, m, commit, <<j, sha>>) \in {"in", "unresolved"}
      BY <2>1, <2>2, <3>2, HeadsStay DEF k
    <3> QED
      BY <2>2, <3>3 DEF j
  <2>3. \E n \in newHeads : HeadVerdict(M, key, m, commit, n) \in {"in", "unresolved"}
    <3>1. CASE h = <<ResolveFact(before, m, "head_repo").key, m.head>>
      <4>1. <<ResolveFact(after, m, "head_repo").key, m.head>> \in newHeads
        BY DEF Heads
      <4>2. m \in Visible /\ m.table \in PullRequestTables
        BY <1>3 DEF PullRequestTables
      <4> QED
        BY <2>2, <3>1, <4>1, <4>2
    <3>2. CASE h # <<ResolveFact(before, m, "head_repo").key, m.head>>
      <4>a. PICK r \in Revisions(less, t) :
              /\ r.pr = m.pr /\ ResolveFact(before, r, "repo").key = key
              /\ h \in {<<ResolveFact(before, r, "head_repo").key, sha>> :
                         sha \in {r.head, r.previous} \ {None}}
        BY <1>1, <2>1, <3>2 DEF Heads
      <4>1. PICK sha \in {r.head, r.previous} \ {None} :
              h = <<ResolveFact(before, r, "head_repo").key, sha>>
        BY <4>a
      <4>2. ResolveFact(after, r, "repo").key = key
        BY <1>2, <4>a
      <4>3. r \in Revisions(Visible, t) /\ r \in Visible /\ r.table \in PullRequestTables
        BY <4>1 DEF Revisions, Through, PullRequestTables
      <4>4. <<ResolveFact(after, r, "head_repo").key, sha>> \in newHeads
        BY <1>1, <4>a, <4>1, <4>2, <4>3 DEF Heads
      <4> QED
        BY <2>2, <4>1, <4>3, <4>4
    <3> QED
      BY <3>1, <3>2
  <2> HIDE DEF newHeads
  <2>4. Strongest({HeadVerdict(M, key, m, commit, n) : n \in newHeads}) \in {"in", "unresolved"}
    BY <2>3, StrongestVerdict
  <2> QED
    BY <1>4, <2>4 DEF Verdict, newHeads
<1> QED
  BY <1>5, <1>6

\* A membership stands, or is in doubt, when the merges that had the commit have it
LEMMA JoinsHold ==
    ASSUME NEW old, NEW new, NEW unnamed, NEW unnamedNow,
           IsFiniteSet(DOMAIN old), IsFiniteSet(DOMAIN new),
           MembershipBy(new, unnamedNow).status # "ancestry_unresolved" =>
              \A m \in DOMAIN old : old[m] = "in" => m \in DOMAIN new /\ new[m] = "in"
    PROVE  HoldsWithFact(MembershipBy(old, unnamed), MembershipBy(new, unnamedNow))
<1> DEFINE has == {m \in DOMAIN old : old[m] = "in"}
           hasNow == {m \in DOMAIN new : new[m] = "in"}
           before == MembershipBy(old, unnamed)
           after == MembershipBy(new, unnamedNow)
<1>1. IsFiniteSet(has) /\ IsFiniteSet(hasNow)
  BY FS_Subset
<1>2. /\ after.status # "ancestry_unresolved" => has \subseteq hasNow
      /\ before.status = "joined" =>
            Cardinality(has) = 1 /\ before.merge = (CHOOSE m \in has : TRUE).id
            /\ before = [status |-> "joined", merge |-> (CHOOSE m \in has : TRUE).id]
      /\ before.status = "ambiguous" => has # {} /\ Cardinality(has) # 1
      /\ \/ after.status = "ancestry_unresolved"
         \/ after.status = "without_merge" /\ hasNow = {}
         \/ after.status = "ambiguous" /\ hasNow # {} /\ Cardinality(hasNow) # 1
         \/ /\ hasNow # {} /\ Cardinality(hasNow) = 1
            /\ after = [status |-> "joined", merge |-> (CHOOSE m \in hasNow : TRUE).id]
  BY DEF MembershipBy
<1> HIDE DEF has, hasNow, before, after
<1>3. has # {} /\ has \subseteq hasNow /\ Cardinality(hasNow) = 1 => has = hasNow
  BY <1>1, FS_Singleton
<1>4. Cardinality(has) = 1 => has # {}
  BY <1>1, FS_Singleton
<1>5. before.status = "joined" =>
        after = before \/ after.status \in {"ambiguous", "ancestry_unresolved"}
  BY <1>2, <1>3, <1>4
<1>6. before.status = "ambiguous" => after.status \in {"ambiguous", "ancestry_unresolved"}
  BY <1>2, <1>3
<1> QED
  BY <1>5, <1>6 DEF HoldsWithFact, before, after

LEMMA HeadsDecided ==
    ASSUME NEW M, NEW N, DOMAIN M \subseteq DOMAIN N, \A k \in DOMAIN M : N[k] = M[k],
           NEW key, NEW merge, NEW commit, NEW h,
           HeadVerdict(M, key, merge, commit, h) # "unresolved"
    PROVE  HeadVerdict(N, key, merge, commit, h) = HeadVerdict(M, key, merge, commit, h)
<1>1. {h[1], key} \subseteq DOMAIN M
  BY DEF HeadVerdict
<1>2. N[h[1]] = M[h[1]] /\ N[key] = M[key] /\ {h[1], key} \subseteq DOMAIN N
  BY <1>1
<1> QED
  BY <1>1, <1>2 DEF HeadVerdict

\* More mirrors change nothing that is decided
LEMMA MirrorsDecide ==
    ASSUME NEW M, NEW N, DOMAIN M \subseteq DOMAIN N, \A k \in DOMAIN M : N[k] = M[k],
           NEW F, NEW ctx, NEW key, NEW commit
    PROVE  HoldsWithMirror(Membership(F, ctx, M, key, commit), Membership(F, ctx, N, key, commit))
<1> DEFINE merges == MergesOf(F, ctx, key)
           old == [m \in merges |-> Verdict(F, ctx, M, key, commit, m)]
           new == [m \in merges |-> Verdict(F, ctx, N, key, commit, m)]
           unnamed == UnresolvedNames(F, ctx) \cap Names(ctx, key)
<1>1. /\ Membership(F, ctx, M, key, commit) = MembershipBy(old, unnamed)
      /\ Membership(F, ctx, N, key, commit) = MembershipBy(new, unnamed)
  BY DEF Membership
<1>2. ASSUME NEW m, Verdict(F, ctx, M, key, commit, m) # "unresolved"
      PROVE  Verdict(F, ctx, N, key, commit, m) = Verdict(F, ctx, M, key, commit, m)
  <2>1. CASE CIMember(F, ctx, key, commit, m.pr)
    BY <2>1 DEF Verdict
  <2>2. CASE ~CIMember(F, ctx, key, commit, m.pr)
    <3> DEFINE heads == Heads(F, ctx, key, m)
               was == {HeadVerdict(M, key, m, commit, h) : h \in heads}
               is == {HeadVerdict(N, key, m, commit, h) : h \in heads}
    <3>1. /\ Verdict(F, ctx, M, key, commit, m) = Strongest(was)
          /\ Verdict(F, ctx, N, key, commit, m) = Strongest(is)
      BY <2>2 DEF Verdict
    <3> HIDE DEF heads
    <3>2. \A h \in heads : HeadVerdict(M, key, m, commit, h) # "unresolved" =>
            HeadVerdict(N, key, m, commit, h) = HeadVerdict(M, key, m, commit, h)
      BY HeadsDecided
    <3>3. "in" \in was => "in" \in is
      BY <3>2
    <3>4. "unresolved" \notin was => is = was
      BY <3>2
    <3> HIDE DEF was, is
    <3> QED
      BY <1>2, <3>1, <3>3, <3>4 DEF Strongest
  <2> QED
    BY <2>1, <2>2
<1>3. ASSUME MembershipBy(old, unnamed).status # "ancestry_unresolved"
      PROVE  new = old
  <2>1. \A m \in DOMAIN old : old[m] # "unresolved"
    <3> HIDE DEF old
    <3> QED
      BY <1>3 DEF MembershipBy
  <2>2. \A m \in merges : new[m] = old[m]
    BY <1>2, <2>1
  <2> QED
    BY <2>2
<1> HIDE DEF old, new, unnamed
<1> QED
  BY <1>1, <1>3 DEF HoldsWithMirror

LEMMA AttributedFields ==
    ASSUME NEW mirror, NEW key, NEW push, NEW commit, NEW org, NEW noted,
           NEW a \in AttributeCommit(mirror, key, push, commit, org, noted)
    PROVE  a.key = key /\ a.commit = commit /\ a.push = push.id
BY DEF AttributeCommit

\* Only repositories with a mirror have attributions
LEMMA AttributedKeys ==
    ASSUME NEW F, NEW ctx, NEW M, NEW pushes, NEW notes,
           NEW a \in Attributions(F, ctx, M, pushes, notes)
    PROVE  a.key \in DOMAIN M
<1>1. PICK o \in Owned(M, ResolvedPushes(ctx, pushes)) :
        a \in AttributeCommit(M[o[1]], o[1], o[3], o[2],
                              Window(Calls(F, ctx.asOf), o[3], JaccardLookback),
                              {c \in Window(Calls(F, ctx.asOf), o[3], NotesLookback) :
                                    c.session \in notes[<<o[1], o[2]>>]})
  BY DEF Attributions
<1>2. a.key = o[1]
  BY <1>1, AttributedFields
<1>3. o[1] \in DOMAIN M
  BY DEF Owned
<1> QED
  BY <1>2, <1>3

LEMMA MemberOutcomes ==
    ASSUME NEW F, NEW ctx, NEW M, NEW o \in Memberships(F, ctx, M)
    PROVE  /\ o.key \in DOMAIN M
           /\ o.outcome = Membership(F, ctx, M, o.key, o.commit)
<1>1. PICK q \in Qualified(F, ctx, M) :
        o = [key |-> q.key, commit |-> q.commit, outcome |-> Membership(F, ctx, M, q.key, q.commit)]
  BY DEF Memberships
<1>2. q.key \in DOMAIN M
  BY AttributedKeys DEF Qualified
<1> QED
  BY <1>1, <1>2

\* The last Fact does not hand a commit to another merge
LEMMA MembershipsStay ==
    ASSUME StateInv, NEW t, NEW f \in Latest(t), NEW M, None \notin DOMAIN M,
           NEW key \in DOMAIN M, NEW commit
    PROVE  HoldsWithFact(Membership(Visible \ {f}, Context(Before(f), t), M, key, commit),
                         Membership(Visible, ContextAt(t), M, key, commit))
<1> DEFINE before == Context(Before(f), t)
           after == ContextAt(t)
           less == Visible \ {f}
           had == MergesOf(less, before, key)
           has == MergesOf(Visible, after, key)
           old == [m \in had |-> Verdict(less, before, M, key, commit, m)]
           new == [m \in has |-> Verdict(Visible, after, M, key, commit, m)]
           unnamed == UnresolvedNames(less, before) \cap Names(before, key)
           unnamedNow == UnresolvedNames(Visible, after) \cap Names(after, key)
<1>1. /\ Membership(less, before, M, key, commit) = MembershipBy(old, unnamed)
      /\ Membership(Visible, after, M, key, commit) = MembershipBy(new, unnamedNow)
  BY DEF Membership
<1>2. IsFiniteSet(DOMAIN old) /\ IsFiniteSet(DOMAIN new)
  <2>1. had \subseteq Visible /\ has \subseteq Visible
    BY DEF MergesOf, Merges, Through
  <2> HIDE DEF had, has
  <2> QED
    BY <2>1, FiniteReads, FS_Subset
<1>3. ASSUME MembershipBy(new, unnamedNow).status # "ancestry_unresolved",
             NEW m \in had, Verdict(less, before, M, key, commit, m) = "in"
      PROVE  m \in has /\ Verdict(Visible, after, M, key, commit, m) = "in"
  <2>1. unnamedNow = {} /\ \A n \in DOMAIN new : new[n] # "unresolved"
    <3> HIDE DEF new, unnamedNow
    <3> QED
      BY <1>3 DEF MembershipBy
  <2>2. /\ m \in has
        /\ Verdict(Visible, after, M, key, commit, m) \in {"in", "unresolved"}
    BY <1>3, <2>1, MergesStay
  <2>3. new[m] = Verdict(Visible, after, M, key, commit, m) /\ m \in DOMAIN new
    BY <2>2
  <2> QED
    BY <2>1, <2>2, <2>3
<1>4. \A m \in DOMAIN old : old[m] = Verdict(less, before, M, key, commit, m) /\ m \in had
  OBVIOUS
<1>5. \A m \in has : new[m] = Verdict(Visible, after, M, key, commit, m) /\ m \in DOMAIN new
  OBVIOUS
<1> HIDE DEF before, after, old, new, unnamed, unnamedNow, had, has
<1>6. MembershipBy(new, unnamedNow).status # "ancestry_unresolved" =>
        \A m \in DOMAIN old : old[m] = "in" => m \in DOMAIN new /\ new[m] = "in"
  BY <1>3, <1>4, <1>5
<1> QED
  BY <1>1, <1>2, <1>6, JoinsHold DEF before, after

(* A commit joined to a merge stays with it or is in doubt, whatever Fact    *)
(* becomes visible last, and what was decided without a mirror stands when  *)
(* the mirror is there.                                                     *)
THEOREM MembershipsHold == Spec => []MembershipHolds
<1>1. StateInv => MembershipHolds
  <2> SUFFICES ASSUME StateInv PROVE MembershipHolds
    OBVIOUS
  <2> DEFINE M(keys) == [k \in keys |-> population.objects[k]]
             Members(F, keys, t) == Memberships(F, Context(F \cup supplied, t), M(keys))
  <2>1. None \notin mirrored
    BY PopulationAssumption DEF StateInv
  <2>2. ASSUME NEW t \in Boundaries, NEW f \in Latest(t),
               NEW o \in Members(Visible \ {f}, mirrored, t),
               NEW n \in Members(Visible, mirrored, t), SameCommit(o, n)
        PROVE  HoldsWithFact(o.outcome, n.outcome)
    <3>1. /\ o.key \in DOMAIN M(mirrored)
          /\ o.outcome = Membership(Visible \ {f}, Context(Before(f), t), M(mirrored),
                                    o.key, o.commit)
          /\ n.outcome = Membership(Visible, ContextAt(t), M(mirrored), n.key, n.commit)
      BY MemberOutcomes DEF Before, ContextAt
    <3>2. DOMAIN M(mirrored) = mirrored
      OBVIOUS
    <3>3. o.key = n.key /\ o.commit = n.commit
      BY <2>2 DEF SameCommit
    <3> HIDE DEF M
    <3> QED
      BY <2>1, <3>1, <3>2, <3>3, MembershipsStay
  <2>3. ASSUME NEW t \in Boundaries, NEW k \in mirrored,
               NEW o \in Members(Visible, mirrored \ {k}, t),
               NEW n \in Members(Visible, mirrored, t), SameCommit(o, n)
        PROVE  HoldsWithMirror(o.outcome, n.outcome)
    <3>1. /\ o.outcome = Membership(Visible, Context(Visible \cup supplied, t), M(mirrored \ {k}),
                                    o.key, o.commit)
          /\ n.outcome = Membership(Visible, Context(Visible \cup supplied, t), M(mirrored),
                                    n.key, n.commit)
      BY MemberOutcomes
    <3>2. /\ DOMAIN M(mirrored \ {k}) \subseteq DOMAIN M(mirrored)
          /\ \A j \in DOMAIN M(mirrored \ {k}) : M(mirrored)[j] = M(mirrored \ {k})[j]
      OBVIOUS
    <3>3. o.key = n.key /\ o.commit = n.commit
      BY <2>3 DEF SameCommit
    <3> HIDE DEF M
    <3> QED
      BY <3>1, <3>2, <3>3, MirrorsDecide
  <2>4. \A t \in Boundaries : \A f \in Latest(t) : Visible \ {f} # Visible
    BY DEF Latest
  <2> QED
    BY <2>2, <2>3, <2>4 DEF MembershipHolds
<1> QED
  BY <1>1, StateInvariant, PTL

-----------------------------------------------------------------------------
(* Decisions                                                               *)

\* A Decision that is subsumed has one that stands for it, and is not subsumed
LEMMA StandsFor ==
    ASSUME NEW D, NEW d \in D
    PROVE  \E e \in D : /\ ~Subsumed(e, D)
                        /\ e.session = d.session /\ e.verdict = d.verdict
                        /\ e.occurred = d.occurred /\ e.call = d.call
<1>1. CASE ~Subsumed(d, D)
  BY <1>1
<1>2. CASE Subsumed(d, D)
  <2>1. PICK e \in D : e.path # None /\ SameDecision(d, e)
    BY <1>2 DEF Subsumed
  <2>2. ~Subsumed(e, D)
    BY <2>1 DEF Subsumed
  <2> QED
    BY <2>1, <2>2 DEF SameDecision
<1> QED
  BY <1>1, <1>2

(* No Decision that reaches one call of its Session is dropped for one with *)
(* another verdict, and the two programs that join Decisions agree.         *)
THEOREM DecisionsCount == Spec => []DecisionsKeepTheirVerdict
<1>1. DecisionsKeepTheirVerdict
  <2> SUFFICES ASSUME NEW t \in Boundaries
               PROVE  LET calls == Calls(Visible, t)
                          decisions == Decisions(Visible, t)
                          org == Joined(calls, decisions)
                          own(s) == Joined({c \in calls : c.session = s},
                                           {d \in decisions : d.session = s})
                      IN  /\ \A d \in decisions : \A c \in calls :
                              Reaches(d, {e \in calls : e.session = d.session}) = {c} =>
                                  \E j \in own(d.session) :
                                      /\ j[2] = c /\ j[1].verdict = d.verdict
                                      /\ j[1].occurred = d.occurred
                          /\ \A j \in org : j \in own(j[1].session)
    BY Zenon DEF DecisionsKeepTheirVerdict
  <2> DEFINE calls == Calls(Visible, t)
             decisions == Decisions(Visible, t)
             callsOf(s) == {c \in calls : c.session = s}
             decisionsOf(s) == {d \in decisions : d.session = s}
  <2> HIDE DEF calls, decisions
  <2>1. ASSUME NEW d \in decisions, NEW c \in calls, Reaches(d, callsOf(d.session)) = {c}
        PROVE  \E j \in Joined(callsOf(d.session), decisionsOf(d.session)) :
                  j[2] = c /\ j[1].verdict = d.verdict /\ j[1].occurred = d.occurred
    <3> DEFINE mine == decisionsOf(d.session)
    <3>1. d \in mine
      OBVIOUS
    <3>2. PICK e \in mine : /\ ~Subsumed(e, mine) /\ e.session = d.session
                            /\ e.verdict = d.verdict /\ e.occurred = d.occurred /\ e.call = d.call
      BY <3>1, StandsFor
    <3>3. Reaches(e, callsOf(d.session)) = {c}
      BY <2>1, <3>2 DEF Reaches
    <3>4. c \in callsOf(d.session)
      BY <2>1 DEF Reaches
    <3> HIDE DEF mine
    <3>5. <<e, c>> \in Joined(callsOf(d.session), mine)
      BY <3>2, <3>3, <3>4 DEF Joined
    <3> QED
      BY <3>2, <3>5 DEF mine
  <2>2. ASSUME NEW j \in Joined(calls, decisions)
        PROVE  j \in Joined(callsOf(j[1].session), decisionsOf(j[1].session))
    <3> DEFINE s == j[1].session
    <3>1. /\ j[1] \in decisions /\ j[2] \in calls /\ j = <<j[1], j[2]>>
          /\ ~Subsumed(j[1], decisions)
          /\ Reaches(j[1], calls) = {j[2]} /\ j[2].session = s
      BY DEF Joined
    <3>2. j[1] \in decisionsOf(s) /\ j[2] \in callsOf(s)
      BY <3>1
    <3>3. ~Subsumed(j[1], decisionsOf(s))
      BY <3>1 DEF Subsumed
    <3>4. Reaches(j[1], callsOf(s)) = {j[2]}
      BY <3>1, <3>2 DEF Reaches
    <3> HIDE DEF callsOf, decisionsOf
    <3> QED
      BY <3>1, <3>2, <3>3, <3>4 DEF Joined
  <2> QED
    BY <2>1, <2>2 DEF calls, decisions
<1> QED
  BY <1>1, PTL

-----------------------------------------------------------------------------
(* Recoveries                                                              *)

\* The check of an entry that the stream of t has for an outcome
StreamAt(t) == Stream(Visible, ContextAt(t), RunResolutions(Visible, ContextAt(t)))

\* What the stream knows of an entry: its run is no flake, its commit has the
\* verdict of its outcome, and the outcome identifies it
LEMMA StreamEntries ==
    ASSUME StateInv, NEW t, NEW e \in StreamAt(t)
    PROVE  LET ctx == ContextAt(t)
               R == RunResolutions(Visible, ctx)
               run == RunKey(e.outcome)
               sources == RunOutcomes(Visible, t, run)
           IN  /\ e = Entry(ctx, sources, VerdictOutcome(sources))
               /\ e.outcome \in sources
               /\ \A o \in sources : o.result \in Verdicts => o.result = e.outcome.result
               /\ CIResolutions(Visible, ctx)[Commit(e.check[1], e.outcome.commit)].verdict
                     = e.outcome.result
<1> DEFINE ctx == ContextAt(t)
           R == RunResolutions(Visible, ctx)
           src(run) == RunOutcomes(Visible, t, run)
<1>1. ctx.asOf = t
  BY AsOf DEF ContextAt
<1>2. PICK run \in DOMAIN R : Trusted(R, run) /\ e = Entry(ctx, src(run), VerdictOutcome(src(run)))
  BY <1>1 DEF StreamAt, Stream
<1>3. /\ DOMAIN R = Runs(Visible, t)
      /\ \A r \in DOMAIN R : R[r] = ResolveRun(ctx, src(r), RunCommits(ctx, src(r)))
  BY <1>1 DEF RunResolutions, RunResolution
<1> DEFINE sources == src(run)
           verdicts == {o \in sources : o.result \in Verdicts}
           commits == RunCommits(ctx, sources)
           o == LastOutcome(verdicts)
           c == Commit(IndexedKey(ctx, o), o.commit)
<1>4. /\ sources \subseteq Visible
      /\ \A p \in sources : p.id \in Nat /\ p.attempt \in Nat /\ RunKey(p) = run
  BY PopulationAssumption DEF RunOutcomes, Outcomes, Through, StateInv, Visible
<1>5. IsFiniteSet(sources)
  <2> HIDE DEF sources
  <2> QED
    BY <1>4, FiniteReads, FS_Subset
<1> HIDE DEF R, ctx, src
<1>6. /\ R[run].status = "resolved" /\ R[run].lineage.verdict # None /\ ~R[run].lineage.flake
      /\ \A d \in R[run].commits : CommitResolution(R, d).verdict # None
  BY <1>2 DEF Trusted
<1>7. /\ ~Incomplete(ctx, sources) /\ Cardinality(commits) = 1
      /\ R[run].commits = commits /\ R[run].lineage = Lineage(sources)
  BY <1>2, <1>3, <1>6 DEF ResolveRun
<1> HIDE DEF sources
<1>8. verdicts # {} /\ Lineage(sources).verdict = o.result
  BY <1>6, <1>7 DEF Lineage
<1>9. o \in verdicts
  <2>1. IsFiniteSet(verdicts) /\ \A p \in verdicts : p.id \in Nat /\ p.attempt \in Nat
    BY <1>4, <1>5, FS_Subset
  <2> HIDE DEF verdicts
  <2> QED
    BY <1>8, <2>1, LastOutcomes
<1>10. e.outcome = o /\ e.check[1] = IndexedKey(ctx, o) /\ RunKey(o) = run
  <2>1. VerdictOutcome(sources) = o
    BY DEF VerdictOutcome
  <2> QED
    BY <1>2, <1>4, <1>9, <2>1 DEF Entry, sources
<1>11. \A p \in sources : p.result \in Verdicts => p.result = o.result
  <2> DEFINE results == {p.result : p \in verdicts}
  <2>1. ~(Cardinality(results) > 1)
    <3>1. ~Lineage(sources).flake
      BY <1>6, <1>7
    <3>2. Lineage(sources).flake = (Cardinality(results) > 1)
      BY DEF Lineage
    <3> QED
      BY <3>1, <3>2
  <2>2. IsFiniteSet(results)
    <3>1. IsFiniteSet(Verdicts)
      <4>1. IsFiniteSet({"passed"} \cup {"failed"}) /\ Verdicts = {"passed"} \cup {"failed"}
        BY FS_Singleton, FS_AddElement DEF Verdicts
      <4> QED
        BY <4>1
    <3> QED
      BY <3>1, FS_Subset
  <2>3. o.result \in results /\ \A p \in sources : p.result \in Verdicts => p.result \in results
    BY <1>9
  <2> HIDE DEF results
  <2>4. Cardinality(results) \in Nat /\ results # {}
    BY <2>2, <2>3, FS_CardinalityType
  <2>5. Cardinality(results) = 1
    BY <2>1, <2>2, <2>4, FS_EmptySet
  <2> QED
    BY <2>2, <2>3, <2>5, FS_Singleton
<1>12. commits = {c}
  <2>1. c \in commits
    <3>1. IndexedKey(ctx, o) # None
      BY <1>7, <1>9 DEF Incomplete
    <3> QED
      BY <1>9, <3>1 DEF RunCommits, Commit
  <2>2. IsFiniteSet(commits)
    <3> DEFINE commit == [p \in sources |-> Commit(IndexedKey(ctx, p), p.commit)]
    <3>1. IsFiniteSet({commit[p] : p \in sources})
      BY <1>5, FiniteImage
    <3>2. commits \subseteq {commit[p] : p \in sources}
      BY DEF RunCommits
    <3> QED
      BY <3>1, <3>2, FS_Subset
  <2> HIDE DEF commits, c
  <2> QED
    BY <1>7, <2>1, <2>2, FS_Singleton
<1>13. CommitResolution(R, c).verdict = o.result
  <2> DEFINE lineages == LineagesOf(R, c)
             agreed == {l.verdict : l \in lineages} \ {None}
  <2>1. R[run].lineage \in lineages
    BY <1>2, <1>6, <1>7, <1>12 DEF LineagesOf
  <2>2. o.result \in agreed
    BY <1>6, <1>7, <1>8, <2>1
  <2>3. CommitResolution(R, c).verdict # None
    BY <1>6, <1>7, <1>12
  <2>4. Cardinality(agreed) = 1
        /\ CommitResolution(R, c).verdict = CHOOSE v \in agreed : TRUE
    BY <2>3 DEF CommitResolution
  <2>5. IsFiniteSet(agreed)
    <3> DEFINE ofRun == [r \in DOMAIN R |-> R[r].lineage.verdict]
    <3>1. IsFiniteSet(DOMAIN R)
      <4> DEFINE outcomes == Outcomes(Visible, t)
                 key == [p \in outcomes |-> RunKey(p)]
      <4>1. IsFiniteSet(outcomes)
        BY FiniteReads, FS_Subset DEF Outcomes, Through
      <4>2. IsFiniteSet({key[p] : p \in outcomes})
        BY <4>1, FiniteImage
      <4>3. DOMAIN R \subseteq {key[p] : p \in outcomes}
        BY <1>3 DEF Runs
      <4> QED
        BY <4>2, <4>3, FS_Subset
    <3>2. IsFiniteSet({ofRun[r] : r \in DOMAIN R})
      BY <3>1, FiniteImage
    <3>3. agreed \subseteq {ofRun[r] : r \in DOMAIN R}
      BY DEF LineagesOf
    <3> QED
      BY <3>2, <3>3, FS_Subset
  <2> HIDE DEF agreed
  <2>6. agreed = {o.result}
    BY <2>2, <2>4, <2>5, FS_Singleton
  <2> QED
    BY <2>4, <2>6
<1>14. CIResolutions(Visible, ctx)[c] = CommitResolution(R, c)
  <2>1. c \in ResolvedCommits(R)
    BY <1>2, <1>6, <1>7, <1>12 DEF ResolvedCommits
  <2> QED
    BY <2>1 DEF CIResolutions, CommitResolutions, R
<1>15. e = Entry(ctx, sources, VerdictOutcome(sources)) /\ RunOutcomes(Visible, t, run) = sources
  BY <1>2 DEF sources, src
<1> QED
  BY <1>9, <1>10, <1>11, <1>13, <1>14, <1>15 DEF ctx, c

\* Outcomes are ordered by their capture, and no two of a state are captured alike
LEMMA CaptureOrder ==
    ASSUME StateInv, NEW o \in Visible, NEW p \in Visible,
           o.table = "ci_outcomes", p.table = "ci_outcomes"
    PROVE  Earlier(o, p) \/ Earlier(p, o) \/ o = p
<1>1. o.id \in Nat /\ p.id \in Nat /\ o.at \in Nat /\ p.at \in Nat
  BY PopulationAssumption DEF StateInv, Visible
<1>2. o.id = p.id => o = p
  BY DEF StateInv, Visible, Unique
<1> QED
  BY <1>1, <1>2 DEF Earlier

(* A recovery pair is a change of a check from red to green that CI as a    *)
(* whole saw, and no red or green is spent twice.                           *)
THEOREM RecoveriesStayReal == Spec => []RecoveriesAreReal
<1>1. StateInv => RecoveriesAreReal
  <2> SUFFICES ASSUME StateInv, NEW t \in Boundaries
               PROVE  LET ctx == ContextAt(t) IN
                      AreReal(Recoveries(Visible, ctx, Mirrors), CIResolutions(Visible, ctx), t)
    BY DEF RecoveriesAreReal
  <2> DEFINE ctx == ContextAt(t)
             stream == StreamAt(t)
             ci == CIResolutions(Visible, ctx)
             rows == Attributions(Visible, ctx, Mirrors, Pushes(Visible, ctx.asOf),
                                  DefaultNotes(Visible, ctx, Mirrors))
             Fixes(p) == p \in Transitions(stream) /\ IsFix(Mirrors, p[1].check[1], p[1].outcome, p[2].outcome)
             pairs == Recoveries(Visible, ctx, Mirrors)
  <2>1. \A p \in pairs : \E q : Fixes(q) /\ p = Pair(rows, q[1], q[2])
    BY DEF Recoveries, StreamAt
  <2>2. ASSUME NEW e \in stream
        PROVE  /\ e.outcome \in Visible /\ e.outcome.table = "ci_outcomes"
               /\ \A o \in Outcomes(Visible, t) : RunKey(o) = RunKey(e.outcome) =>
                    (o.result \in Verdicts => o.result = e.outcome.result)
               /\ ci[Commit(e.check[1], e.outcome.commit)].verdict = e.outcome.result
               /\ \A d \in stream : d.outcome = e.outcome => d = e
    <3>1. \A d \in stream :
            LET run == RunKey(d.outcome)
                sources == RunOutcomes(Visible, t, run)
            IN  /\ d = Entry(ctx, sources, VerdictOutcome(sources))
                /\ d.outcome \in sources
                /\ \A o \in sources : o.result \in Verdicts => o.result = d.outcome.result
                /\ ci[Commit(d.check[1], d.outcome.commit)].verdict = d.outcome.result
      BY StreamEntries
    <3> HIDE DEF stream, ci, ctx
    <3>2. \A d \in stream : d.outcome = e.outcome => d = e
      BY <3>1, <2>2
    <3>3. \A o \in Outcomes(Visible, t) : RunKey(o) = RunKey(e.outcome) =>
            (o.result \in Verdicts => o.result = e.outcome.result)
      BY <2>2, <3>1 DEF RunOutcomes
    <3>4. e.outcome \in Visible /\ e.outcome.table = "ci_outcomes"
      BY <2>2, <3>1 DEF RunOutcomes, Outcomes, Through
    <3> QED
      BY <2>2, <3>1, <3>2, <3>3, <3>4
  <2> HIDE DEF stream, ci, rows
  <2>3. ASSUME NEW q, Fixes(q)
        PROVE  /\ q = <<q[1], q[2]>> /\ q[1] \in stream /\ q[2] \in stream /\ q[1].check = q[2].check
               /\ q[1].outcome.result = "failed" /\ q[2].outcome.result = "passed"
               /\ Earlier(q[1].outcome, q[2].outcome)
               /\ \A e \in stream : e.check = q[1].check =>
                    ~(Earlier(q[1].outcome, e.outcome) /\ Earlier(e.outcome, q[2].outcome))
               /\ q[1].outcome.commit \in Ancestors[q[2].outcome.commit] \ {q[2].outcome.commit}
    BY <2>3 DEF Transitions, IsFix
  <2> HIDE DEF Fixes
  <2>4. ASSUME NEW q, Fixes(q), NEW r, Fixes(r),
               q[1].outcome = r[1].outcome \/ q[2].outcome = r[2].outcome
        PROVE  q = r
    <3>1. CASE q[1].outcome = r[1].outcome
      <4>1. q[1] = r[1]
        BY <2>2, <2>3, <2>4, <3>1
      <4>2. q[2].outcome = r[2].outcome
        <5>1. ~Earlier(q[2].outcome, r[2].outcome) /\ ~Earlier(r[2].outcome, q[2].outcome)
          BY <2>3, <2>4, <4>1
        <5> QED
          BY <2>2, <2>3, <2>4, <5>1, CaptureOrder
      <4>3. q[2] = r[2]
        BY <2>2, <2>3, <2>4, <4>2
      <4> QED
        BY <2>3, <2>4, <4>1, <4>3
    <3>2. CASE q[2].outcome = r[2].outcome
      <4>1. q[2] = r[2]
        BY <2>2, <2>3, <2>4, <3>2
      <4>2. q[1].outcome = r[1].outcome
        <5>1. ~Earlier(q[1].outcome, r[1].outcome) /\ ~Earlier(r[1].outcome, q[1].outcome)
          BY <2>3, <2>4, <4>1
        <5> QED
          BY <2>2, <2>3, <2>4, <5>1, CaptureOrder
      <4>3. q[1] = r[1]
        BY <2>2, <2>3, <2>4, <4>2
      <4> QED
        BY <2>3, <2>4, <4>1, <4>3
    <3> QED
      BY <2>4, <3>1, <3>2
  <2>5. ASSUME NEW q
        PROVE  LET p == Pair(rows, q[1], q[2]) IN
               p.key = q[1].check[1] /\ p.red = q[1].outcome /\ p.green = q[2].outcome
    BY DEF Pair
  <2>6. ASSUME NEW p \in pairs
        PROVE  /\ ci[Commit(p.key, p.red.commit)].verdict = "failed"
               /\ ci[Commit(p.key, p.green.commit)].verdict = "passed"
               /\ p.red.commit \in Ancestors[p.green.commit] \ {p.green.commit}
               /\ \A o \in Outcomes(Visible, t) :
                   /\ RunKey(o) = RunKey(p.red) => o.result # "passed"
                   /\ RunKey(o) = RunKey(p.green) => o.result # "failed"
    <3>1. PICK q : Fixes(q) /\ p = Pair(rows, q[1], q[2])
      BY <2>1, <2>6 DEF rows
    <3>2. p.key = q[1].check[1] /\ p.key = q[2].check[1] /\ p.red = q[1].outcome /\ p.green = q[2].outcome
      BY <2>3, <2>5, <3>1
    <3> HIDE DEF pairs
    <3>3. /\ ci[Commit(p.key, p.red.commit)].verdict = "failed"
          /\ ci[Commit(p.key, p.green.commit)].verdict = "passed"
      BY <2>2, <2>3, <3>1, <3>2
    <3>4. p.red.commit \in Ancestors[p.green.commit] \ {p.green.commit}
      BY <2>3, <3>1, <3>2
    <3>5. \A o \in Outcomes(Visible, t) :
            /\ RunKey(o) = RunKey(p.red) => o.result # "passed"
            /\ RunKey(o) = RunKey(p.green) => o.result # "failed"
      BY <2>2, <2>3, <3>1, <3>2 DEF Verdicts
    <3> QED
      BY <3>3, <3>4, <3>5
  <2>7. ASSUME NEW p \in pairs, NEW r \in pairs, r.red = p.red \/ r.green = p.green
        PROVE  r = p
    <3>1. PICK q : Fixes(q) /\ p = Pair(rows, q[1], q[2])
      BY <2>1, <2>7 DEF rows
    <3>2. PICK s : Fixes(s) /\ r = Pair(rows, s[1], s[2])
      BY <2>1, <2>7 DEF rows
    <3> HIDE DEF pairs
    <3>3. p.red = q[1].outcome /\ p.green = q[2].outcome
          /\ r.red = s[1].outcome /\ r.green = s[2].outcome
      BY <2>5, <3>1, <3>2
    <3>4. s = q
      BY <2>4, <2>7, <3>1, <3>2, <3>3
    <3> QED
      BY <3>1, <3>2, <3>4
  <2> HIDE DEF pairs
  <2> QED
    BY <2>6, <2>7 DEF AreReal, pairs, ci
<1> QED
  BY <1>1, StateInvariant, PTL

-----------------------------------------------------------------------------
(* Reports                                                                 *)

\* Without calls nothing matches
LEMMA NoMatch ==
    ASSUME NEW calls, NEW file, NEW floor, BestMatch(calls, file, floor) # None
    PROVE  calls # {}
BY DEF BestMatch

\* An attributed commit is one that an agent could have written, and is
\* attributed by a note or by a guess
LEMMA AttributedPlausibly ==
    ASSUME NEW mirror, NEW key, NEW push, NEW commit, NEW org, NEW noted,
           NEW a \in AttributeCommit(mirror, key, push, commit, org, noted)
    PROVE  /\ org # {} \/ noted # {}
           /\ a.source \in {"git_notes", "jaccard"}
<1> DEFINE match(file) ==
              LET named == BestMatch(noted, file, NotesFloor) IN
              IF named # None THEN [call |-> named, source |-> "git_notes"]
              ELSE [call |-> BestMatch(org, file, JaccardFloor), source |-> "jaccard"]
<1>1. PICK file \in Files[commit] : match(file).call # None /\ a.source = match(file).source
  BY DEF AttributeCommit
<1>2. CASE BestMatch(noted, file, NotesFloor) # None
  BY <1>1, <1>2, NoMatch
<1>3. CASE BestMatch(noted, file, NotesFloor) = None
  <2>1. BestMatch(org, file, JaccardFloor) # None
    BY <1>1, <1>3
  <2> QED
    BY <1>1, <1>3, <2>1, NoMatch
<1> QED
  BY <1>2, <1>3

\* The attributions of one owned commit
AttributeOne(F, ctx, M, notes, o) ==
    AttributeCommit(M[o[1]], o[1], o[3], o[2],
                    Window(Calls(F, ctx.asOf), o[3], JaccardLookback),
                    {c \in Window(Calls(F, ctx.asOf), o[3], NotesLookback) :
                        c.session \in notes[<<o[1], o[2]>>]})

LEMMA AttributionsByOwner ==
    ASSUME NEW F, NEW ctx, NEW M, NEW pushes, NEW notes
    PROVE  /\ \A a \in Attributions(F, ctx, M, pushes, notes) :
                 \E o \in Owned(M, ResolvedPushes(ctx, pushes)) :
                    a \in AttributeOne(F, ctx, M, notes, o)
           /\ \A o \in Owned(M, ResolvedPushes(ctx, pushes)) :
                 AttributeOne(F, ctx, M, notes, o) \subseteq Attributions(F, ctx, M, pushes, notes)
BY DEF Attributions, AttributeOne

\* What owning a commit means: no earlier Push of the repository lists it
LEMMA Owners ==
    ASSUME NEW M, NEW ctx, NEW pushes, NEW o
    PROVE  o \in Owned(M, ResolvedPushes(ctx, pushes)) <=>
              /\ o = <<o[1], o[2], o[3]>> /\ o[3] \in pushes /\ o[2] \in Commits
              /\ o[1] = ResolveFact(ctx, o[3], "repo").key /\ o[1] \in DOMAIN M
              /\ o[2] \in ListPushCommits(M[o[1]], o[3])
              /\ \A q \in pushes :
                    /\ ResolveFact(ctx, q, "repo").key = o[1]
                    /\ o[2] \in ListPushCommits(M[o[1]], q)
                    => ~Earlier(q, o[3])
<1> DEFINE key(p) == ResolveFact(ctx, p, "repo").key
           resolved == {[push |-> p, key |-> key(p)] : p \in pushes}
           listed == {r \in resolved : r.key \in DOMAIN M}
           lists(r, c) == c \in ListPushCommits(M[r.key], r.push)
           first(r, c) == \A q \in listed : q.key = r.key /\ lists(q, c) => ~Earlier(q.push, r.push)
           wins == {pair \in listed \X Commits : lists(pair[1], pair[2]) /\ first(pair[1], pair[2])}
           owned == {<<own[1].key, own[2], own[1].push>> : own \in wins}
<1>1. Owned(M, ResolvedPushes(ctx, pushes)) = owned
  BY DEF Owned, ResolvedPushes
<1>2. \A r \in listed : r.push \in pushes /\ r.key = key(r.push) /\ r.key \in DOMAIN M
  OBVIOUS
<1>3. \A p \in pushes : key(p) \in DOMAIN M => [push |-> p, key |-> key(p)] \in listed
  OBVIOUS
<1> HIDE DEF key, listed
<1>4. ASSUME o \in owned
      PROVE  /\ o = <<o[1], o[2], o[3]>> /\ o[3] \in pushes /\ o[2] \in Commits
             /\ o[1] = key(o[3]) /\ o[1] \in DOMAIN M
             /\ o[2] \in ListPushCommits(M[o[1]], o[3])
             /\ \A q \in pushes : key(q) = o[1] /\ o[2] \in ListPushCommits(M[o[1]], q)
                                    => ~Earlier(q, o[3])
  <2>1. PICK r \in listed, c \in Commits :
          o = <<r.key, c, r.push>> /\ lists(r, c) /\ first(r, c)
    BY <1>4
  <2>2. o[1] = r.key /\ o[2] = c /\ o[3] = r.push
    BY <2>1
  <2>3. ASSUME NEW q \in pushes, key(q) = r.key, c \in ListPushCommits(M[r.key], q)
        PROVE  ~Earlier(q, r.push)
    <3> DEFINE e == [push |-> q, key |-> key(q)]
    <3>1. e \in listed /\ e.key = r.key /\ e.push = q
      BY <1>2, <1>3, <2>3
    <3> HIDE DEF e
    <3> QED
      BY <2>1, <2>3, <3>1
  <2> QED
    BY <1>2, <2>1, <2>2, <2>3
<1>5. ASSUME o = <<o[1], o[2], o[3]>>, o[3] \in pushes, o[2] \in Commits,
             o[1] = key(o[3]), o[1] \in DOMAIN M, o[2] \in ListPushCommits(M[o[1]], o[3]),
             \A q \in pushes : key(q) = o[1] /\ o[2] \in ListPushCommits(M[o[1]], q)
                                    => ~Earlier(q, o[3])
      PROVE  o \in owned
  <2> DEFINE r == [push |-> o[3], key |-> key(o[3])]
  <2>1. r \in listed /\ r.key = o[1] /\ r.push = o[3]
    BY <1>3, <1>5
  <2> HIDE DEF r
  <2>2. lists(r, o[2]) /\ first(r, o[2])
    BY <1>2, <1>5, <2>1
  <2>3. <<r, o[2]>> \in wins
    BY <1>5, <2>1, <2>2
  <2> HIDE DEF wins
  <2>4. <<r.key, o[2], r.push>> \in owned
    BY <2>3
  <2> QED
    BY <1>5, <2>1, <2>4
<1> QED
  BY <1>1, <1>4, <1>5 DEF key

\* The share report counts the commits that the attributions of its Pushes name
LEMMA SharesAgree ==
    ASSUME NEW F, NEW ctx, NEW M, NEW key, NEW scope, NEW notes,
           \A p \in scope : ResolveFact(ctx, p, "repo").key = key
    PROVE  AttributedIn(ShareOf(F, ctx, M, key, scope, notes))
              = {a.commit : a \in Attributions(F, ctx, M, scope, notes)}
<1> DEFINE rows == Attributions(F, ctx, M, scope, notes)
           owned == Owned(M, ResolvedPushes(ctx, scope))
           plausible == PlausibleCommits(F, ctx, M, key, scope, notes)
           by(source) == {a.commit : a \in {b \in rows : b.source = source}}
<1>1. ASSUME NEW a \in rows
      PROVE  a.commit \in plausible /\ a.source \in {"git_notes", "jaccard"}
  <2>1. PICK o \in owned : a \in AttributeOne(F, ctx, M, notes, o)
    BY <1>1, AttributionsByOwner
  <2>2. o[1] = key
    BY <2>1, Owners
  <2> DEFINE org == Window(Calls(F, ctx.asOf), o[3], JaccardLookback)
             noted == {c \in Window(Calls(F, ctx.asOf), o[3], NotesLookback) :
                          c.session \in notes[<<o[1], o[2]>>]}
  <2>3. a \in AttributeCommit(M[o[1]], o[1], o[3], o[2], org, noted)
    BY <2>1 DEF AttributeOne
  <2>4. /\ org # {} \/ noted # {}
        /\ a.source \in {"git_notes", "jaccard"} /\ a.commit = o[2]
    <3> HIDE DEF org, noted
    <3> QED
      BY <2>3, AttributedPlausibly, AttributedFields
  <2>5. Plausible(Calls(F, ctx.asOf), o[3], notes[<<key, o[2]>>])
    BY <2>2, <2>4 DEF Plausible
  <2> QED
    BY <2>1, <2>4, <2>5 DEF PlausibleCommits
<1>2. ShareOf(F, ctx, M, key, scope, notes) = Classes(plausible, rows)
  BY DEF ShareOf
<1> HIDE DEF rows, plausible
<1>3. AttributedIn(Classes(plausible, rows)) = plausible \cap (by("git_notes") \cup by("jaccard"))
  BY DEF AttributedIn, Classes
<1>4. by("git_notes") \cup by("jaccard") = {a.commit : a \in rows}
  BY <1>1
<1>5. {a.commit : a \in rows} \subseteq plausible
  BY <1>1
<1> QED
  BY <1>2, <1>3, <1>4, <1>5 DEF rows

\* The repository of a Push is identified exactly when the Push is
LEMMA PushKeys ==
    ASSUME NEW rows, NEW renames, NEW t, NEW p, p.table = "pushes",
           ResolveFact(BuildContext(rows, renames, t), p, "repo").key # None
    PROVE  IsIdentified(ResolveFact(BuildContext(rows, renames, t), p, "repo").key)
              <=> p.identity # None
<1> DEFINE ctx == BuildContext(rows, renames, t)
           r == RowOf(p, "repo")
           key == ResolveFact(ctx, p, "repo").key
<1>1. /\ "repo" \in Roles(p) /\ r = Row(p, "repo", p.repo, p.identity)
      /\ SourceKey(r) = <<p.table, p.id, "repo">>
  BY RoleRows DEF Roles
<1>2. r.table = "pushes" /\ r.identity = p.identity
  BY <1>1 DEF Row
<1>3. r \in SourcesOf(rows) /\ key = ResolveSource(ctx, SourceKey(r)).key
  BY <1>1, FactResolution
<1>4. key = KeyOf(ProofOf(rows, r).identity, r.repo)
  <2> HIDE DEF r
  <2> QED
    BY <1>3, RowResolution
<1>5. ProofOf(rows, r).identity = p.identity
  <2> HIDE DEF r
  <2> QED
    BY <1>2 DEF ProofOf, SourceIdentity
<1> HIDE DEF r
<1>6. key = IF p.identity = None THEN Legacy(r.repo) ELSE Identified(p.identity)
  BY <1>4, <1>5 DEF KeyOf
<1>7. key # None
  OBVIOUS
<1> HIDE DEF key
<1>8. IsIdentified(key) <=> p.identity # None
  BY <1>6, <1>7 DEF IsIdentified, Legacy, Identified
<1> QED
  BY <1>8 DEF key

\* Taking identified and legacy Pushes apart changes the owner of no commit
LEMMA OwnersApart ==
    ASSUME NEW rows, NEW renames, NEW t, NEW M, None \notin DOMAIN M,
           NEW all, \A p \in all : p.table = "pushes",
           NEW part, part \in {{p \in all : p.identity = None}, {p \in all : p.identity # None}}
    PROVE  LET ctx == BuildContext(rows, renames, t) IN
           \A o : o \in Owned(M, ResolvedPushes(ctx, part))
                    <=> o \in Owned(M, ResolvedPushes(ctx, all)) /\ o[3] \in part
<1> DEFINE ctx == BuildContext(rows, renames, t)
           key(p) == ResolveFact(ctx, p, "repo").key
<1>1. \A p, q \in all : key(p) \in DOMAIN M /\ key(q) = key(p) => (p \in part <=> q \in part)
  <2>1. \A p \in all : key(p) \in DOMAIN M => (IsIdentified(key(p)) <=> p.identity # None)
    BY PushKeys
  <2> HIDE DEF key
  <2> QED
    BY <2>1
<1>2. part \subseteq all
  OBVIOUS
<1> SUFFICES ASSUME NEW o
             PROVE  o \in Owned(M, ResolvedPushes(ctx, part))
                      <=> o \in Owned(M, ResolvedPushes(ctx, all)) /\ o[3] \in part
  OBVIOUS
<1> HIDE DEF ctx
<1>3. o \in Owned(M, ResolvedPushes(ctx, part)) <=>
        /\ o = <<o[1], o[2], o[3]>> /\ o[3] \in part /\ o[2] \in Commits
        /\ o[1] = key(o[3]) /\ o[1] \in DOMAIN M
        /\ o[2] \in ListPushCommits(M[o[1]], o[3])
        /\ \A q \in part : key(q) = o[1] /\ o[2] \in ListPushCommits(M[o[1]], q)
                              => ~Earlier(q, o[3])
  BY Owners
<1>4. o \in Owned(M, ResolvedPushes(ctx, all)) <=>
        /\ o = <<o[1], o[2], o[3]>> /\ o[3] \in all /\ o[2] \in Commits
        /\ o[1] = key(o[3]) /\ o[1] \in DOMAIN M
        /\ o[2] \in ListPushCommits(M[o[1]], o[3])
        /\ \A q \in all : key(q) = o[1] /\ o[2] \in ListPushCommits(M[o[1]], q)
                              => ~Earlier(q, o[3])
  BY Owners
<1> HIDE DEF key
<1>5. CASE o[3] \in part /\ o[1] = key(o[3]) /\ o[1] \in DOMAIN M
  <2>1. \A q \in all : key(q) = o[1] => q \in part
    BY <1>1, <1>2, <1>5
  <2>2. (\A q \in part : key(q) = o[1] /\ o[2] \in ListPushCommits(M[o[1]], q)
                              => ~Earlier(q, o[3]))
        <=> (\A q \in all : key(q) = o[1] /\ o[2] \in ListPushCommits(M[o[1]], q)
                              => ~Earlier(q, o[3]))
    BY <1>2, <2>1
  <2> QED
    BY <1>2, <1>3, <1>4, <1>5, <2>2
<1>6. CASE ~(o[3] \in part /\ o[1] = key(o[3]) /\ o[1] \in DOMAIN M)
  BY <1>3, <1>4, <1>6
<1> QED
  BY <1>5, <1>6

\* The notes an assembly attributes by are those of the whole derivation
LEMMA NotesAgree ==
    ASSUME NEW F, NEW ctx, NEW M, NEW push, NEW o,
           o[1] \in DOMAIN M, o[2] \in Commits, IsIdentified(o[1]) <=> push.identity # None
    PROVE  AttributeOne(F, ctx, M, AssemblyNotes(F, ctx, M, push), o)
              = AttributeOne(F, ctx, M, DefaultNotes(F, ctx, M), o)
<1> DEFINE at == <<o[1], o[2]>>
<1>1. at \in (DOMAIN M) \X Commits /\ at[1] = o[1]
  OBVIOUS
<1>2. AssemblyNotes(F, ctx, M, push)[at] = DefaultNotes(F, ctx, M)[at]
  BY <1>1 DEF AssemblyNotes, BoundNotes, DefaultNotes
<1> QED
  BY <1>2 DEF AttributeOne

\* The rows of the two assemblies are those of the whole derivation
LEMMA AssemblyIsWhole ==
    ASSUME NEW F, NEW rows, NEW renames, NEW t, NEW M, None \notin DOMAIN M,
           NEW all, \A p \in all : p.table = "pushes"
    PROVE  LET ctx == BuildContext(rows, renames, t)
               parts == {{p \in all : p.identity = None}, {p \in all : p.identity # None}} \ {{}}
               of(part) == Attributions(F, ctx, M, part,
                              AssemblyNotes(F, ctx, M, CHOOSE p \in part : TRUE))
           IN  UNION {of(part) : part \in parts}
                  = Attributions(F, ctx, M, all, DefaultNotes(F, ctx, M))
<1> DEFINE ctx == BuildContext(rows, renames, t)
           legacy == {p \in all : p.identity = None}
           identified == {p \in all : p.identity # None}
           parts == {legacy, identified} \ {{}}
           one(part) == CHOOSE p \in part : TRUE
           notes == DefaultNotes(F, ctx, M)
           of(part) == Attributions(F, ctx, M, part, AssemblyNotes(F, ctx, M, one(part)))
           owned(part) == Owned(M, ResolvedPushes(ctx, part))
           whole == Attributions(F, ctx, M, all, notes)
<1>1. \A part \in parts : part \subseteq all /\ one(part) \in part
  <2> TAKE part \in parts
  <2>1. part # {}
    OBVIOUS
  <2> QED
    BY <2>1
<1>2. \A part \in parts : \A p \in part : p.identity # None <=> one(part).identity # None
  BY <1>1
<1>3. \A part \in parts : \A o : o \in owned(part) <=> o \in owned(all) /\ o[3] \in part
  <2> SUFFICES ASSUME NEW part \in parts
               PROVE  \A o : o \in owned(part) <=> o \in owned(all) /\ o[3] \in part
    OBVIOUS
  <2>1. part \in {{p \in all : p.identity = None}, {p \in all : p.identity # None}}
    OBVIOUS
  <2> QED
    BY <2>1, OwnersApart
<1>4. \A o \in owned(all) :
        /\ o[1] \in DOMAIN M /\ o[2] \in Commits /\ o[3] \in all
        /\ IsIdentified(o[1]) <=> o[3].identity # None
  <2> SUFFICES ASSUME NEW o \in owned(all)
               PROVE  /\ o[1] \in DOMAIN M /\ o[2] \in Commits /\ o[3] \in all
                      /\ IsIdentified(o[1]) <=> o[3].identity # None
    OBVIOUS
  <2>1. /\ o[1] \in DOMAIN M /\ o[2] \in Commits /\ o[3] \in all
        /\ o[1] = ResolveFact(ctx, o[3], "repo").key
    BY Owners
  <2> QED
    BY <2>1, PushKeys
<1>5. \A o \in owned(all) : \E part \in parts : o[3] \in part
  BY <1>4
<1> HIDE DEF ctx, parts, one, owned
<1>6. ASSUME NEW part \in parts, NEW o \in owned(part)
      PROVE  AttributeOne(F, ctx, M, AssemblyNotes(F, ctx, M, one(part)), o)
                = AttributeOne(F, ctx, M, notes, o)
  <2>1. o \in owned(all) /\ o[3] \in part
    BY <1>3, <1>6
  <2>2. o[1] \in DOMAIN M /\ o[2] \in Commits /\ (IsIdentified(o[1]) <=> one(part).identity # None)
    BY <1>2, <1>4, <2>1
  <2> QED
    BY <2>2, NotesAgree
<1>7. ASSUME NEW part \in parts, NEW a \in of(part)
      PROVE  a \in whole
  <2>1. PICK o \in owned(part) : a \in AttributeOne(F, ctx, M, AssemblyNotes(F, ctx, M, one(part)), o)
    BY <1>7, AttributionsByOwner DEF owned
  <2>2. a \in AttributeOne(F, ctx, M, notes, o) /\ o \in owned(all)
    BY <1>3, <1>6, <2>1
  <2> HIDE DEF notes
  <2> QED
    BY <2>2, AttributionsByOwner DEF owned
<1>8. ASSUME NEW a \in whole
      PROVE  \E part \in parts : a \in of(part)
  <2> HIDE DEF notes
  <2>1. PICK o \in owned(all) : a \in AttributeOne(F, ctx, M, notes, o)
    BY <1>8, AttributionsByOwner DEF owned
  <2>2. PICK part \in parts : o[3] \in part
    BY <1>5
  <2>3. o \in owned(part)
    BY <1>3, <2>1, <2>2
  <2>4. a \in AttributeOne(F, ctx, M, AssemblyNotes(F, ctx, M, one(part)), o)
    BY <1>6, <2>1, <2>3
  <2> QED
    BY <2>3, <2>4, AttributionsByOwner DEF owned
<1> HIDE DEF of, whole
<1>9. UNION {of(part) : part \in parts} = whole
  BY <1>7, <1>8
<1> QED
  BY <1>9 DEF ctx, parts, one, of, whole

\* An attribution is of the repository its Push resolves to
LEMMA AttributionsResolve ==
    ASSUME NEW F, NEW rows, NEW renames, NEW t, NEW M, None \notin DOMAIN M,
           NEW pushes, \A p \in pushes : p.table = "pushes", NEW notes,
           NEW a \in Attributions(F, BuildContext(rows, renames, t), M, pushes, notes)
    PROVE  ResolveSource(BuildContext(rows, renames, t), <<"pushes", a.push, "repo">>).key = a.key
<1> DEFINE ctx == BuildContext(rows, renames, t)
<1>1. PICK o \in Owned(M, ResolvedPushes(ctx, pushes)) : a \in AttributeOne(F, ctx, M, notes, o)
  BY AttributionsByOwner
<1>2. a.key = o[1] /\ a.push = o[3].id
  BY <1>1, AttributedFields DEF AttributeOne
<1>3. o[3] \in pushes /\ o[1] = ResolveFact(ctx, o[3], "repo").key /\ o[1] \in DOMAIN M
  BY <1>1, Owners
<1>4. "repo" \in Roles(o[3]) /\ o[3].table = "pushes"
  BY <1>3 DEF Roles
<1>5. ResolveFact(ctx, o[3], "repo") = ResolveSource(ctx, <<o[3].table, o[3].id, "repo">>)
  BY <1>3, <1>4, FactResolution
<1> QED
  BY <1>2, <1>3, <1>4, <1>5

(* The reports over attributions name the commits that the attributions     *)
(* name: none is counted that no agent could have written, and none is lost *)
(* or invented by taking identified and legacy Pushes apart.                *)
THEOREM ReportsStayInAgreement == Spec => []ReportsAgree
<1>1. StateInv => ReportsAgree
  <2> SUFFICES ASSUME StateInv, NEW t \in Boundaries PROVE ReportsAgreeIn(ContextAt(t))
    BY DEF ReportsAgree
  <2> DEFINE rows == Rows(Visible \cup supplied, t)
             renames == Renames(Visible \cup supplied, t)
             ctx == BuildContext(rows, renames, t)
             notes == DefaultNotes(Visible, ctx, Mirrors)
             pushed == Pushes(Visible, ctx.asOf)
             whole == Attributions(Visible, ctx, Mirrors, pushed, notes)
  <2>1. ContextAt(t) = ctx
    BY DEF ContextAt, Context
  <2>2. None \notin DOMAIN Mirrors
    BY PopulationAssumption DEF StateInv, Mirrors
  <2>3. \A p \in pushed : p.table = "pushes"
    BY DEF Pushes, Through
  <2> HIDE DEF rows, renames
  <2>4. ASSUME NEW key
        PROVE  AttributedIn(Share(Visible, ctx, Mirrors, key))
                  = {a.commit : a \in Attributions(Visible, ctx, Mirrors,
                                                   ShareScope(ctx, pushed, key), notes)}
    <3> DEFINE scope == ShareScope(ctx, pushed, key)
    <3>1. \A p \in scope : ResolveFact(ctx, p, "repo").key = key
      BY DEF ShareScope
    <3>2. Share(Visible, ctx, Mirrors, key) = ShareOf(Visible, ctx, Mirrors, key, scope, notes)
      BY DEF Share
    <3> HIDE DEF ctx, scope, notes
    <3> QED
      BY <3>1, <3>2, SharesAgree DEF scope
  <2>5. {c.attribution : c \in AttributedCompletions(Visible, ctx, Mirrors)} = whole
    <3> DEFINE assembled == UNION {LET push == CHOOSE p \in part : TRUE
                       IN  Attributions(Visible, ctx, Mirrors, part, AssemblyNotes(Visible, ctx, Mirrors, push)) :
                       part \in {{p \in pushed : p.identity = None},
                                 {p \in pushed : p.identity # None}} \ {{}}}
               kept == {b \in assembled : ResolveSource(ctx, <<"pushes", b.push, "repo">>).key = b.key}
    <3>1. {c.attribution : c \in AttributedCompletions(Visible, ctx, Mirrors)} = kept
      <4> DEFINE joined == Joined(Calls(Visible, ctx.asOf), Decisions(Visible, ctx.asOf))
                 R == RunResolutions(Visible, ctx)
                 row(a) ==
                    [attribution |-> a,
                     decisions |-> DecisionsOf(joined, a.call),
                     outcomes |-> OutcomesAt(Visible, R, ctx.asOf, Commit(a.key, a.commit)),
                     observations |-> ObservationsAt(Visible, ctx, Commit(a.key, a.commit), a.session)]
      <4>1. AttributedCompletions(Visible, ctx, Mirrors) = {row(a) : a \in kept}
        <5> HIDE DEF ctx
        <5> QED
          BY DEF AttributedCompletions
      <4>2. \A a : row(a).attribution = a
        OBVIOUS
      <4> HIDE DEF row, kept
      <4> QED
        BY <4>1, <4>2
    <3>2. assembled = whole
      <4> HIDE DEF pushed
      <4> QED
        BY <2>2, <2>3, AssemblyIsWhole
    <3>3. ASSUME NEW b \in whole
          PROVE  ResolveSource(ctx, <<"pushes", b.push, "repo">>).key = b.key
      <4> HIDE DEF pushed, notes
      <4> QED
        BY <2>2, <2>3, AttributionsResolve
    <3> HIDE DEF assembled, whole, ctx
    <3> QED
      BY <3>1, <3>2, <3>3
  <2> HIDE DEF ctx
  <2> QED
    BY <2>1, <2>4, <2>5 DEF ReportsAgreeIn
<1> QED
  BY <1>1, StateInvariant, PTL

-----------------------------------------------------------------------------
(* Witnesses                                                               *)

\* No two copies of a source, or of a rename, disagree
Sound(rows, renames) == Conflicting(rows) = {} /\ RenameConflicts(renames) = {}

LEMMA SoundReads ==
    ASSUME NEW F, Unique(F), NEW t
    PROVE  Sound(Rows(F, t), Renames(F, t))
<1> DEFINE rows == Rows(F, t)
           renames == Renames(F, t)
<1>1. ASSUME NEW r \in rows, NEW q \in rows, SourceKey(q) = SourceKey(r) PROVE q = r
  <2>1. PICK f \in F : r \in Evidence(f)
    BY DEF Rows
  <2>2. PICK g \in F : q \in Evidence(g)
    BY DEF Rows
  <2>3. r.table = f.table /\ r.id = f.id /\ q.table = g.table /\ q.id = g.id
    BY <2>1, <2>2 DEF Evidence, Row
  <2>4. f = g
    BY <1>1, <2>3 DEF SourceKey, Unique
  <2>5. r.role = q.role
    BY <1>1 DEF SourceKey
  <2> DEFINE own == Row(f, "repo", f.repo, f.identity)
             head == Row(f, "head_repo", f.head_repo, f.head_identity)
  <2>6. own.role = "repo" /\ head.role = "head_repo"
    BY DEF Row
  <2>7. r \in {own, head} /\ q \in {own, head}
    BY <2>1, <2>2, <2>4 DEF Evidence
  <2> HIDE DEF own, head
  <2> QED
    BY <2>5, <2>6, <2>7
<1>2. Conflicting(rows) = {}
  <2> HIDE DEF rows
  <2> QED
    BY <1>1 DEF Conflicting
<1>3. \A r, q \in renames : r.id = q.id \/ SameDelivery(r, q) => r = q
  BY DEF Renames, Through, Unique
<1>4. RenameConflicts(renames) = {}
  <2> HIDE DEF renames
  <2> QED
    BY <1>3 DEF RenameConflicts
<1> QED
  BY <1>2, <1>4 DEF Sound

\* The lookups of a context without contradictions
LEMMA SoundContext ==
    ASSUME NEW rows, NEW renames, NEW t, Sound(rows, renames)
    PROVE  LET ctx == BuildContext(rows, renames, t) IN
           /\ SourcesOf(rows) = rows
           /\ ctx.unsafe = {}
           /\ ctx.claims = {<<r.old, r.identity>> : r \in renames}
                           \cup {<<r.new, r.identity>> : r \in renames}
                           \cup {<<r.repo, r.identity>> :
                                   r \in {q \in rows : q.identity # None /\ q.repo # None}}
                           \cup {<<r.repo, ProofOf(rows, r).identity>> :
                                   r \in {q \in Naming(rows) : ProofOf(rows, q).identity # None}}
           /\ ctx.names = {<<Identified(r.identity), r.old>> : r \in renames}
                          \cup {<<Identified(r.identity), r.new>> : r \in renames}
                          \cup {<<KeyOf(ProofOf(rows, r).identity, r.repo), r.repo>> :
                                   r \in Naming(rows)}
<1> DEFINE ctx == BuildContext(rows, renames, t)
           proven == {[row |-> r, proof |-> ProofOf(rows, r)] : r \in SourcesOf(rows)}
           named == {p \in proven : p.proof.reason = None /\ p.row.repo # None}
           real == {p \in named : p.proof.identity # None}
           good == {r \in renames : r.id \notin RenameConflicts(renames)}
<1>1. SourcesOf(rows) = rows /\ good = renames
  BY DEF Sound, SourcesOf
<1>2. ctx.unsafe = UNION {{r.old, r.new} : r \in renames \ good}
                   \cup {r.repo : r \in rows \ SourcesOf(rows)}
  BY DEF BuildContext, SourcesOf
<1>3. ctx.claims = {<<r.old, r.identity>> : r \in renames}
                   \cup {<<r.new, r.identity>> : r \in renames}
                   \cup {<<r.repo, r.identity>> :
                           r \in {q \in rows : q.identity # None /\ q.repo # None}}
                   \cup {<<p.row.repo, p.proof.identity>> : p \in real}
  BY DEF BuildContext, SourcesOf, ProofOf
<1>4. ctx.names = {<<Identified(r.identity), r.old>> : r \in good}
                  \cup {<<Identified(r.identity), r.new>> : r \in good}
                  \cup {<<IF p.proof.identity = None THEN Legacy(p.row.repo)
                          ELSE Identified(p.proof.identity), p.row.repo>> : p \in named}
  BY DEF BuildContext, SourcesOf, ProofOf
<1>5. /\ {<<p.row.repo, p.proof.identity>> : p \in real}
            = {<<r.repo, ProofOf(rows, r).identity>> :
                  r \in {q \in Naming(rows) : ProofOf(rows, q).identity # None}}
      /\ {<<IF p.proof.identity = None THEN Legacy(p.row.repo)
             ELSE Identified(p.proof.identity), p.row.repo>> : p \in named}
            = {<<KeyOf(ProofOf(rows, r).identity, r.repo), r.repo>> : r \in Naming(rows)}
  <2> DEFINE pair(r) == [row |-> r, proof |-> ProofOf(rows, r)]
  <2>1. \A r : pair(r).row = r /\ pair(r).proof = ProofOf(rows, r)
    OBVIOUS
  <2>2. named = {pair(r) : r \in Naming(rows)}
    <3>1. proven = {pair(r) : r \in SourcesOf(rows)}
      OBVIOUS
    <3> HIDE DEF pair, proven
    <3> QED
      BY <2>1, <3>1 DEF Naming
  <2>3. real = {pair(r) : r \in {q \in Naming(rows) : ProofOf(rows, q).identity # None}}
    <3> HIDE DEF pair, named
    <3> QED
      BY <2>1, <2>2
  <2> HIDE DEF pair, named, real
  <2> QED
    BY <2>1, <2>2, <2>3 DEF KeyOf
<1> HIDE DEF ctx, real, named, good
<1> QED
  BY <1>1, <1>2, <1>3, <1>4, <1>5 DEF ctx

\* Rows of one state prove the same
LEMMA SameProof ==
    ASSUME NEW rows, Conflicting(rows) = {}, NEW r \in rows, NEW q \in rows,
           State(rows, r) = State(rows, q)
    PROVE  ProofOf(rows, r) = ProofOf(rows, q)
<1> DEFINE at(s) == <<"pushes", s.push, "repo">>
           pushes(s) == {p \in rows : SourceKey(p) = at(s)}
           pairs(s) == {<<p.identity, p.repo>> : p \in pushes(s)}
           push(s) == CHOOSE p \in pushes(s) : TRUE
<1>1. /\ r.table = q.table /\ r.identity = q.identity /\ r.repo = q.repo
      /\ {<<a.identity, a.repo>> : a \in Anchors(rows, r)}
            = {<<a.identity, a.repo>> : a \in Anchors(rows, q)}
  BY DEF State
<1>2. CASE r.table # "session_commit_observations"
  BY <1>1, <1>2 DEF ProofOf, SourceIdentity
<1>3. CASE r.table = "session_commit_observations"
  <2>1. Anchors(rows, r) = pushes(r) /\ Anchors(rows, q) = pushes(q)
    BY <1>1, <1>3 DEF Anchors
  <2>2. pairs(r) = pairs(q)
    BY <1>1, <2>1
  <2>3. SourcesOf(rows) = rows
    BY DEF SourcesOf
  <2>4. \A s \in {r, q} : \A p, o \in pushes(s) : p = o
    BY DEF Conflicting
  <2>5. \A s \in {r, q} : pushes(s) # {} => push(s) \in pushes(s)
    OBVIOUS
  <2> DEFINE alone(i) == [identity |-> i, reason |-> IF i = None THEN None ELSE "absent source"]
             anchored(i, repo, of, slug) ==
                IF of = None
                THEN [identity |-> None,
                      reason |-> IF i # None THEN "unresolved"
                                 ELSE IF repo # slug THEN "conflict" ELSE None]
                ELSE IF i \notin {None, of} THEN [identity |-> None, reason |-> "conflict"]
                ELSE [identity |-> of, reason |-> None]
  <2>6. ASSUME NEW s \in {r, q}
        PROVE  ProofOf(rows, s) = IF pushes(s) = {} THEN alone(s.identity)
                                  ELSE anchored(s.identity, s.repo, push(s).identity, push(s).repo)
    <3>1. s.table = "session_commit_observations"
      BY <1>1, <1>3
    <3> QED
      BY <2>3, <3>1 DEF ProofOf, SourceIdentity
  <2>7. pushes(r) = {} <=> pushes(q) = {}
    BY <2>2
  <2>8. pushes(r) # {} => push(r).identity = push(q).identity /\ push(r).repo = push(q).repo
    <3> SUFFICES ASSUME pushes(r) # {}
                 PROVE  push(r).identity = push(q).identity /\ push(r).repo = push(q).repo
      OBVIOUS
    <3>1. push(r) \in pushes(r) /\ push(q) \in pushes(q)
      BY <2>5, <2>7
    <3> HIDE DEF push
    <3>2. <<push(r).identity, push(r).repo>> \in pairs(q)
      BY <2>2, <3>1
    <3> HIDE DEF pushes
    <3>3. PICK p \in pushes(q) : <<push(r).identity, push(r).repo>> = <<p.identity, p.repo>>
      BY <3>2
    <3>4. p = push(q)
      BY <2>4, <3>1, <3>3
    <3> QED
      BY <3>3, <3>4
  <2> HIDE DEF pushes, push, alone, anchored
  <2>9. CASE pushes(r) = {}
    BY <1>1, <2>6, <2>7, <2>9
  <2>10. CASE pushes(r) # {}
    BY <1>1, <2>6, <2>7, <2>8, <2>10
  <2> QED
    BY <2>9, <2>10
<1> QED
  BY <1>2, <1>3

\* What the witnesses keep: a row of every state, the requested sources, each
\* row with the Push it was made at, and what each of them proves
LEMMA WitnessesKeep ==
    ASSUME NEW rows, Conflicting(rows) = {}, \A r \in rows : r.id \in Nat, NEW requested
    PROVE  LET kept == WitnessRows(rows, requested) IN
           /\ kept \subseteq rows /\ Conflicting(kept) = {}
           /\ \A r \in rows : SourceKey(r) \in requested => r \in kept
           /\ \A r \in kept : ProofOf(kept, r) = ProofOf(rows, r)
           /\ \A r \in rows : \E w \in kept :
                 w.identity = r.identity /\ w.repo = r.repo /\ ProofOf(rows, w) = ProofOf(rows, r)
<1> DEFINE first == {r \in rows :
              \/ SourceKey(r) \in requested
              \/ \A other \in rows : State(rows, other) = State(rows, r) => r.id <= other.id}
           kept == WitnessRows(rows, requested)
<1>1. kept = first \cup UNION {Anchors(rows, r) : r \in first}
  BY DEF WitnessRows
<1>2. \A r : Anchors(rows, r) \subseteq rows
  BY DEF Anchors
<1>3. first \subseteq kept /\ kept \subseteq rows
  BY <1>1, <1>2
<1>4. \A r \in kept : Anchors(rows, r) \subseteq kept
  <2>1. ASSUME NEW r \in first, NEW a \in Anchors(rows, r) PROVE Anchors(rows, a) = {}
    <3>1. SourceKey(a) = <<"pushes", r.push, "repo">>
      BY <2>1 DEF Anchors
    <3>2. a.table # "session_commit_observations"
      BY <3>1 DEF SourceKey
    <3> QED
      BY <3>2 DEF Anchors
  <2> HIDE DEF first, kept
  <2>2. \A r \in first : Anchors(rows, r) \subseteq kept
    BY <1>1
  <2>3. \A r \in kept : r \in first \/ \E q \in first : r \in Anchors(rows, q)
    BY <1>1
  <2> QED
    BY <2>1, <2>2, <2>3
<1>5. Conflicting(kept) = {}
  <2> HIDE DEF kept
  <2>1. \A r, q \in rows : SourceKey(r) = SourceKey(q) => r = q
    BY DEF Conflicting
  <2> QED
    BY <1>3, <2>1 DEF Conflicting
<1>6. \A r \in rows : SourceKey(r) \in requested => r \in kept
  BY <1>3
<1>7. ASSUME NEW r \in kept PROVE ProofOf(kept, r) = ProofOf(rows, r)
  <2> HIDE DEF kept
  <2>1. r.table = "session_commit_observations" =>
          \A q \in rows : SourceKey(q) = <<"pushes", r.push, "repo">> => q \in kept
    BY <1>4, <1>7 DEF Anchors
  <2> QED
    BY <1>3, <1>7, <2>1, ProofsStay
<1>8. ASSUME NEW r \in rows
      PROVE  \E w \in kept : w.identity = r.identity /\ w.repo = r.repo
                             /\ ProofOf(rows, w) = ProofOf(rows, r)
  <2> DEFINE alike == {q \in rows : State(rows, q) = State(rows, r)}
             ids == {q.id : q \in alike}
  <2>1. ids \in SUBSET Nat /\ ids # {}
    OBVIOUS
  <2>2. PICK m \in ids : \A n \in ids : m <= n
    <3> HIDE DEF ids
    <3> QED
      BY <2>1, LeastNumber
  <2>3. PICK w \in alike : w.id = m
    OBVIOUS
  <2>4. w \in first
    BY <2>2, <2>3
  <2>5. w.identity = r.identity /\ w.repo = r.repo
    BY <2>3 DEF State
  <2>6. ProofOf(rows, w) = ProofOf(rows, r)
    BY <2>3, SameProof
  <2> QED
    BY <1>3, <2>4, <2>5, <2>6
<1> QED
  BY <1>3, <1>5, <1>6, <1>7, <1>8

LEMMA WitnessRenamesKeep ==
    ASSUME NEW renames, RenameConflicts(renames) = {}, \A r \in renames : r.id \in Nat
    PROVE  LET kept == WitnessRenames(renames) IN
           /\ kept \subseteq renames /\ RenameConflicts(kept) = {}
           /\ \A r \in renames : \E w \in kept :
                 w.identity = r.identity /\ w.old = r.old /\ w.new = r.new
<1> DEFINE kept == WitnessRenames(renames)
<1>1. kept \subseteq renames
  BY DEF WitnessRenames
<1>2. RenameConflicts(kept) = {}
  <2> HIDE DEF kept
  <2>1. \A q, other \in renames : ~(other.id = q.id /\ other # q)
          /\ ~(SameDelivery(other, q) /\ RenameContent(other) # RenameContent(q))
    BY DEF RenameConflicts
  <2> QED
    BY <1>1, <2>1 DEF RenameConflicts
<1>3. ASSUME NEW r \in renames
      PROVE  \E w \in kept : w.identity = r.identity /\ w.old = r.old /\ w.new = r.new
  <2> DEFINE alike == {q \in renames : RenameContent(q) = RenameContent(r)}
             ids == {q.id : q \in alike}
  <2>1. ids \in SUBSET Nat /\ ids # {}
    OBVIOUS
  <2>2. PICK m \in ids : \A n \in ids : m <= n
    <3> HIDE DEF ids
    <3> QED
      BY <2>1, LeastNumber
  <2>3. PICK w \in alike : w.id = m
    OBVIOUS
  <2>4. w \in kept
    BY <2>2, <2>3 DEF WitnessRenames
  <2> QED
    BY <2>3, <2>4 DEF RenameContent
<1> QED
  BY <1>1, <1>2, <1>3

\* Two contexts without contradictions, one over some of the rows of the other,
\* are alike when every row and rename has one that says the same
LEMMA ContextsAlike ==
    ASSUME NEW rows, NEW renames, NEW t, NEW kept, NEW few,
           Sound(rows, renames), Sound(kept, few), kept \subseteq rows, few \subseteq renames,
           \A r \in kept : ProofOf(kept, r) = ProofOf(rows, r),
           \A r \in rows : \E w \in kept :
              w.identity = r.identity /\ w.repo = r.repo /\ ProofOf(rows, w) = ProofOf(rows, r),
           \A r \in renames : \E w \in few :
              w.identity = r.identity /\ w.old = r.old /\ w.new = r.new
    PROVE  LET whole == BuildContext(rows, renames, t)
               compact == BuildContext(kept, few, t)
           IN  /\ compact.names = whole.names
               /\ compact.claims = whole.claims
               /\ compact.unsafe = whole.unsafe
<1> DEFINE whole == BuildContext(rows, renames, t)
           compact == BuildContext(kept, few, t)
<1>1. SourcesOf(rows) = rows /\ SourcesOf(kept) = kept
  BY SoundContext
<1>2. /\ {<<r.old, r.identity>> : r \in few} = {<<r.old, r.identity>> : r \in renames}
      /\ {<<r.new, r.identity>> : r \in few} = {<<r.new, r.identity>> : r \in renames}
      /\ {<<Identified(r.identity), r.old>> : r \in few}
            = {<<Identified(r.identity), r.old>> : r \in renames}
      /\ {<<Identified(r.identity), r.new>> : r \in few}
            = {<<Identified(r.identity), r.new>> : r \in renames}
  OBVIOUS
<1>3. {<<r.repo, r.identity>> : r \in {q \in kept : q.identity # None /\ q.repo # None}}
        = {<<r.repo, r.identity>> : r \in {q \in rows : q.identity # None /\ q.repo # None}}
  OBVIOUS
<1>4. /\ \A r \in Naming(kept) : r \in Naming(rows) /\ ProofOf(kept, r) = ProofOf(rows, r)
      /\ \A r \in Naming(rows) : \E w \in Naming(kept) :
            w.repo = r.repo /\ ProofOf(kept, w) = ProofOf(rows, r)
  BY <1>1 DEF Naming
<1>5. /\ {<<r.repo, ProofOf(kept, r).identity>> :
            r \in {q \in Naming(kept) : ProofOf(kept, q).identity # None}}
            = {<<r.repo, ProofOf(rows, r).identity>> :
                  r \in {q \in Naming(rows) : ProofOf(rows, q).identity # None}}
      /\ {<<KeyOf(ProofOf(kept, r).identity, r.repo), r.repo>> : r \in Naming(kept)}
            = {<<KeyOf(ProofOf(rows, r).identity, r.repo), r.repo>> : r \in Naming(rows)}
  BY <1>4
<1>6. compact.unsafe = whole.unsafe
  BY SoundContext
<1>7. compact.claims = whole.claims
  <2>1. whole.claims = {<<r.old, r.identity>> : r \in renames}
                           \cup {<<r.new, r.identity>> : r \in renames}
                           \cup {<<r.repo, r.identity>> :
                                   r \in {q \in rows : q.identity # None /\ q.repo # None}}
                           \cup {<<r.repo, ProofOf(rows, r).identity>> :
                                   r \in {q \in Naming(rows) : ProofOf(rows, q).identity # None}}
    BY SoundContext
  <2>2. compact.claims = {<<r.old, r.identity>> : r \in few}
                           \cup {<<r.new, r.identity>> : r \in few}
                           \cup {<<r.repo, r.identity>> :
                                   r \in {q \in kept : q.identity # None /\ q.repo # None}}
                           \cup {<<r.repo, ProofOf(kept, r).identity>> :
                                   r \in {q \in Naming(kept) : ProofOf(kept, q).identity # None}}
    BY SoundContext
  <2> QED
    BY <1>2, <1>3, <1>5, <2>1, <2>2
<1>8. compact.names = whole.names
  <2>1. whole.names = {<<Identified(r.identity), r.old>> : r \in renames}
                          \cup {<<Identified(r.identity), r.new>> : r \in renames}
                          \cup {<<KeyOf(ProofOf(rows, r).identity, r.repo), r.repo>> :
                                   r \in Naming(rows)}
    BY SoundContext
  <2>2. compact.names = {<<Identified(r.identity), r.old>> : r \in few}
                          \cup {<<Identified(r.identity), r.new>> : r \in few}
                          \cup {<<KeyOf(ProofOf(kept, r).identity, r.repo), r.repo>> :
                                   r \in Naming(kept)}
    BY SoundContext
  <2> QED
    BY <1>2, <1>5, <2>1, <2>2
<1> QED
  BY <1>6, <1>7, <1>8

\* A reference is resolved by the names, the claims and the unsafe slugs alone
LEMMA ReferencesAlike ==
    ASSUME NEW ctx, NEW other, other.names = ctx.names, other.claims = ctx.claims,
           other.unsafe = ctx.unsafe, NEW repo, NEW i
    PROVE  ResolveReference(other, repo, i) = ResolveReference(ctx, repo, i)
BY DEF ResolveReference, Claims, Names

\* The witnesses of a commit query are enough in every state
LEMMA Witnesses == StateInv => WitnessesSuffice
<1> SUFFICES ASSUME StateInv, NEW t \in Boundaries, NEW commit \in Commits
             PROVE  LET whole == Context(Visible, t)
                        requested == RequestedSources(t, commit)
                        compact == WitnessContext(Visible, t, requested)
                    IN  /\ compact.names = whole.names
                        /\ compact.claims = whole.claims
                        /\ compact.unsafe = whole.unsafe
                        /\ \A s \in requested :
                              ResolveSource(compact, s) = ResolveSource(whole, s)
  BY DEF WitnessesSuffice
<1> DEFINE rows == Rows(Visible, t)
           renames == Renames(Visible, t)
           requested == RequestedSources(t, commit)
           kept == WitnessRows(rows, requested)
           few == WitnessRenames(renames)
           whole == BuildContext(rows, renames, t)
           compact == BuildContext(kept, few, t)
<1>1. Context(Visible, t) = whole /\ WitnessContext(Visible, t, requested) = compact
  BY DEF Context, WitnessContext
<1>2. Sound(rows, renames)
  <2>1. Unique(Visible)
    BY DEF StateInv, Unique, Visible
  <2> QED
    BY <2>1, SoundReads
<1>3. (\A r \in rows : r.id \in Nat) /\ (\A r \in renames : r.id \in Nat)
  <2>1. \A f \in Visible : f.id \in Nat
    BY PopulationAssumption DEF StateInv, Visible
  <2> QED
    BY <2>1 DEF Rows, Evidence, Row, Renames, Through
<1>4. \A s \in requested : \E r \in rows : SourceKey(r) = s
  <2> SUFFICES ASSUME NEW s \in requested PROVE \E r \in rows : SourceKey(r) = s
    OBVIOUS
  <2>1. PICK f \in Observations(Visible, t) \cup Outcomes(Visible, t) :
          \E r \in Evidence(f) : SourceKey(r) = s
    BY DEF RequestedSources
  <2>2. f \in Visible /\ f.table \in EvidenceTables /\ f.at <= t
    BY <2>1 DEF Observations, Outcomes, Through, EvidenceTables
  <2> QED
    BY <2>1, <2>2 DEF Rows
<1> HIDE DEF rows, renames, requested
<1>5. /\ kept \subseteq rows /\ Conflicting(kept) = {}
      /\ \A r \in rows : SourceKey(r) \in requested => r \in kept
      /\ \A r \in kept : ProofOf(kept, r) = ProofOf(rows, r)
      /\ \A r \in rows : \E w \in kept :
            w.identity = r.identity /\ w.repo = r.repo /\ ProofOf(rows, w) = ProofOf(rows, r)
  BY <1>2, <1>3, WitnessesKeep DEF Sound
<1>6. /\ few \subseteq renames /\ RenameConflicts(few) = {}
      /\ \A r \in renames : \E w \in few :
            w.identity = r.identity /\ w.old = r.old /\ w.new = r.new
  BY <1>2, <1>3, WitnessRenamesKeep DEF Sound
<1> HIDE DEF kept, few
<1>7. Sound(kept, few)
  BY <1>5, <1>6 DEF Sound
<1>8. /\ compact.names = whole.names
      /\ compact.claims = whole.claims
      /\ compact.unsafe = whole.unsafe
  BY <1>2, <1>5, <1>6, <1>7, ContextsAlike
<1>9. ASSUME NEW s \in requested PROVE ResolveSource(compact, s) = ResolveSource(whole, s)
  <2>1. PICK r \in rows : SourceKey(r) = s
    BY <1>4, <1>9
  <2>2. r \in kept /\ r \in SourcesOf(rows) /\ r \in SourcesOf(kept)
    BY <1>2, <1>5, <1>7, <1>9, <2>1 DEF Sound, SourcesOf
  <2>3. ProofOf(kept, r) = ProofOf(rows, r)
    BY <1>5, <2>2
  <2>4. ResolveSource(whole, s) =
          IF ProofOf(rows, r).reason # None THEN Declined(ProofOf(rows, r).reason)
          ELSE ResolveReference(whole, r.repo, ProofOf(rows, r).identity)
    BY <2>1, <2>2, SourceResolution
  <2>5. ResolveSource(compact, s) =
          IF ProofOf(kept, r).reason # None THEN Declined(ProofOf(kept, r).reason)
          ELSE ResolveReference(compact, r.repo, ProofOf(kept, r).identity)
    BY <2>1, <2>2, SourceResolution
  <2> HIDE DEF whole, compact
  <2>6. ResolveReference(compact, r.repo, ProofOf(rows, r).identity)
          = ResolveReference(whole, r.repo, ProofOf(rows, r).identity)
    BY <1>8, ReferencesAlike
  <2> QED
    BY <2>3, <2>4, <2>5, <2>6
<1> HIDE DEF whole, compact
<1> QED
  BY <1>1, <1>8, <1>9 DEF requested

(* The query of one commit, which reads one witness for each state of a     *)
(* source instead of the population, knows what the whole population        *)
(* proves and resolves the sources it asks about alike, in every state.     *)
THEOREM WitnessesAreEnough == Spec => []WitnessesSuffice
BY Witnesses, StateInvariant, PTL

-----------------------------------------------------------------------------
(* Boundaries.  Every derivation reads the Facts of a table through its    *)
(* boundary, and nothing else of the population.                           *)

\* Two populations that a boundary cannot tell apart
Alike(F, G, t) == \A table : Through(F, table, t) = Through(G, table, t)

LEMMA ReadsAlike ==
    ASSUME NEW F, NEW G, NEW t, Alike(F, G, t)
    PROVE  /\ Calls(F, t) = Calls(G, t) /\ Pushes(F, t) = Pushes(G, t)
           /\ Decisions(F, t) = Decisions(G, t) /\ Observations(F, t) = Observations(G, t)
           /\ Outcomes(F, t) = Outcomes(G, t) /\ Merges(F, t) = Merges(G, t)
           /\ Revisions(F, t) = Revisions(G, t)
BY DEF Alike, Calls, Pushes, Decisions, Observations, Outcomes, Merges, Revisions

LEMMA RunsAlike ==
    ASSUME NEW F, NEW G, NEW ctx, Alike(F, G, ctx.asOf)
    PROVE  /\ \A run : RunOutcomes(F, ctx.asOf, run) = RunOutcomes(G, ctx.asOf, run)
           /\ RunResolutions(F, ctx) = RunResolutions(G, ctx)
           /\ CIResolutions(F, ctx) = CIResolutions(G, ctx)
<1>1. Outcomes(F, ctx.asOf) = Outcomes(G, ctx.asOf)
  BY ReadsAlike
<1>2. \A run : RunOutcomes(F, ctx.asOf, run) = RunOutcomes(G, ctx.asOf, run)
  BY <1>1 DEF RunOutcomes
<1>3. Runs(F, ctx.asOf) = Runs(G, ctx.asOf)
  BY <1>1 DEF Runs
<1>4. \A run : RunResolution(F, ctx, run) = RunResolution(G, ctx, run)
  BY <1>2 DEF RunResolution
<1>5. RunResolutions(F, ctx) = RunResolutions(G, ctx)
  BY <1>3, <1>4 DEF RunResolutions
<1> QED
  BY <1>2, <1>5 DEF CIResolutions

LEMMA NotesAlike ==
    ASSUME NEW F, NEW G, NEW ctx, NEW M, Alike(F, G, ctx.asOf)
    PROVE  /\ \A key, commit : BoundSessions(F, ctx, key, commit) = BoundSessions(G, ctx, key, commit)
           /\ DefaultNotes(F, ctx, M) = DefaultNotes(G, ctx, M)
           /\ \A push : AssemblyNotes(F, ctx, M, push) = AssemblyNotes(G, ctx, M, push)
           /\ NotedSessions(F, ctx, M) = NotedSessions(G, ctx, M)
<1>1. Observations(F, ctx.asOf) = Observations(G, ctx.asOf)
  BY ReadsAlike
<1>2. \A key, commit : BoundSessions(F, ctx, key, commit) = BoundSessions(G, ctx, key, commit)
  BY <1>1 DEF BoundSessions
<1>3. DefaultNotes(F, ctx, M) = DefaultNotes(G, ctx, M)
  BY <1>2 DEF DefaultNotes
<1>4. BoundNotes(F, ctx, M) = BoundNotes(G, ctx, M)
  BY <1>2 DEF BoundNotes
<1>5. NotedSessions(F, ctx, M) = NotedSessions(G, ctx, M)
  BY <1>2 DEF NotedSessions
<1> QED
  BY <1>2, <1>3, <1>4, <1>5 DEF AssemblyNotes

LEMMA AttributionsAlike ==
    ASSUME NEW F, NEW G, NEW ctx, NEW M, Alike(F, G, ctx.asOf), NEW pushes, NEW notes
    PROVE  Attributions(F, ctx, M, pushes, notes) = Attributions(G, ctx, M, pushes, notes)
<1>1. Calls(F, ctx.asOf) = Calls(G, ctx.asOf)
  BY ReadsAlike
<1>2. \A o : AttributeOne(F, ctx, M, notes, o) = AttributeOne(G, ctx, M, notes, o)
  BY <1>1 DEF AttributeOne
<1>3. \A a : a \in Attributions(F, ctx, M, pushes, notes)
               <=> a \in Attributions(G, ctx, M, pushes, notes)
  BY <1>2, AttributionsByOwner
<1> QED
  BY <1>3 DEF Attributions

LEMMA SharesAlike ==
    ASSUME NEW F, NEW G, NEW ctx, NEW M, Alike(F, G, ctx.asOf), NEW key
    PROVE  Share(F, ctx, M, key) = Share(G, ctx, M, key)
<1>1. Calls(F, ctx.asOf) = Calls(G, ctx.asOf) /\ Pushes(F, ctx.asOf) = Pushes(G, ctx.asOf)
  BY ReadsAlike
<1>2. \A scope, notes : PlausibleCommits(F, ctx, M, key, scope, notes)
                          = PlausibleCommits(G, ctx, M, key, scope, notes)
  BY <1>1 DEF PlausibleCommits
<1>3. \A scope, notes : ShareOf(F, ctx, M, key, scope, notes) = ShareOf(G, ctx, M, key, scope, notes)
  BY <1>2, AttributionsAlike DEF ShareOf
<1> QED
  BY <1>1, <1>3, NotesAlike DEF Share

LEMMA MembershipsAlike ==
    ASSUME NEW F, NEW G, NEW ctx, NEW M, Alike(F, G, ctx.asOf)
    PROVE  Memberships(F, ctx, M) = Memberships(G, ctx, M)
<1>1. /\ Pushes(F, ctx.asOf) = Pushes(G, ctx.asOf) /\ Outcomes(F, ctx.asOf) = Outcomes(G, ctx.asOf)
      /\ Merges(F, ctx.asOf) = Merges(G, ctx.asOf)
      /\ Revisions(F, ctx.asOf) = Revisions(G, ctx.asOf)
  BY ReadsAlike
<1>2. Qualified(F, ctx, M) = Qualified(G, ctx, M)
  BY <1>1, NotesAlike, AttributionsAlike DEF Qualified
<1>3. UnresolvedNames(F, ctx) = UnresolvedNames(G, ctx)
  BY <1>1 DEF UnresolvedNames
<1>4. \A key, commit, pr : CIMember(F, ctx, key, commit, pr) <=> CIMember(G, ctx, key, commit, pr)
  BY <1>1 DEF CIMember
<1>5. \A key, merge : Heads(F, ctx, key, merge) = Heads(G, ctx, key, merge)
  BY <1>1 DEF Heads
<1>6. \A key, commit, merge : Verdict(F, ctx, M, key, commit, merge)
                                = Verdict(G, ctx, M, key, commit, merge)
  BY <1>4, <1>5 DEF Verdict
<1>7. \A key : MergesOf(F, ctx, key) = MergesOf(G, ctx, key)
  BY <1>1 DEF MergesOf
<1>8. \A key, commit : Membership(F, ctx, M, key, commit) = Membership(G, ctx, M, key, commit)
  <2> SUFFICES ASSUME NEW key, NEW commit
               PROVE  Membership(F, ctx, M, key, commit) = Membership(G, ctx, M, key, commit)
    OBVIOUS
  <2>1. [m \in MergesOf(F, ctx, key) |-> Verdict(F, ctx, M, key, commit, m)]
          = [m \in MergesOf(G, ctx, key) |-> Verdict(G, ctx, M, key, commit, m)]
    BY <1>6, <1>7
  <2> QED
    BY <1>3, <2>1 DEF Membership
<1> QED
  BY <1>2, <1>8 DEF Memberships

LEMMA EvidenceAlike ==
    ASSUME NEW F, NEW G, NEW ctx, Alike(F, G, ctx.asOf)
    PROVE  /\ \A R, commit : OutcomesAt(F, R, ctx.asOf, commit) = OutcomesAt(G, R, ctx.asOf, commit)
           /\ \A commit, session :
                ObservationsAt(F, ctx, commit, session) = ObservationsAt(G, ctx, commit, session)
<1>1. \A run : RunOutcomes(F, ctx.asOf, run) = RunOutcomes(G, ctx.asOf, run)
  BY RunsAlike
<1>2. Observations(F, ctx.asOf) = Observations(G, ctx.asOf)
  BY ReadsAlike
<1>3. ASSUME NEW R, NEW commit
      PROVE  OutcomesAt(F, R, ctx.asOf, commit) = OutcomesAt(G, R, ctx.asOf, commit)
  <2> DEFINE ids(H, run) == {o.id : o \in RunOutcomes(H, ctx.asOf, run)}
             runs == {r \in DOMAIN R : R[r].status = "resolved" /\ R[r].commits = {commit}}
  <2>1. \A run : ids(F, run) = ids(G, run)
    BY <1>1
  <2> HIDE DEF ids, runs
  <2>2. UNION {ids(F, run) : run \in runs} = UNION {ids(G, run) : run \in runs}
    BY <2>1
  <2> QED
    BY <2>2 DEF OutcomesAt, ids, runs
<1> QED
  BY <1>2, <1>3 DEF ObservationsAt

LEMMA CompletionsAlike ==
    ASSUME NEW F, NEW G, NEW ctx, NEW M, Alike(F, G, ctx.asOf)
    PROVE  AttributedCompletions(F, ctx, M) = AttributedCompletions(G, ctx, M)
<1> DEFINE of(H, part) == Attributions(H, ctx, M, part,
                              AssemblyNotes(H, ctx, M, CHOOSE p \in part : TRUE))
           rows(H, pushes) ==
              UNION {of(H, part) : part \in {{p \in pushes : p.identity = None},
                                             {p \in pushes : p.identity # None}} \ {{}}}
           row(H, R, joined, a) ==
              [attribution |-> a,
               decisions |-> DecisionsOf(joined, a.call),
               outcomes |-> OutcomesAt(H, R, ctx.asOf, Commit(a.key, a.commit)),
               observations |-> ObservationsAt(H, ctx, Commit(a.key, a.commit), a.session)]
           kept(all) == {b \in all : ResolveSource(ctx, <<"pushes", b.push, "repo">>).key = b.key}
           completions(H, R, joined, pushes) == {row(H, R, joined, a) : a \in kept(rows(H, pushes))}
<1>1. ASSUME NEW H
      PROVE  AttributedCompletions(H, ctx, M) =
               completions(H, RunResolutions(H, ctx),
                           Joined(Calls(H, ctx.asOf), Decisions(H, ctx.asOf)), Pushes(H, ctx.asOf))
  BY DEF AttributedCompletions
<1>2. \A part : of(F, part) = of(G, part)
  BY NotesAlike, AttributionsAlike
<1>3. \A R, joined, a : row(F, R, joined, a) = row(G, R, joined, a)
  BY EvidenceAlike
<1>4. \A pushes : rows(F, pushes) = rows(G, pushes)
  <2> HIDE DEF of
  <2> QED
    BY <1>2
<1> HIDE DEF row, rows, kept
<1>5. \A R, joined, pushes : completions(F, R, joined, pushes) = completions(G, R, joined, pushes)
  BY <1>3, <1>4
<1> HIDE DEF completions
<1> QED
  BY <1>1, <1>5, ReadsAlike, RunsAlike

LEMMA RolloutsAlike ==
    ASSUME NEW F, NEW G, NEW ctx, NEW M, Alike(F, G, ctx.asOf)
    PROVE  Rollouts(F, ctx, M) = Rollouts(G, ctx, M)
<1> DEFINE sessions == {c.session : c \in Calls(F, ctx.asOf)}
           row(H, s) == Rollout(H, ctx, RunResolutions(H, ctx), s,
                                RolloutCommits(H, ctx, M, s, NotedSessions(H, ctx, M)))
<1>1. /\ Calls(F, ctx.asOf) = Calls(G, ctx.asOf) /\ Pushes(F, ctx.asOf) = Pushes(G, ctx.asOf)
      /\ Decisions(F, ctx.asOf) = Decisions(G, ctx.asOf)
  BY ReadsAlike
<1>2. \A s, notes : RolloutCommits(F, ctx, M, s, notes) = RolloutCommits(G, ctx, M, s, notes)
  <2> SUFFICES ASSUME NEW s, NEW notes
               PROVE  RolloutCommits(F, ctx, M, s, notes) = RolloutCommits(G, ctx, M, s, notes)
    OBVIOUS
  <2>1. Attributions(F, ctx, M, Pushes(F, ctx.asOf), notes)
          = Attributions(G, ctx, M, Pushes(G, ctx.asOf), notes)
    BY <1>1, AttributionsAlike
  <2> QED
    BY <2>1 DEF RolloutCommits
<1>3. \A R, s, bound : Rollout(F, ctx, R, s, bound) = Rollout(G, ctx, R, s, bound)
  <2> SUFFICES ASSUME NEW R, NEW s, NEW bound
               PROVE  Rollout(F, ctx, R, s, bound) = Rollout(G, ctx, R, s, bound)
    OBVIOUS
  <2>a. /\ \A Q, commit : OutcomesAt(F, Q, ctx.asOf, commit) = OutcomesAt(G, Q, ctx.asOf, commit)
        /\ \A commit, session :
                ObservationsAt(F, ctx, commit, session) = ObservationsAt(G, ctx, commit, session)
    BY EvidenceAlike
  <2>1. UNION {OutcomesAt(F, R, ctx.asOf, c) : c \in bound.commits}
          = UNION {OutcomesAt(G, R, ctx.asOf, c) : c \in bound.commits}
    BY <2>a
  <2>2. UNION {ObservationsAt(F, ctx, c, s) : c \in bound.commits}
          = UNION {ObservationsAt(G, ctx, c, s) : c \in bound.commits}
    BY <2>a
  <2> QED
    BY <1>1, <2>1, <2>2 DEF Rollout
<1>4. \A s : row(F, s) = row(G, s)
  <2>1. RunResolutions(F, ctx) = RunResolutions(G, ctx)
    BY RunsAlike
  <2>2. NotedSessions(F, ctx, M) = NotedSessions(G, ctx, M)
    BY NotesAlike
  <2> QED
    BY <1>2, <1>3, <2>1, <2>2
<1>5. /\ Rollouts(F, ctx, M) = {row(F, s) : s \in sessions}
      /\ Rollouts(G, ctx, M) = {row(G, s) : s \in sessions}
  BY <1>1 DEF Rollouts
<1> HIDE DEF row, sessions
<1> QED
  BY <1>4, <1>5

LEMMA RecoveriesAlike ==
    ASSUME NEW F, NEW G, NEW ctx, NEW M, Alike(F, G, ctx.asOf)
    PROVE  Recoveries(F, ctx, M) = Recoveries(G, ctx, M)
<1>1. Attributions(F, ctx, M, Pushes(F, ctx.asOf), DefaultNotes(F, ctx, M))
        = Attributions(G, ctx, M, Pushes(G, ctx.asOf), DefaultNotes(G, ctx, M))
  BY ReadsAlike, NotesAlike, AttributionsAlike
<1>2. \A R : Stream(F, ctx, R) = Stream(G, ctx, R)
  <2> SUFFICES ASSUME NEW R PROVE Stream(F, ctx, R) = Stream(G, ctx, R)
    OBVIOUS
  <2> DEFINE entry(H, run) == Entry(ctx, RunOutcomes(H, ctx.asOf, run),
                                    VerdictOutcome(RunOutcomes(H, ctx.asOf, run)))
             runs(H) == {r \in DOMAIN R : Trusted(R, r) /\ Check(RunOutcomes(H, ctx.asOf, r)) # None}
  <2>1. \A run : RunOutcomes(F, ctx.asOf, run) = RunOutcomes(G, ctx.asOf, run)
    BY RunsAlike
  <2>2. (\A run : entry(F, run) = entry(G, run)) /\ runs(F) = runs(G)
    BY <2>1
  <2>3. \A H : Stream(H, ctx, R) = {entry(H, run) : run \in runs(H)}
    BY DEF Stream
  <2> HIDE DEF entry, runs
  <2> QED
    BY <2>2, <2>3
<1>3. Stream(F, ctx, RunResolutions(F, ctx)) = Stream(G, ctx, RunResolutions(G, ctx))
  BY <1>2, RunsAlike
<1> DEFINE pairs(rows, stream) ==
              {Pair(rows, p[1], p[2]) :
                  p \in {q \in Transitions(stream) :
                            IsFix(M, q[1].check[1], q[1].outcome, q[2].outcome)}}
<1>4. ASSUME NEW H
      PROVE  Recoveries(H, ctx, M) =
               pairs(Attributions(H, ctx, M, Pushes(H, ctx.asOf), DefaultNotes(H, ctx, M)),
                     Stream(H, ctx, RunResolutions(H, ctx)))
  BY DEF Recoveries
<1> HIDE DEF pairs
<1> QED
  BY <1>1, <1>3, <1>4

LEMMA AcceptedAlike ==
    ASSUME NEW F, NEW G, NEW ctx, Alike(F, G, ctx.asOf)
    PROVE  AcceptedSessions(F, ctx) = AcceptedSessions(G, ctx)
<1> DEFINE accepted(decisions, observations) ==
              {[session |-> s,
                accepted |-> Cardinality({d \in decisions : d.session = s /\ d.verdict = "accept"}),
                last |-> Max({d.occurred : d \in {e \in decisions : e.session = s}}),
                status |-> IF s \in {o.session : o \in {p \in observations :
                                        ResolveFact(ctx, p, "repo").key # None}}
                           THEN "committed" ELSE "attribution_unavailable"] :
               s \in {d.session : d \in {e \in decisions : e.verdict = "accept"}}}
<1>1. ASSUME NEW H
      PROVE  AcceptedSessions(H, ctx)
                = accepted(Decisions(H, ctx.asOf), Observations(H, ctx.asOf))
  BY DEF AcceptedSessions
<1> HIDE DEF accepted
<1> QED
  BY <1>1, ReadsAlike

LEMMA ViewsAlike ==
    ASSUME NEW F, NEW G, NEW ctx, Alike(F, G, ctx.asOf)
    PROVE  DerivedView(F, ctx) = DerivedView(G, ctx)
<1> DEFINE share(H, k) == IF ShareScope(ctx, Pushes(H, ctx.asOf), k) = {} THEN None
                          ELSE Share(H, ctx, Mirrors, k)
           shares(H) == [k \in Keys(ctx) \cap DOMAIN Mirrors |-> share(H, k)]
           view(ci, share_, members, completions, rollouts, recoveries, accepted) ==
              [names |-> ctx.names, ci |-> ci, shares |-> share_, memberships |-> members,
               completions |-> completions, rollouts |-> rollouts, recoveries |-> recoveries,
               accepted |-> accepted]
<1>1. \A k : share(F, k) = share(G, k)
  BY ReadsAlike, SharesAlike
<1>2. shares(F) = shares(G)
  <2> HIDE DEF share
  <2> QED
    BY <1>1
<1>3. ASSUME NEW H
      PROVE  DerivedView(H, ctx) =
                view(CIResolutions(H, ctx), shares(H), Memberships(H, ctx, Mirrors),
                     AttributedCompletions(H, ctx, Mirrors), Rollouts(H, ctx, Mirrors),
                     Recoveries(H, ctx, Mirrors), AcceptedSessions(H, ctx))
  BY DEF DerivedView
<1>4. /\ CIResolutions(F, ctx) = CIResolutions(G, ctx)
      /\ Memberships(F, ctx, Mirrors) = Memberships(G, ctx, Mirrors)
      /\ AttributedCompletions(F, ctx, Mirrors) = AttributedCompletions(G, ctx, Mirrors)
      /\ Rollouts(F, ctx, Mirrors) = Rollouts(G, ctx, Mirrors)
      /\ Recoveries(F, ctx, Mirrors) = Recoveries(G, ctx, Mirrors)
      /\ AcceptedSessions(F, ctx) = AcceptedSessions(G, ctx)
  BY RunsAlike, MembershipsAlike, CompletionsAlike, RolloutsAlike, RecoveriesAlike, AcceptedAlike
<1> HIDE DEF shares, view
<1> QED
  BY <1>2, <1>3, <1>4

(* A read as of a boundary gives the same rows however much is captured,    *)
(* quarantined or released after the boundary, in every derivation of the   *)
(* view and for every population.                                           *)
THEOREM LaterFactsStayInvisible == Spec => []LaterFactsInvisible
<1>1. LaterFactsInvisible
  <2> SUFFICES ASSUME NEW t \in Boundaries
               PROVE  LET through(F) == {f \in F : f.at <= t} IN
                      Cardinality({DerivedView(read[1], Context(read[1] \cup read[2], t)) :
                          read \in {<<Visible, supplied>>,
                                    <<through(Visible), through(supplied)>>}}) = 1
    BY DEF LaterFactsInvisible
  <2> DEFINE through(F) == {f \in F : f.at <= t}
             view(read) == DerivedView(read[1], Context(read[1] \cup read[2], t))
             all == <<Visible, supplied>>
             early == <<through(Visible), through(supplied)>>
             ctx == Context(Visible \cup supplied, t)
  <2>1. Alike(Visible, through(Visible), t)
    BY DEF Alike, Through
  <2>2. Context(through(Visible) \cup through(supplied), t) = ctx
    <3> DEFINE F == Visible \cup supplied
               G == through(Visible) \cup through(supplied)
    <3>1. {g \in F : g.table \in EvidenceTables /\ g.at <= t}
            = {g \in G : g.table \in EvidenceTables /\ g.at <= t}
      OBVIOUS
    <3>2. Rows(F, t) = Rows(G, t)
      BY <3>1 DEF Rows
    <3>3. Renames(F, t) = Renames(G, t)
      BY DEF Renames, Through
    <3> QED
      BY <3>2, <3>3 DEF Context
  <2>3. ctx.asOf = t
    BY AsOf
  <2> HIDE DEF ctx
  <2>4. DerivedView(through(Visible), ctx) = DerivedView(Visible, ctx)
    BY <2>1, <2>3, ViewsAlike
  <2>5. view(all) = view(early)
    BY <2>2, <2>4 DEF ctx
  <2> HIDE DEF view, all, early
  <2>6. {view(read) : read \in {all, early}} = {view(all)}
    BY <2>5
  <2>7. Cardinality({view(read) : read \in {all, early}}) = 1
    BY <2>6, FS_Singleton
  <2> QED
    BY <2>7 DEF view, all, early
<1> QED
  BY <1>1, PTL

-----------------------------------------------------------------------------
(* The history of commits                                                  *)

\* The sets of commits that have a commit and the parents of each of theirs
Closed(c) == {X \in SUBSET Commits : c \in X /\ \A d \in X : Parents[d] \subseteq X}

\* The recursive definition has a solution: what every closed set contains
LEMMA AncestorsExist ==
    \A c \in Commits : Ancestors[c] = {c} \cup UNION {Ancestors[p] : p \in Parents[c]}
<1> DEFINE within(c) == {d \in Commits : \A X \in Closed(c) : d \in X}
           g == [c \in Commits |-> within(c)]
           Solves(f) == f = [c \in Commits |-> {c} \cup UNION {f[p] : p \in Parents[c]}]
<1>1. \A c \in Commits : Parents[c] \subseteq Commits
  BY GitAssumption
<1>2. ASSUME NEW c \in Commits
      PROVE  within(c) = {c} \cup UNION {within(p) : p \in Parents[c]}
  <2> DEFINE U == {c} \cup UNION {within(p) : p \in Parents[c]}
  <2>1. ASSUME NEW p \in Parents[c] PROVE within(p) \subseteq within(c) /\ p \in within(p)
    <3>1. \A X \in Closed(c) : X \in Closed(p)
      BY <2>1 DEF Closed
    <3>2. \A X \in Closed(p) : p \in X
      BY DEF Closed
    <3>3. p \in Commits
      BY <1>1, <2>1
    <3> QED
      BY <3>1, <3>2, <3>3
  <2>2. U \subseteq within(c)
    <3>1. c \in within(c)
      BY DEF Closed
    <3> HIDE DEF within
    <3> QED
      BY <2>1, <3>1
  <2>3. U \in Closed(c)
    <3>1. U \in SUBSET Commits /\ c \in U
      OBVIOUS
    <3>2. ASSUME NEW p \in Parents[c], NEW d \in within(p) PROVE Parents[d] \subseteq within(p)
      <4>1. \A X \in Closed(p) : Parents[d] \subseteq X
        BY <3>2 DEF Closed
      <4> QED
        BY <1>1, <3>2, <4>1
    <3>3. Parents[c] \subseteq U
      <4> HIDE DEF within
      <4> QED
        BY <2>1
    <3>4. \A d \in U : Parents[d] \subseteq U
      <4> HIDE DEF within
      <4> QED
        BY <3>2, <3>3
    <3> HIDE DEF U
    <3> QED
      BY <3>1, <3>4 DEF Closed
  <2>4. within(c) \subseteq U
    <3> HIDE DEF U
    <3> QED
      BY <2>3
  <2> QED
    BY <2>2, <2>4
<1>3. Solves(g)
  <2>1. \A c \in Commits : UNION {g[p] : p \in Parents[c]} = UNION {within(p) : p \in Parents[c]}
    BY <1>1
  <2> HIDE DEF within
  <2> QED
    BY <1>2, <2>1
<1> HIDE DEF g
<1>4. Solves(CHOOSE f : Solves(f))
  BY <1>3, Zenon
<1>5. Ancestors = CHOOSE f : Solves(f)
  BY DEF Ancestors
<1>6. Solves(Ancestors)
  <2> HIDE DEF Solves
  <2> QED
    BY <1>4, <1>5
<1> QED
  BY <1>6

\* What every commit has that all of its parents have, every commit has
LEMMA ByParents ==
    ASSUME NEW S, S \subseteq Commits,
           \A c \in Commits : (\A p \in Parents[c] : p \in S) => c \in S
    PROVE  S = Commits
<1> SUFFICES ASSUME Commits \ S # {} PROVE FALSE
  OBVIOUS
<1>1. Commits \ S \in SUBSET Nat
  BY GitAssumption
<1>2. PICK c \in Commits \ S : \A d \in Commits \ S : c <= d
  BY <1>1, LeastNumber
<1>3. PICK p \in Parents[c] : p \notin S
  BY <1>2
<1>4. p \in Commits /\ p < c /\ c \in Nat /\ p \in Nat
  BY <1>2, GitAssumption
<1> QED
  BY <1>2, <1>3, <1>4

\* Ancestors are commits, no younger, and theirs are ancestors too
LEMMA AncestorsOrder ==
    \A c \in Commits :
        /\ c \in Ancestors[c] /\ Ancestors[c] \subseteq Commits
        /\ \A d \in Ancestors[c] : d <= c /\ Ancestors[d] \subseteq Ancestors[c]
<1> DEFINE Sorted(c) ==
              /\ c \in Ancestors[c] /\ Ancestors[c] \subseteq Commits
              /\ \A d \in Ancestors[c] : d <= c /\ Ancestors[d] \subseteq Ancestors[c]
           S == {c \in Commits : Sorted(c)}
<1>1. ASSUME NEW c \in Commits, \A p \in Parents[c] : p \in S PROVE Sorted(c)
  <2>1. Ancestors[c] = {c} \cup UNION {Ancestors[p] : p \in Parents[c]}
    BY AncestorsExist
  <2>2. \A p \in Parents[c] : p \in Commits /\ p < c
    BY GitAssumption
  <2>3. c \in Nat /\ \A d \in Commits : d \in Nat
    BY GitAssumption
  <2>4. \A p \in Parents[c] : Sorted(p)
    BY <1>1
  <2>5. c \in Ancestors[c] /\ Ancestors[c] \subseteq Commits
    BY <2>1, <2>4
  <2>6. ASSUME NEW d \in Ancestors[c], d # c
        PROVE  d <= c /\ Ancestors[d] \subseteq Ancestors[c]
    <3>1. PICK p \in Parents[c] : d \in Ancestors[p]
      BY <2>1, <2>6
    <3>2. d <= p /\ Ancestors[d] \subseteq Ancestors[p] /\ d \in Commits
      BY <2>4, <3>1
    <3>3. Ancestors[p] \subseteq Ancestors[c]
      BY <2>1
    <3>4. d <= c
      <4>1. d \in Nat /\ p \in Nat /\ c \in Nat /\ p < c
        BY <2>2, <2>3, <3>2
      <4> QED
        BY <3>2, <4>1
    <3> QED
      BY <3>2, <3>3, <3>4
  <2> QED
    BY <2>3, <2>5, <2>6
<1>2. S = Commits
  <2>1. \A c \in Commits : (\A p \in Parents[c] : p \in S) => c \in S
    BY <1>1
  <2>2. S \subseteq Commits
    OBVIOUS
  <2> HIDE DEF S
  <2> QED
    BY <2>1, <2>2, ByParents
<1> QED
  BY <1>2

\* A Push lists its head; what else it lists is in a range that it may have
LEMMA ListedCommits ==
    ASSUME NEW mirror, mirror \subseteq Commits, NEW push, NEW commit \in Commits
    PROVE  /\ push.after = commit => commit \in ListPushCommits(mirror, push)
           /\ commit \in ListPushCommits(mirror, push) /\ push.after # commit =>
                /\ ~push.forced /\ push.before \notin {None, commit, push.after}
                /\ push.after \in Commits /\ commit \in Ancestors[push.after]
<1> DEFINE range == Ancestors[push.after] \ Ancestors[push.before]
           whole == push.forced \/ push.before = None \/ ~({push.before, push.after} \subseteq mirror)
                    \/ range = {}
<1>1. ListPushCommits(mirror, push) = IF whole THEN {push.after} ELSE Newest(range, MaxCommits)
  BY DEF ListPushCommits
<1>2. ASSUME ~whole
      PROVE  /\ ~push.forced /\ push.before # None
             /\ push.before \in Commits /\ push.after \in Commits /\ range # {}
  BY <1>2
<1>3. ASSUME ~whole, push.after = commit PROVE commit \in Newest(range, MaxCommits)
  <2>1. /\ commit \in Ancestors[commit]
        /\ \A d \in Ancestors[commit] : d <= commit
        /\ \A d \in Ancestors[push.before] : Ancestors[d] \subseteq Ancestors[push.before]
    BY <1>2, <1>3, AncestorsOrder
  <2>2. commit \notin Ancestors[push.before]
    BY <1>2, <1>3, <2>1
  <2>3. commit \in range
    BY <1>3, <2>1, <2>2
  <2>4. {d \in range : d > commit} = {}
    <3> SUFFICES ASSUME NEW d \in range, d > commit PROVE FALSE
      OBVIOUS
    <3>1. d \in Commits /\ d <= commit
      BY <1>3, <2>1, AncestorsOrder
    <3> QED
      BY <3>1, GitAssumption
  <2>5. Cardinality({d \in range : d > commit}) < MaxCommits
    BY <2>4, FS_EmptySet, PolicyAssumption
  <2> QED
    BY <2>3, <2>5 DEF Newest
<1>4. ASSUME ~whole, commit \in Newest(range, MaxCommits), push.after # commit
      PROVE  push.before \notin {commit, push.after} /\ commit \in Ancestors[push.after]
  <2>1. commit \in range
    BY <1>4 DEF Newest
  <2>2. push.before # commit
    BY <2>1, AncestorsOrder
  <2>3. push.before # push.after
    BY <1>2, <1>4
  <2> QED
    BY <2>1, <2>2, <2>3
<1> HIDE DEF whole, range
<1> QED
  BY <1>1, <1>2, <1>3, <1>4

\* Heads that precede a commit do not have it
LEMMA PrecedingHeads ==
    ASSUME NEW mirror, NEW commit \in Commits, NEW heads,
           HeadsPrecedeCommit(mirror, commit, heads), NEW h \in heads
    PROVE  commit \notin Ancestors[h]
<1>1. PICK p \in Parents[commit] : h \in Ancestors[p]
  BY DEF HeadsPrecedeCommit
<1>2. p \in Commits /\ p < commit
  BY GitAssumption
<1>3. Ancestors[h] \subseteq Ancestors[p] /\ \A d \in Ancestors[p] : d <= p
  BY <1>1, <1>2, AncestorsOrder
<1>4. p \in Nat /\ commit \in Nat
  BY <1>2, GitAssumption
<1> QED
  BY <1>2, <1>3, <1>4

\* Facts of one table in the order of their capture
Numbered(S) == \A f, g \in S : f.id \in Nat /\ f.at \in Nat /\ (f.id = g.id => f = g)

LEMMA EarlierOrder ==
    ASSUME NEW S, Numbered(S)
    PROVE  \A f, g \in S : (Earlier(f, g) \/ Earlier(g, f) \/ f = g)
                           /\ ~(Earlier(f, g) /\ Earlier(g, f)) /\ ~Earlier(f, f)
BY DEF Numbered, Earlier

LEMMA FirstOfAll ==
    ASSUME NEW S, Numbered(S), S # {}
    PROVE  /\ First(S) \in S
           /\ \A g \in S \ {First(S)} : Earlier(First(S), g)
<1> DEFINE times == {f.at : f \in S}
<1>1. times \in SUBSET Nat /\ times # {}
  BY DEF Numbered
<1>2. PICK m \in times : \A n \in times : m <= n
  <2> HIDE DEF times
  <2> QED
    BY <1>1, LeastNumber
<1> DEFINE soon == {f \in S : f.at = m}
           ids == {f.id : f \in soon}
<1>3. ids \in SUBSET Nat /\ ids # {}
  BY DEF Numbered
<1>4. PICK i \in ids : \A n \in ids : i <= n
  <2> HIDE DEF ids
  <2> QED
    BY <1>3, LeastNumber
<1>5. PICK f \in soon : f.id = i
  OBVIOUS
<1>6. ASSUME NEW g \in S \ {f} PROVE Earlier(f, g)
  <2>1. f.at = m /\ m <= g.at /\ f.at \in Nat /\ g.at \in Nat /\ f.id \in Nat /\ g.id \in Nat
    BY <1>2, <1>5 DEF Numbered
  <2>2. CASE g.at = m
    <3>1. i <= g.id /\ g.id # f.id
      BY <1>4, <1>5, <2>2 DEF Numbered
    <3> QED
      BY <1>5, <2>1, <2>2, <3>1 DEF Earlier
  <2>3. CASE g.at # m
    BY <2>1, <2>3 DEF Earlier
  <2> QED
    BY <2>2, <2>3
<1>7. \E e \in S : \A g \in S \ {e} : Earlier(e, g)
  BY <1>5, <1>6
<1> QED
  BY <1>7 DEF First

\* The search for the owner of a commit, with its batches and its question about
\* heads, finds the first Push of the repository that lists the commit
LEMMA OwnerFound ==
    ASSUME NEW F, NEW ctx, NEW mirror, mirror \subseteq Commits, NEW key, NEW commit \in Commits,
           Numbered(KeyPushes(F, ctx, key))
    PROVE  LET listers == {p \in KeyPushes(F, ctx, key) :
                              /\ ResolveReference(ctx, p.repo, p.identity).key = key
                              /\ commit \in ListPushCommits(mirror, p)}
           IN  FindCommitOwner(F, ctx, mirror, key, commit)
                  = IF listers = {} THEN None ELSE First(listers)
<1> DEFINE pushes == KeyPushes(F, ctx, key)
           qualifies(p) == ResolveReference(ctx, p.repo, p.identity).key = key
           lists(p) == commit \in ListPushCommits(mirror, p)
           listers == {p \in pushes : qualifies(p) /\ lists(p)}
           head(p) == qualifies(p) /\ p.after = commit
           needsRange(p) ==
              /\ qualifies(p)
              /\ p.after # commit /\ ~p.forced
              /\ p.before \notin {None, commit, p.after}
           candidates(p) == {q \in Batch(pushes, p) :
                               \A h \in Batch(pushes, p) : head(h) => ~Earlier(h, q)}
           heads(p) == {q.after : q \in {r \in candidates(p) : needsRange(r)}}
           possible(p) == ~HeadsPrecedeCommit(mirror, commit, heads(p))
           owners == {p \in pushes :
               \/ head(p)
               \/ needsRange(p) /\ possible(p) /\ lists(p)}
<1>1. FindCommitOwner(F, ctx, mirror, key, commit) = IF owners = {} THEN None ELSE First(owners)
  BY Zenon DEF FindCommitOwner
<1>2. \A p \in pushes : /\ head(p) => lists(p)
                        /\ qualifies(p) /\ lists(p) /\ ~head(p) =>
                              needsRange(p) /\ commit \in Ancestors[p.after]
  BY ListedCommits
<1>3. \A p \in pushes : p \in Batch(pushes, p) /\ Batch(pushes, p) \subseteq pushes
  BY DEF Batch
<1>4. owners \subseteq listers /\ listers \subseteq pushes
  <2> HIDE DEF lists, qualifies, pushes, candidates
  <2> QED
    BY <1>2
<1>5. Numbered(owners) /\ Numbered(listers)
  BY <1>4 DEF Numbered
<1>6. ASSUME listers # {} PROVE First(listers) \in owners
  <2> DEFINE p == First(listers)
  <2>1. p \in listers /\ \A q \in listers \ {p} : Earlier(p, q)
    <3> HIDE DEF listers
    <3> QED
      BY <1>5, <1>6, FirstOfAll
  <2>2. \A q \in listers : ~Earlier(q, p)
    <3> HIDE DEF listers
    <3> QED
      BY <1>5, <2>1, EarlierOrder
  <2>3. p \in pushes /\ qualifies(p) /\ lists(p)
    BY <2>1
  <2> SUFFICES p \in owners
    OBVIOUS
  <2> HIDE DEF p, lists, qualifies, pushes
  <2>4. CASE head(p)
    <3> HIDE DEF head, needsRange, possible
    <3> QED
      BY <2>3, <2>4
  <2>5. CASE ~head(p)
    <3>1. needsRange(p) /\ commit \in Ancestors[p.after]
      BY <1>2, <2>3, <2>5
    <3>2. p \in candidates(p)
      <4>1. \A h \in Batch(pushes, p) : head(h) => h \in listers
        BY <1>2, <1>3, <2>3
      <4> HIDE DEF listers, head
      <4> QED
        BY <1>3, <2>2, <2>3, <4>1
    <3>3. p.after \in heads(p)
      BY <3>1, <3>2
    <3>4. possible(p)
      <4> HIDE DEF heads
      <4> QED
        BY <3>1, <3>3, PrecedingHeads
    <3> HIDE DEF candidates, possible
    <3> QED
      BY <2>3, <3>1, <3>4
  <2> QED
    BY <2>4, <2>5
<1>7. ASSUME listers # {} PROVE owners # {} /\ First(owners) = First(listers)
  <2> HIDE DEF owners, listers
  <2>1. First(listers) \in owners
    BY <1>6, <1>7
  <2>2. /\ First(owners) \in owners
        /\ \A q \in owners \ {First(owners)} : Earlier(First(owners), q)
    BY <1>5, <2>1, FirstOfAll
  <2>3. /\ First(listers) \in listers
        /\ \A q \in listers \ {First(listers)} : Earlier(First(listers), q)
    BY <1>5, <1>7, FirstOfAll
  <2> QED
    BY <1>4, <1>5, <2>1, <2>2, <2>3, EarlierOrder
<1> HIDE DEF owners, listers
<1>8. listers = {} => owners = {}
  BY <1>4
<1>9. FindCommitOwner(F, ctx, mirror, key, commit) = IF listers = {} THEN None ELSE First(listers)
  BY <1>1, <1>7, <1>8
<1> QED
  BY <1>9 DEF listers

-----------------------------------------------------------------------------
(* The query of one commit                                                 *)

\* A Fact whose row is known resolves as its source
LEMMA KnownRows ==
    ASSUME NEW rows, NEW renames, NEW t, NEW f, NEW role \in Roles(f),
           RowOf(f, role) \in SourcesOf(rows)
    PROVE  ResolveFact(BuildContext(rows, renames, t), f, role)
              = ResolveSource(BuildContext(rows, renames, t), <<f.table, f.id, role>>)
<1> DEFINE ctx == BuildContext(rows, renames, t)
           r == RowOf(f, role)
           known == {p.row : p \in ctx.proven}
<1>1. ctx.proven = {[row |-> q, proof |-> ProofOf(rows, q)] : q \in SourcesOf(rows)}
  BY ContextFields
<1>2. r \in known
  <2> DEFINE p == [row |-> r, proof |-> ProofOf(rows, r)]
  <2>1. p \in ctx.proven /\ p.row = r
    BY <1>1
  <2> HIDE DEF p, ctx
  <2> QED
    BY <2>1
<1> HIDE DEF ctx
<1> QED
  BY <1>2 DEF ResolveFact, ResolveRow, ctx

\* A visible Push resolves by its slug and its identity, and names its repository
LEMMA PushesResolve ==
    ASSUME StateInv, NEW t, NEW p \in Pushes(Visible, t)
    PROVE  LET whole == Context(Visible, t) IN
           /\ ResolveFact(whole, p, "repo") = ResolveReference(whole, p.repo, p.identity)
           /\ p.repo # None => p.repo \in Names(whole, KeyOf(p.identity, p.repo))
<1> DEFINE rows == Rows(Visible, t)
           renames == Renames(Visible, t)
           whole == BuildContext(rows, renames, t)
           r == RowOf(p, "repo")
<1>1. p \in Visible /\ p.table = "pushes" /\ p.at <= t
  BY DEF Pushes, Through
<1>2. "repo" \in Roles(p) /\ r \in Evidence(p)
      /\ r = Row(p, "repo", p.repo, p.identity) /\ SourceKey(r) = <<p.table, p.id, "repo">>
  BY RoleRows DEF Roles
<1>3. r.table = "pushes" /\ r.repo = p.repo /\ r.identity = p.identity
  BY <1>1, <1>2 DEF Row
<1>4. r \in rows
  BY <1>1, <1>2 DEF Rows, EvidenceTables
<1>5. Sound(rows, renames)
  <2>1. Unique(Visible)
    BY DEF StateInv, Unique, Visible
  <2> QED
    BY <2>1, SoundReads
<1> HIDE DEF rows, renames, r
<1>6. r \in SourcesOf(rows)
  BY <1>4, <1>5, SoundContext
<1>7. ProofOf(rows, r) = [identity |-> p.identity, reason |-> None]
  BY <1>3 DEF ProofOf, SourceIdentity
<1>8. ResolveFact(whole, p, "repo") = ResolveSource(whole, SourceKey(r))
  BY <1>2, <1>6, KnownRows DEF r
<1>9. ResolveSource(whole, SourceKey(r)) = ResolveReference(whole, p.repo, p.identity)
  <2>1. ProofOf(rows, r).reason = None /\ ProofOf(rows, r).identity = p.identity
    BY <1>7
  <2> QED
    BY <1>3, <1>6, <2>1, SourceResolution
<1>10. p.repo # None => p.repo \in Names(whole, KeyOf(p.identity, p.repo))
  <2> SUFFICES ASSUME p.repo # None PROVE p.repo \in Names(whole, KeyOf(p.identity, p.repo))
    OBVIOUS
  <2>1. r \in Naming(rows)
    BY <1>3, <1>6, <1>7 DEF Naming
  <2>2. r.repo \in Names(whole, KeyOf(ProofOf(rows, r).identity, r.repo))
    BY <2>1, NamedRows
  <2> QED
    BY <1>3, <1>7, <2>2
<1>11. Context(Visible, t) = whole
  BY DEF Context, rows, renames
<1> QED
  BY <1>8, <1>9, <1>10, <1>11

\* The witnesses bind the Sessions of the commit as the population does
LEMMA BoundAlike ==
    ASSUME StateInv, NEW t \in Boundaries, NEW commit \in Commits, NEW key
    PROVE  BoundSessions(Visible, WitnessContext(Visible, t, RequestedSources(t, commit)), key, commit)
              = BoundSessions(Visible, Context(Visible, t), key, commit)
<1> DEFINE rows == Rows(Visible, t)
           renames == Renames(Visible, t)
           requested == RequestedSources(t, commit)
           kept == WitnessRows(rows, requested)
           few == WitnessRenames(renames)
           whole == BuildContext(rows, renames, t)
           compact == BuildContext(kept, few, t)
           at == {o \in Observations(Visible, t) : o.commit = commit}
<1>1. Context(Visible, t) = whole /\ WitnessContext(Visible, t, requested) = compact
  BY DEF Context, WitnessContext
<1>2. whole.asOf = t /\ compact.asOf = t
  BY ContextFields
<1>3. \A s \in requested : ResolveSource(compact, s) = ResolveSource(whole, s)
  <2>1. WitnessesSuffice
    BY Witnesses
  <2> QED
    BY <1>1, <2>1 DEF WitnessesSuffice
<1>4. Conflicting(rows) = {} /\ Conflicting(kept) = {}
      /\ \A r \in rows : SourceKey(r) \in requested => r \in kept
  <2>1. Unique(Visible) /\ \A f \in Visible : f.id \in Nat
    BY PopulationAssumption DEF StateInv, Unique, Visible
  <2>2. Conflicting(rows) = {}
    BY <2>1, SoundReads DEF Sound
  <2>3. \A r \in rows : r.id \in Nat
    BY <2>1 DEF Rows, Evidence, Row
  <2> HIDE DEF rows, requested
  <2> QED
    BY <2>2, <2>3, WitnessesKeep
<1>5. ASSUME NEW o \in at
      PROVE  ResolveFact(compact, o, "repo") = ResolveFact(whole, o, "repo")
  <2> DEFINE r == RowOf(o, "repo")
             s == <<o.table, o.id, "repo">>
  <2>1. "repo" \in Roles(o) /\ r \in Evidence(o) /\ SourceKey(r) = s
    BY RoleRows DEF Roles
  <2>2. o \in Visible /\ o.table \in EvidenceTables /\ o.at <= t
    BY DEF Observations, Through, EvidenceTables
  <2>3. r \in rows
    BY <2>1, <2>2 DEF Rows
  <2>4. s \in requested
    <3>1. o \in {g \in Observations(Visible, t) \cup Outcomes(Visible, t) : g.commit = commit}
      OBVIOUS
    <3> HIDE DEF r, s
    <3> QED
      BY <2>1, <3>1 DEF RequestedSources
  <2> HIDE DEF rows, requested, kept, renames, few, r
  <2>5. r \in SourcesOf(rows) /\ r \in SourcesOf(kept)
    BY <1>4, <2>1, <2>3, <2>4 DEF SourcesOf
  <2>6. ResolveFact(whole, o, "repo") = ResolveSource(whole, s)
    BY <2>1, <2>5, KnownRows DEF r
  <2>7. ResolveFact(compact, o, "repo") = ResolveSource(compact, s)
    BY <2>1, <2>5, KnownRows DEF r
  <2> QED
    BY <1>3, <2>4, <2>6, <2>7
<1> HIDE DEF whole, compact
<1>6. BoundSessions(Visible, compact, key, commit) = BoundSessions(Visible, whole, key, commit)
  BY <1>2, <1>5 DEF BoundSessions
<1> QED
  BY <1>1, <1>6

\* The calls of the noted sessions in the window of a Push
NotedCalls(F, t, push, sessions) ==
    {c \in Window(Calls(F, t), push, NotesLookback) : c.session \in sessions}

\* The narrow read of the calls has all that are in the windows of the owner
LEMMA OwnedCalls ==
    ASSUME NEW F, NEW ctx, ctx.asOf \in Nat, \A c \in Calls(F, ctx.asOf) : c.at \in Nat,
           NEW mirror, NEW key, NEW owner, owner # None, owner.at \in Nat, NEW commit, NEW sessions
    PROVE  AttributeOwned(F, ctx, mirror, key, owner, commit, sessions)
              = AttributeCommit(mirror, key, owner, commit,
                    Window(Calls(F, ctx.asOf), owner, JaccardLookback),
                    NotedCalls(F, ctx.asOf, owner, sessions))
<1> DEFINE calls == Calls(F, ctx.asOf)
           candidates == OwnedCandidates(F, ctx, owner, sessions)
           end == owner.at + Grace
<1>1. Grace \in Nat /\ JaccardLookback \in Nat /\ NotesLookback \in Nat /\ end \in Nat
  BY PolicyAssumption
<1>2. \A c \in calls : c.at \in Nat /\ c.at <= ctx.asOf
  BY DEF Calls, Through
<1>3. Min({ctx.asOf, end}) = IF ctx.asOf <= end THEN ctx.asOf ELSE end
  BY <1>1 DEF Min
<1> HIDE DEF end
<1>4. \A c \in calls : c.at <= Min({ctx.asOf, end}) <=> c.at <= end
  BY <1>1, <1>2, <1>3
<1>5. candidates = {c \in calls : /\ c.at <= Min({ctx.asOf, end})
                                  /\ \/ owner.at - JaccardLookback <= c.at
                                     \/ c.session \in sessions /\ owner.at - NotesLookback <= c.at}
  BY DEF OwnedCandidates, end
<1> HIDE DEF calls, candidates
<1>6. Window(candidates, owner, JaccardLookback) = Window(calls, owner, JaccardLookback)
  BY <1>4, <1>5 DEF Window, end
<1>7. {c \in Window(candidates, owner, NotesLookback) : c.session \in sessions}
        = {c \in Window(calls, owner, NotesLookback) : c.session \in sessions}
  BY <1>4, <1>5 DEF Window, end
<1> QED
  BY <1>6, <1>7 DEF AttributeOwned, NotedCalls, calls, candidates

\* The search with witnesses finds the first Push of a repository that lists the
\* commit, and knows the repository when there is one
LEMMA OwnerWithWitnesses ==
    ASSUME StateInv, NEW t \in Boundaries, NEW commit \in Commits,
           NEW key \in DOMAIN Mirrors
    PROVE  LET whole == Context(Visible, t)
               compact == WitnessContext(Visible, t, RequestedSources(t, commit))
               listers == {p \in Pushes(Visible, t) :
                              /\ ResolveFact(whole, p, "repo").key = key
                              /\ commit \in ListPushCommits(Mirrors[key], p)}
           IN  /\ Numbered(listers)
               /\ FindCommitOwner(Visible, compact, Mirrors[key], key, commit)
                     = IF listers = {} THEN None ELSE First(listers)
               /\ listers # {} => key \in Keys(compact) /\ HasLabel(compact, key)
<1> DEFINE whole == Context(Visible, t)
           compact == WitnessContext(Visible, t, RequestedSources(t, commit))
           pushes == Pushes(Visible, t)
           stored == KeyPushes(Visible, compact, key)
           mirror == Mirrors[key]
           listers == {p \in pushes : /\ ResolveFact(whole, p, "repo").key = key
                                      /\ commit \in ListPushCommits(mirror, p)}
<1>1. key # None /\ mirror \subseteq Commits
  <2>1. key \in mirrored /\ mirror = population.objects[key]
    BY DEF Mirrors
  <2> QED
    BY <2>1, PopulationAssumption DEF StateInv
<1>2. compact.asOf = t
  BY ContextFields DEF WitnessContext
<1>3. compact.names = whole.names /\ compact.claims = whole.claims /\ compact.unsafe = whole.unsafe
  BY Witnesses DEF WitnessesSuffice
<1> HIDE DEF whole, compact
<1>4. Numbered(pushes)
  <2>1. pushes \subseteq Visible /\ \A p \in pushes : p.table = "pushes"
    BY DEF Pushes, Through
  <2>2. Visible \subseteq population.facts /\ Visible \subseteq facts
    BY DEF StateInv, Visible
  <2> HIDE DEF pushes
  <2> QED
    BY <2>1, <2>2, PopulationAssumption DEF StateInv, Numbered, Unique
<1>5. ASSUME NEW p \in pushes
      PROVE  /\ ResolveReference(compact, p.repo, p.identity).key = ResolveFact(whole, p, "repo").key
             /\ p.repo # None => p.repo \in Names(compact, KeyOf(p.identity, p.repo))
  <2>1. /\ ResolveFact(whole, p, "repo") = ResolveReference(whole, p.repo, p.identity)
        /\ p.repo # None => p.repo \in Names(whole, KeyOf(p.identity, p.repo))
    BY PushesResolve DEF whole
  <2>2. ResolveReference(compact, p.repo, p.identity) = ResolveReference(whole, p.repo, p.identity)
    BY <1>3, ReferencesAlike
  <2>3. \A k : Names(compact, k) = Names(whole, k)
    BY <1>3 DEF Names
  <2> QED
    BY <2>1, <2>2, <2>3
<1> HIDE DEF pushes, mirror
<1>6. ASSUME NEW p \in pushes, ResolveFact(whole, p, "repo").key = key
      PROVE  p \in stored /\ p.repo # None /\ key = KeyOf(p.identity, p.repo)
  <2>1. p.repo # None /\ key = KeyOf(p.identity, p.repo)
    BY <1>1, <1>5, <1>6, ReferenceShape
  <2>2. IF IsIdentified(key) THEN p.identity = key.of ELSE p.identity = None /\ p.repo = key.of
    BY <1>1, <2>1 DEF KeyOf, IsIdentified, Identified, Legacy
  <2> QED
    BY <1>2, <2>1, <2>2 DEF KeyPushes, pushes
<1>7. stored \subseteq pushes
  BY <1>2 DEF KeyPushes, pushes
<1>8. listers = {p \in stored : /\ ResolveReference(compact, p.repo, p.identity).key = key
                                /\ commit \in ListPushCommits(mirror, p)}
  <2> HIDE DEF stored
  <2> QED
    BY <1>5, <1>6, <1>7
<1>9. FindCommitOwner(Visible, compact, mirror, key, commit)
        = IF listers = {} THEN None ELSE First(listers)
  <2>1. Numbered(stored)
    BY <1>4, <1>7 DEF Numbered
  <2> HIDE DEF listers
  <2> QED
    BY <1>1, <1>8, <2>1, OwnerFound
<1>10. listers # {} => key \in Keys(compact) /\ HasLabel(compact, key)
  <2> SUFFICES ASSUME NEW p \in listers PROVE key \in Keys(compact) /\ HasLabel(compact, key)
    OBVIOUS
  <2>1. p \in pushes /\ p.repo # None /\ key = KeyOf(p.identity, p.repo)
        /\ ResolveReference(compact, p.repo, p.identity).key = key
    BY <1>5, <1>6
  <2>2. p.repo \in Names(compact, key)
    BY <1>5, <2>1
  <2>3. key \in Keys(compact)
    BY <2>2 DEF Names, Keys
  <2>4. HasLabel(compact, key)
    <3>1. CASE IsIdentified(key)
      BY <2>2, <3>1 DEF HasLabel
    <3>2. CASE ~IsIdentified(key)
      <4>1. p.identity = None /\ key.of = p.repo
        BY <1>1, <2>1, <3>2 DEF KeyOf, IsIdentified, Identified, Legacy
      <4> QED
        BY <2>1, <3>2, <4>1 DEF HasLabel
    <3> QED
      BY <3>1, <3>2
  <2> QED
    BY <2>3, <2>4
<1>11. Numbered(listers)
  BY <1>4 DEF Numbered
<1> HIDE DEF listers
<1> QED
  BY <1>9, <1>10, <1>11 DEF whole, compact, pushes, mirror, listers

(* The query of one commit, with its witnesses, its batches of Pushes and   *)
(* its narrow read of the calls, attributes the files of the commit as the  *)
(* full derivation does, whatever the history, the Facts and the batches.   *)
THEOREM CommitViewsAgree == Spec => []CommitViewAgrees
<1>1. StateInv => CommitViewAgrees
  <2> SUFFICES ASSUME StateInv, NEW t \in Boundaries, NEW commit \in Commits
               PROVE  LET whole == Context(Visible, t)
                          all == Attributions(Visible, whole, Mirrors, Pushes(Visible, t),
                                              BoundNotes(Visible, whole, Mirrors))
                          compact == WitnessContext(Visible, t, RequestedSources(t, commit))
                      IN  CommitAttributions(Visible, compact, Mirrors, commit,
                                             BoundNotes(Visible, compact, Mirrors))
                             = {a \in all : a.commit = commit}
    BY DEF CommitViewAgrees
  <2> DEFINE whole == Context(Visible, t)
             compact == WitnessContext(Visible, t, RequestedSources(t, commit))
             pushes == Pushes(Visible, t)
             notes == BoundNotes(Visible, whole, Mirrors)
             fewer == BoundNotes(Visible, compact, Mirrors)
             owned == Owned(Mirrors, ResolvedPushes(whole, pushes))
             all == Attributions(Visible, whole, Mirrors, pushes, notes)
             view == CommitAttributions(Visible, compact, Mirrors, commit, fewer)
             listers(key) == {p \in pushes : /\ ResolveFact(whole, p, "repo").key = key
                                             /\ commit \in ListPushCommits(Mirrors[key], p)}
             owner(key) == FindCommitOwner(Visible, compact, Mirrors[key], key, commit)
             asked == {k \in Keys(compact) \cap DOMAIN Mirrors :
                          HasLabel(compact, k) /\ commit \in Mirrors[k]}
             row(key) == AttributeOwned(Visible, compact, Mirrors[key], key, owner(key), commit,
                                        fewer[<<key, commit>>])
  <2>1. view = UNION {row(key) : key \in asked}
    BY DEF CommitAttributions
  <2>2. whole.asOf = t /\ compact.asOf = t
    BY ContextFields DEF Context, WitnessContext
  <2>3. ASSUME NEW key \in DOMAIN Mirrors
        PROVE  /\ owner(key) = IF listers(key) = {} THEN None ELSE First(listers(key))
               /\ listers(key) # {} =>
                    /\ key \in Keys(compact) /\ HasLabel(compact, key)
                    /\ First(listers(key)) \in listers(key)
                    /\ \A q \in listers(key) : ~Earlier(q, First(listers(key)))
                    /\ \A p \in listers(key) :
                         (\A q \in listers(key) : ~Earlier(q, p)) => p = First(listers(key))
    <3>1. /\ Numbered(listers(key))
          /\ owner(key) = IF listers(key) = {} THEN None ELSE First(listers(key))
          /\ listers(key) # {} => key \in Keys(compact) /\ HasLabel(compact, key)
      BY OwnerWithWitnesses
    <3> DEFINE L == listers(key)
    <3> HIDE DEF L
    <3>2. L # {} => /\ First(L) \in L
                    /\ \A q \in L : ~Earlier(q, First(L))
                    /\ \A p \in L : (\A q \in L : ~Earlier(q, p)) => p = First(L)
      <4> SUFFICES ASSUME L # {}
                   PROVE  /\ First(L) \in L
                          /\ \A q \in L : ~Earlier(q, First(L))
                          /\ \A p \in L : (\A q \in L : ~Earlier(q, p)) => p = First(L)
        OBVIOUS
      <4>1. Numbered(L)
        BY <3>1 DEF L
      <4>2. First(L) \in L /\ \A g \in L \ {First(L)} : Earlier(First(L), g)
        BY <4>1, FirstOfAll
      <4> QED
        BY <4>1, <4>2, EarlierOrder
    <3> QED
      BY <3>1, <3>2 DEF L
  <2>4. ASSUME NEW o
        PROVE  o \in owned /\ o[2] = commit <=>
                 /\ o = <<o[1], commit, o[3]>> /\ o[1] \in DOMAIN Mirrors
                 /\ o[3] \in listers(o[1])
                 /\ \A q \in listers(o[1]) : ~Earlier(q, o[3])
    <3>1. o \in owned <=>
              /\ o = <<o[1], o[2], o[3]>> /\ o[3] \in pushes /\ o[2] \in Commits
              /\ o[1] = ResolveFact(whole, o[3], "repo").key /\ o[1] \in DOMAIN Mirrors
              /\ o[2] \in ListPushCommits(Mirrors[o[1]], o[3])
              /\ \A q \in pushes :
                    /\ ResolveFact(whole, q, "repo").key = o[1]
                    /\ o[2] \in ListPushCommits(Mirrors[o[1]], q)
                    => ~Earlier(q, o[3])
      <4> HIDE DEF whole, pushes
      <4> QED
        BY Owners
    <3> HIDE DEF whole, pushes, owned
    <3> QED
      BY <3>1
  <2>5. ASSUME NEW p \in pushes, NEW key \in DOMAIN Mirrors
        PROVE  AttributeOwned(Visible, compact, Mirrors[key], key, p, commit, fewer[<<key, commit>>])
                  = AttributeOne(Visible, whole, Mirrors, notes, <<key, commit, p>>)
    <3>1. p \in population.facts /\ \A c \in Calls(Visible, t) : c \in population.facts
      BY DEF Pushes, Calls, Through, StateInv, Visible
    <3>2. p # None /\ p.at \in Nat /\ (\A c \in Calls(Visible, t) : c.at \in Nat) /\ t \in Nat
      BY <3>1, PopulationAssumption, BoundaryAssumption DEF StateInv
    <3> DEFINE at == <<key, commit>>
               sessions == BoundSessions(Visible, whole, key, commit)
    <3>3. at \in (DOMAIN Mirrors) \X Commits /\ at[1] = key /\ at[2] = commit
      OBVIOUS
    <3>4. notes[at] = sessions /\ fewer[at] = BoundSessions(Visible, compact, key, commit)
      BY <3>3 DEF BoundNotes
    <3>5. fewer[at] = notes[at]
      BY <3>4, BoundAlike
    <3> HIDE DEF whole, compact, notes, fewer
    <3>6. AttributeOwned(Visible, compact, Mirrors[key], key, p, commit, notes[at])
            = AttributeCommit(Mirrors[key], key, p, commit,
                  Window(Calls(Visible, t), p, JaccardLookback),
                  {c \in Window(Calls(Visible, t), p, NotesLookback) : c.session \in notes[at]})
      <4>1. compact.asOf = t /\ compact.asOf \in Nat /\ p # None /\ p.at \in Nat
        BY <2>2, <3>2
      <4>2. \A c \in Calls(Visible, compact.asOf) : c.at \in Nat
        BY <3>2, <4>1
      <4> DEFINE mirror == Mirrors[key]
                 noted == notes[at]
      <4> HIDE DEF mirror, noted
      <4>3. AttributeOwned(Visible, compact, mirror, key, p, commit, noted)
              = AttributeCommit(mirror, key, p, commit,
                    Window(Calls(Visible, compact.asOf), p, JaccardLookback),
                    NotedCalls(Visible, compact.asOf, p, noted))
        BY <4>1, <4>2, OwnedCalls
      <4> QED
        BY <4>1, <4>3 DEF NotedCalls, mirror, noted
    <3> QED
      BY <2>2, <3>5, <3>6 DEF AttributeOne
  <2>6. \A o : AttributeOne(Visible, whole, Mirrors, notes, o) # {} => o[2] \in Mirrors[o[1]]
    BY DEF AttributeOne, AttributeCommit
  <2>7. \A o : \A a \in AttributeOne(Visible, whole, Mirrors, notes, o) : a.commit = o[2]
    <3> HIDE DEF whole, notes
    <3> QED
      BY AttributedFields DEF AttributeOne
  <2>8. ASSUME NEW a, a \in all, a.commit = commit PROVE a \in view
    <3>1. PICK o \in owned : a \in AttributeOne(Visible, whole, Mirrors, notes, o)
      <4> HIDE DEF whole, pushes, notes
      <4> QED
        BY <2>8, AttributionsByOwner
    <3> DEFINE key == o[1]
    <3>2. o[2] = commit /\ commit \in Mirrors[key]
      BY <2>6, <2>7, <2>8, <3>1
    <3>3. /\ o = <<key, commit, o[3]>> /\ key \in DOMAIN Mirrors /\ o[3] \in listers(key)
          /\ \A q \in listers(key) : ~Earlier(q, o[3])
      BY <2>4, <3>1, <3>2
    <3>4. o[3] = owner(key) /\ key \in asked /\ o[3] \in pushes
      <4> HIDE DEF owner, compact
      <4>1. listers(key) # {} /\ o[3] \in pushes
        BY <3>3
      <4> HIDE DEF listers
      <4> QED
        BY <2>3, <3>2, <3>3, <4>1
    <3>5. a \in row(key)
      <4> HIDE DEF owner, compact, fewer, notes, whole, pushes
      <4> QED
        BY <2>5, <3>1, <3>3, <3>4
    <3> HIDE DEF row, asked, view
    <3> QED
      BY <2>1, <3>4, <3>5
  <2>9. ASSUME NEW a \in view PROVE a \in all /\ a.commit = commit
    <3>1. PICK key \in asked : a \in row(key)
      <4> HIDE DEF row, asked, view
      <4> QED
        BY <2>1, <2>9
    <3>2. key \in DOMAIN Mirrors
      OBVIOUS
    <3>3. owner(key) # None
      <4> HIDE DEF owner
      <4> QED
        BY <3>1 DEF AttributeOwned
    <3> DEFINE p == First(listers(key))
               o == <<key, commit, p>>
    <3>4. owner(key) = p /\ p \in listers(key) /\ \A q \in listers(key) : ~Earlier(q, p)
      <4> HIDE DEF owner, listers
      <4> QED
        BY <2>3, <3>2, <3>3
    <3> HIDE DEF p
    <3>5. o \in owned
      <4>1. o[1] = key /\ o[2] = commit /\ o[3] = p
        OBVIOUS
      <4> HIDE DEF o, owned, listers
      <4> QED
        BY <2>4, <3>2, <3>4, <4>1 DEF o
    <3>6. a \in AttributeOne(Visible, whole, Mirrors, notes, o)
      <4>1. p \in pushes
        BY <3>4
      <4> HIDE DEF owner, compact, fewer, notes, whole, pushes
      <4> QED
        BY <2>5, <3>1, <3>2, <3>4, <4>1
    <3>7. a \in all
      <4> HIDE DEF whole, pushes, notes, o
      <4> QED
        BY <3>5, <3>6, AttributionsByOwner
    <3> QED
      BY <2>7, <3>6, <3>7
  <2> HIDE DEF view, all
  <2>10. view = {a \in all : a.commit = commit}
    BY <2>8, <2>9
  <2> QED
    BY <2>10 DEF view, all
<1> QED
  BY <1>1, StateInvariant, PTL

=============================================================================
