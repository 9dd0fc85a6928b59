-------------------------- MODULE FactStoreProofs --------------------------
(***************************************************************************)
(* Proofs about the Fact store, for any population of Facts, lists,        *)
(* Sessions, users, connections and quarantine records.                    *)
(***************************************************************************)
EXTENDS FactStore, FiniteSetTheorems, WellFoundedInduction, TLAPS

-----------------------------------------------------------------------------
(* The inductive invariant                                                 *)

Txn == [stage : Stages, batch : Batches \cup {<<>>}, next : Nat, kept : SUBSET Nat,
        wrote : [Sessions -> SessionRow \cup {None}]]

\* The rows a transaction has inserted, those of them about a Session, and the
\* committed ones R about it
Own(t) == {t.batch[i] : i \in t.kept}
OwnOf(t, s) == {f \in Own(t) : f.session = s}
RowsOf(R, s) == {f \in R : f.session = s}

StoreTyped ==
    /\ rows \subseteq Facts
    /\ sess \in [Sessions -> SessionRow \cup {None}]
    /\ txn \in [Writers -> Txn]
    /\ reply = [w \in Writers |-> reply[w]]

\* Where a transaction is in its list: what is behind it was kept, or skipped
\* because of a row that is retained or its own
Placed(t) ==
    /\ t.stage = "idle" => t = Idle
    /\ t.stage # "idle" => /\ t.batch \in Batches /\ t.next \in 1..Len(t.batch)
                           /\ t.kept \subseteq 1..t.next
    /\ t.stage \in {"source", "insert", "lookup"} => t.kept \subseteq 1..(t.next - 1)
    /\ t.stage = "source" => t.next = 1
    /\ t.stage = "upsert" => t.next = Len(t.batch)

Skipped(t, R) ==
    /\ t.stage # "idle" =>
          \A i \in 1..t.next : (i < t.next \/ t.stage = "upsert") /\ i \notin t.kept =>
              \E r \in R \cup Own(t) : Conflicts(r, t.batch[i])
    /\ t.stage = "lookup" => \E r \in R : Conflicts(r, t.batch[t.next])

\* The source of an identified observation was retained when it was looked up
Sourced(t, R) ==
    t.stage \in {"insert", "lookup", "upsert"} /\ t.batch[1].source # None =>
        \E p \in R : p.table = "pushes" /\ p.id = t.batch[1].source /\ p.ident = t.batch[1].ident

\* What a transaction inserted conflicts with no retained row and not with itself
Fresh(t, R) ==
    \A f \in Own(t) : /\ \A r \in R : ~Conflicts(r, f)
                      /\ \A r \in Own(t) : Conflicts(r, f) => r = f

\* A sessions row is the summary of the Facts F: tight bounds, the one known
\* user, and the marker when there are two
Summary(row, F) ==
    LET K == {f \in F : f.user # None}
    IN  /\ row \in SessionRow
        /\ \A f \in F : row.first <= f.at /\ f.at <= row.last
        /\ \E f, g \in F : f.at = row.first /\ g.at = row.last
        /\ row.conflict <=> \E f, g \in K : f.user # g.user
        /\ IF K = {} \/ row.conflict THEN row.user = None ELSE \A f \in K : row.user = f.user

Summarised(row, F) == IF F = {} THEN row = None ELSE Summary(row, F)

\* The Session rows that a transaction wrote summarise the retained Facts and
\* its own, and come before the ones it still has to write
Written(t, R) ==
    \A s \in Sessions : t.wrote[s] # None =>
        /\ t.stage = "upsert" /\ OwnOf(t, s) # {}
        /\ Summary(t.wrote[s], RowsOf(R, s) \cup OwnOf(t, s))
        /\ \A z \in Sessions : OwnOf(t, z) # {} /\ t.wrote[z] = None => s < z

\* Two transactions: no conflicting rows, and no Session row locked by both
Apart(t, u) ==
    /\ \A f \in Own(t), r \in Own(u) : ~Conflicts(r, f)
    /\ \A s \in Sessions : t.wrote[s] = None \/ u.wrote[s] = None

TxnGood(t, R) == Placed(t) /\ Skipped(t, R) /\ Sourced(t, R) /\ Fresh(t, R) /\ Written(t, R)

StoreInv ==
    /\ StoreTyped
    /\ \A w \in Writers : TxnGood(txn[w], rows)
    /\ \A v, w \in Writers : v # w => Apart(txn[v], txn[w])
    /\ OneRowPerIdentity
    /\ ObservationHasSource
    /\ \A s \in Sessions : Summarised(sess[s], RowsOf(rows, s))
    /\ ReceiptsAreTrue

-----------------------------------------------------------------------------
(* Facts, lists and numbers                                                *)

LEMMA FactFields ==
    ASSUME NEW f \in Facts
    PROVE  /\ f.table \in Tables /\ f.id \in Nat /\ f.key \in Nat \cup {None}
           /\ f.ident \in Nat /\ f.session \in Sessions \cup {None}
           /\ f.user \in Users \cup {None} /\ f.at \in Nat /\ f.source \in Nat \cup {None}
BY FactsAssumption DEF Fact

\* A list is not empty, and is about one table; only Decisions come in longer ones
LEMMA BatchFacts ==
    ASSUME NEW b \in Batches
    PROVE  /\ Len(b) \in Nat /\ Len(b) > 0 /\ b \in Seq(Facts) /\ DOMAIN b = 1..Len(b)
           /\ \A i \in 1..Len(b) : b[i] \in Facts /\ b[i].table = b[1].table
           /\ b[1].table # "developer_decisions" => Len(b) = 1
<1>1. b \in Seq(Facts) /\ Len(b) > 0
  BY BatchesAssumption
<1>2. DOMAIN b = 1..Len(b) /\ Len(b) \in Nat /\ \A i \in 1..Len(b) : b[i] \in Facts
  BY <1>1
<1>3. /\ \A i \in DOMAIN b : b[i].table = b[1].table
      /\ b[1].table # "developer_decisions" => Len(b) = 1
  BY BatchesAssumption
<1> QED
  BY <1>1, <1>2, <1>3

\* Rows conflict with each other or not at all, and every row with itself
LEMMA ConflictsSymmetric ==
    ASSUME NEW r, NEW f
    PROVE  /\ Conflicts(r, f) <=> Conflicts(f, r)
           /\ Conflicts(f, f)
BY DEF Conflicts

\* Every set of naturals that is not empty has a least member
LEMMA LeastMember ==
    ASSUME NEW S \in SUBSET Nat, S # {}
    PROVE  \E m \in S : \A n \in S : m <= n
<1>1. PICK m \in S : \A n \in S : ~(<<n, m>> \in OpToRel(<, Nat))
  BY NatLessThanWellFounded, WFMin
<1>2. \A n \in S : ~(n < m)
  BY <1>1 DEF OpToRel
<1> QED
  BY <1>2

\* A finite set of naturals is bounded
LEMMA FiniteBounded ==
    ASSUME NEW S \in SUBSET Nat, IsFiniteSet(S)
    PROVE  \E m \in Nat : \A x \in S : x <= m
<1>1. Cardinality(S) \in Nat /\ ExistsBijection(1..Cardinality(S), S)
  BY FS_CardinalityType
<1>2. PICK f : f \in Bijection(1..Cardinality(S), S)
  BY <1>1 DEF ExistsBijection
<1>3. /\ f \in [1..Cardinality(S) -> S]
      /\ \A x \in S : \E i \in 1..Cardinality(S) : f[i] = x
  BY <1>2 DEF Bijection, Injection, Surjection, IsInjective
<1> DEFINE N == Cardinality(S)
           Bounded(n) == \E m \in Nat : \A i \in 1..n : f[i] <= m
           bad == {n \in 0..N : ~Bounded(n)}
<1>a. f \in [1..N -> S] /\ \A x \in S : \E i \in 1..N : f[i] = x
  BY <1>3
<1> HIDE DEF N, Bounded
<1>4. N \in Nat
  BY <1>1 DEF N
<1>5. CASE bad = {}
  <2>1. N \in 0..N /\ N \notin bad
    BY <1>4, <1>5
  <2>2. Bounded(N)
    BY <2>1
  <2>3. PICK m \in Nat : \A i \in 1..N : f[i] <= m
    BY <2>2 DEF Bounded
  <2>4. \A x \in S : x <= m
    BY <1>a, <2>3
  <2> QED
    BY <2>4
<1>6. CASE bad # {}
  <2>1. bad \in SUBSET Nat
    BY <1>4
  <2>2. PICK n \in bad : \A k \in bad : n <= k
    BY <1>6, <2>1, LeastMember
  <2>3. n # 0
    <3>1. SUFFICES ASSUME n = 0 PROVE FALSE
      OBVIOUS
    <3>2. \A i \in 1..n : f[i] <= 0
      BY <3>1
    <3>3. Bounded(n)
      BY <3>2 DEF Bounded
    <3> QED
      BY <2>2, <3>3
  <2>4. n \in 1..N /\ n - 1 \in 0..N /\ n - 1 \notin bad
    BY <1>4, <2>2, <2>3
  <2>5. PICK m \in Nat : \A i \in 1..(n - 1) : f[i] <= m
    <3>1. Bounded(n - 1)
      BY <2>4
    <3> QED
      BY <3>1 DEF Bounded
  <2>6. f[n] \in Nat
    BY <1>a, <2>4
  <2>7. \A i \in 1..n : f[i] \in Nat /\ f[i] <= m + f[n]
    <3> TAKE i \in 1..n
    <3>0. i \in 1..N
      BY <1>4, <2>4
    <3>1. f[i] \in Nat
      BY <1>a, <3>0
    <3>2. CASE i = n
      <4>1. f[n] <= m + f[n]
        BY <2>5, <2>6
      <4> QED
        BY <3>1, <3>2, <4>1
    <3>3. CASE i # n
      <4>1. i \in 1..(n - 1)
        BY <2>4, <1>4, <3>3
      <4>2. f[i] <= m
        BY <2>5, <4>1
      <4> QED
        BY <2>5, <2>6, <3>1, <4>2
    <3> QED
      BY <3>2, <3>3
  <2>8. m + f[n] \in Nat
    BY <2>5, <2>6
  <2>9. Bounded(n)
    BY <2>7, <2>8 DEF Bounded
  <2> QED
    BY <2>2, <2>9
<1> QED
  BY <1>5, <1>6

\* Min and Max of a finite set of naturals that is not empty
LEMMA Extremes ==
    ASSUME NEW S \in SUBSET Nat, IsFiniteSet(S), S # {}
    PROVE  /\ Min(S) \in S /\ \A x \in S : Min(S) <= x
           /\ Max(S) \in S /\ \A x \in S : x <= Max(S)
<1>1. \E m \in S : \A n \in S : m =< n
  BY LeastMember
<1>2. Min(S) \in S /\ \A x \in S : Min(S) <= x
  BY <1>1 DEF Min
<1>3. \E m \in S : \A n \in S : m >= n
  <2> DEFINE upper == {n \in Nat : \A x \in S : x <= n}
  <2>1. upper \in SUBSET Nat /\ upper # {}
    BY FiniteBounded
  <2>2. PICK m \in upper : \A n \in upper : m <= n
    BY <2>1, LeastMember
  <2>3. m \in S
    <3>1. SUFFICES ASSUME m \notin S PROVE FALSE
      OBVIOUS
    <3>2. PICK x \in S : TRUE
      OBVIOUS
    <3>3. x <= m /\ x # m /\ x \in Nat /\ m \in Nat
      BY <2>2, <3>1, <3>2
    <3>4. m - 1 \in Nat
      BY <3>3
    <3>5. \A y \in S : y <= m - 1
      BY <2>2, <3>1
    <3>6. m - 1 \in upper
      BY <3>4, <3>5
    <3> QED
      BY <2>2, <3>3, <3>6
  <2> QED
    BY <2>2, <2>3
<1>4. Max(S) \in S /\ \A x \in S : Max(S) >= x
  BY <1>3 DEF Max
<1> QED
  BY <1>2, <1>4

\* Min and Max of two naturals
LEMMA TwoExtremes ==
    ASSUME NEW a \in Nat, NEW b \in Nat
    PROVE  /\ Min({a, b}) \in {a, b} /\ Min({a, b}) <= a /\ Min({a, b}) <= b
           /\ Max({a, b}) \in {a, b} /\ a <= Max({a, b}) /\ b <= Max({a, b})
<1>1. IsFiniteSet({a} \cup {b})
  BY FS_Singleton, FS_Union
<1>2. {a} \cup {b} = {a, b}
  OBVIOUS
<1>3. IsFiniteSet({a, b}) /\ {a, b} \in SUBSET Nat /\ {a, b} # {}
  BY <1>1, <1>2
<1> QED
  BY <1>3, Extremes

-----------------------------------------------------------------------------
(* Sessions rows as summaries                                              *)

\* The Facts of F that name a user
Known(F) == {f \in F : f.user # None}

\* Two users are known
Disagree(F) == \E f, g \in Known(F) : f.user # g.user

\* A summary in its parts: bounds in time, and users
InTime(first, last, F) ==
    /\ \A f \in F : first <= f.at /\ f.at <= last
    /\ \E f, g \in F : f.at = first /\ g.at = last

UserOf(user, conflict, F) ==
    /\ conflict <=> Disagree(F)
    /\ IF Known(F) = {} \/ conflict THEN user = None ELSE \A f \in Known(F) : user = f.user

LEMMA SummaryParts ==
    ASSUME NEW row, NEW F
    PROVE  Summary(row, F) <=> /\ row \in SessionRow
                               /\ InTime(row.first, row.last, F)
                               /\ UserOf(row.user, row.conflict, F)
BY DEF Summary, InTime, UserOf, Disagree, Known

\* Who a summary names
LEMMA UserCases ==
    ASSUME NEW user, NEW conflict \in BOOLEAN, NEW F, UserOf(user, conflict, F)
    PROVE  /\ conflict => user = None /\ Disagree(F)
           /\ ~conflict /\ user = None => Known(F) = {}
           /\ user # None => ~conflict /\ Known(F) # {} /\ \A f \in Known(F) : f.user = user
BY DEF UserOf, Known

\* The upsert's ON CONFLICT DO UPDATE: the summary of all Facts from the
\* summaries of the retained ones and of the transaction's own
LEMMA MergeSummary ==
    ASSUME NEW F \in SUBSET Facts, NEW G \in SUBSET Facts, NEW old, NEW new,
           Summary(old, F), Summary(new, G)
    PROVE  Summary(Merge(old, new), F \cup G)
<1> DEFINE H == F \cup G
           conflict == \/ old.conflict
                       \/ new.conflict
                       \/ old.user # None /\ new.user # None /\ old.user # new.user
           first == Min({old.first, new.first})
           last == Max({old.last, new.last})
           user == IF conflict THEN None ELSE IF old.user # None THEN old.user ELSE new.user
<1>1. Merge(old, new) = [first |-> first, last |-> last, user |-> user, conflict |-> conflict]
  BY DEF Merge
<1>2. /\ old.first \in Nat /\ old.last \in Nat /\ old.user \in Users \cup {None}
      /\ old.conflict \in BOOLEAN
      /\ new.first \in Nat /\ new.last \in Nat /\ new.user \in Users \cup {None}
      /\ new.conflict \in BOOLEAN
  BY SummaryParts DEF SessionRow
<1>3. InTime(old.first, old.last, F) /\ InTime(new.first, new.last, G)
  BY SummaryParts
<1>4. UserOf(old.user, old.conflict, F) /\ UserOf(new.user, new.conflict, G)
  BY SummaryParts
<1>5. InTime(first, last, H)
  <2>1. \A f \in H : f.at \in Nat
    BY FactFields
  <2>2. /\ first \in {old.first, new.first} /\ first <= old.first /\ first <= new.first
        /\ last \in {old.last, new.last} /\ old.last <= last /\ new.last <= last
    BY <1>2, TwoExtremes
  <2>3. first \in Nat /\ last \in Nat
    BY <1>2, <2>2
  <2> HIDE DEF first, last
  <2>4. \A f \in H : first <= f.at /\ f.at <= last
    <3> TAKE f \in H
    <3>1. CASE f \in F
      <4>1. old.first <= f.at /\ f.at <= old.last /\ f.at \in Nat
        BY <1>3, <2>1, <3>1 DEF InTime
      <4> QED
        BY <1>2, <2>2, <2>3, <4>1
    <3>2. CASE f \in G
      <4>1. new.first <= f.at /\ f.at <= new.last /\ f.at \in Nat
        BY <1>3, <2>1, <3>2 DEF InTime
      <4> QED
        BY <1>2, <2>2, <2>3, <4>1
    <3> QED
      BY <3>1, <3>2
  <2>5. (\E f \in H : f.at = first) /\ (\E g \in H : g.at = last)
    BY <1>3, <2>2 DEF InTime
  <2> QED
    BY <2>4, <2>5 DEF InTime
<1>6. UserOf(user, conflict, H)
  <2>1. Known(H) = Known(F) \cup Known(G)
    BY DEF Known
  <2>2. CASE old.conflict \/ new.conflict
    <3>1. conflict /\ user = None
      BY <2>2
    <3>2. Disagree(F) \/ Disagree(G)
      <4>1. (old.conflict => Disagree(F)) /\ (new.conflict => Disagree(G))
        BY <1>4 DEF UserOf
      <4> QED
        BY <2>2, <4>1
    <3>3. Disagree(H)
      BY <2>1, <3>2 DEF Disagree
    <3> QED
      BY <3>1, <3>3 DEF UserOf
  <2>3. CASE ~old.conflict /\ ~new.conflict /\ (old.user = None \/ new.user = None)
    <3>1. ~conflict /\ user = IF old.user # None THEN old.user ELSE new.user
      BY <2>3
    <3>2. ~Disagree(F) /\ ~Disagree(G)
      BY <1>4, <2>3 DEF UserOf
    <3>3. CASE old.user = None
      <4>1. Known(H) = Known(G) /\ user = new.user
        BY <1>2, <1>4, <2>1, <2>3, <3>1, <3>3, UserCases
      <4> QED
        BY <1>4, <2>3, <3>1, <4>1 DEF UserOf, Disagree
    <3>4. CASE old.user # None
      <4>1. Known(H) = Known(F) /\ user = old.user
        BY <1>2, <1>4, <2>1, <2>3, <3>1, <3>4, UserCases
      <4> QED
        BY <1>4, <2>3, <3>1, <4>1 DEF UserOf, Disagree
    <3> QED
      BY <3>3, <3>4
  <2>4. CASE ~old.conflict /\ ~new.conflict /\ old.user # None /\ new.user # None
    <3>1. /\ Known(F) # {} /\ \A f \in Known(F) : f.user = old.user
          /\ Known(G) # {} /\ \A f \in Known(G) : f.user = new.user
      BY <1>2, <1>4, <2>4, UserCases
    <3>2. conflict <=> old.user # new.user
      BY <2>4
    <3>3. user = IF old.user # new.user THEN None ELSE old.user
      BY <2>4
    <3>a. conflict \in BOOLEAN
      BY <1>2
    <3> HIDE DEF conflict, user, H
    <3>4. Disagree(H) <=> old.user # new.user
      BY <2>1, <3>1 DEF Disagree
    <3>5. Known(H) # {} /\ \A f \in Known(H) : f.user \in {old.user, new.user}
      BY <2>1, <3>1
    <3>6. CASE old.user # new.user
      BY <3>a, <3>2, <3>3, <3>4, <3>6 DEF UserOf
    <3>7. CASE old.user = new.user
      BY <3>a, <3>2, <3>3, <3>4, <3>5, <3>7 DEF UserOf
    <3> QED
      BY <3>6, <3>7
  <2> QED
    BY <2>2, <2>3, <2>4
<1>7. Merge(old, new) \in SessionRow
  <2>1. first \in Nat /\ last \in Nat
    BY <1>2, TwoExtremes
  <2>2. user \in Users \cup {None} /\ conflict \in BOOLEAN
    BY <1>2
  <2> HIDE DEF first, last, user, conflict
  <2> QED
    BY <1>1, <2>1, <2>2 DEF SessionRow
<1>8. /\ Merge(old, new).first = first /\ Merge(old, new).last = last
      /\ Merge(old, new).user = user /\ Merge(old, new).conflict = conflict
  <2> HIDE DEF first, last, user, conflict
  <2> QED
    BY <1>1
<1> HIDE DEF first, last, user, conflict
<1> QED
  BY <1>5, <1>6, <1>7, <1>8, SummaryParts

\* _session_metadata summarises a finite set of Facts
LEMMA MetadataSummary ==
    ASSUME NEW F \in SUBSET Facts, IsFiniteSet(F), F # {}
    PROVE  Summary(Metadata(F), F)
<1> DEFINE users == {f.user : f \in F} \ {None}
           times == {f.at : f \in F}
           first == Min(times)
           last == Max(times)
           user == IF Cardinality(users) = 1 THEN CHOOSE u \in users : TRUE ELSE None
           conflict == Cardinality(users) > 1
<1>1. Metadata(F) = [first |-> first, last |-> last, user |-> user, conflict |-> conflict]
  BY DEF Metadata
<1>2. times \in SUBSET Nat /\ times # {}
  BY FactFields
<1>3. IsFiniteSet(times)
  <2> DEFINE at == [f \in F |-> f.at]
  <2>1. at \in Surjection(F, times)
    BY DEF Surjection
  <2> QED
    BY <2>1, FS_Surjection
<1>4. IsFiniteSet(users)
  <2> DEFINE by == [f \in F |-> f.user]
             all == {f.user : f \in F}
  <2>1. by \in Surjection(F, all)
    BY DEF Surjection
  <2>2. IsFiniteSet(all)
    BY <2>1, FS_Surjection
  <2> QED
    BY <2>2, FS_Difference
<1>5. /\ first \in times /\ \A x \in times : first <= x
      /\ last \in times /\ \A x \in times : x <= last
  BY <1>2, <1>3, Extremes
<1>6. InTime(first, last, F) /\ first \in Nat /\ last \in Nat
  <2>1. first \in Nat /\ last \in Nat
    BY <1>2, <1>5
  <2>2. \A f \in F : f.at \in times
    OBVIOUS
  <2>3. (\E f \in F : f.at = first) /\ (\E f \in F : f.at = last)
    BY <1>5
  <2>4. \A f \in F : first <= f.at /\ f.at <= last
    BY <1>5, <2>2
  <2> QED
    BY <2>1, <2>3, <2>4 DEF InTime
<1>7. \A u : u \in users <=> \E f \in Known(F) : f.user = u
  BY DEF Known
<1>8. Cardinality(users) \in Nat
  BY <1>4, FS_CardinalityType
<1>9. UserOf(user, conflict, F) /\ user \in Users \cup {None}
  <2> HIDE DEF users
  <2>1. CASE Cardinality(users) = 0
    <3>1. users = {}
      BY <1>4, <2>1, FS_EmptySet
    <3>2. user = None /\ conflict = FALSE
      BY <1>8, <2>1
    <3>3. Known(F) = {} /\ ~Disagree(F)
      BY <1>7, <3>1 DEF Disagree
    <3> QED
      BY <3>2, <3>3 DEF UserOf
  <2>2. CASE Cardinality(users) = 1
    <3>1. PICK u : users = {u}
      BY <1>4, <2>2, FS_Singleton
    <3>2. user = u /\ conflict = FALSE
      BY <2>2, <3>1
    <3>3. Known(F) # {} /\ \A f \in Known(F) : f.user = u
      BY <1>7, <3>1
    <3>4. u \in Users \cup {None}
      BY <3>3, FactFields DEF Known
    <3> QED
      BY <3>2, <3>3, <3>4 DEF UserOf, Disagree
  <2>3. CASE Cardinality(users) > 1
    <3>1. user = None /\ conflict = TRUE
      BY <2>3, <1>8
    <3>2. users # {} /\ \A u : users # {u}
      BY <1>4, <1>8, <2>3, FS_EmptySet, FS_Singleton
    <3>3. PICK u \in users : TRUE
      BY <3>2
    <3>4. PICK v \in users : v # u
      BY <3>2, <3>3
    <3>5. Disagree(F)
      BY <1>7, <3>4 DEF Disagree
    <3> QED
      BY <3>1, <3>5 DEF UserOf
  <2> QED
    BY <1>8, <2>1, <2>2, <2>3
<1> HIDE DEF first, last, user
<1>10. conflict \in BOOLEAN
  OBVIOUS
<1> HIDE DEF conflict
<1>11. /\ Metadata(F) \in SessionRow /\ Metadata(F).first = first /\ Metadata(F).last = last
       /\ Metadata(F).user = user /\ Metadata(F).conflict = conflict
  BY <1>1, <1>6, <1>9, <1>10 DEF SessionRow
<1> QED
  BY <1>6, <1>9, <1>11, SummaryParts

-----------------------------------------------------------------------------
(* Transactions                                                            *)

LEMMA IdleTxn ==
    /\ Idle \in Txn /\ Own(Idle) = {} /\ Idle.stage = "idle"
    /\ \A R : TxnGood(Idle, R)
    /\ \A u : Apart(Idle, u) /\ Apart(u, Idle)
<1>1. /\ Idle.stage = "idle" /\ Idle.batch = <<>> /\ Idle.next = 0 /\ Idle.kept = {}
      /\ Idle.wrote = [s \in Sessions |-> None]
  BY DEF Idle
<1>2. Idle \in Txn
  <2>1. [s \in Sessions |-> None] \in [Sessions -> SessionRow \cup {None}]
    OBVIOUS
  <2>2. "idle" \in Stages /\ 0 \in Nat /\ {} \in SUBSET Nat /\ <<>> \in Batches \cup {<<>>}
    BY DEF Stages
  <2> QED
    BY <2>1, <2>2 DEF Idle, Txn
<1>3. Own(Idle) = {} /\ \A s \in Sessions : Idle.wrote[s] = None
  BY <1>1 DEF Own
<1>4. \A R : TxnGood(Idle, R)
  BY <1>1, <1>3 DEF TxnGood, Placed, Skipped, Sourced, Fresh, Written
<1>5. \A u : Apart(Idle, u) /\ Apart(u, Idle)
  BY <1>3 DEF Apart
<1> QED
  BY <1>1, <1>2, <1>3, <1>4, <1>5

\* What a transaction inserted are finitely many of the submitted Facts
LEMMA OwnFacts ==
    ASSUME NEW t \in Txn, Placed(t)
    PROVE  /\ Own(t) \in SUBSET Facts /\ IsFiniteSet(Own(t))
           /\ \A s : OwnOf(t, s) \in SUBSET Facts /\ IsFiniteSet(OwnOf(t, s))
<1>1. CASE t.stage = "idle"
  BY <1>1, IdleTxn, FS_EmptySet, FS_Subset DEF Placed, OwnOf
<1>2. CASE t.stage # "idle"
  <2>1. /\ t.batch \in Batches /\ t.next \in 1..Len(t.batch) /\ t.kept \subseteq 1..t.next
    BY <1>2 DEF Placed
  <2>2. /\ Len(t.batch) \in Nat /\ \A i \in 1..Len(t.batch) : t.batch[i] \in Facts
    BY <2>1, BatchFacts
  <2>3. t.next \in Nat /\ \A i \in t.kept : i \in 1..Len(t.batch)
    BY <2>1, <2>2
  <2>4. IsFiniteSet(t.kept)
    <3>1. IsFiniteSet(1..t.next)
      BY <2>3, FS_Interval
    <3> QED
      BY <2>1, <3>1, FS_Subset
  <2> DEFINE inserted == [i \in t.kept |-> t.batch[i]]
  <2>5. inserted \in Surjection(t.kept, Own(t))
    BY DEF Surjection, Own
  <2>6. IsFiniteSet(Own(t))
    BY <2>4, <2>5, FS_Surjection
  <2>7. Own(t) \in SUBSET Facts
    BY <2>2, <2>3 DEF Own
  <2> QED
    BY <2>6, <2>7, FS_Subset DEF OwnOf
<1> QED
  BY <1>1, <1>2

\* The facts about one connection
LEMMA WriterFacts ==
    ASSUME StoreInv, NEW w \in Writers
    PROVE  /\ StoreTyped /\ txn[w] \in Txn /\ TxnGood(txn[w], rows) /\ Placed(txn[w])
           /\ rows \in SUBSET Facts /\ Own(txn[w]) \in SUBSET Facts
           /\ Uncommitted(w) = Own(txn[w])
           /\ \A s : Stored(w, s) = OwnOf(txn[w], s)
           /\ \A s \in Sessions : txn[w].stage # "upsert" => txn[w].wrote[s] = None
           /\ \A v \in Writers \ {w} : Apart(txn[v], txn[w]) /\ Apart(txn[w], txn[v])
<1>1. StoreTyped /\ txn[w] \in Txn /\ TxnGood(txn[w], rows)
  BY DEF StoreInv, StoreTyped
<1>2. Placed(txn[w]) /\ Written(txn[w], rows)
  BY <1>1 DEF TxnGood
<1>3. Own(txn[w]) \in SUBSET Facts
  BY <1>1, <1>2, OwnFacts
<1>4. Uncommitted(w) = Own(txn[w]) /\ \A s : Stored(w, s) = OwnOf(txn[w], s)
  BY DEF Uncommitted, Own, Stored, OwnOf
<1>5. \A s \in Sessions : txn[w].stage # "upsert" => txn[w].wrote[s] = None
  BY <1>2 DEF Written
<1>6. \A v \in Writers \ {w} : Apart(txn[v], txn[w]) /\ Apart(txn[w], txn[v])
  BY DEF StoreInv
<1> QED
  BY <1>1, <1>2, <1>3, <1>4, <1>5, <1>6 DEF StoreTyped

\* A step inside the transaction of w, which commits nothing
LEMMA TxnStep ==
    ASSUME StoreInv, NEW w \in Writers, NEW t \in Txn, txn' = [txn EXCEPT ![w] = t],
           UNCHANGED <<rows, sess>>, TxnGood(t, rows),
           \A v \in Writers \ {w} : Apart(txn[v], t) /\ Apart(t, txn[v]),
           reply' = [v \in Writers |-> reply'[v]], ReceiptsAreTrue'
    PROVE  StoreInv'
<1>1. StoreTyped
  BY DEF StoreInv
<1>2. /\ txn'[w] = t /\ \A v \in Writers \ {w} : txn'[v] = txn[v]
      /\ txn' \in [Writers -> Txn]
  BY <1>1 DEF StoreTyped
<1>3. StoreTyped'
  BY <1>1, <1>2 DEF StoreTyped
<1>4. \A v \in Writers : TxnGood(txn'[v], rows')
  BY <1>2 DEF StoreInv
<1>5. \A u, v \in Writers : u # v => Apart(txn'[u], txn'[v])
  BY <1>2 DEF StoreInv
<1>6. OneRowPerIdentity' /\ ObservationHasSource'
  BY DEF StoreInv, OneRowPerIdentity, ObservationHasSource
<1>7. \A s \in Sessions : Summarised(sess'[s], RowsOf(rows', s))
  BY DEF StoreInv
<1> QED
  BY <1>3, <1>4, <1>5, <1>6, <1>7 DEF StoreInv

\* With the same rows and locks a transaction stays apart from the others
LEMMA SameApart ==
    ASSUME StoreInv, NEW w \in Writers, NEW t, Own(t) = Own(txn[w]), t.wrote = txn[w].wrote
    PROVE  \A v \in Writers \ {w} : Apart(txn[v], t) /\ Apart(t, txn[v])
BY WriterFacts DEF Apart

\* Receipts that were given stay true
LEMMA SameReplies ==
    ASSUME StoreInv, UNCHANGED <<rows, reply>>
    PROVE  ReceiptsAreTrue' /\ reply' = [v \in Writers |-> reply'[v]]
BY DEF StoreInv, StoreTyped, ReceiptsAreTrue

\* The transaction of w ends without a commit
LEMMA TxnEnds ==
    ASSUME StoreInv, NEW w \in Writers, txn' = [txn EXCEPT ![w] = Idle],
           UNCHANGED <<rows, sess>>,
           reply' = [v \in Writers |-> reply'[v]], ReceiptsAreTrue'
    PROVE  StoreInv'
BY IdleTxn, TxnStep

\* One answer is added to the receipts
Receipted(a) ==
    /\ a.outcome = "stored" => a.fact \in rows
    /\ a.outcome = "known" =>
          \E r \in rows : Conflicts(r, a.fact) /\
             (a.id # None => r.id = a.id /\ r.key = a.fact.key /\ r.ident = a.fact.ident)
    /\ a.outcome = "conflict" =>
          \E r \in rows : Conflicts(r, a.fact) /\ (r.key # a.fact.key \/ r.ident # a.fact.ident)

LEMMA AnswerKeeps ==
    ASSUME StoreInv, NEW w \in Writers, NEW f, NEW id, NEW outcome, Answer(w, f, id, outcome),
           Receipted([fact |-> f, id |-> id, outcome |-> outcome])
    PROVE  StoreInv'
<1> DEFINE a == [fact |-> f, id |-> id, outcome |-> outcome]
<1>1. /\ txn' = [txn EXCEPT ![w] = Idle] /\ reply' = [reply EXCEPT ![w] = {a}]
      /\ UNCHANGED <<rows, sess>>
  BY DEF Answer
<1> HIDE DEF a
<1>2. reply = [v \in Writers |-> reply[v]]
  BY DEF StoreInv, StoreTyped
<1>3. reply'[w] = {a} /\ \A v \in Writers \ {w} : reply'[v] = reply[v]
  BY <1>1, <1>2
<1>4. reply' = [v \in Writers |-> reply'[v]]
  BY <1>1, <1>2
<1>5. Receipted(a)
  BY DEF a
<1>6. \A v \in Writers : \A x \in reply[v] : Receipted(x)
  BY DEF StoreInv, ReceiptsAreTrue, Receipted
<1>7. \A v \in Writers : \A x \in reply'[v] : Receipted(x)
  BY <1>3, <1>5, <1>6
<1>8. ReceiptsAreTrue'
  BY <1>1, <1>7 DEF ReceiptsAreTrue, Receipted
<1> QED
  BY <1>1, <1>4, <1>8, TxnEnds

LEMMA RollbackKeeps ==
    ASSUME StoreInv, NEW w \in Writers, Rollback(w)
    PROVE  StoreInv'
BY SameReplies, TxnEnds DEF Rollback

\* An observation without its source is refused
LEMMA RefuseSourceKeeps ==
    ASSUME StoreInv, NEW w \in Writers, RefuseSource(w)
    PROVE  StoreInv'
BY AnswerKeeps DEF RefuseSource, Receipted

LEMMA BeginKeeps ==
    ASSUME StoreInv, NEW w \in Writers, NEW b \in Batches, Begin(w, b)
    PROVE  StoreInv'
<1> DEFINE stage == IF b[1].source = None THEN "insert" ELSE "source"
           t == [Idle EXCEPT !.stage = stage, !.batch = b, !.next = 1]
<1>1. /\ txn' = [txn EXCEPT ![w] = t] /\ reply' = [reply EXCEPT ![w] = {}]
      /\ UNCHANGED <<rows, sess>>
  BY DEF Begin
<1>2. stage \in {"insert", "source"} /\ (stage = "insert" => b[1].source = None)
  OBVIOUS
<1> HIDE DEF stage
<1>4. /\ t.stage = stage /\ t.batch = b /\ t.next = 1 /\ t.kept = {}
      /\ t.wrote = [s \in Sessions |-> None]
  BY DEF Idle
<1>5. t \in Txn
  <2>1. stage \in Stages /\ b \in Batches \cup {<<>>} /\ 1 \in Nat
    BY <1>2 DEF Stages
  <2>2. [Idle EXCEPT !.stage = stage] \in Txn
    BY <2>1, IdleTxn DEF Txn
  <2>3. [[Idle EXCEPT !.stage = stage] EXCEPT !.batch = b] \in Txn
    BY <2>1, <2>2 DEF Txn
  <2> QED
    BY <2>1, <2>3 DEF Txn
<1> HIDE DEF t
<1>6. Own(t) = {} /\ \A s \in Sessions : t.wrote[s] = None
  BY <1>4 DEF Own
<1>7. TxnGood(t, rows)
  <2>1. Placed(t)
    BY <1>2, <1>4, BatchFacts DEF Placed
  <2>2. Skipped(t, rows) /\ Sourced(t, rows)
    BY <1>2, <1>4 DEF Skipped, Sourced
  <2>3. Fresh(t, rows) /\ Written(t, rows)
    BY <1>6 DEF Fresh, Written
  <2> QED
    BY <2>1, <2>2, <2>3 DEF TxnGood
<1>8. \A v \in Writers \ {w} : Apart(txn[v], t) /\ Apart(t, txn[v])
  BY <1>6 DEF Apart
<1>9. reply = [v \in Writers |-> reply[v]] /\ ReceiptsAreTrue
  BY DEF StoreInv, StoreTyped
<1>10. reply' = [v \in Writers |-> reply'[v]]
  BY <1>1, <1>9
<1>11. ReceiptsAreTrue'
  <2>1. \A v \in Writers : reply'[v] = reply[v] \/ reply'[v] = {}
    BY <1>1, <1>9
  <2> QED
    BY <1>1, <1>9, <2>1 DEF ReceiptsAreTrue
<1> QED
  BY <1>1, <1>5, <1>7, <1>8, <1>10, <1>11, TxnStep

\* A transaction that only goes on to another stage
LEMMA SetStage ==
    ASSUME NEW t \in Txn, NEW stage \in Stages
    PROVE  LET u == [t EXCEPT !.stage = stage]
           IN  /\ u \in Txn /\ u.stage = stage /\ u.batch = t.batch /\ u.next = t.next
               /\ u.kept = t.kept /\ u.wrote = t.wrote /\ Own(u) = Own(t)
<1> DEFINE u == [t EXCEPT !.stage = stage]
<1>1. /\ u \in Txn /\ u.stage = stage /\ u.batch = t.batch /\ u.next = t.next
      /\ u.kept = t.kept /\ u.wrote = t.wrote
  BY DEF Txn
<1>2. Own(u) = Own(t)
  BY <1>1 DEF Own
<1> QED
  BY <1>1, <1>2

\* The source Push is retained
LEMMA CheckSourceKeeps ==
    ASSUME StoreInv, NEW w \in Writers, CheckSource(w)
    PROVE  StoreInv'
<1> DEFINE t == [txn[w] EXCEPT !.stage = "insert"]
<1>1. txn[w] \in Txn /\ TxnGood(txn[w], rows) /\ StoreTyped
  BY WriterFacts
<1>2. /\ txn[w].stage = "source" /\ txn' = [txn EXCEPT ![w] = t]
      /\ UNCHANGED <<rows, sess, reply>> /\ SourceAgrees(txn[w].batch[txn[w].next])
  BY <1>1 DEF CheckSource, Current, StoreTyped
<1>3. "insert" \in Stages
  BY DEF Stages
<1>4. /\ t \in Txn /\ t.stage = "insert" /\ t.batch = txn[w].batch /\ t.next = txn[w].next
      /\ t.kept = txn[w].kept /\ t.wrote = txn[w].wrote /\ Own(t) = Own(txn[w])
  BY <1>1, <1>3, SetStage
<1> HIDE DEF t
<1>5. TxnGood(t, rows)
  <2>1. Placed(t) /\ t.next = 1
    BY <1>1, <1>2, <1>4 DEF TxnGood, Placed
  <2>2. Skipped(t, rows)
    BY <1>1, <1>2, <1>4 DEF TxnGood, Skipped
  <2>3. Sourced(t, rows)
    BY <1>2, <1>4, <2>1 DEF Sourced, SourceAgrees
  <2>4. Fresh(t, rows)
    BY <1>1, <1>4 DEF TxnGood, Fresh
  <2>5. Written(t, rows)
    BY <1>2, <1>4, WriterFacts DEF Written
  <2> QED
    BY <2>1, <2>2, <2>3, <2>4, <2>5 DEF TxnGood
<1>6. \A v \in Writers \ {w} : Apart(txn[v], t) /\ Apart(t, txn[v])
  BY <1>4, SameApart
<1> QED
  BY <1>2, <1>4, <1>5, <1>6, SameReplies, TxnStep

\* The next Fact of the list, or the Session rows when it was the last one
LEMMA AdvanceKeeps ==
    ASSUME NEW R, NEW t \in Txn, t.stage = "insert", t.batch \in Batches,
           t.next \in 1..Len(t.batch), t.kept \subseteq 1..t.next,
           \A s \in Sessions : t.wrote[s] = None,
           \A i \in 1..t.next : i \notin t.kept => \E r \in R \cup Own(t) : Conflicts(r, t.batch[i]),
           Sourced(t, R), Fresh(t, R)
    PROVE  /\ Advance(t) \in Txn /\ TxnGood(Advance(t), R) /\ Own(Advance(t)) = Own(t)
           /\ Advance(t).wrote = t.wrote
<1>0. Len(t.batch) \in Nat
  BY BatchFacts
<1>1. CASE t.next < Len(t.batch)
  <2> DEFINE u == [t EXCEPT !.next = @ + 1]
  <2>1. Advance(t) = u
    BY <1>1 DEF Advance
  <2>2. /\ u \in Txn /\ u.stage = "insert" /\ u.batch = t.batch /\ u.next = t.next + 1
        /\ u.kept = t.kept /\ u.wrote = t.wrote
    BY DEF Txn
  <2>3. Own(u) = Own(t)
    BY <2>2 DEF Own
  <2> HIDE DEF u
  <2>4. Placed(u)
    <3>1. u.next \in 1..Len(u.batch) /\ u.next - 1 = t.next /\ t.next \in Nat
      BY <1>0, <1>1, <2>2
    <3>2. u.kept \subseteq 1..u.next
      BY <2>2, <3>1
    <3> QED
      BY <2>2, <3>1, <3>2 DEF Placed
  <2>5. Skipped(u, R)
    <3>1. \A i \in 1..u.next : i < u.next => i \in 1..t.next
      BY <1>0, <2>2
    <3> QED
      BY <2>2, <2>3, <3>1 DEF Skipped
  <2>6. Sourced(u, R) /\ Fresh(u, R) /\ Written(u, R)
    BY <2>2, <2>3 DEF Sourced, Fresh, Written
  <2> QED
    BY <2>1, <2>2, <2>3, <2>4, <2>5, <2>6 DEF TxnGood
<1>2. CASE ~(t.next < Len(t.batch))
  <2> DEFINE u == [t EXCEPT !.stage = "upsert"]
  <2>1. Advance(t) = u
    BY <1>2 DEF Advance
  <2>2. "upsert" \in Stages
    BY DEF Stages
  <2>3. /\ u \in Txn /\ u.stage = "upsert" /\ u.batch = t.batch /\ u.next = t.next
        /\ u.kept = t.kept /\ u.wrote = t.wrote /\ Own(u) = Own(t)
    BY <2>2, SetStage
  <2> HIDE DEF u
  <2>4. Placed(u)
    BY <1>0, <1>2, <2>3 DEF Placed
  <2>5. Skipped(u, R)
    BY <2>3 DEF Skipped
  <2>6. Sourced(u, R) /\ Fresh(u, R) /\ Written(u, R)
    BY <2>3 DEF Sourced, Fresh, Written
  <2> QED
    BY <2>1, <2>3, <2>4, <2>5, <2>6 DEF TxnGood
<1> QED
  BY <1>1, <1>2

\* A transaction about to insert, and its next Fact
LEMMA InsertFacts ==
    ASSUME StoreInv, NEW w \in Writers, txn[w].stage \in {"insert", "lookup"}
    PROVE  LET t == txn[w]
           IN  /\ t.batch \in Batches /\ t.next \in 1..Len(t.batch)
               /\ t.kept \subseteq 1..(t.next - 1) /\ t.kept \subseteq 1..t.next
               /\ Current(w) = t.batch[t.next] /\ Current(w) \in Facts
               /\ \A s \in Sessions : t.wrote[s] = None
               /\ ReadsBack(Current(w)) => t.next = 1 /\ t.kept = {}
<1> DEFINE t == txn[w]
<1>1. Placed(t) /\ \A s \in Sessions : t.wrote[s] = None
  BY WriterFacts
<1>2. /\ t.batch \in Batches /\ t.next \in 1..Len(t.batch)
      /\ t.kept \subseteq 1..(t.next - 1) /\ t.kept \subseteq 1..t.next
  BY <1>1 DEF Placed
<1>3. Current(w) = t.batch[t.next] /\ Current(w) \in Facts
  BY <1>2, BatchFacts DEF Current
<1>4. ASSUME ReadsBack(Current(w)) PROVE t.next = 1 /\ t.kept = {}
  <2>1. Current(w).table # "developer_decisions"
    BY <1>4 DEF ReadsBack, RepositoryTables
  <2>2. Len(t.batch) = 1
    BY <1>2, <1>3, <2>1, BatchFacts
  <2> QED
    BY <1>2, <2>2
<1> QED
  BY <1>1, <1>2, <1>3, <1>4

\* A Fact that conflicts with nothing is inserted
LEMMA InsertKeptKeeps ==
    ASSUME StoreInv, NEW w \in Writers, InsertKept(w)
    PROVE  StoreInv'
<1> DEFINE f == Current(w)
           t == txn[w]
           k == t.kept \cup {t.next}
           u == [t EXCEPT !.kept = k]
<1>0. /\ t \in Txn /\ TxnGood(t, rows) /\ StoreTyped /\ Uncommitted(w) = Own(t)
      /\ \A v \in Writers \ {w} : Apart(txn[v], t) /\ Apart(t, txn[v])
  BY WriterFacts
<1>1. /\ t.stage = "insert" /\ txn' = [txn EXCEPT ![w] = Advance(u)]
      /\ UNCHANGED <<rows, sess, reply>> /\ ~Duplicate(w) /\ InsertWaitsFor(w) = {}
  <2>1. txn' = [txn EXCEPT ![w] = Advance(u)]
    BY DEF InsertKept
  <2> QED
    BY <2>1 DEF InsertKept
<1>2. /\ t.batch \in Batches /\ t.next \in 1..Len(t.batch)
      /\ t.kept \subseteq 1..(t.next - 1) /\ t.kept \subseteq 1..t.next
      /\ f = t.batch[t.next] /\ f \in Facts
      /\ \A s \in Sessions : t.wrote[s] = None
  BY <1>1, InsertFacts
<1>3. k \in SUBSET Nat /\ k \subseteq 1..t.next
  <2>1. t.next \in Nat /\ t.next \in 1..t.next
    BY <1>2, BatchFacts
  <2> QED
    BY <1>2, <2>1
<1>4. /\ u \in Txn /\ u.stage = "insert" /\ u.batch = t.batch /\ u.next = t.next
      /\ u.kept = k /\ u.wrote = t.wrote
  <2> HIDE DEF k, t, f
  <2> QED
    BY <1>0, <1>1, <1>3 DEF Txn
<1> HIDE DEF f, u
<1>5. Own(u) = Own(t) \cup {f}
  BY <1>2, <1>4 DEF Own
<1>6. /\ \A r \in rows \cup Own(t) : ~Conflicts(r, f)
      /\ \A v \in Writers \ {w} : \A r \in Own(txn[v]) : ~Conflicts(r, f)
  <2>1. \A r \in rows \cup Own(t) : ~Conflicts(r, f)
    BY <1>0, <1>1 DEF Duplicate, f
  <2>2. \A v \in Writers \ {w} : Uncommitted(v) = Own(txn[v])
    BY WriterFacts
  <2> QED
    BY <1>1, <2>1, <2>2 DEF InsertWaitsFor, f
<1>7. Fresh(u, rows)
  BY <1>0, <1>5, <1>6, ConflictsSymmetric DEF TxnGood, Fresh
<1>8. Sourced(u, rows)
  BY <1>0, <1>1, <1>4 DEF TxnGood, Sourced
<1>9. \A i \in 1..u.next : i \notin u.kept => \E r \in rows \cup Own(u) : Conflicts(r, u.batch[i])
  <2> SUFFICES ASSUME NEW i \in 1..t.next, i \notin k
               PROVE  \E r \in rows \cup Own(u) : Conflicts(r, t.batch[i])
    BY <1>4
  <2>1. i < t.next /\ i \notin t.kept
    BY <1>2
  <2>2. \E r \in rows \cup Own(t) : Conflicts(r, t.batch[i])
    BY <1>0, <1>1, <2>1 DEF TxnGood, Skipped
  <2> QED
    BY <1>5, <2>2
<1>10. /\ Advance(u) \in Txn /\ TxnGood(Advance(u), rows) /\ Own(Advance(u)) = Own(u)
       /\ Advance(u).wrote = u.wrote
  BY <1>2, <1>3, <1>4, <1>7, <1>8, <1>9, AdvanceKeeps
<1>11. \A v \in Writers \ {w} : Apart(txn[v], Advance(u)) /\ Apart(Advance(u), txn[v])
  BY <1>0, <1>4, <1>5, <1>6, <1>10, ConflictsSymmetric DEF Apart
<1> QED
  BY <1>1, <1>10, <1>11, SameReplies, TxnStep

\* A Fact that conflicts is skipped, and looked up by the methods that answer
LEMMA InsertSkippedKeeps ==
    ASSUME StoreInv, NEW w \in Writers, InsertSkipped(w)
    PROVE  StoreInv'
<1> DEFINE f == Current(w)
           t == txn[w]
<1>0. /\ t \in Txn /\ TxnGood(t, rows) /\ StoreTyped /\ Uncommitted(w) = Own(t)
  BY WriterFacts
<1>1. /\ t.stage = "insert" /\ Duplicate(w) /\ UNCHANGED <<rows, sess, reply>>
      /\ txn' = [txn EXCEPT ![w] = IF ReadsBack(f) THEN [t EXCEPT !.stage = "lookup"]
                                   ELSE Advance(t)]
  BY <1>0 DEF InsertSkipped, StoreTyped
<1>2. /\ t.batch \in Batches /\ t.next \in 1..Len(t.batch)
      /\ t.kept \subseteq 1..(t.next - 1) /\ t.kept \subseteq 1..t.next
      /\ f = t.batch[t.next] /\ f \in Facts
      /\ \A s \in Sessions : t.wrote[s] = None
      /\ ReadsBack(f) => t.next = 1 /\ t.kept = {}
  BY <1>1, InsertFacts
<1>3. \E r \in rows \cup Own(t) : Conflicts(r, f)
  BY <1>0, <1>1 DEF Duplicate
<1> HIDE DEF f, t
<1>4. CASE ReadsBack(f)
  <2> DEFINE u == [t EXCEPT !.stage = "lookup"]
  <2>1. txn' = [txn EXCEPT ![w] = u]
    BY <1>1, <1>4
  <2>2. "lookup" \in Stages
    BY DEF Stages
  <2>3. /\ u \in Txn /\ u.stage = "lookup" /\ u.batch = t.batch /\ u.next = t.next
        /\ u.kept = t.kept /\ u.wrote = t.wrote /\ Own(u) = Own(t)
    BY <1>0, <2>2, SetStage
  <2> HIDE DEF u
  <2>4. t.kept = {} /\ Own(t) = {} /\ t.next = 1
    BY <1>2, <1>4 DEF Own
  <2>5. Placed(u)
    BY <1>2, <2>3 DEF Placed
  <2>6. Skipped(u, rows)
    BY <1>2, <1>3, <2>3, <2>4 DEF Skipped
  <2>7. Sourced(u, rows) /\ Fresh(u, rows) /\ Written(u, rows)
    BY <1>0, <1>1, <1>2, <2>3 DEF TxnGood, Sourced, Fresh, Written
  <2>8. TxnGood(u, rows)
    BY <2>5, <2>6, <2>7 DEF TxnGood
  <2>9. \A v \in Writers \ {w} : Apart(txn[v], u) /\ Apart(u, txn[v])
    BY <2>3, SameApart DEF t
  <2> QED
    BY <1>1, <2>1, <2>3, <2>8, <2>9, SameReplies, TxnStep
<1>5. CASE ~ReadsBack(f)
  <2>1. txn' = [txn EXCEPT ![w] = Advance(t)]
    BY <1>1, <1>5
  <2>2. \A i \in 1..t.next : i \notin t.kept => \E r \in rows \cup Own(t) : Conflicts(r, t.batch[i])
    <3> TAKE i \in 1..t.next
    <3>1. CASE i = t.next
      BY <1>2, <1>3, <3>1
    <3>2. CASE i # t.next
      <4>1. i < t.next
        BY <1>2, <3>2, BatchFacts
      <4> QED
        BY <1>0, <1>1, <4>1 DEF TxnGood, Skipped
    <3> QED
      BY <3>1, <3>2
  <2>3. /\ Advance(t) \in Txn /\ TxnGood(Advance(t), rows) /\ Own(Advance(t)) = Own(t)
        /\ Advance(t).wrote = t.wrote
    BY <1>0, <1>1, <1>2, <2>2, AdvanceKeeps DEF TxnGood
  <2>4. \A v \in Writers \ {w} : Apart(txn[v], Advance(t)) /\ Apart(Advance(t), txn[v])
    BY <2>3, SameApart DEF t
  <2> QED
    BY <1>1, <2>1, <2>3, <2>4, SameReplies, TxnStep
<1> QED
  BY <1>4, <1>5

\* The retained row is the Fact
LEMMA LookupKnownKeeps ==
    ASSUME StoreInv, NEW w \in Writers, LookupKnown(w)
    PROVE  StoreInv'
<1> DEFINE f == Current(w)
<1>1. txn[w].stage = "lookup"
  BY DEF LookupKnown
<1>2. PICK r \in rows : Matches(f) = {r} /\ SameIdentity(r, f) /\ Answer(w, f, r.id, "known")
  BY DEF LookupKnown
<1>3. f \in Facts /\ r \in Facts
  BY <1>1, <1>2, InsertFacts, WriterFacts
<1>4. Conflicts(r, f)
  BY <1>2 DEF Matches
<1>5. r.ident = f.ident /\ r.key = f.key
  <2>1. r.table = f.table
    BY <1>4 DEF Conflicts
  <2> QED
    BY <1>2, <1>3, <2>1, FactsAssumption DEF SameIdentity
<1>6. Receipted([fact |-> f, id |-> r.id, outcome |-> "known"])
  <2> HIDE DEF f
  <2> QED
    BY <1>4, <1>5 DEF Receipted
<1> QED
  BY <1>2, <1>6, AnswerKeeps

\* No retained row is the Fact, though one is in its way
LEMMA LookupConflictKeeps ==
    ASSUME StoreInv, NEW w \in Writers, LookupConflict(w)
    PROVE  StoreInv'
<1> DEFINE f == Current(w)
<1>1. /\ txn[w].stage = "lookup" /\ Answer(w, f, None, "conflict")
      /\ ~\E r \in rows : Matches(f) = {r} /\ SameIdentity(r, f)
  BY DEF LookupConflict
<1>2. /\ f \in Facts /\ f = txn[w].batch[txn[w].next]
      /\ Skipped(txn[w], rows) /\ rows \in SUBSET Facts
  BY <1>1, InsertFacts, WriterFacts DEF TxnGood
<1>3. PICK r \in rows : Conflicts(r, f)
  BY <1>1, <1>2 DEF Skipped
<1> HIDE DEF f
<1>4. \E p \in rows : Conflicts(p, f) /\ (p.key # f.key \/ p.ident # f.ident)
  <2>1. SUFFICES ASSUME \A p \in rows : Conflicts(p, f) => p.key = f.key /\ p.ident = f.ident
                 PROVE  FALSE
    OBVIOUS
  <2>2. \A p \in rows : Conflicts(p, f) => Conflicts(p, r)
    BY <1>3, <2>1 DEF Conflicts
  <2>3. \A p \in rows : Conflicts(p, f) => p = r
    BY <2>2 DEF StoreInv, OneRowPerIdentity
  <2>4. Matches(f) = {r}
    BY <1>3, <2>1, <2>3 DEF Matches
  <2>5. SameIdentity(r, f)
    BY <1>3, <2>1 DEF SameIdentity
  <2> QED
    BY <1>1, <2>4, <2>5
<1>5. Receipted([fact |-> f, id |-> None, outcome |-> "conflict"])
  BY <1>4 DEF Receipted
<1> QED
  BY <1>1, <1>5, AnswerKeeps DEF f

-----------------------------------------------------------------------------
(* The Session rows and the commit                                         *)

\* The Session row that is next: the least one that is left
LEMMA NextIsLeast ==
    ASSUME NEW w \in Writers, Pending(w) # {}
    PROVE  NextSession(w) \in Pending(w) /\ \A s \in Pending(w) : NextSession(w) <= s
<1>1. Pending(w) \in SUBSET Nat
  BY BoundsAssumption DEF Pending
<1>2. \E m \in Pending(w) : \A n \in Pending(w) : m =< n
  BY <1>1, LeastMember
<1> QED
  BY <1>2 DEF NextSession, Min

\* The row that is written summarises what is retained and what is inserted
LEMMA UpsertedSummary ==
    ASSUME NEW F \in SUBSET Facts, NEW G \in SUBSET Facts, IsFiniteSet(G), G # {},
           NEW old, Summarised(old, F)
    PROVE  Summary(Upserted(old, Metadata(G)), F \cup G)
<1>1. Summary(Metadata(G), G)
  BY MetadataSummary
<1>2. CASE F = {}
  <2>1. old = None /\ F \cup G = G
    BY <1>2 DEF Summarised
  <2> QED
    BY <1>1, <2>1 DEF Upserted
<1>3. CASE F # {}
  <2>1. Summary(old, F)
    BY <1>3 DEF Summarised
  <2>2. old # None
    BY <2>1, RowsAssumption DEF Summary
  <2> QED
    BY <1>1, <2>1, <2>2, MergeSummary DEF Upserted
<1> QED
  BY <1>2, <1>3

\* One Session row is written, and locked until the transaction ends
LEMMA UpsertKeeps ==
    ASSUME StoreInv, NEW w \in Writers, Upsert(w)
    PROVE  StoreInv'
<1> DEFINE t == txn[w]
           s == NextSession(w)
           row == Upserted(sess[s], Metadata(Stored(w, s)))
           u == [t EXCEPT !.wrote[s] = row]
<1>0. /\ t \in Txn /\ TxnGood(t, rows) /\ StoreTyped /\ Uncommitted(w) = Own(t)
      /\ \A z : Stored(w, z) = OwnOf(t, z)
      /\ \A v \in Writers \ {w} : Apart(txn[v], t) /\ Apart(t, txn[v])
      /\ rows \in SUBSET Facts /\ Placed(t)
  BY WriterFacts
<1>1. /\ t.stage = "upsert" /\ txn' = [txn EXCEPT ![w] = u] /\ Pending(w) # {}
      /\ UNCHANGED <<rows, sess, reply>> /\ UpsertWaitsFor(w) = {}
  BY <1>0 DEF Upsert, StoreTyped
<1>2. /\ s \in Sessions /\ OwnOf(t, s) # {} /\ t.wrote[s] = None
      /\ \A z \in Sessions : OwnOf(t, z) # {} /\ t.wrote[z] = None => s <= z
  BY <1>0, <1>1, NextIsLeast DEF Pending
<1>3. Summary(row, RowsOf(rows, s) \cup OwnOf(t, s)) /\ row \in SessionRow /\ row # None
  <2>1. Summarised(sess[s], RowsOf(rows, s))
    BY <1>2 DEF StoreInv
  <2>2. OwnOf(t, s) \in SUBSET Facts /\ IsFiniteSet(OwnOf(t, s))
    BY <1>0, OwnFacts
  <2>3. RowsOf(rows, s) \in SUBSET Facts
    BY <1>0 DEF RowsOf
  <2>4. Summary(row, RowsOf(rows, s) \cup OwnOf(t, s))
    BY <1>0, <1>2, <2>1, <2>2, <2>3, UpsertedSummary
  <2> HIDE DEF row
  <2> QED
    BY <2>4, RowsAssumption DEF Summary
<1> HIDE DEF s, row
<1>4. /\ u \in Txn /\ u.stage = "upsert" /\ u.batch = t.batch /\ u.next = t.next
      /\ u.kept = t.kept /\ u.wrote = [t.wrote EXCEPT ![s] = row]
  <2> HIDE DEF t
  <2>1. t.wrote \in [Sessions -> SessionRow \cup {None}]
    BY <1>0 DEF Txn
  <2>2. [t.wrote EXCEPT ![s] = row] \in [Sessions -> SessionRow \cup {None}]
    BY <1>2, <1>3, <2>1
  <2> DEFINE new == [t.wrote EXCEPT ![s] = row]
  <2> HIDE DEF new
  <2>3. u = [t EXCEPT !.wrote = new]
    BY <1>0 DEF Txn, new
  <2>4. new \in [Sessions -> SessionRow \cup {None}]
    BY <2>2 DEF new
  <2>5. /\ u \in Txn /\ u.stage = "upsert" /\ u.batch = t.batch /\ u.next = t.next
        /\ u.kept = t.kept /\ u.wrote = new
    BY <1>0, <1>1, <2>3, <2>4 DEF Txn
  <2> QED
    BY <2>5 DEF new
<1> HIDE DEF u
<1>5. /\ u.wrote[s] = row /\ \A z \in Sessions \ {s} : u.wrote[z] = t.wrote[z]
      /\ Own(u) = Own(t) /\ \A z : OwnOf(u, z) = OwnOf(t, z)
  <2>1. t.wrote \in [Sessions -> SessionRow \cup {None}]
    BY <1>0 DEF Txn
  <2>2. Own(u) = Own(t)
    BY <1>4 DEF Own
  <2> QED
    BY <1>2, <1>4, <2>1, <2>2 DEF OwnOf
<1>6. Written(u, rows)
  <2> SUFFICES ASSUME NEW z \in Sessions, u.wrote[z] # None
               PROVE  /\ OwnOf(u, z) # {}
                      /\ Summary(u.wrote[z], RowsOf(rows, z) \cup OwnOf(u, z))
                      /\ \A y \in Sessions : OwnOf(u, y) # {} /\ u.wrote[y] = None => z < y
    BY <1>4 DEF Written
  <2>1. Sessions \subseteq Nat
    BY BoundsAssumption
  <2>2. CASE z = s
    <3>1. \A y \in Sessions : OwnOf(u, y) # {} /\ u.wrote[y] = None => s <= y /\ s # y
      BY <1>2, <1>3, <1>5
    <3> QED
      BY <1>2, <1>3, <1>5, <2>1, <2>2, <3>1
  <2>3. CASE z # s
    <3>1. t.wrote[z] # None /\ u.wrote[z] = t.wrote[z]
      BY <1>5, <2>3
    <3>2. /\ OwnOf(t, z) # {} /\ Summary(t.wrote[z], RowsOf(rows, z) \cup OwnOf(t, z))
          /\ \A y \in Sessions : OwnOf(t, y) # {} /\ t.wrote[y] = None => z < y
      BY <1>0, <3>1 DEF TxnGood, Written
    <3>3. \A y \in Sessions : u.wrote[y] = None => t.wrote[y] = None
      BY <1>2, <1>5
    <3> QED
      BY <1>5, <3>1, <3>2, <3>3
  <2> QED
    BY <2>2, <2>3
<1>7. TxnGood(u, rows)
  <2>1. Placed(u)
    BY <1>0, <1>1, <1>4 DEF Placed
  <2>2. Skipped(u, rows)
    BY <1>0, <1>1, <1>4, <1>5 DEF TxnGood, Skipped
  <2>3. Sourced(u, rows) /\ Fresh(u, rows)
    BY <1>0, <1>1, <1>4, <1>5 DEF TxnGood, Sourced, Fresh
  <2> QED
    BY <1>6, <2>1, <2>2, <2>3 DEF TxnGood
<1>8. \A v \in Writers \ {w} : Apart(txn[v], u) /\ Apart(u, txn[v])
  <2> TAKE v \in Writers \ {w}
  <2>1. txn[v].wrote[s] = None
    BY <1>1 DEF UpsertWaitsFor, s
  <2>2. \A z \in Sessions : txn[v].wrote[z] = None \/ u.wrote[z] = None
    BY <1>0, <1>5, <2>1 DEF Apart
  <2> QED
    BY <1>0, <1>5, <2>2 DEF Apart
<1> QED
  BY <1>1, <1>4, <1>7, <1>8, SameReplies, TxnStep

\* The transaction commits: its rows and its Session rows appear at once
LEMMA CommitKeeps ==
    ASSUME StoreInv, NEW w \in Writers, Commit(w)
    PROVE  StoreInv'
<1> DEFINE t == txn[w]
<1>0. /\ t \in Txn /\ TxnGood(t, rows) /\ StoreTyped /\ Uncommitted(w) = Own(t)
      /\ \A z : Stored(w, z) = OwnOf(t, z)
      /\ \A v \in Writers \ {w} : Apart(txn[v], t) /\ Apart(t, txn[v])
      /\ rows \in SUBSET Facts /\ Own(t) \in SUBSET Facts /\ Placed(t)
  BY WriterFacts
<1>1. /\ t.stage = "upsert" /\ txn' = [txn EXCEPT ![w] = Idle] /\ Pending(w) = {}
      /\ rows' = rows \cup Own(t)
      /\ sess' = [s \in Sessions |-> IF t.wrote[s] = None THEN sess[s] ELSE t.wrote[s]]
      /\ \E heard \in BOOLEAN :
            reply' = [reply EXCEPT ![w] = IF heard THEN Dispositions(w) ELSE {}]
  BY <1>0 DEF Commit
<1>2. /\ t.batch \in Batches /\ t.next \in 1..Len(t.batch) /\ t.kept \subseteq 1..t.next
      /\ Len(t.batch) \in Nat
  BY <1>0, <1>1, BatchFacts DEF Placed
<1>3. t.wrote \in [Sessions -> SessionRow \cup {None}]
  BY <1>0 DEF Txn
<1> HIDE DEF t
<1>4. /\ txn'[w] = Idle /\ \A v \in Writers \ {w} : txn'[v] = txn[v]
      /\ txn' \in [Writers -> Txn]
  BY <1>0, <1>1, IdleTxn DEF StoreTyped
<1>5. StoreTyped'
  <2>1. sess' \in [Sessions -> SessionRow \cup {None}]
    BY <1>0, <1>1, <1>3 DEF StoreTyped
  <2>2. reply' = [v \in Writers |-> reply'[v]]
    BY <1>0, <1>1 DEF StoreTyped
  <2> QED
    BY <1>0, <1>1, <1>4, <2>1, <2>2 DEF StoreTyped
<1>6. OneRowPerIdentity'
  BY <1>0, <1>1, ConflictsSymmetric DEF StoreInv, OneRowPerIdentity, TxnGood, Fresh
<1>7. ObservationHasSource'
  <2> SUFFICES ASSUME NEW f \in rows \cup Own(t), f.source # None
               PROVE  \E p \in rows \cup Own(t) :
                         p.table = "pushes" /\ p.id = f.source /\ p.ident = f.ident
    BY <1>1 DEF ObservationHasSource
  <2>1. CASE f \in rows
    BY <2>1 DEF StoreInv, ObservationHasSource
  <2>2. CASE f \in Own(t)
    <3>1. PICK i \in t.kept : f = t.batch[i]
      BY <2>2 DEF Own
    <3>2. f.table = "session_commit_observations"
      BY <1>0, <2>2, FactsAssumption
    <3>3. i \in 1..Len(t.batch)
      BY <1>2, <3>1
    <3>4. Len(t.batch) = 1
      BY <1>2, <3>1, <3>2, <3>3, BatchFacts
    <3>5. f = t.batch[1]
      BY <3>1, <3>3, <3>4
    <3> QED
      BY <1>0, <1>1, <3>5 DEF TxnGood, Sourced
  <2> QED
    BY <2>1, <2>2
<1>8. \A s \in Sessions : Summarised(sess'[s], RowsOf(rows', s))
  <2> TAKE s \in Sessions
  <2>1. RowsOf(rows', s) = RowsOf(rows, s) \cup OwnOf(t, s)
    BY <1>1 DEF RowsOf, OwnOf
  <2>2. CASE t.wrote[s] = None
    <3>1. OwnOf(t, s) = {}
      BY <1>0, <1>1, <2>2 DEF Pending, t
    <3>2. sess'[s] = sess[s] /\ RowsOf(rows', s) = RowsOf(rows, s)
      BY <1>1, <2>1, <2>2, <3>1
    <3> QED
      BY <3>2 DEF StoreInv
  <2>3. CASE t.wrote[s] # None
    <3>1. /\ OwnOf(t, s) # {} /\ Summary(t.wrote[s], RowsOf(rows, s) \cup OwnOf(t, s))
      BY <1>0, <2>3 DEF TxnGood, Written
    <3>2. sess'[s] = t.wrote[s] /\ RowsOf(rows', s) # {}
      BY <1>1, <2>1, <2>3, <3>1
    <3> QED
      BY <2>1, <3>1, <3>2 DEF Summarised
  <2> QED
    BY <2>2, <2>3
<1>9. ASSUME NEW v \in Writers \ {w} PROVE TxnGood(txn[v], rows')
  <2> DEFINE u == txn[v]
  <2>1. u \in Txn /\ TxnGood(u, rows) /\ Apart(u, t) /\ Apart(t, u)
    BY <1>0, WriterFacts DEF t
  <2>2. Placed(u)
    BY <2>1 DEF TxnGood
  <2> HIDE DEF u
  <2>3. Skipped(u, rows')
    BY <1>1, <2>1 DEF TxnGood, Skipped
  <2>4. Sourced(u, rows')
    BY <1>1, <2>1 DEF TxnGood, Sourced
  <2>5. Fresh(u, rows')
    BY <1>1, <2>1 DEF TxnGood, Fresh, Apart
  <2>6. Written(u, rows')
    <3> SUFFICES ASSUME NEW s \in Sessions, u.wrote[s] # None
                 PROVE  RowsOf(rows', s) = RowsOf(rows, s)
      BY <2>1 DEF TxnGood, Written
    <3>1. t.wrote[s] = None
      BY <2>1 DEF Apart
    <3>2. OwnOf(t, s) = {}
      BY <1>0, <1>1, <3>1 DEF Pending, t
    <3> QED
      BY <1>1, <3>2 DEF RowsOf, OwnOf
  <2> QED
    BY <2>2, <2>3, <2>4, <2>5, <2>6 DEF TxnGood, u
<1>10. \A v \in Writers : TxnGood(txn'[v], rows')
  BY <1>4, <1>9, IdleTxn
<1>11. \A u, v \in Writers : u # v => Apart(txn'[u], txn'[v])
  BY <1>4, IdleTxn DEF StoreInv
<1>12. ReceiptsAreTrue'
  <2>1. reply = [v \in Writers |-> reply[v]] /\ ReceiptsAreTrue
    BY <1>0 DEF StoreTyped, StoreInv
  <2>2. \A v \in Writers \ {w} : reply'[v] = reply[v]
    BY <1>1, <2>1
  <2>3. reply'[w] \subseteq Dispositions(w)
    BY <1>1, <2>1
  <2>4. ASSUME NEW a \in Dispositions(w)
        PROVE  /\ a.outcome = "stored" => a.fact \in rows'
               /\ a.outcome = "known" => a.id = None /\ \E r \in rows' : Conflicts(r, a.fact)
               /\ a.outcome # "conflict"
    <3>1. DOMAIN t.batch = 1..Len(t.batch)
      BY <1>2, BatchFacts
    <3>2. PICK i \in 1..Len(t.batch) :
             a = [fact    |-> t.batch[i],
                  id      |-> IF i \in t.kept THEN t.batch[i].id ELSE None,
                  outcome |-> IF i \in t.kept THEN "stored" ELSE "known"]
      BY <3>1 DEF Dispositions, t
    <3>3. CASE i \in t.kept
      BY <1>1, <3>2, <3>3 DEF Own
    <3>4. CASE i \notin t.kept
      <4>1. i \in 1..t.next
        BY <1>0, <1>1, <3>2 DEF Placed
      <4>2. \E r \in rows \cup Own(t) : Conflicts(r, t.batch[i])
        BY <1>0, <1>1, <3>4, <4>1 DEF TxnGood, Skipped
      <4> QED
        BY <1>1, <3>2, <3>4, <4>2
    <3> QED
      BY <3>3, <3>4
  <2>5. \A v \in Writers \ {w} : \A a \in reply'[v] : Receipted(a)'
    BY <1>1, <2>1, <2>2 DEF ReceiptsAreTrue, Receipted
  <2>6. \A a \in reply'[w] : Receipted(a)'
    BY <2>3, <2>4 DEF Receipted
  <2> QED
    BY <2>5, <2>6 DEF ReceiptsAreTrue, Receipted
<1> QED
  BY <1>5, <1>6, <1>7, <1>8, <1>10, <1>11, <1>12 DEF StoreInv

-----------------------------------------------------------------------------
(* The store                                                               *)

LEMMA StoreStarts == Init => StoreInv
<1> SUFFICES ASSUME Init PROVE StoreInv
  OBVIOUS
<1>1. /\ rows = {} /\ sess = [s \in Sessions |-> None] /\ txn = [w \in Writers |-> Idle]
      /\ reply = [w \in Writers |-> {}]
  BY DEF Init
<1>2. \A w \in Writers : txn[w] = Idle /\ reply[w] = {}
  BY <1>1
<1>3. StoreTyped
  BY <1>1, <1>2, IdleTxn DEF StoreTyped
<1>4. /\ \A w \in Writers : TxnGood(txn[w], rows)
      /\ \A v, w \in Writers : v # w => Apart(txn[v], txn[w])
  BY <1>2, IdleTxn
<1>5. OneRowPerIdentity /\ ObservationHasSource
  BY <1>1 DEF OneRowPerIdentity, ObservationHasSource
<1>6. \A s \in Sessions : Summarised(sess[s], RowsOf(rows, s))
  BY <1>1 DEF Summarised, RowsOf
<1>7. ReceiptsAreTrue
  BY <1>2 DEF ReceiptsAreTrue
<1> QED
  BY <1>3, <1>4, <1>5, <1>6, <1>7 DEF StoreInv

\* Operators and Readers touch neither Facts nor Sessions
LEMMA QuietStore ==
    ASSUME StoreInv, UNCHANGED <<rows, sess, txn, reply>>
    PROVE  StoreInv'
<1>1. StoreTyped'
  BY DEF StoreInv, StoreTyped
<1>2. OneRowPerIdentity' /\ ObservationHasSource' /\ ReceiptsAreTrue'
  BY DEF StoreInv, OneRowPerIdentity, ObservationHasSource, ReceiptsAreTrue
<1> QED
  BY <1>1, <1>2 DEF StoreInv

LEMMA StoreStep == StoreInv /\ [Next]_vars => StoreInv'
<1> SUFFICES ASSUME StoreInv, [Next]_vars PROVE StoreInv'
  OBVIOUS
<1>1. CASE UNCHANGED vars
  BY <1>1, QuietStore DEF vars
<1>2. ASSUME NEW w \in Writers, Writer(w) PROVE StoreInv'
  BY <1>2, CheckSourceKeeps, RefuseSourceKeeps, InsertKeptKeeps, InsertSkippedKeeps,
     LookupKnownKeeps, LookupConflictKeeps, UpsertKeeps, CommitKeeps DEF Writer
<1>3. ASSUME NEW w \in Writers, NEW b \in Batches, Begin(w, b) PROVE StoreInv'
  BY <1>3, BeginKeeps
<1>4. ASSUME NEW w \in Writers, Abort(w) \/ BreakDeadlock(w) PROVE StoreInv'
  BY <1>4, RollbackKeeps DEF Abort, BreakDeadlock
<1>5. ASSUME NEW o \in Operators, Operator(o) PROVE StoreInv'
  <2>1. UNCHANGED <<rows, sess, txn, reply>>
    BY <1>5 DEF Operator, AppendQuarantine, QuarantineWhere, Draw, CommitAppend, AbortAppend
  <2> QED
    BY <2>1, QuietStore
<1>6. ASSUME NEW r \in Readers, Reader(r) PROVE StoreInv'
  <2>1. UNCHANGED <<rows, sess, txn, reply>>
    BY <1>6 DEF Reader, OpenSnapshot, ReadRevision, ReadFacts, Publish
  <2> QED
    BY <2>1, QuietStore
<1> QED
  BY <1>1, <1>2, <1>3, <1>4, <1>5, <1>6 DEF Next

LEMMA StoreHolds == Spec => []StoreInv
BY StoreStarts, StoreStep, PTL DEF Spec

\* Replays and concurrent deliveries converge: the unique indexes, the wait of
\* an INSERT for an uncommitted row and ON CONFLICT DO NOTHING together leave
\* one retained row per primary key and per natural key.
THEOREM RowsAreUnique == Spec => []OneRowPerIdentity
<1>1. StoreInv => OneRowPerIdentity
  BY DEF StoreInv
<1> QED
  BY <1>1, StoreHolds, PTL

\* A retained identified observation has its retained source Push, with the
\* same repository identity (store_session_commit_observation's lookup).
THEOREM ObservationsKeepTheirSource == Spec => []ObservationHasSource
<1>1. StoreInv => ObservationHasSource
  BY DEF StoreInv
<1> QED
  BY <1>1, StoreHolds, PTL

\* No receipt names a row that is not retained or has another identity, and a
\* conflict is answered only on evidence.
THEOREM ReceiptsStayTrue == Spec => []ReceiptsAreTrue
<1>1. StoreInv => ReceiptsAreTrue
  BY DEF StoreInv
<1> QED
  BY <1>1, StoreHolds, PTL

\* The committed sessions row is the summary of exactly the committed Facts of
\* its Session, whatever the order, the lists and the rollbacks
\* (_session_metadata and the upsert's merge).
THEOREM SessionsFollowFacts == Spec => []SessionFollowsFacts
<1>1. StoreInv => SessionFollowsFacts
  <2> SUFFICES ASSUME StoreInv, NEW s \in Sessions
               PROVE  LET F == {f \in rows : f.session = s}
                          K == {f \in F : f.user # None}
                      IN  IF F = {} THEN sess[s] = None
                          ELSE /\ sess[s] # None
                               /\ \A f \in F : sess[s].first <= f.at /\ f.at <= sess[s].last
                               /\ \E f, g \in F : f.at = sess[s].first /\ g.at = sess[s].last
                               /\ sess[s].conflict <=> \E f, g \in K : f.user # g.user
                               /\ IF K = {} \/ sess[s].conflict THEN sess[s].user = None
                                  ELSE \A f \in K : sess[s].user = f.user
    BY DEF SessionFollowsFacts
  <2>1. Summarised(sess[s], RowsOf(rows, s))
    BY DEF StoreInv
  <2> QED
    BY <2>1, RowsAssumption DEF Summarised, Summary, RowsOf
<1> QED
  BY <1>1, StoreHolds, PTL

-----------------------------------------------------------------------------
(* Waiting                                                                 *)

\* Who waits for a Session row waits for a transaction that is done with the
\* smaller ones
LEMMA UpsertChain ==
    ASSUME StoreInv, NEW v \in Writers, txn[v].stage = "upsert", NEW x \in WaitsFor(v),
           WaitsFor(x) # {}
    PROVE  /\ x \in Writers /\ txn[x].stage = "upsert" /\ Pending(x) # {} /\ Pending(v) # {}
           /\ NextSession(v) \in Nat /\ NextSession(x) \in Nat
           /\ NextSession(v) < NextSession(x)
<1>1. Pending(v) # {} /\ x \in UpsertWaitsFor(v)
  BY DEF WaitsFor
<1>2. x \in Writers /\ txn[x].wrote[NextSession(v)] # None
  BY <1>1 DEF UpsertWaitsFor
<1>3. NextSession(v) \in Sessions
  BY <1>1, NextIsLeast DEF Pending
<1>4. /\ txn[x].stage = "upsert"
      /\ \A z \in Sessions : OwnOf(txn[x], z) # {} /\ txn[x].wrote[z] = None => NextSession(v) < z
  BY <1>2, <1>3, WriterFacts DEF TxnGood, Written
<1>5. Pending(x) # {}
  BY <1>4 DEF WaitsFor
<1>6. NextSession(x) \in Pending(x)
  BY <1>2, <1>5, NextIsLeast
<1>7. /\ NextSession(x) \in Sessions /\ OwnOf(txn[x], NextSession(x)) # {}
      /\ txn[x].wrote[NextSession(x)] = None
  BY <1>2, <1>6, WriterFacts DEF Pending
<1> QED
  BY <1>1, <1>2, <1>3, <1>4, <1>5, <1>7, BoundsAssumption

\* Transactions that write several Session rows take the row locks in one
\* order and wait for no inserter: no wait cycle has one of them in it.
THEOREM UpsertsNeverDeadlock == Spec => []SessionsNeverDeadlock
<1>1. StoreInv => SessionsNeverDeadlock
  <2> SUFFICES ASSUME StoreInv, NEW C \in SUBSET Writers, Deadlocked(C), NEW w \in C,
                      txn[w].stage # "insert"
               PROVE  FALSE
    BY DEF SessionsNeverDeadlock
  <2>1. \A v \in C : WaitsFor(v) # {} /\ \E x \in WaitsFor(v) : x \in C
    BY DEF Deadlocked
  <2>2. txn[w].stage = "upsert" /\ w \in Writers
    BY <2>1 DEF WaitsFor
  <2> DEFINE D == {v \in C : txn[v].stage = "upsert" /\ NextSession(w) < NextSession(v)
                             /\ NextSession(v) \in Nat}
  <2>3. NextSession(w) \in Nat /\ w \notin D
    <3>1. PICK x \in WaitsFor(w) : x \in C
      BY <2>1
    <3> QED
      BY <2>1, <2>2, <3>1, UpsertChain
  <2>4. D # {}
    <3>1. PICK x \in WaitsFor(w) : x \in C
      BY <2>1
    <3> QED
      BY <2>1, <2>2, <3>1, UpsertChain
  <2>5. \A v \in D : WaitsFor(v) \cap D # {}
    <3> TAKE v \in D
    <3>1. PICK x \in WaitsFor(v) : x \in C
      BY <2>1
    <3>2. /\ txn[x].stage = "upsert" /\ NextSession(v) < NextSession(x)
          /\ NextSession(x) \in Nat /\ NextSession(v) \in Nat
      BY <2>1, <3>1, UpsertChain
    <3>3. x \in D
      BY <2>3, <3>1, <3>2
    <3> QED
      BY <3>1, <3>3
  <2>6. D \in (SUBSET C) \ {{}, C}
    BY <2>3, <2>4
  <2> HIDE DEF D
  <2> QED
    BY <2>5, <2>6 DEF Deadlocked
<1> QED
  BY <1>1, StoreHolds, PTL

-----------------------------------------------------------------------------
(* Snapshots                                                               *)

\* A Reader has read what its snapshot holds, and the snapshot is one of the
\* committed states since it opened
SnapshotGood(x) ==
    /\ DOMAIN x = {"view", "revision", "seen", "since"}
    /\ x.view # None => x.view \in x.since
    /\ x.revision # None => x.view # None /\ x.revision = Revision(x.view.log)
    /\ x.seen # None => x.view # None /\ x.seen = Visible(x.view.rows, x.view.log)

ReportInv ==
    /\ reader = [r \in Readers |-> reader[r]]
    /\ \A r \in Readers : SnapshotGood(reader[r])
    /\ ReportIsOneState

\* A commit adds the new state to those an open snapshot has seen pass
LEMMA ObserveKeeps ==
    ASSUME ReportInv, Observe, UNCHANGED reports
    PROVE  ReportInv'
<1>1. reader' = [r \in Readers |-> reader'[r]]
  BY DEF Observe
<1>2. ASSUME NEW r \in Readers PROVE SnapshotGood(reader'[r])
  <2> DEFINE x == reader[r]
             now == [rows |-> rows', log |-> log']
  <2>1. SnapshotGood(x)
    BY DEF ReportInv
  <2>2. CASE x.view = None
    BY <2>1, <2>2 DEF Observe
  <2>3. CASE x.view # None
    <3>1. reader'[r] = [x EXCEPT !.since = x.since \cup {now}]
      BY <2>3 DEF Observe
    <3> HIDE DEF x, now
    <3>2. /\ DOMAIN reader'[r] = {"view", "revision", "seen", "since"}
          /\ reader'[r].view = x.view /\ reader'[r].revision = x.revision
          /\ reader'[r].seen = x.seen /\ reader'[r].since = x.since \cup {now}
      BY <2>1, <3>1 DEF SnapshotGood
    <3> QED
      BY <2>1, <3>2 DEF SnapshotGood
  <2> QED
    BY <2>2, <2>3
<1>3. ReportIsOneState'
  BY DEF ReportInv, ReportIsOneState
<1> QED
  BY <1>1, <1>2, <1>3 DEF ReportInv

\* A step of one Reader
LEMMA ReaderStep ==
    ASSUME ReportInv, NEW r \in Readers, NEW x, reader' = [reader EXCEPT ![r] = x],
           SnapshotGood(x), ReportIsOneState'
    PROVE  ReportInv'
<1>1. reader = [v \in Readers |-> reader[v]]
  BY DEF ReportInv
<1>2. reader' = [v \in Readers |-> reader'[v]]
  BY <1>1
<1>3. reader'[r] = x /\ \A v \in Readers \ {r} : reader'[v] = reader[v]
  BY <1>1
<1> QED
  BY <1>2, <1>3 DEF ReportInv

LEMMA OpenKeeps ==
    ASSUME ReportInv, NEW r \in Readers, OpenSnapshot(r)
    PROVE  ReportInv'
<1> DEFINE x == reader[r]
           now == [rows |-> rows, log |-> log]
           y == [x EXCEPT !.view = now, !.since = {now}]
<1>1. SnapshotGood(x) /\ reader = [v \in Readers |-> reader[v]]
  BY DEF ReportInv
<1>2. x.view = None /\ reader' = [reader EXCEPT ![r] = y] /\ UNCHANGED reports
  BY <1>1 DEF OpenSnapshot
<1> HIDE DEF x, now
<1>3. /\ DOMAIN y = {"view", "revision", "seen", "since"} /\ y.view = now /\ y.since = {now}
      /\ y.revision = x.revision /\ y.seen = x.seen
  BY <1>1 DEF SnapshotGood
<1>4. SnapshotGood(y)
  BY <1>1, <1>2, <1>3 DEF SnapshotGood
<1>5. ReportIsOneState'
  BY <1>2 DEF ReportInv, ReportIsOneState
<1> HIDE DEF y
<1> QED
  BY <1>2, <1>4, <1>5, ReaderStep

LEMMA ReadKeeps ==
    ASSUME ReportInv, NEW r \in Readers, ReadRevision(r) \/ ReadFacts(r)
    PROVE  ReportInv'
<1> DEFINE x == reader[r]
           revision == Revision(x.view.log)
           seen == Visible(x.view.rows, x.view.log)
           a == [x EXCEPT !.revision = revision]
           b == [x EXCEPT !.seen = seen]
<1>1. SnapshotGood(x) /\ reader = [v \in Readers |-> reader[v]]
  BY DEF ReportInv
<1>2. /\ x.view # None /\ UNCHANGED reports
      /\ reader' = [reader EXCEPT ![r] = a] \/ reader' = [reader EXCEPT ![r] = b]
  BY <1>1 DEF ReadRevision, ReadFacts
<1>3. SnapshotGood(a)
  <2> HIDE DEF x, revision
  <2>1. /\ DOMAIN a = {"view", "revision", "seen", "since"} /\ a.view = x.view
        /\ a.since = x.since /\ a.revision = revision /\ a.seen = x.seen
    BY <1>1 DEF SnapshotGood
  <2> QED
    BY <1>1, <1>2, <2>1 DEF SnapshotGood, revision
<1>4. SnapshotGood(b)
  <2> HIDE DEF x, seen
  <2>1. /\ DOMAIN b = {"view", "revision", "seen", "since"} /\ b.view = x.view
        /\ b.since = x.since /\ b.revision = x.revision /\ b.seen = seen
    BY <1>1 DEF SnapshotGood
  <2> QED
    BY <1>1, <1>2, <2>1 DEF SnapshotGood, seen
<1>5. ReportIsOneState'
  BY <1>2 DEF ReportInv, ReportIsOneState
<1> HIDE DEF a, b
<1> QED
  BY <1>2, <1>3, <1>4, <1>5, ReaderStep

\* A report comes from the snapshot, which is among the states it saw pass
LEMMA PublishKeeps ==
    ASSUME ReportInv, NEW r \in Readers, Publish(r)
    PROVE  ReportInv'
<1> DEFINE x == reader[r]
           p == [revision |-> x.revision, seen |-> x.seen,
                 hidden |-> x.view.rows \ x.seen, since |-> x.since]
<1>1. SnapshotGood(x)
  BY DEF ReportInv
<1>2. /\ x.view # None /\ x.revision # None /\ x.seen # None
      /\ reader' = [reader EXCEPT ![r] = Closed] /\ reports' = reports \cup {p}
  BY DEF Publish
<1>3. SnapshotGood(Closed)
  BY DEF SnapshotGood, Closed
<1>4. /\ x.view \in x.since /\ x.revision = Revision(x.view.log)
      /\ x.seen = Visible(x.view.rows, x.view.log)
  BY <1>1, <1>2 DEF SnapshotGood
<1> HIDE DEF x
<1>5. p.revision = x.revision /\ p.seen = x.seen /\ p.since = x.since
  OBVIOUS
<1> HIDE DEF p
<1>6. \E i \in p.since : p.revision = Revision(i.log) /\ p.seen = Visible(i.rows, i.log)
  BY <1>4, <1>5
<1>7. ReportIsOneState'
  BY <1>2, <1>6 DEF ReportInv, ReportIsOneState
<1> QED
  BY <1>2, <1>3, <1>7, ReaderStep

LEMMA QuietReports ==
    ASSUME ReportInv, UNCHANGED <<reader, reports>>
    PROVE  ReportInv'
BY DEF ReportInv, ReportIsOneState

\* The Facts a Derivation used and the revision it stamps belong to one
\* committed state that existed while it ran (read_snapshot's REPEATABLE READ).
THEOREM ReportsAreOneState == Spec => []ReportIsOneState
<1>1. Init => ReportInv
  <2> SUFFICES ASSUME Init PROVE ReportInv
    OBVIOUS
  <2>1. reader = [r \in Readers |-> Closed] /\ reports = {}
    BY DEF Init
  <2>2. SnapshotGood(Closed)
    BY DEF SnapshotGood, Closed
  <2> QED
    BY <2>1, <2>2 DEF ReportInv, ReportIsOneState
<1>2. ReportInv /\ [Next]_vars => ReportInv'
  <2> SUFFICES ASSUME ReportInv, [Next]_vars PROVE ReportInv'
    OBVIOUS
  <2>1. CASE UNCHANGED vars
    BY <2>1, QuietReports DEF vars
  <2>2. ASSUME NEW w \in Writers, Writer(w) PROVE ReportInv'
    <3>1. CASE Commit(w)
      BY <3>1, ObserveKeeps DEF Commit
    <3>2. CASE ~Commit(w)
      <4>1. UNCHANGED <<reader, reports>>
        BY <2>2, <3>2 DEF Writer, CheckSource, RefuseSource, InsertKept, InsertSkipped,
           LookupKnown, LookupConflict, Upsert, Answer
      <4> QED
        BY <4>1, QuietReports
    <3> QED
      BY <3>1, <3>2
  <2>3. ASSUME NEW w \in Writers,
               (\E b \in Batches : Begin(w, b)) \/ Abort(w) \/ BreakDeadlock(w)
        PROVE  ReportInv'
    <3>1. UNCHANGED <<reader, reports>>
      BY <2>3 DEF Begin, Abort, BreakDeadlock, Rollback
    <3> QED
      BY <3>1, QuietReports
  <2>4. ASSUME NEW o \in Operators, Operator(o) PROVE ReportInv'
    <3>1. CASE CommitAppend(o)
      BY <3>1, ObserveKeeps DEF CommitAppend
    <3>2. CASE ~CommitAppend(o)
      <4>1. UNCHANGED <<reader, reports>>
        BY <2>4, <3>2 DEF Operator, AppendQuarantine, QuarantineWhere, Draw, AbortAppend
      <4> QED
        BY <4>1, QuietReports
    <3> QED
      BY <3>1, <3>2
  <2>5. ASSUME NEW r \in Readers, Reader(r) PROVE ReportInv'
    BY <2>5, OpenKeeps, ReadKeeps, PublishKeeps DEF Reader
  <2> QED
    BY <2>1, <2>2, <2>3, <2>4, <2>5 DEF Next
<1>3. ReportInv => ReportIsOneState
  BY DEF ReportInv
<1> QED
  BY <1>1, <1>2, <1>3, PTL DEF Spec

=============================================================================
