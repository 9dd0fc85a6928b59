----------------------------- MODULE MCFactStore -----------------------------
(* Small Fact populations for TLC. *)
EXTENDS FactStore

CONSTANTS u1, u2

Call(id, key, s, u, t) ==
    [table |-> "inference_calls", id |-> id, key |-> key, ident |-> 0,
     session |-> s, user |-> u, at |-> t, source |-> None]

Decision(id, key, s, u, t) ==
    [Call(id, key, s, u, t) EXCEPT !.table = "developer_decisions"]

Allocation(id, key, s, t) ==
    [Call(id, key, s, None, t) EXCEPT !.table = "compute_allocations"]

PushOf(id, key, ident) ==
    [table |-> "pushes", id |-> id, key |-> key, ident |-> ident,
     session |-> None, user |-> None, at |-> 1, source |-> None]

Observation(id, key, ident, s, t, source) ==
    [table |-> "session_commit_observations", id |-> id, key |-> key,
     ident |-> ident, session |-> s, user |-> None, at |-> t,
     source |-> source]

(* Two users disagree on Session 1; lists that touch both Sessions, overlap in
   opposite orders, or name one Decision twice. *)
D1 == Decision(1, 1, 1, u1, 2)
D2 == Decision(2, 2, 2, None, 1)
D3 == Decision(3, 3, 1, u2, 3)
D4 == Decision(4, 4, 2, u1, 2)
SessionBatches == {<<D1, D2>>, <<D4, D3>>, <<D3, D1>>, <<D1, D3>>, <<D1, D1>>,
                   <<Call(1, 1, 1, u1, 1)>>}

\* A call without a model_call_id, under some organisation and provider
KeylessCall(id, ident, s, t) == [Call(id, None, s, None, t) EXCEPT !.ident = ident]

(* A replay with a fresh id, a reused id with another key, and a Fact that
   meets two retained rows; a call without a natural key that two providers
   claim; a Push claimed by two identities. *)
IdentityBatches ==
    {<<Call(1, 1, 1, u1, 1)>>, <<Call(2, 1, 1, u1, 2)>>, <<Call(1, 2, 1, u1, 1)>>,
     <<KeylessCall(1, 1, 1, 1)>>, <<KeylessCall(1, 2, 1, 1)>>,
     <<Allocation(1, 1, 1, 1)>>, <<Allocation(1, 2, 1, 2)>>,
     <<PushOf(1, 1, 1)>>, <<PushOf(2, 1, 2)>>,
     <<Observation(1, 1, 1, 1, 1, 1)>>, <<Observation(2, 2, 2, 1, 1, 1)>>}

(* Calls that meet each other by id, by key, or both at once. *)
ReportBatches == {<<Call(1, 1, 1, None, 1)>>, <<Call(2, 1, 1, None, 1)>>,
                  <<Call(1, 2, 1, None, 1)>>}

(* One stored Fact; the operators may also name one that is not stored. *)
OneCall == {<<Call(1, 1, 1, None, 1)>>}

FactsOf(B) == UNION {{b[i] : i \in DOMAIN b} : b \in B}
CallBatches == SessionBatches \cup IdentityBatches
CallFacts == FactsOf(CallBatches)
ReportFacts == FactsOf(ReportBatches)
TwoFacts == {Call(1, 1, 1, None, 1), Call(2, 2, 1, None, 1)}
=============================================================================
