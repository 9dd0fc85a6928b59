------------------------------- MODULE Outbox -------------------------------
(***************************************************************************)
(* What the delivery buffer promises a capture hook                        *)
(* (docs of cli/sediment_cli/delivery.py: `queued' is a commitment), with  *)
(* no directory, lock, worker or clock: a ledger with one line for each    *)
(* delivery.                                                               *)
(***************************************************************************)
CONSTANTS Deliveries, Bodies, Terminal, None

VARIABLES
    ledger,  \* what is owed for each delivery, or how it ended
    taken    \* the <<delivery, payload>>s the server accepted

Clear == [body |-> None, state |-> "none"]
Owed(b) == [body |-> b, state |-> "owed"]
Settled(b, status) == [body |-> b, state |-> status]

Init ==
    /\ ledger = [d \in Deliveries |-> Clear]
    /\ taken = {}

\* The hook is told `queued': from now on the payload is owed
Promise(d, b) ==
    /\ ledger[d] = Clear
    /\ ledger' = [ledger EXCEPT ![d] = Owed(b)]
    /\ UNCHANGED taken

\* The server accepts a payload, promised or sent directly, maybe again
Take(d, b) ==
    /\ taken' = taken \cup {<<d, b>>}
    /\ UNCHANGED ledger

\* How a line may end: acknowledged only if the server has that payload
MayEnd(d, status) ==
    status = "acknowledged" => <<d, ledger[d].body>> \in taken

\* The outcome is put on record, or replaced on it
End(d, status) ==
    /\ ledger[d] # Clear
    /\ MayEnd(d, status)
    /\ ledger' = [ledger EXCEPT ![d].state = status]
    /\ UNCHANGED taken

\* A record is dropped, and with it the promise: never before it ended
Forget(d) ==
    /\ ledger[d].state \in Terminal
    /\ ledger' = [ledger EXCEPT ![d] = Clear]
    /\ UNCHANGED taken

\* A power loss may take records back, never a promise or its payload
Recover ==
    /\ ledger' \in [Deliveries -> [body : Bodies \cup {None},
                                   state : Terminal \cup {"none", "owed"}]]
    /\ \A d \in Deliveries :
        /\ ledger'[d].body = ledger[d].body
        /\ \/ ledger'[d].state \in {ledger[d].state, "owed"}
           \/ ledger'[d].state \in Terminal /\ MayEnd(d, ledger'[d].state)
        /\ ledger[d] = Clear => ledger'[d] = Clear
    /\ UNCHANGED taken

Next ==
    \/ \E d \in Deliveries :
        \/ \E b \in Bodies : Promise(d, b) \/ Take(d, b)
        \/ \E status \in Terminal : End(d, status)
        \/ Forget(d)
    \/ Recover

Spec == Init /\ [][Next]_<<ledger, taken>>
=============================================================================
