-------------------------- MODULE DeliveryPromises --------------------------
(***************************************************************************)
(* The delivery buffer implements the ledger of Outbox.                    *)
(***************************************************************************)
EXTENDS DeliveryBuffer

\* The line of d, read off the directory.  A promise whose payload is neither
\* in the directory nor accounted for by a receipt has no line in Outbox.
Line(d) ==
    IF \A b \in Bodies : <<d, b>> \notin promised
    THEN [body |-> None, state |-> "none"]
    ELSE LET b == CHOOSE c \in Bodies : <<d, c>> \in promised IN
         [body  |-> b,
          state |-> IF disk.receipt[d] # None THEN disk.receipt[d].status
                    ELSE IF disk.entry[d] # None /\ disk.entry[d].body = b
                    THEN "owed" ELSE "lost"]

Ledger == INSTANCE Outbox WITH
              ledger <- [d \in Deliveries |-> Line(d)],
              taken <- received

\* Every step of the buffer is a step of the ledger or changes nothing in it:
\* a promise of enqueue() ends only by a receipt, an acknowledgement stands for
\* bytes the server took, and neither a process death nor a power loss turns a
\* promise into nothing.
PromisesAreKept == Ledger!Spec
=============================================================================
