------------------------- MODULE DocumentLifecycle --------------------------
(***************************************************************************)
(* What the document pipeline promises of one document, without files,      *)
(* queue, workers and requests: it is open until it is settled as an        *)
(* invoice, a duplicate or something else, it is never opened again once it *)
(* is settled, and a deleted document never comes back.                     *)
(***************************************************************************)
CONSTANT DocId

VARIABLE phase   \* phase[d]: where document d is in its life

Phase == {"none",        \* not created yet
          "open",        \* waiting for a worker, being processed, or failed
          "ready",       \* an invoice, for the user to look at
          "duplicate",   \* an invoice that was seen before
          "other",       \* not an invoice
          "confirmed",   \* an invoice the user has confirmed
          "gone"}        \* deleted

Move(d, from, to) ==
    /\ phase[d] \in from
    /\ phase' = [phase EXCEPT ![d] = to]

Create(d)  == Move(d, {"none"}, "open")
Settle(d)  == \E p \in {"ready", "duplicate", "other"} : Move(d, {"open"}, p)
Confirm(d) == Move(d, {"ready", "confirmed"}, "confirmed")

\* Overwriting resolves a duplicate.  A second overwrite of the same document
\* that has read it before the first one finished writes once more, even after
\* the user has confirmed the document.
Overwrite(d) == Move(d, {"duplicate", "ready", "confirmed"}, "ready")

Delete(d) == Move(d, Phase \ {"none", "gone"}, "gone")

Init == phase = [d \in DocId |-> "none"]

Next == \E d \in DocId :
           Create(d) \/ Settle(d) \/ Confirm(d) \/ Overwrite(d) \/ Delete(d)

Spec == Init /\ [][Next]_phase
=============================================================================
