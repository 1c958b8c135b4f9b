---------------------------- MODULE BlindMailbox ----------------------------
(***************************************************************************)
(* What the dead drop promises to those who use it, without its queues,    *)
(* budgets and clock: envelopes are numbered as they are accepted; each is *)
(* handed out at most once; of one slot they are handed out in the order   *)
(* they were accepted; any of them may be lost at any time.                *)
(***************************************************************************)
EXTENDS Naturals

CONSTANT Slots

VARIABLES
    sent,       \* number of envelopes accepted so far
    pending,    \* envelopes that can still be handed out
    delivered   \* envelopes that were handed out

vars == <<sent, pending, delivered>>

Envelopes == [id: Nat, slot: Slots]

Init == sent = 0 /\ pending = {} /\ delivered = {}

\* An envelope is accepted; it and any others may be lost at once.
Post(slot) ==
    /\ sent' = sent + 1
    /\ pending' \subseteq pending \cup {[id |-> sent + 1, slot |-> slot]}
    /\ UNCHANGED delivered

\* A batch is handed out, at most one envelope of each slot, and nothing
\* older than an envelope of the batch stays in that envelope's slot.
Take(batch) ==
    /\ batch \subseteq pending
    /\ \A e, f \in batch : e.slot = f.slot => e = f
    /\ pending' \subseteq pending \ batch
    /\ \A e \in batch, p \in pending' : p.slot = e.slot => e.id < p.id
    /\ delivered' = delivered \cup batch
    /\ UNCHANGED sent

Lose ==
    /\ pending' \subseteq pending
    /\ UNCHANGED <<sent, delivered>>

Next ==
    \/ \E slot \in Slots : Post(slot)
    \/ \E batch \in SUBSET pending : Take(batch)
    \/ Lose

Spec == Init /\ [][Next]_vars
=============================================================================
