------------------------------ MODULE DeadDrop ------------------------------
(***************************************************************************)
(* The RAM dead drop of rust/src/services/phantom.rs (DeadDropStore): a    *)
(* queue of envelopes per slot with a limit per slot, a limit on the total *)
(* number, a byte budget and a time to live.  Every operation runs under   *)
(* the store's mutex, so each is one step.                                 *)
(*                                                                         *)
(* The map from slots to queues is the set of the stored envelopes; "id"   *)
(* numbers them in the order of deposit, so a slot's queue is its          *)
(* envelopes in the order of their ids and its front the smallest id.      *)
(***************************************************************************)
EXTENDS Integers, FiniteSets, FiniteSetsExt

CONSTANTS
    Slots,          \* slot ids
    Sizes,          \* lengths of a ciphertext
    MaxPerSlot,     \* MAX_ENV_PER_SLOT
    MaxTotal,       \* MAX_TOTAL_ENVELOPES
    MaxBytes,       \* MAX_TOTAL_BYTES
    MaxWant,        \* MAX_WANT
    Ttl,            \* ENVELOPE_TTL_MS
    MaxDeposits,    \* bound: deposits of one behaviour
    MaxClock        \* bound: the last instant of a behaviour

ASSUME DeadDropAssumption ==
    /\ Sizes \subseteq Nat \ {0}
    /\ MaxPerSlot \in Nat \ {0} /\ MaxTotal \in Nat \ {0}
    /\ MaxBytes \in Nat /\ MaxWant \in Nat /\ Ttl \in Nat
    /\ MaxDeposits \in Nat /\ MaxClock \in Nat

VARIABLES
    store,      \* the stored envelopes
    deposits,   \* number of envelopes accepted
    claimed,    \* history: the envelopes handed out
    now         \* now_ms()

vars == <<store, deposits, claimed, now>>

Entries == [id: Nat, slot: Slots, size: Sizes, expires: Nat]

Label(e) == [id |-> e.id, slot |-> e.slot]
-----------------------------------------------------------------------------
live_count(st) == Cardinality(st)
live_bytes(st) == MapThenSumSet(LAMBDA e : e.size, st)

Queue(st, slot) == {e \in st : e.slot = slot}

IsFront(st, e) == \A f \in st : f.slot = e.slot => e.id <= f.id

\* Mutant: the sweep looks at every queue's second entry.
Expired_NeverFront(st, t) ==
    {e \in st : ~IsFront(st, e) /\ e.expires <= t}

\* The entries popped from the front of the queues while the front has expired.
Expired(st, t) ==
    {e \in st : \A f \in st : f.slot = e.slot /\ f.id <= e.id => f.expires <= t}

sweep(st, t) == st \ Expired(st, t)

\* A slot over its limit loses its front.  One deposit exceeds it by one, so
\* the loop in the code runs once.
CapSlot(st, slot) ==
    IF Cardinality(Queue(st, slot)) > MaxPerSlot
    THEN {e \in st : e.slot = slot => ~IsFront(st, e)} ELSE st

\* Fronts with the least expiry: which of them goes is up to the hash map.
OldestFronts(st) ==
    {e \in st : IsFront(st, e) /\ \A f \in st : IsFront(st, f) => e.expires <= f.expires}

\* Mutant: the total limit is only enforced by the sweep.
CapTotal_SweepOnly(st, t) ==
    IF live_count(st) > MaxTotal THEN {sweep(st, t)} ELSE {st}

\* The possible results of enforcing the limit on the total: first the sweep,
\* then the oldest front.  One deposit exceeds it by one.
CapTotal(st, t) ==
    IF live_count(st) <= MaxTotal THEN {st}
    ELSE IF live_count(sweep(st, t)) <= MaxTotal THEN {sweep(st, t)}
    ELSE {sweep(st, t) \ {e} : e \in OldestFronts(sweep(st, t))}

\* Mutant: the size of the new envelope is not counted.
Affordable_StoredOnly(st, size) == live_bytes(st) <= MaxBytes

Affordable(st, size) == live_bytes(st) + size <= MaxBytes
-----------------------------------------------------------------------------
\* Mutant: the life time is subtracted.
Expiry_Past(t) == t - Ttl

Expiry(t) == t + Ttl

\* try_deposit and deposit.
Accept(slot, size) ==
    /\ Affordable(store, size)
    /\ deposits' = deposits + 1
    /\ LET e == [id |-> deposits + 1, slot |-> slot, size |-> size, expires |-> Expiry(now)]
       IN  store' \in CapTotal(CapSlot(store \cup {e}, slot), now)
    /\ UNCHANGED <<claimed, now>>

Deposit ==
    /\ deposits < MaxDeposits
    /\ now + Ttl <= MaxClock
    /\ \E slot \in Slots, size \in Sizes : Accept(slot, size)

\* Mutant: claim hands out the newest envelope of the slot.
ToHandOut_Newest(st, S) ==
    {e \in st : e.slot \in S /\ \A f \in st : f.slot = e.slot => e.id >= f.id}

\* The envelopes a poll of the slots S hands out of what is not expired.
ToHandOut(st, S) == {e \in st : e.slot \in S /\ IsFront(st, e)}

\* poll: one claim per slot, all under one lock; a claim drops the expired
\* front of the queue first.  S are the first "want" slots of the request;
\* a slot named twice is two polls.
poll ==
    \E S \in SUBSET Slots :
        /\ S # {} /\ Cardinality(S) <= MaxWant
        /\ LET rest == {e \in store : e.slot \in S => e \notin Expired(store, now)}
           IN  /\ store' = rest \ ToHandOut(rest, S)
               /\ claimed' = claimed \cup {Label(e) : e \in ToHandOut(rest, S)}
        /\ UNCHANGED <<deposits, now>>

\* The background task's sweep.
sweep_expired ==
    /\ Expired(store, now) # {}
    /\ store' = sweep(store, now)
    /\ UNCHANGED <<deposits, claimed, now>>

\* A restart of the process empties the store.
Restart ==
    /\ store # {}
    /\ store' = {}
    /\ UNCHANGED <<deposits, claimed, now>>

Tick ==
    /\ now < MaxClock
    /\ now' = now + 1
    /\ UNCHANGED <<store, deposits, claimed>>

Init ==
    /\ store = {}
    /\ deposits = 0
    /\ claimed = {}
    /\ now = 0

Next == Deposit \/ poll \/ sweep_expired \/ Restart \/ Tick

\* The sweep runs on an interval for the life of the process, and time passes.
Fairness == WF_vars(sweep_expired) /\ WF_vars(Tick)

Spec == Init /\ [][Next]_vars /\ Fairness
-----------------------------------------------------------------------------
(***************************************************************************)
(* Properties.                                                             *)
(***************************************************************************)
\* Type invariant: entries are well formed and an id is stored once.
TypeOK ==
    /\ store \subseteq Entries
    /\ deposits \in Nat
    /\ \A e \in store : e.id \in 1..deposits
    /\ \A e, f \in store : e.id = f.id => e = f
    /\ claimed \subseteq [id: Nat, slot: Slots]
    /\ now \in Nat

\* No slot holds more than MAX_ENV_PER_SLOT envelopes, whatever deposits,
\* claims and sweeps came before (deposit pops the front of a full queue).
SlotsBounded == \A slot \in Slots : Cardinality(Queue(store, slot)) <= MaxPerSlot

\* The store as a whole holds at most MAX_TOTAL_ENVELOPES envelopes, although
\* the slots' own limits would allow more (the eviction at the end of deposit).
TotalBounded == live_count(store) <= MaxTotal

\* Both limits hold at once after every deposit, although each of them is
\* restored by an eviction of its own (deposit).
EnvelopesBounded == SlotsBounded /\ TotalBounded

\* The stored ciphertexts fit in MAX_TOTAL_BYTES (try_deposit refuses before
\* it evicts, so the bytes an eviction frees are never counted in advance).
BytesBounded == live_bytes(store) <= MaxBytes

\* No envelope is handed out at or after its expiry, and none is handed out
\* while an older one of its slot that has not expired is passed over (claim).
ClaimsFreshInOrder ==
    [][ \A e \in store : Label(e) \in claimed' \ claimed =>
          /\ e.expires > now
          /\ \A f \in store : f.slot = e.slot /\ f.id < e.id => f.expires <= now ]_vars

\* Every stored envelope leaves the store: handed out, evicted or swept.
EnvelopesExpire ==
    \A i \in 1..MaxDeposits : (\E e \in store : e.id = i) ~> (\A e \in store : e.id # i)

Mailbox == INSTANCE BlindMailbox WITH
    sent <- deposits, pending <- {Label(e) : e \in store}, delivered <- claimed

\* The dead drop implements the blind mailbox: at most once, in order per
\* slot, with losses.
ImplementsMailbox == Mailbox!Spec

=============================================================================
