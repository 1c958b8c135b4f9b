--------------------------- MODULE DeadDropProofs ---------------------------
(***************************************************************************)
(* The dead drop keeps its limits and implements the blind mailbox, for    *)
(* every number of slots and every value of the limits.                    *)
(***************************************************************************)
EXTENDS DeadDrop, FiniteSetTheorems, WellFoundedInduction, TLAPS

\* The inductive invariant: types, a finite store, and the two counted limits.
\* A deposit exceeds each limit by at most one, and the caps take one away.
IInv ==
    /\ TypeOK
    /\ IsFiniteSet(store)
    /\ SlotsBounded
    /\ TotalBounded
-----------------------------------------------------------------------------
\* A non-empty set of entries has one with the least id.
LEMMA FrontExists ==
    ASSUME NEW S, S # {}, \A e \in S : e.id \in Nat
    PROVE  \E e \in S : \A f \in S : e.id <= f.id
<1> DEFINE I == {e.id : e \in S}
<1>1. I \subseteq Nat /\ I # {}
  OBVIOUS
<1>2. PICK n \in I : \A k \in I : ~(<<k, n>> \in OpToRel(<, Nat))
  BY <1>1, NatLessThanWellFounded, WFMin
<1>3. ASSUME NEW k \in Nat, k < n
      PROVE  <<k, n>> \in OpToRel(<, Nat)
  <2>1. <<k, n>>[1] < <<k, n>>[2] /\ <<k, n>> \in Nat \X Nat
    BY <1>1, <1>3
  <2> QED
    BY <2>1, Zenon DEF OpToRel
<1>4. \A k \in I : ~(k < n)
  BY <1>1, <1>2, <1>3, Zenon
<1>5. \A k \in I : n <= k
  <2> HIDE DEF I
  <2> QED
    BY <1>1, <1>4
<1> QED
  BY <1>5

\* A part of a store within the limits is within the limits.
LEMMA PartsKeepLimits ==
    ASSUME NEW st, IsFiniteSet(st), NEW part, part \subseteq st,
           \A slot \in Slots : Cardinality(Queue(st, slot)) <= MaxPerSlot
    PROVE  /\ IsFiniteSet(part)
           /\ Cardinality(part) <= Cardinality(st)
           /\ \A slot \in Slots : Cardinality(Queue(part, slot)) <= MaxPerSlot
<1>1. IsFiniteSet(part) /\ Cardinality(part) <= Cardinality(st)
  BY FS_Subset
<1>2. ASSUME NEW slot \in Slots
      PROVE  Cardinality(Queue(part, slot)) <= MaxPerSlot
  <2>1. Queue(st, slot) \subseteq st /\ Queue(part, slot) \subseteq Queue(st, slot)
    BY DEF Queue
  <2>2. IsFiniteSet(Queue(st, slot))
    BY <2>1, FS_Subset
  <2>3. /\ IsFiniteSet(Queue(part, slot))
        /\ Cardinality(Queue(part, slot)) <= Cardinality(Queue(st, slot))
    BY <2>1, <2>2, FS_Subset
  <2>4. /\ Cardinality(Queue(part, slot)) \in Nat
        /\ Cardinality(Queue(st, slot)) \in Nat
    BY <2>2, <2>3, FS_CardinalityType
  <2> QED
    BY <2>3, <2>4, DeadDropAssumption
<1> QED
  BY <1>1, <1>2

\* CapSlot brings the queue of the slot just deposited in back to its limit
\* and touches no other.
LEMMA CapSlotLimits ==
    ASSUME NEW st, IsFiniteSet(st), \A e \in st : e.id \in Nat,
           NEW slot \in Slots,
           NEW x, Cardinality(Queue(st \ {x}, slot)) <= MaxPerSlot,
           \A s \in Slots \ {slot} : Cardinality(Queue(st, s)) <= MaxPerSlot,
           \A e, f \in st : e.id = f.id => e = f
    PROVE  /\ CapSlot(st, slot) \subseteq st
           /\ \A s \in Slots : Cardinality(Queue(CapSlot(st, slot), s)) <= MaxPerSlot
<1> DEFINE q == Queue(st, slot)
<1> DEFINE c == CapSlot(st, slot)
<1>0. c \subseteq st
  BY DEF CapSlot
<1>1. IsFiniteSet(q) /\ Cardinality(q) \in Nat
  <2>1. q \subseteq st
    BY DEF Queue
  <2> QED
    BY <2>1, FS_Subset, FS_CardinalityType
<1>2. Cardinality(q) <= MaxPerSlot + 1
  <2>1. Queue(st \ {x}, slot) = q \ {x}
    BY DEF Queue
  <2>2. /\ IsFiniteSet(q \ {x})
        /\ Cardinality(q \ {x}) = IF x \in q THEN Cardinality(q) - 1 ELSE Cardinality(q)
    BY <1>1, FS_RemoveElement
  <2>3. Cardinality(q) <= Cardinality(q \ {x}) + 1
    BY <1>1, <2>2
  <2>4. Cardinality(q \ {x}) <= MaxPerSlot
    BY <2>1
  <2> HIDE DEF q
  <2>5. Cardinality(q \ {x}) \in Nat
    BY <2>2, FS_CardinalityType
  <2> QED
    BY <1>1, <2>3, <2>4, <2>5, DeadDropAssumption
<1>3. ASSUME NEW s \in Slots, s # slot
      PROVE  Queue(c, s) = Queue(st, s)
  BY <1>3 DEF CapSlot, Queue
<1>4. Cardinality(Queue(c, slot)) <= MaxPerSlot
  <2>1. CASE ~(Cardinality(q) > MaxPerSlot)
    <3>1. c = st
      BY <2>1 DEF CapSlot
    <3> QED
      BY <2>1, <3>1, <1>1, DeadDropAssumption
  <2>2. CASE Cardinality(q) > MaxPerSlot
    <3>1. q # {}
      BY <2>2, FS_EmptySet, DeadDropAssumption
    <3>2. \A e \in q : e.id \in Nat
      BY DEF Queue
    <3>3. PICK e \in q : \A f \in q : e.id <= f.id
      BY <3>1, <3>2, FrontExists
    <3>4. IsFront(st, e) /\ e \in st /\ e.slot = slot
      BY <3>3 DEF IsFront, Queue
    <3>5. Queue(c, slot) \subseteq q \ {e}
      BY <2>2, <3>4 DEF CapSlot, Queue
    <3>6. IsFiniteSet(q \ {e}) /\ Cardinality(q \ {e}) = Cardinality(q) - 1
      BY <1>1, <3>3, FS_RemoveElement
    <3>7. /\ IsFiniteSet(Queue(c, slot))
          /\ Cardinality(Queue(c, slot)) <= Cardinality(q \ {e})
      BY <3>5, <3>6, FS_Subset
    <3>8. Cardinality(Queue(c, slot)) \in Nat
      BY <3>7, FS_CardinalityType
    <3> QED
      BY <3>6, <3>7, <3>8, <1>1, <1>2, DeadDropAssumption
  <2> QED
    BY <2>1, <2>2
<1> QED
  BY <1>0, <1>3, <1>4

\* Whatever CapTotal returns is a part of the store it is given, and is
\* within the total limit if that store exceeds it by at most one.
LEMMA CapTotalLimits ==
    ASSUME NEW st, IsFiniteSet(st), Cardinality(st) <= MaxTotal + 1,
           NEW t \in Nat, NEW r \in CapTotal(st, t)
    PROVE  r \subseteq st /\ Cardinality(r) <= MaxTotal
<1> DEFINE w == sweep(st, t)
<1>1. w \subseteq st
  BY DEF sweep
<1>2. IsFiniteSet(w) /\ Cardinality(w) <= Cardinality(st)
  BY <1>1, FS_Subset
<1>3. Cardinality(w) \in Nat /\ Cardinality(st) \in Nat
  BY <1>2, FS_CardinalityType
<1>4. CASE live_count(st) <= MaxTotal
  BY <1>4 DEF CapTotal, live_count
<1>5. CASE ~(live_count(st) <= MaxTotal) /\ live_count(w) <= MaxTotal
  BY <1>5, <1>1 DEF CapTotal, live_count
<1>6. CASE ~(live_count(st) <= MaxTotal) /\ ~(live_count(w) <= MaxTotal)
  <2>1. PICK e \in OldestFronts(w) : r = w \ {e}
    BY <1>6 DEF CapTotal
  <2>2. e \in w
    BY DEF OldestFronts
  <2>3. Cardinality(r) = Cardinality(w) - 1
    BY <2>1, <2>2, <1>2, FS_RemoveElement
  <2> QED
    BY <2>1, <2>3, <1>1, <1>2, <1>3, DeadDropAssumption
<1> QED
  BY <1>4, <1>5, <1>6
-----------------------------------------------------------------------------
\* Init establishes the invariant.
LEMMA InitIInv == Init => IInv
<1> SUFFICES ASSUME Init PROVE IInv
  OBVIOUS
<1>1. TypeOK /\ IsFiniteSet(store)
  BY FS_EmptySet DEF Init, TypeOK, Entries
<1>2. SlotsBounded
  <2>1. \A slot \in Slots : Queue(store, slot) = {}
    BY DEF Init, Queue
  <2> QED
    BY <2>1, FS_EmptySet, DeadDropAssumption DEF SlotsBounded
<1>3. TotalBounded
  BY FS_EmptySet, DeadDropAssumption DEF Init, TotalBounded, live_count
<1> QED
  BY <1>1, <1>2, <1>3 DEF IInv

\* A step that only takes entries away keeps the part of the invariant about
\* the store.
LEMMA ShrinkKeeps ==
    ASSUME IInv, store' \subseteq store
    PROVE  IsFiniteSet(store)' /\ SlotsBounded' /\ TotalBounded'
<1>1. /\ IsFiniteSet(store')
      /\ Cardinality(store') <= Cardinality(store)
      /\ \A slot \in Slots : Cardinality(Queue(store', slot)) <= MaxPerSlot
  BY PartsKeepLimits DEF IInv, SlotsBounded
<1>2. Cardinality(store) \in Nat /\ Cardinality(store') \in Nat
  BY <1>1, FS_CardinalityType DEF IInv
<1>3. Cardinality(store) <= MaxTotal
  BY DEF IInv, TotalBounded, live_count
<1>4. Cardinality(store') <= MaxTotal
  BY <1>1, <1>2, <1>3, DeadDropAssumption
<1> QED
  BY <1>1, <1>4 DEF SlotsBounded, TotalBounded, live_count, Queue

\* A deposit keeps the invariant: the new entry puts one slot and the total
\* at most one over their limits, and the two caps take one away.
LEMMA AcceptIInv ==
    ASSUME IInv, NEW slot \in Slots, NEW size \in Sizes, Accept(slot, size)
    PROVE  IInv'
<1> DEFINE e == [id |-> deposits + 1, slot |-> slot, size |-> size, expires |-> Expiry(now)]
<1> DEFINE st == store \cup {e}
<1> DEFINE c == CapSlot(st, slot)
<1>1. e \in Entries /\ e.id = deposits + 1 /\ e.slot = slot
  BY DeadDropAssumption DEF IInv, TypeOK, Entries, Expiry
<1>2. e \notin store
  BY <1>1 DEF IInv, TypeOK
<1>3. store' \in CapTotal(c, now) /\ deposits' = deposits + 1 /\ UNCHANGED <<claimed, now>>
  BY DEF Accept
<1> HIDE DEF e
<1>4. IsFiniteSet(st) /\ Cardinality(st) = Cardinality(store) + 1
  BY <1>2, FS_AddElement DEF IInv
<1>5. /\ \A f \in st : f.id \in Nat
      /\ \A f, g \in st : f.id = g.id => f = g
  BY <1>1 DEF IInv, TypeOK
<1>6. \A s \in Slots \ {slot} : Queue(st, s) = Queue(store, s)
  BY <1>1 DEF Queue
<1>7. st \ {e} = store
  BY <1>2
<1>8. /\ c \subseteq st
      /\ \A s \in Slots : Cardinality(Queue(c, s)) <= MaxPerSlot
  <2>1. Cardinality(Queue(st \ {e}, slot)) <= MaxPerSlot
    BY <1>7 DEF IInv, SlotsBounded
  <2>2. \A s \in Slots \ {slot} : Cardinality(Queue(st, s)) <= MaxPerSlot
    BY <1>6 DEF IInv, SlotsBounded
  <2> HIDE DEF st
  <2> QED
    BY <2>1, <2>2, <1>4, <1>5, CapSlotLimits
<1>9. IsFiniteSet(c) /\ Cardinality(c) <= MaxTotal + 1
  <2>1. IsFiniteSet(c) /\ Cardinality(c) <= Cardinality(st)
    BY <1>4, <1>8, FS_Subset
  <2>2. Cardinality(c) \in Nat /\ Cardinality(store) \in Nat
    BY <2>1, FS_CardinalityType DEF IInv
  <2>3. Cardinality(store) <= MaxTotal
    BY DEF IInv, TotalBounded, live_count
  <2> QED
    BY <2>1, <2>2, <2>3, <1>4, DeadDropAssumption
<1> HIDE DEF c
<1>10. store' \subseteq c /\ Cardinality(store') <= MaxTotal
  BY <1>3, <1>9, CapTotalLimits DEF IInv, TypeOK
<1>11. /\ IsFiniteSet(store')
       /\ \A s \in Slots : Cardinality(Queue(store', s)) <= MaxPerSlot
  BY <1>8, <1>9, <1>10, PartsKeepLimits
<1>12. TypeOK'
  <2>1. store' \subseteq st
    BY <1>8, <1>10
  <2> QED
    BY <2>1, <1>1, <1>3, <1>5 DEF IInv, TypeOK
<1> QED
  BY <1>10, <1>11, <1>12 DEF IInv, SlotsBounded, TotalBounded, live_count, Queue

\* Every step keeps the invariant.
LEMMA NextIInv == IInv /\ [Next]_vars => IInv'
<1> SUFFICES ASSUME IInv, [Next]_vars PROVE IInv'
  OBVIOUS
<1>1. CASE Deposit
  BY <1>1, AcceptIInv DEF Deposit
<1>2. CASE poll
  <2>1. PICK S \in SUBSET Slots :
          LET rest == {e \in store : e.slot \in S => e \notin Expired(store, now)}
          IN  /\ store' = rest \ ToHandOut(rest, S)
              /\ claimed' = claimed \cup {Label(e) : e \in ToHandOut(rest, S)}
              /\ UNCHANGED <<deposits, now>>
    BY <1>2 DEF poll
  <2>2. store' \subseteq store
    BY <2>1
  <2>3. claimed' \subseteq [id: Nat, slot: Slots]
    <3>1. \A e \in store : Label(e) \in [id: Nat, slot: Slots]
      BY DEF Label, IInv, TypeOK, Entries
    <3> QED
      BY <3>1, <2>1 DEF IInv, TypeOK, ToHandOut
  <2>4. TypeOK'
    BY <2>1, <2>2, <2>3 DEF IInv, TypeOK
  <2> QED
    BY <2>2, <2>4, ShrinkKeeps DEF IInv
<1>3. CASE sweep_expired
  <2>1. store' \subseteq store
    BY <1>3 DEF sweep_expired, sweep
  <2>2. TypeOK'
    BY <1>3, <2>1 DEF sweep_expired, IInv, TypeOK
  <2> QED
    BY <2>1, <2>2, ShrinkKeeps DEF IInv
<1>4. CASE Restart
  <2>1. store' \subseteq store
    BY <1>4 DEF Restart
  <2>2. TypeOK'
    BY <1>4, <2>1 DEF Restart, IInv, TypeOK
  <2> QED
    BY <2>1, <2>2, ShrinkKeeps DEF IInv
<1>5. CASE Tick \/ UNCHANGED vars
  <2>1. store' = store /\ deposits' = deposits /\ claimed' = claimed /\ now' \in Nat
    BY <1>5 DEF Tick, vars, IInv, TypeOK
  <2>2. TypeOK'
    BY <2>1 DEF IInv, TypeOK
  <2> QED
    BY <2>1, <2>2, ShrinkKeeps DEF IInv
<1> QED
  BY <1>1, <1>2, <1>3, <1>4, <1>5 DEF Next

\* The invariant holds in every state of every behaviour.
LEMMA Invariance == Spec => []IInv
  BY InitIInv, NextIInv, PTL DEF Spec

\* The store, its clock and its counter keep their types, ids are handed out in
\* order and lie below the counter (DeadDropStore).
THEOREM TypeCorrect == Spec => []TypeOK
<1>1. IInv => TypeOK
  BY DEF IInv
<1> QED
  BY <1>1, Invariance, PTL

\* The dead drop keeps both counted limits of phantom.rs whatever the number
\* of slots, the limits and the sequence of deposits, polls, sweeps and
\* restarts (DeadDropStore::deposit).
THEOREM LimitsKept == Spec => [](TypeOK /\ EnvelopesBounded)
<1>1. IInv => TypeOK /\ EnvelopesBounded
  BY DEF IInv, EnvelopesBounded
<1> QED
  BY <1>1, Invariance, PTL
-----------------------------------------------------------------------------
\* The bytes of a store, counted one entry after the other, the one that CHOOSE
\* finds first: what the fold of the model is defined by.
Some(s) == CHOOSE e \in s : TRUE

Sum(f, s) == IF s = {} THEN 0 ELSE Some(s).size + f[s \ {Some(s)}]

\* The functions that count the bytes of every part of S.
Counts(S, f) == f = [s \in SUBSET S |-> Sum(f, s)]

\* Induction on the natural numbers, for a set of them.
LEMMA Induct ==
    ASSUME NEW P \in SUBSET Nat, 0 \in P, \A n \in P : n + 1 \in P
    PROVE  P = Nat
<1>1. SUFFICES ASSUME Nat \ P # {} PROVE FALSE
  OBVIOUS
<1>2. PICK n \in Nat \ P : \A k \in Nat \ P : ~(<<k, n>> \in OpToRel(<, Nat))
  <2>. DEFINE Q == Nat \ P
  <2>1. Q \subseteq Nat /\ Q # {}
    BY <1>1
  <2>. HIDE DEF Q
  <2>2. \E n \in Q : \A k \in Q : ~(<<k, n>> \in OpToRel(<, Nat))
    BY <2>1, NatLessThanWellFounded, WFMin
  <2>. QED  BY <2>2 DEF Q
<1>3. n # 0 /\ n - 1 \in Nat /\ n = (n - 1) + 1
  <2>1. n \in Nat /\ n \notin P
    OBVIOUS
  <2>2. n # 0
    BY <2>1
  <2>. QED  BY <2>1, <2>2
<1>4. n - 1 \notin P
  BY <1>3
<1>5. <<n - 1, n>> \in OpToRel(<, Nat)
  <2>1. <<n - 1, n>>[1] < <<n - 1, n>>[2] /\ <<n - 1, n>> \in Nat \X Nat
    BY <1>3
  <2>. QED  BY <2>1, Zenon DEF OpToRel
<1>. QED  BY <1>2, <1>3, <1>4, <1>5

\* Without one of its entries a finite store is smaller by one.
LEMMA LessWithout ==
    ASSUME NEW S, IsFiniteSet(S), NEW s \in SUBSET S, s # {}
    PROVE  /\ Some(s) \in s /\ s \ {Some(s)} \in SUBSET S /\ IsFiniteSet(s)
           /\ Cardinality(s) \in Nat /\ Cardinality(s \ {Some(s)}) = Cardinality(s) - 1
<1>1. Some(s) \in s
  BY DEF Some
<1>2. IsFiniteSet(s) /\ Cardinality(s) \in Nat
  BY FS_Subset, FS_CardinalityType
<1>. QED  BY <1>1, <1>2, FS_RemoveElement

\* Every finite store has a function that counts it: built up by the number of
\* entries.
LEMMA CountExists ==
    ASSUME NEW S, IsFiniteSet(S)
    PROVE  \E f : Counts(S, f)
<1>. DEFINE Upto(n) == {s \in SUBSET S : Cardinality(s) <= n}
            P == {n \in Nat : \E f : \A s \in Upto(n) : f[s] = Sum(f, s)}
<1>1. 0 \in P
  <2>1. \A s \in Upto(0) : s = {}
    BY FS_Subset, FS_EmptySet, FS_CardinalityType
  <2>. DEFINE f == [s \in SUBSET S |-> 0]
  <2>2. \A s \in Upto(0) : f[s] = Sum(f, s)
    BY <2>1 DEF Sum
  <2>. QED  BY <2>2
<1>2. ASSUME NEW n \in P PROVE n + 1 \in P
  <2>1. PICK f : \A s \in Upto(n) : f[s] = Sum(f, s)
    BY <1>2
  <2>. DEFINE g == [s \in SUBSET S |-> Sum(f, s)]
  <2>2. ASSUME NEW s \in Upto(n + 1) PROVE g[s] = Sum(g, s)
    <3>1. CASE s = {}
      BY <3>1 DEF Sum
    <3>2. CASE s # {}
      <4>. DEFINE t == s \ {Some(s)}
      <4>1. t \in Upto(n)
        BY <1>2, <3>2, LessWithout
      <4>2. g[t] = f[t]
        BY <2>1, <4>1
      <4>. QED  BY <3>2, <4>2 DEF Sum
    <3>. QED  BY <3>1, <3>2
  <2>. HIDE DEF g
  <2>3. \E h : \A s \in Upto(n + 1) : h[s] = Sum(h, s)
    BY <2>2
  <2>. QED  BY <1>2, <2>3
<1>3. P = Nat
  <2>. HIDE DEF P
  <2>1. P \in SUBSET Nat
    BY DEF P
  <2>. QED  BY <1>1, <1>2, <2>1, Induct
<1>4. Cardinality(S) \in P
  BY <1>3, FS_CardinalityType
<1>5. PICK f : \A s \in SUBSET S : f[s] = Sum(f, s)
  <2>1. PICK f : \A s \in Upto(Cardinality(S)) : f[s] = Sum(f, s)
    BY <1>4
  <2>2. \A s \in SUBSET S : s \in Upto(Cardinality(S))
    BY FS_Subset
  <2>. QED  BY <2>1, <2>2
<1>. DEFINE g == [s \in SUBSET S |-> Sum(f, s)]
<1>6. \A s \in SUBSET S : g[s] = Sum(g, s)
  <2>1. \A s \in SUBSET S : g[s] = f[s]
    BY <1>5
  <2>. QED  BY <2>1 DEF Sum
<1>7. Counts(S, g)
  BY <1>6 DEF Counts
<1>. QED  BY <1>7

\* Two such functions agree where both are defined.
LEMMA CountsAgree ==
    ASSUME NEW S, NEW T, IsFiniteSet(S), IsFiniteSet(T), NEW f, NEW g, Counts(S, f), Counts(T, g)
    PROVE  \A s \in (SUBSET S) \cap (SUBSET T) : f[s] = g[s]
<1>. DEFINE P == {n \in Nat : \A s \in (SUBSET S) \cap (SUBSET T) : Cardinality(s) <= n => f[s] = g[s]}
<1>1. \A s \in (SUBSET S) \cap (SUBSET T) : f[s] = Sum(f, s) /\ g[s] = Sum(g, s)
  BY DEF Counts
<1>2. 0 \in P
  <2>1. ASSUME NEW s \in SUBSET S, Cardinality(s) <= 0 PROVE s = {}
    BY <2>1, FS_Subset, FS_EmptySet, FS_CardinalityType
  <2>. QED  BY <1>1, <2>1 DEF Sum
<1>3. ASSUME NEW n \in P PROVE n + 1 \in P
  <2>1. ASSUME NEW s \in (SUBSET S) \cap (SUBSET T), Cardinality(s) <= n + 1 PROVE f[s] = g[s]
    <3>1. CASE s = {}
      BY <1>1, <3>1 DEF Sum
    <3>2. CASE s # {}
      <4>1. Cardinality(s \ {Some(s)}) <= n /\ s \ {Some(s)} \in (SUBSET S) \cap (SUBSET T)
        <5>1. /\ s \ {Some(s)} \subseteq s /\ Cardinality(s) \in Nat
              /\ Cardinality(s \ {Some(s)}) = Cardinality(s) - 1
          BY <2>1, <3>2, LessWithout
        <5>2. n \in Nat
          OBVIOUS
        <5>. QED  BY <2>1, <5>1, <5>2
      <4>2. f[s \ {Some(s)}] = g[s \ {Some(s)}]
        BY <1>3, <4>1
      <4>. QED  BY <1>1, <3>2, <4>2 DEF Sum
    <3>. QED  BY <3>1, <3>2
  <2>. QED  BY <1>3, <2>1
<1>4. P = Nat
  <2>. HIDE DEF P
  <2>1. P \in SUBSET Nat
    BY DEF P
  <2>. QED  BY <1>2, <1>3, <2>1, Induct
<1>5. ASSUME NEW s \in (SUBSET S) \cap (SUBSET T) PROVE f[s] = g[s]
  <2>1. Cardinality(s) \in P
    BY <1>4, FS_Subset, FS_CardinalityType
  <2>2. Cardinality(s) <= Cardinality(s)
    BY <1>4, <2>1
  <2>. QED  BY <2>1, <2>2
<1>. QED  BY <1>5

\* The bytes are what such a function says: the fold is defined by one.
LEMMA BytesOf ==
    ASSUME NEW S, IsFiniteSet(S)
    PROVE  \E f : Counts(S, f) /\ live_bytes(S) = f[S]
<1>. DEFINE f == CHOOSE f : Counts(S, f)
<1>1. Counts(S, f)
  BY CountExists
<1>2. live_bytes(S) = f[S]
  BY DEF live_bytes, MapThenSumSet, MapThenFoldSet, Counts, Sum, Some
<1>. QED  BY <1>1, <1>2

\* The bytes of a store are those of the entry counted first and of the rest.
LEMMA BytesStep ==
    ASSUME NEW S, IsFiniteSet(S)
    PROVE  live_bytes(S) = IF S = {} THEN 0 ELSE Some(S).size + live_bytes(S \ {Some(S)})
<1>1. PICK f : Counts(S, f) /\ live_bytes(S) = f[S]
  BY BytesOf
<1>2. f[S] = Sum(f, S)
  BY <1>1 DEF Counts
<1>3. CASE S # {}
  <2>. DEFINE T == S \ {Some(S)}
  <2>1. IsFiniteSet(T)
    BY FS_Subset
  <2>2. PICK g : Counts(T, g) /\ live_bytes(T) = g[T]
    BY <2>1, BytesOf
  <2>3. f[T] = g[T]
    BY <1>1, <2>1, <2>2, CountsAgree
  <2>. QED  BY <1>1, <1>2, <1>3, <2>2, <2>3 DEF Sum
<1>. QED  BY <1>1, <1>2, <1>3 DEF Sum

\* A finite store whose entries have sizes.
Sized(S) == IsFiniteSet(S) /\ \A e \in S : e.size \in Nat

\* The bytes are a number, and any entry can be counted first.
LEMMA BytesAre ==
    \A S : Sized(S) =>
        /\ live_bytes(S) \in Nat
        /\ \A e \in S : live_bytes(S) = e.size + live_bytes(S \ {e})
<1>. DEFINE Good(S) == /\ live_bytes(S) \in Nat
                       /\ \A e \in S : live_bytes(S) = e.size + live_bytes(S \ {e})
            P == {n \in Nat : \A S : Sized(S) /\ Cardinality(S) <= n => Good(S)}
<1>1. 0 \in P
  <2>1. ASSUME NEW S, Sized(S), Cardinality(S) <= 0 PROVE Good(S)
    <3>1. S = {}
      BY <2>1, FS_EmptySet, FS_CardinalityType DEF Sized
    <3>. QED  BY <3>1, BytesStep, FS_EmptySet
  <2>. HIDE DEF Good
  <2>. QED  BY <2>1
<1>2. ASSUME NEW n \in P PROVE n + 1 \in P
  <2>1. ASSUME NEW S, Sized(S), Cardinality(S) <= n + 1, S # {} PROVE Good(S)
    <3>. DEFINE x == Some(S)
    <3>1. x \in S /\ IsFiniteSet(S) /\ Cardinality(S) \in Nat
      BY <2>1, FS_CardinalityType DEF Some, Sized
    <3>. HIDE DEF x
    <3>2. \A e \in S : Sized(S \ {e}) /\ Cardinality(S \ {e}) <= n
      <4>1. ASSUME NEW e \in S PROVE IsFiniteSet(S \ {e}) /\ Cardinality(S \ {e}) = Cardinality(S) - 1
        BY <3>1, FS_RemoveElement
      <4>2. n \in Nat
        OBVIOUS
      <4>. QED  BY <2>1, <3>1, <4>1, <4>2 DEF Sized
    <3>3. \A e \in S : Good(S \ {e})
      <4>. HIDE DEF Good
      <4>. QED  BY <1>2, <3>2
    <3>4. live_bytes(S) = x.size + live_bytes(S \ {x})
      BY <2>1, <3>1, BytesStep DEF x
    <3>5. live_bytes(S) \in Nat
      BY <2>1, <3>1, <3>3, <3>4 DEF Sized
    <3>6. ASSUME NEW e \in S, e # x PROVE live_bytes(S) = e.size + live_bytes(S \ {e})
      <4>1. live_bytes(S \ {x}) = e.size + live_bytes((S \ {x}) \ {e})
        BY <3>1, <3>3, <3>6
      <4>2. live_bytes(S \ {e}) = x.size + live_bytes((S \ {e}) \ {x})
        BY <3>1, <3>3, <3>6
      <4>3. (S \ {e}) \ {x} = (S \ {x}) \ {e}
        OBVIOUS
      <4>4. live_bytes(S \ {x}) \in Nat /\ live_bytes(S \ {e}) \in Nat /\ e.size \in Nat /\ x.size \in Nat
        BY <2>1, <3>1, <3>3 DEF Sized
      <4>5. live_bytes((S \ {x}) \ {e}) \in Nat
        <5>1. Sized((S \ {x}) \ {e}) /\ Cardinality((S \ {x}) \ {e}) <= n
          <6>1. IsFiniteSet(S \ {x}) /\ Cardinality(S \ {x}) <= n
            BY <3>1, <3>2 DEF Sized
          <6>2. (S \ {x}) \ {e} \subseteq S \ {x}
            OBVIOUS
          <6>3. /\ IsFiniteSet((S \ {x}) \ {e})
                /\ Cardinality((S \ {x}) \ {e}) <= Cardinality(S \ {x})
            BY <6>1, <6>2, FS_Subset
          <6>. QED  BY <1>2, <2>1, <6>1, <6>3, FS_CardinalityType DEF Sized
        <5>2. Good((S \ {x}) \ {e})
          <6>. HIDE DEF Good
          <6>. QED  BY <1>2, <5>1
        <5>. QED  BY <5>2
      <4>. QED  BY <3>4, <4>1, <4>2, <4>3, <4>4, <4>5
    <3>. QED  BY <3>4, <3>5, <3>6
  <2>2. ASSUME NEW S, Sized(S), S = {} PROVE Good(S)
    BY <2>2, BytesStep, FS_EmptySet
  <2>. HIDE DEF Good
  <2>. QED  BY <1>2, <2>1, <2>2
<1>3. P = Nat
  <2>. HIDE DEF P
  <2>1. P \in SUBSET Nat
    BY DEF P
  <2>. QED  BY <1>1, <1>2, <2>1, Induct
<1>. HIDE DEF Good
<1>4. ASSUME NEW S, Sized(S) PROVE Good(S)
  <2>1. Cardinality(S) \in P /\ Cardinality(S) <= Cardinality(S)
    BY <1>3, <1>4, FS_CardinalityType DEF Sized
  <2>. QED  BY <1>4, <2>1
<1>. QED  BY <1>4 DEF Good

\* One entry more adds its size.
LEMMA BytesGrow ==
    ASSUME NEW S, Sized(S), NEW e, e \notin S, e.size \in Nat
    PROVE  live_bytes(S \cup {e}) = live_bytes(S) + e.size /\ live_bytes(S) \in Nat
<1>1. Sized(S \cup {e})
  BY FS_AddElement DEF Sized
<1>2. (S \cup {e}) \ {e} = S
  OBVIOUS
<1>. QED  BY <1>1, <1>2, BytesAre

\* A part of a store has no more bytes.
LEMMA BytesShrink ==
    ASSUME NEW S, Sized(S), NEW T \in SUBSET S
    PROVE  live_bytes(T) <= live_bytes(S)
<1>. DEFINE P == {n \in Nat : \A U \in SUBSET (S \ T) :
                      Cardinality(U) <= n => live_bytes(T) <= live_bytes(T \cup U)}
<1>1. \A U \in SUBSET S : IsFiniteSet(U) /\ Cardinality(U) \in Nat /\ Sized(U) /\ live_bytes(U) \in Nat
  BY FS_Subset, FS_CardinalityType, BytesAre DEF Sized
<1>2. 0 \in P
  <2>1. ASSUME NEW U \in SUBSET (S \ T), Cardinality(U) <= 0 PROVE live_bytes(T) <= live_bytes(T \cup U)
    <3>1. U = {}
      BY <1>1, <2>1, FS_EmptySet
    <3>. QED  BY <1>1, <3>1
  <2>. QED  BY <2>1
<1>3. ASSUME NEW n \in P PROVE n + 1 \in P
  <2>1. ASSUME NEW U \in SUBSET (S \ T), Cardinality(U) <= n + 1, U # {}
        PROVE  live_bytes(T) <= live_bytes(T \cup U)
    <3>1. PICK e \in U : TRUE
      BY <2>1
    <3>2. Cardinality(U \ {e}) <= n /\ U \ {e} \in SUBSET (S \ T)
      BY <1>1, <1>3, <2>1, FS_RemoveElement
    <3>3. live_bytes(T) <= live_bytes(T \cup (U \ {e}))
      BY <1>3, <3>2
    <3>4. live_bytes(T \cup U) = live_bytes(T \cup (U \ {e})) + e.size
      <4>1. T \cup U = (T \cup (U \ {e})) \cup {e} /\ e \notin T \cup (U \ {e})
        OBVIOUS
      <4>2. Sized(T \cup (U \ {e})) /\ e.size \in Nat
        BY <1>1 DEF Sized
      <4>. QED  BY <4>1, <4>2, BytesGrow
    <3>5. live_bytes(T) \in Nat /\ live_bytes(T \cup (U \ {e})) \in Nat /\ e.size \in Nat
      BY <1>1 DEF Sized
    <3>. QED  BY <3>3, <3>4, <3>5
  <2>2. ASSUME NEW U \in SUBSET (S \ T), U = {} PROVE live_bytes(T) <= live_bytes(T \cup U)
    BY <1>1, <2>2
  <2>. QED  BY <1>3, <2>1, <2>2
<1>4. P = Nat
  <2>. HIDE DEF P
  <2>1. P \in SUBSET Nat
    BY DEF P
  <2>. QED  BY <1>2, <1>3, <2>1, Induct
<1>5. Cardinality(S \ T) \in P /\ Cardinality(S \ T) <= Cardinality(S \ T)
  BY <1>1, <1>4
<1>6. T \cup (S \ T) = S
  OBVIOUS
<1>. QED  BY <1>5, <1>6

\* No step takes the stored bytes over MAX_TOTAL_BYTES: a deposit was counted
\* before it was stored, and every other step only removes.
LEMMA BytesKept ==
    ASSUME IInv, BytesBounded, [Next]_vars
    PROVE  BytesBounded'
<1>1. Sized(store)
  BY DeadDropAssumption DEF IInv, TypeOK, Entries, Sized
<1>2. live_bytes(store) \in Nat /\ live_bytes(store) <= MaxBytes /\ MaxBytes \in Nat
  BY <1>1, BytesAre, DeadDropAssumption DEF BytesBounded
<1>3. ASSUME NEW st, Sized(st), live_bytes(st) <= MaxBytes, store' \subseteq st
      PROVE  BytesBounded'
  <2>1. live_bytes(store') <= live_bytes(st) /\ Sized(store')
    BY <1>3, BytesShrink, FS_Subset DEF Sized
  <2>2. live_bytes(store') \in Nat /\ live_bytes(st) \in Nat
    BY <1>3, <2>1, BytesAre
  <2>. QED  BY <1>2, <1>3, <2>1, <2>2 DEF BytesBounded
<1>4. CASE store' \subseteq store
  BY <1>1, <1>2, <1>3, <1>4
<1>5. CASE Deposit
  <2>1. PICK slot \in Slots, size \in Sizes : Accept(slot, size)
    BY <1>5 DEF Deposit
  <2>. DEFINE e == [id |-> deposits + 1, slot |-> slot, size |-> size, expires |-> Expiry(now)]
              st == store \cup {e}
  <2>2. store' \subseteq st
    <3>1. \A s : CapSlot(s, slot) \subseteq s
      BY DEF CapSlot
    <3>2. \A s : \A r \in CapTotal(s, now) : r \subseteq s
      BY DEF CapTotal, sweep
    <3>. QED  BY <2>1, <3>1, <3>2 DEF Accept
  <2>3. e \notin store /\ e.size = size /\ size \in Nat
    BY DeadDropAssumption DEF IInv, TypeOK
  <2>4. live_bytes(store) + size <= MaxBytes
    BY <2>1 DEF Accept, Affordable
  <2>. HIDE DEF e
  <2>5. live_bytes(st) <= MaxBytes
    BY <1>1, <2>3, <2>4, BytesGrow
  <2>6. Sized(st)
    BY <1>1, <2>3, FS_AddElement DEF Sized
  <2>. QED  BY <1>3, <2>2, <2>5, <2>6
<1>6. CASE ~Deposit
  <2>1. store' \subseteq store
    BY <1>6 DEF Next, vars, poll, sweep_expired, sweep, Restart, Tick
  <2>. QED  BY <1>4, <2>1
<1>. QED  BY <1>5, <1>6

\* The stored ciphertexts fit in MAX_TOTAL_BYTES, whatever their sizes and the
\* sequence of deposits, polls, sweeps and restarts (try_deposit).
THEOREM BytesFit == Spec => []BytesBounded
<1>1. Init => BytesBounded
  <2>. SUFFICES ASSUME Init PROVE BytesBounded
    OBVIOUS
  <2>1. live_bytes({}) = 0
    BY BytesStep, FS_EmptySet
  <2>. QED  BY <2>1, DeadDropAssumption DEF Init, BytesBounded
<1>2. IInv /\ BytesBounded /\ [Next]_vars => BytesBounded'
  BY BytesKept
<1>. QED  BY <1>1, <1>2, Invariance, PTL DEF Spec
-----------------------------------------------------------------------------
\* What a poll of the slots S leaves before it hands out the fronts.
Rest(S) == {e \in store : e.slot \in S => e \notin Expired(store, now)}

\* A front of what a poll leaves has not expired, and everything of its slot
\* that is older has.
LEMMA FrontsAreFresh ==
    ASSUME IInv, NEW S, NEW e \in ToHandOut(Rest(S), S)
    PROVE  /\ e \in store /\ e.expires > now
           /\ \A f \in store : f.slot = e.slot /\ f.id < e.id => f.expires <= now
<1>1. e \in store /\ e.slot \in S /\ e \notin Expired(store, now)
  BY DEF ToHandOut, Rest
<1>2. PICK f \in store : f.slot = e.slot /\ f.id <= e.id /\ ~(f.expires <= now)
  BY <1>1 DEF Expired
<1>3. \A g \in store : g.slot = e.slot /\ ~(g.expires <= now) => g \in Rest(S)
  BY DEF Rest, Expired, IInv, TypeOK, Entries
<1>4. \A g \in store : g.slot = e.slot /\ ~(g.expires <= now) => e.id <= g.id
  BY <1>3 DEF ToHandOut, IsFront
<1>5. f = e
  BY <1>1, <1>2, <1>4 DEF IInv, TypeOK, Entries
<1>6. \A g \in store : g.id \in Nat /\ g.expires \in Nat /\ now \in Nat
  BY DEF IInv, TypeOK, Entries
<1> QED
  BY <1>1, <1>2, <1>4, <1>5, <1>6

\* Different stored entries have different labels.
LEMMA LabelsDiffer ==
    ASSUME IInv, NEW e \in store, NEW f \in store, Label(e) = Label(f)
    PROVE  e = f
<1>1. e.id = f.id
  BY DEF Label
<1> QED
  BY <1>1 DEF IInv, TypeOK

\* claim never hands out an envelope at or after its expiry, nor one that is
\* behind an older unexpired envelope of its slot.
THEOREM ClaimsInOrder == Spec => ClaimsFreshInOrder
<1> DEFINE Fresh == \A e \in store : Label(e) \in claimed' \ claimed =>
                      /\ e.expires > now
                      /\ \A f \in store : f.slot = e.slot /\ f.id < e.id => f.expires <= now
<1>1. IInv /\ [Next]_vars => [Fresh]_vars
  <2> SUFFICES ASSUME IInv, Next PROVE Fresh
    OBVIOUS
  <2>1. CASE poll
    <3>1. PICK S \in SUBSET Slots :
            claimed' = claimed \cup {Label(e) : e \in ToHandOut(Rest(S), S)}
      BY <2>1 DEF poll, Rest
    <3>2. SUFFICES ASSUME NEW e \in store, Label(e) \in claimed' \ claimed
                   PROVE  e \in ToHandOut(Rest(S), S)
      BY FrontsAreFresh
    <3>3. PICK f \in ToHandOut(Rest(S), S) : Label(e) = Label(f)
      BY <3>1, <3>2
    <3>4. f \in store
      BY DEF ToHandOut, Rest
    <3> QED
      BY <3>3, <3>4, LabelsDiffer
  <2>2. CASE Deposit \/ sweep_expired \/ Restart \/ Tick
    <3>1. claimed' = claimed
      BY <2>2 DEF Deposit, Accept, sweep_expired, Restart, Tick
    <3> QED
      BY <3>1
  <2> QED
    BY <2>1, <2>2 DEF Next
<1> QED
  BY <1>1, Invariance, PTL DEF Spec, ClaimsFreshInOrder

\* The dead drop implements the blind mailbox: at most once, in order of
\* deposit within a slot, with losses (DeadDropStore, whole).
THEOREM Refinement == Spec => ImplementsMailbox
<1> DEFINE L(st) == {Label(e) : e \in st}
<1>1. Init => Mailbox!Init
  BY DEF Init, Mailbox!Init
<1>2. IInv /\ [Next]_vars => [Mailbox!Next]_(Mailbox!vars)
  <2> SUFFICES ASSUME IInv, [Next]_vars PROVE [Mailbox!Next]_(Mailbox!vars)
    OBVIOUS
  <2>1. ASSUME store' \subseteq store, UNCHANGED <<deposits, claimed>>
        PROVE  Mailbox!Lose
    BY <2>1 DEF Mailbox!Lose
  <2>2. CASE Deposit
    <3>1. PICK slot \in Slots, size \in Sizes : Accept(slot, size)
      BY <2>2 DEF Deposit
    <3> DEFINE new == [id |-> deposits + 1, slot |-> slot, size |-> size,
                       expires |-> Expiry(now)]
    <3>2. store' \subseteq store \cup {new}
      <4>1. \A st : CapSlot(st, slot) \subseteq st
        BY DEF CapSlot
      <4>2. \A st : \A r \in CapTotal(st, now) : r \subseteq st
        BY DEF CapTotal, sweep
      <4> QED
        BY <3>1, <4>1, <4>2 DEF Accept
    <3>3. Label(new) = [id |-> deposits + 1, slot |-> slot]
      BY DEF Label
    <3>4. L(store') \subseteq L(store) \cup {[id |-> deposits + 1, slot |-> slot]}
      BY <3>2, <3>3
    <3>5. Mailbox!Post(slot)
      BY <3>1, <3>4 DEF Accept, Mailbox!Post
    <3> QED
      BY <3>5 DEF Mailbox!Next
  <2>3. CASE poll
    <3>1. PICK S \in SUBSET Slots :
            /\ store' = Rest(S) \ ToHandOut(Rest(S), S)
            /\ claimed' = claimed \cup {Label(e) : e \in ToHandOut(Rest(S), S)}
            /\ UNCHANGED <<deposits, now>>
      BY <2>3 DEF poll, Rest
    <3> DEFINE out == ToHandOut(Rest(S), S)
    <3>2. out \subseteq store /\ store' \subseteq store /\ out \cap store' = {}
      BY <3>1 DEF ToHandOut, Rest
    <3>3. \A e \in store : Label(e).id = e.id /\ Label(e).slot = e.slot
      BY DEF Label
    <3>4. \A e \in out, f \in Rest(S) : f.slot = e.slot => e.id <= f.id
      BY DEF ToHandOut, IsFront
    <3>5. \A e \in out, f \in out : e.slot = f.slot => e = f
      <4>1. ASSUME NEW e \in out, NEW f \in out, e.slot = f.slot PROVE e = f
        <5>1. e.id <= f.id /\ f.id <= e.id
          BY <3>4, <4>1 DEF ToHandOut
        <5> QED
          BY <5>1, <3>2 DEF IInv, TypeOK, Entries
      <4> QED
        BY <4>1
    <3>6. \A e \in out, f \in store' : f.slot = e.slot => e.id < f.id
      <4>1. ASSUME NEW e \in out, NEW f \in store', f.slot = e.slot PROVE e.id < f.id
        <5>1. e.id <= f.id
          BY <3>1, <3>4, <4>1
        <5>2. e.id # f.id /\ e.id \in Nat /\ f.id \in Nat
          BY <3>2, <4>1 DEF IInv, TypeOK, Entries
        <5> QED
          BY <5>1, <5>2
      <4> QED
        BY <4>1
    <3>7. L(store') \subseteq L(store) \ L(out)
      BY <3>2, LabelsDiffer
    <3> HIDE DEF out
    <3>8. Mailbox!Take(L(out))
      <4>1. L(out) \subseteq L(store)
        BY <3>2
      <4>2. \A a, b \in L(out) : a.slot = b.slot => a = b
        BY <3>2, <3>3, <3>5
      <4>3. \A a \in L(out), b \in L(store') : b.slot = a.slot => a.id < b.id
        BY <3>2, <3>3, <3>6
      <4>4. claimed' = claimed \cup L(out) /\ deposits' = deposits
        BY <3>1 DEF out
      <4> QED
        BY <4>1, <4>2, <4>3, <4>4, <3>7 DEF Mailbox!Take
    <3>9. L(out) \in SUBSET L(store)
      BY <3>2
    <3> QED
      BY <3>8, <3>9 DEF Mailbox!Next
  <2>4. CASE sweep_expired
    <3>1. store' \subseteq store /\ UNCHANGED <<deposits, claimed>>
      BY <2>4 DEF sweep_expired, sweep
    <3> QED
      BY <3>1, <2>1 DEF Mailbox!Next
  <2>5. CASE Restart
    <3>1. store' \subseteq store /\ UNCHANGED <<deposits, claimed>>
      BY <2>5 DEF Restart
    <3> QED
      BY <3>1, <2>1 DEF Mailbox!Next
  <2>6. CASE Tick \/ UNCHANGED vars
    BY <2>6 DEF Tick, vars, Mailbox!vars
  <2> QED
    BY <2>2, <2>3, <2>4, <2>5, <2>6 DEF Next
<1> QED
  BY <1>1, <1>2, Invariance, PTL DEF Spec, ImplementsMailbox, Mailbox!Spec
=============================================================================
