--------------------------- MODULE AbuseGateProofs ---------------------------
(***************************************************************************)
(* The gates, for any number of requests, challenges and restarts.  A      *)
(* quota ticket is spent once per action, if life times leave a nullifier  *)
(* in the store for as long as its ticket is accepted; then no two CAPTCHA *)
(* tokens were paid for with the same ticket, KEM key or, before its last  *)
(* instant, puzzle, and a token opens one gate; and the first redemption   *)
(* of a challenge is refused only late, if its other parts outlive its     *)
(* ticket.                                                                 *)
(***************************************************************************)
EXTENDS AbuseGate, TLAPS

\* The end of the epochs in which the ticket of challenge c is accepted.
Closing(c) == (Epoch(issued[c].at) + Back + 1) * Window

\* The nullifier is in the store and will stay there until no request that
\* could present it again is left, or that time has come.
Remembered(key) ==
    issued[key[1]].boot = boot =>
        \/ nullifiers[key] >= Closing(key[1]) + LockWait
        \/ now >= Closing(key[1]) + LockWait

IssuedOK ==
    /\ issued \in [Challenges -> Challenge \cup {None}]
    /\ \A c \in Challenges : issued[c] # None => issued[c].at <= now /\ issued[c].boot <= boot

GateNames == {"challenge", "nullifier", "vdf", "pqc", "mint", "token", "serve", "store"}

\* A plan asks for a nullifier first, or right after the challenge's own check,
\* which is only ever first; a request that does has a quota token.
PlanOK(plan) ==
    /\ \A i \in 3..Len(plan) : plan[i] # "nullifier"
    /\ \A i \in 2..Len(plan) : plan[i] # "challenge"
    /\ Len(plan) >= 2 /\ plan[2] = "nullifier" => plan[1] = "challenge"

HasTicket(r) ==
    req[r].c \in Challenges /\ issued[req[r].c] # None /\ NullifierOf(r) \in Keys

TodoOK ==
    /\ DOMAIN req = Requests
    /\ todo \in [Requests -> Seq(GateNames)]
    /\ \A r \in Requests :
          /\ PlanOK(todo[r])
          /\ At(r, "challenge") \/ At(r, "nullifier") => HasTicket(r)

PastOK ==
    \A x \in passed : x[1] = "nullifier" =>
        x[2] \in Keys /\ issued[x[2][1]] # None /\ Remembered(x[2])

\* The inductive invariant.
GInv ==
    /\ now \in Nat /\ now <= MaxClock /\ boot \in Nat
    /\ nullifiers \in [Keys -> Nat]
    /\ IssuedOK /\ TodoOK /\ PastOK
    /\ NullifierOnce
-----------------------------------------------------------------------------
\* Multiplying by the window keeps the order.
LEMMA TimesMonotone ==
    ASSUME NEW a \in Nat, NEW b \in Nat, NEW w \in Nat, a <= b
    PROVE  a * w <= b * w
  OBVIOUS

\* An instant lies within its epoch.
LEMMA EpochBounds ==
    ASSUME NEW t \in Nat
    PROVE  /\ Epoch(t) \in Nat
           /\ Epoch(t) * Window <= t
           /\ t < (Epoch(t) + 1) * Window
  BY GateAssumption DEF Epoch

\* A stamp at which the ticket of c is accepted lies before its closing time,
\* and a nullifier spent at such a stamp outlives that time.
LEMMA AcceptedBeforeClosing ==
    ASSUME NEW c, issued[c].at \in Nat, NEW t \in Nat, issued[c].at <= t, Acceptable(c, t)
    PROVE  /\ Closing(c) \in Nat
           /\ t < Closing(c)
           /\ t + NullifierTtl >= Closing(c) + LockWait
<1> DEFINE e == Epoch(issued[c].at)
<1>1. e \in Nat /\ e * Window <= issued[c].at
  BY EpochBounds
<1>2. Epoch(t) \in Nat /\ t < (Epoch(t) + 1) * Window /\ Epoch(t) <= e + Back
  BY EpochBounds DEF Acceptable
<1> HIDE DEF e
<1>3. (Epoch(t) + 1) * Window <= (e + Back + 1) * Window
  BY <1>1, <1>2, TimesMonotone, GateAssumption
<1>4. (e + Back + 1) * Window = e * Window + (Back + 1) * Window
  BY <1>1, GateAssumption
<1>5. e * Window \in Nat /\ (Back + 1) * Window \in Nat /\ (Epoch(t) + 1) * Window \in Nat
  BY <1>1, <1>2, GateAssumption
<1>6. Closing(c) = (e + Back + 1) * Window
  BY DEF Closing, e
<1>7. (e + Back + 1) * Window \in Nat
  BY <1>4, <1>5
<1>8. t < (e + Back + 1) * Window
  BY <1>2, <1>3, <1>5, <1>7
<1>9. t + NullifierTtl >= (e + Back + 1) * Window + LockWait
  BY <1>1, <1>4, <1>5, GateAssumption
<1> QED
  BY <1>6, <1>7, <1>8, <1>9

\* A stamp is an instant, at most LockWait before now.
LEMMA StampBounds ==
    ASSUME now \in Nat, NEW made \in Nat, NEW t \in Stamps(made)
    PROVE  t \in Nat /\ made <= t /\ t <= now /\ now <= t + LockWait
  BY DEF Stamps

\* Pruning keeps the type of a store and what has not expired.
LEMMA RetainKeeps ==
    ASSUME nullifiers \in [Keys -> Nat], NEW t \in Nat
    PROVE  /\ Retain(nullifiers, t) \in [Keys -> Nat]
           /\ \A k \in Keys : nullifiers[k] > t => Retain(nullifiers, t)[k] = nullifiers[k]
  BY DEF Retain
-----------------------------------------------------------------------------
\* A plan without its first gate is a plan.
LEMMA TailPlan ==
    ASSUME NEW s \in Seq(GateNames), s # <<>>, PlanOK(s)
    PROVE  /\ Tail(s) \in Seq(GateNames) /\ PlanOK(Tail(s))
           /\ Tail(s) # <<>> => Head(Tail(s)) # "challenge"
           /\ Tail(s) # <<>> /\ Head(Tail(s)) = "nullifier" => Head(s) = "challenge"
<1>1. Tail(s) \in Seq(GateNames) /\ Len(Tail(s)) = Len(s) - 1 /\ Len(s) \in Nat \ {0}
  OBVIOUS
<1>2. \A i \in 1..Len(Tail(s)) : Tail(s)[i] = s[i + 1]
  BY <1>1
<1>3. Tail(s) # <<>> => Len(Tail(s)) >= 1 /\ Head(Tail(s)) = Tail(s)[1]
  BY <1>1
<1>4. Head(s) = s[1]
  OBVIOUS
<1>5. PlanOK(Tail(s))
  BY <1>1, <1>2 DEF PlanOK
<1> QED
  BY <1>1, <1>2, <1>3, <1>4, <1>5 DEF PlanOK

\* A step that shortens the plan of one request, or ends it, leaves plans and
\* tickets in order.
LEMMA PlansKept ==
    ASSUME GInv, NEW r \in Requests, UNCHANGED <<issued, req>>, NEW rest,
           todo' = [todo EXCEPT ![r] = rest],
           (todo[r] # <<>> /\ rest = Tail(todo[r])) \/ rest = <<>>
    PROVE  TodoOK'
<1>1. todo[r] \in Seq(GateNames) /\ PlanOK(todo[r])
  BY DEF GInv, TodoOK
<1>2. /\ rest \in Seq(GateNames) /\ PlanOK(rest)
      /\ rest # <<>> => Head(rest) # "challenge"
      /\ rest # <<>> /\ Head(rest) = "nullifier" => At(r, "challenge")
  <2>1. CASE rest = <<>>
    BY <2>1 DEF PlanOK
  <2>2. CASE todo[r] # <<>> /\ rest = Tail(todo[r])
    BY <2>2, <1>1, TailPlan DEF At
  <2> QED
    BY <2>1, <2>2
<1>3. \A q \in Requests : HasTicket(q)' <=> HasTicket(q)
  BY DEF HasTicket, NullifierOf, Keys, Days, Actions
<1>4. todo' \in [Requests -> Seq(GateNames)] /\ DOMAIN req' = Requests
  BY <1>2 DEF GInv, TodoOK
<1>5. ASSUME NEW q \in Requests
      PROVE  /\ PlanOK(todo'[q])
             /\ At(q, "challenge")' \/ At(q, "nullifier")' => HasTicket(q)
  <2>1. CASE q = r
    <3>1. todo'[q] = rest
      BY <2>1 DEF GInv, TodoOK
    <3>2. At(q, "challenge")' \/ At(q, "nullifier")' => At(r, "challenge")
      BY <3>1, <1>2 DEF At
    <3> QED
      BY <2>1, <3>1, <3>2, <1>2 DEF GInv, TodoOK
  <2>2. CASE q # r
    <3>1. todo'[q] = todo[q]
      BY <2>2 DEF GInv, TodoOK
    <3> QED
      BY <3>1 DEF GInv, TodoOK, At
  <2> QED
    BY <2>1, <2>2
<1> QED
  BY <1>3, <1>4, <1>5 DEF TodoOK, PlanOK

\* The same for the three ways a gate can end.
LEMMA GateOutcomes ==
    ASSUME GInv, NEW r \in Requests, NEW gate, NEW item, At(r, gate), issued' = issued,
           Proceed(r, gate, item) \/ Finish(r, gate, item) \/ Refuse(r)
    PROVE  TodoOK' /\ passed' \subseteq passed \cup {<<gate, item, r>>}
<1>1. CASE Proceed(r, gate, item)
  BY <1>1, PlansKept DEF Proceed, At
<1>2. CASE Finish(r, gate, item)
  BY <1>2, PlansKept DEF Finish
<1>3. CASE Refuse(r)
  BY <1>3, PlansKept DEF Refuse
<1> QED
  BY <1>1, <1>2, <1>3

\* A step that leaves the tickets and their nullifiers alone and adds no
\* nullifier to the history keeps the rest of the invariant.
LEMMA OtherGatesKeep ==
    ASSUME GInv, UNCHANGED <<now, boot, issued, nullifiers>>,
           NEW gate, NEW item, NEW r, gate # "nullifier",
           passed' \subseteq passed \cup {<<gate, item, r>>},
           TodoOK'
    PROVE  GInv'
<1>1. \A x \in passed' : x[1] = "nullifier" => x \in passed
  OBVIOUS
<1>2. \A key : Remembered(key)' <=> Remembered(key)
  BY DEF Remembered, Closing, Epoch
<1>3. PastOK' /\ NullifierOnce'
  BY <1>1, <1>2 DEF GInv, PastOK, NullifierOnce, Once
<1>4. IssuedOK'
  BY DEF GInv, IssuedOK
<1> QED
  BY <1>3, <1>4 DEF GInv
-----------------------------------------------------------------------------
\* The closing time of an issued challenge is a number.
LEMMA ClosingNat ==
    ASSUME IssuedOK, NEW c \in Challenges, issued[c] # None
    PROVE  /\ Closing(c) \in Nat
           /\ issued[c].at \in Nat /\ issued[c].boot \in Nat /\ issued[c].at <= now
<1>1. /\ issued[c].at \in Nat /\ issued[c].boot \in Nat /\ issued[c].at <= now
  BY DEF IssuedOK, Challenge
<1>2. Epoch(issued[c].at) \in Nat
  BY <1>1, EpochBounds
<1> QED
  BY <1>1, <1>2, GateAssumption DEF Closing

\* Pruning drops a nullifier only when its time has come.
LEMMA PruningRemembers ==
    ASSUME GInv, NEW t \in Nat, t <= now, UNCHANGED <<now, boot, issued>>,
           NEW key \in Keys, issued[key[1]] # None, Remembered(key),
           nullifiers'[key] = Retain(nullifiers, t)[key]
    PROVE  Remembered(key)'
<1>1. key[1] \in Challenges
  BY DEF Keys
<1>2. Closing(key[1]) \in Nat /\ Closing(key[1])' = Closing(key[1])
  BY <1>1, ClosingNat DEF GInv, Closing, Epoch
<1>3. nullifiers[key] \in Nat /\ now \in Nat
  BY DEF GInv
<1>4. nullifiers[key] > t => nullifiers'[key] = nullifiers[key]
  <2>1. nullifiers \in [Keys -> Nat]
    BY DEF GInv
  <2> QED
    BY <2>1, RetainKeeps
<1>5. CASE nullifiers[key] > t
  BY <1>5, <1>2, <1>4 DEF Remembered
<1>6. CASE ~(nullifiers[key] > t)
  <2>1. nullifiers[key] <= now
    BY <1>6, <1>3
  <2> QED
    BY <2>1, <1>2, <1>3, GateAssumption DEF Remembered
<1> QED
  BY <1>5, <1>6

\* A ticket that is accepted and whose nullifier is not in the store has not
\* been spent on this action.
LEMMA UnspentIfAccepted ==
    ASSUME GInv, NEW c \in Challenges, issued[c] # None, NEW t \in Stamps(issued[c].at),
           Acceptable(c, t), Signed(issued[c]),
           NEW key \in Keys, key[1] = c, ~(Retain(nullifiers, t)[key] > t)
    PROVE  \A x \in passed : x[1] = "nullifier" => x[2] # key
<1> SUFFICES ASSUME NEW x \in passed, x[1] = "nullifier", x[2] = key PROVE FALSE
  OBVIOUS
<1>1. Closing(c) \in Nat /\ issued[c].at \in Nat /\ now \in Nat
  BY ClosingNat DEF GInv
<1>2. t \in Nat /\ issued[c].at <= t /\ t <= now /\ now <= t + LockWait
  BY <1>1, StampBounds
<1>3. t < Closing(c)
  BY <1>1, <1>2, AcceptedBeforeClosing
<1>4. Remembered(key)
  BY DEF GInv, PastOK
<1>5. nullifiers[key] >= Closing(c) + LockWait
  BY <1>1, <1>2, <1>3, <1>4, GateAssumption DEF Remembered, Signed
<1>6. nullifiers[key] \in Nat
  BY DEF GInv
<1>7. nullifiers[key] > t
  BY <1>1, <1>2, <1>3, <1>5, <1>6, GateAssumption
<1>8. Retain(nullifiers, t)[key] = nullifiers[key]
  BY <1>2, <1>7, RetainKeeps DEF GInv
<1> QED
  BY <1>7, <1>8

\* The nullifier gate keeps the invariant.
LEMMA NullifierStep ==
    ASSUME GInv, NEW r \in Requests, verify_and_consume_nullifier(r)
    PROVE  GInv'
<1>0. /\ At(r, "nullifier") /\ UNCHANGED <<now, boot, issued>>
      /\ req[r].c \in Challenges /\ issued[req[r].c] # None
      /\ NullifierOf(r) \in Keys /\ NullifierOf(r)[1] = req[r].c
  BY DEF verify_and_consume_nullifier, GInv, TodoOK, HasTicket, NullifierOf
<1>c. PICK c \in Challenges : c = req[r].c
  BY <1>0
<1>k. PICK key \in Keys : key = NullifierOf(r)
  BY <1>0
<1>1. /\ At(r, "nullifier") /\ UNCHANGED <<now, boot, issued>>
      /\ issued[c] # None /\ key[1] = c
  BY <1>0, <1>c, <1>k
<1>2. PICK t \in Stamps(issued[c].at) :
        \/ /\ Acceptable(c, t) /\ Signed(issued[c])
           /\ ~(Retain(nullifiers, t)[key] > t)
           /\ nullifiers' = [Retain(nullifiers, t) EXCEPT ![key] = t + NullifierTtl]
           /\ Proceed(r, "nullifier", key)
        \/ nullifiers' = Retain(nullifiers, t) /\ Refuse(r)
        \/ UNCHANGED nullifiers /\ Refuse(r)
  BY <1>c, <1>k DEF verify_and_consume_nullifier
<1>3. /\ Closing(c) \in Nat /\ issued[c].at \in Nat /\ now \in Nat
      /\ t \in Nat /\ issued[c].at <= t /\ t <= now /\ now <= t + LockWait
  BY <1>1, ClosingNat, StampBounds DEF GInv
<1>4. Retain(nullifiers, t) \in [Keys -> Nat]
  BY <1>3, RetainKeeps DEF GInv
<1>5. TodoOK'
  BY <1>1, <1>2, GateOutcomes
<1>6. IssuedOK'
  BY <1>1 DEF GInv, IssuedOK
<1>7. CASE nullifiers' = Retain(nullifiers, t) /\ Refuse(r)
  <2>1. passed' = passed
    BY <1>7 DEF Refuse
  <2>2. ASSUME NEW x \in passed, x[1] = "nullifier" PROVE Remembered(x[2])'
    <3>1. x[2] \in Keys /\ issued[x[2][1]] # None /\ Remembered(x[2])
      BY <2>2 DEF GInv, PastOK
    <3> QED
      BY <3>1, <1>1, <1>3, <1>7, PruningRemembers
  <2>3. PastOK'
    <3>1. \A x \in passed : x[1] = "nullifier" => x[2] \in Keys' /\ issued'[x[2][1]] # None
      BY <1>1 DEF GInv, PastOK, Keys, Days, Actions
    <3> QED
      BY <2>1, <2>2, <3>1 DEF PastOK
  <2> QED
    BY <2>1, <2>3, <1>1, <1>4, <1>5, <1>6, <1>7
       DEF GInv, NullifierOnce, Once, Keys, Days, Actions
<1>8. CASE UNCHANGED nullifiers /\ Refuse(r)
  <2>1. passed' = passed
    BY <1>8 DEF Refuse
  <2>2. passed' \subseteq passed \cup {<<"none", 0, r>>} /\ "none" # "nullifier"
    BY <2>1
  <2> QED
    BY <2>2, <1>1, <1>5, <1>8, OtherGatesKeep
<1>9. CASE /\ Acceptable(c, t) /\ Signed(issued[c])
           /\ ~(Retain(nullifiers, t)[key] > t)
           /\ nullifiers' = [Retain(nullifiers, t) EXCEPT ![key] = t + NullifierTtl]
           /\ Proceed(r, "nullifier", key)
  <2>1. \A x \in passed : x[1] = "nullifier" => x[2] # key
    BY <1>1, <1>9, UnspentIfAccepted
  <2>2. passed' = passed \cup {<<"nullifier", key, r>>}
    BY <1>9 DEF Proceed
  <2>3. NullifierOnce'
    BY <2>1, <2>2 DEF GInv, NullifierOnce, Once
  <2>4. nullifiers' \in [Keys -> Nat] /\ nullifiers'[key] = t + NullifierTtl
    BY <1>1, <1>3, <1>4, <1>9, GateAssumption
  <2>5. Remembered(key)'
    <3>1. t + NullifierTtl >= Closing(c) + LockWait
      BY <1>3, <1>9, AcceptedBeforeClosing
    <3>2. Closing(c)' = Closing(c)
      BY <1>1 DEF Closing, Epoch
    <3> QED
      BY <3>1, <3>2, <2>4, <1>1 DEF Remembered
  <2>6. ASSUME NEW x \in passed, x[1] = "nullifier" PROVE Remembered(x[2])'
    <3>1. x[2] \in Keys /\ issued[x[2][1]] # None /\ Remembered(x[2]) /\ x[2] # key
      BY <2>1, <2>6 DEF GInv, PastOK
    <3>2. nullifiers'[x[2]] = Retain(nullifiers, t)[x[2]]
      BY <3>1, <1>4, <1>9
    <3> QED
      BY <3>1, <3>2, <1>1, <1>3, PruningRemembers
  <2>7. PastOK'
    <3>1. \A x \in passed : x[1] = "nullifier" => x[2] \in Keys' /\ issued'[x[2][1]] # None
      BY <1>1 DEF GInv, PastOK, Keys, Days, Actions
    <3>2. key \in Keys' /\ issued'[key[1]] # None
      BY <1>1 DEF Keys, Days, Actions
    <3> QED
      BY <2>2, <2>5, <2>6, <3>1, <3>2 DEF PastOK
  <2> QED
    BY <2>3, <2>4, <2>7, <1>1, <1>5, <1>6 DEF GInv, Keys, Days, Actions
<1> QED
  BY <1>2, <1>7, <1>8, <1>9

\* Issuing a challenge keeps the invariant: what was spent is of others.
LEMMA ChallengeStep ==
    ASSUME GInv, NEW c \in Challenges, generate_challenge(c)
    PROVE  GInv'
<1>0. PICK scope \in Scopes, user \in Users :
        issued' = [issued EXCEPT ![c] = [scope |-> scope, user |-> user, at |-> now, boot |-> boot]]
  BY DEF generate_challenge
<1> DEFINE new == [scope |-> scope, user |-> user, at |-> now, boot |-> boot]
<1>1. /\ issued' = [issued EXCEPT ![c] = new]
      /\ new \in Challenge /\ new.at = now /\ new.boot = boot
  BY <1>0 DEF Challenge, GInv
<1> HIDE DEF new
<1>2. /\ issued[c] = None
      /\ UNCHANGED <<now, boot, nullifiers, req, todo, passed>>
  BY DEF generate_challenge, requests
<1>4. IssuedOK'
  BY <1>1, <1>2 DEF GInv, IssuedOK
<1>5. \A d \in Challenges : issued[d] # None => issued'[d] = issued[d]
  BY <1>1, <1>2 DEF GInv, IssuedOK
<1>6. TodoOK'
  <2>1. \A r \in Requests : HasTicket(r) => HasTicket(r)'
    BY <1>2, <1>5 DEF HasTicket, NullifierOf, Keys, Days, Actions
  <2>2. \A r \in Requests : \A g : At(r, g)' <=> At(r, g)
    BY <1>2 DEF At
  <2> QED
    BY <1>2, <2>1, <2>2 DEF GInv, TodoOK, PlanOK
<1>7. PastOK'
  <2> SUFFICES ASSUME NEW x \in passed, x[1] = "nullifier"
               PROVE  x[2] \in Keys' /\ issued'[x[2][1]] # None /\ Remembered(x[2])'
    BY <1>2 DEF PastOK
  <2>1. x[2] \in Keys /\ issued[x[2][1]] # None /\ Remembered(x[2]) /\ x[2][1] \in Challenges
    BY DEF GInv, PastOK, Keys
  <2>2. issued'[x[2][1]] = issued[x[2][1]]
    BY <2>1, <1>5
  <2> QED
    BY <2>1, <2>2, <1>2 DEF Remembered, Closing, Epoch, Keys, Days, Actions
<1> QED
  BY <1>2, <1>4, <1>6, <1>7 DEF GInv, NullifierOnce, Once, Keys, Days, Actions

\* An arriving request gets a proper plan, and a ticket if the plan asks for it.
LEMMA BeginStep ==
    ASSUME GInv, NEW r \in Requests, NEW what, NEW plan, Begin(r, what, plan),
           plan \in Seq(GateNames), plan # <<>>, PlanOK(plan),
           Head(plan) \in {"challenge", "nullifier"} =>
              /\ what.c \in Challenges /\ Made(what.c)
              /\ <<what.c, what.action, what.day>> \in Keys
    PROVE  GInv'
<1>1. UNCHANGED <<now, boot, issued, nullifiers, passed>>
  BY DEF Begin, stores
<1>3. /\ DOMAIN req' = Requests /\ req'[r] = what
      /\ \A s \in Requests \ {r} : req'[s] = req[s]
  BY DEF Begin, GInv, TodoOK
<1>5. /\ todo' \in [Requests -> Seq(GateNames)] /\ todo'[r] = plan
      /\ \A s \in Requests \ {r} : todo'[s] = todo[s]
  BY DEF Begin, GInv, TodoOK
<1>6. Head(plan) \in {"challenge", "nullifier"} => HasTicket(r)'
  BY <1>1, <1>3 DEF HasTicket, NullifierOf, Made, Keys, Days, Actions
<1>7. \A s \in Requests \ {r} : HasTicket(s)' <=> HasTicket(s)
  BY <1>1, <1>3 DEF HasTicket, NullifierOf, Keys, Days, Actions
<1>8. TodoOK'
  <2>1. ASSUME NEW s \in Requests
        PROVE  /\ PlanOK(todo'[s])
               /\ At(s, "challenge")' \/ At(s, "nullifier")' => HasTicket(s)'
    <3>1. CASE s = r
      BY <3>1, <1>5, <1>6 DEF At
    <3>2. CASE s # r
      BY <3>2, <1>5, <1>7 DEF At, GInv, TodoOK
    <3> QED
      BY <3>1, <3>2
  <2> QED
    BY <2>1, <1>3, <1>5 DEF TodoOK, PlanOK
<1>9. passed' \subseteq passed \cup {<<"none", 0, r>>} /\ "none" # "nullifier"
  BY <1>1
<1> QED
  BY <1>1, <1>8, <1>9, OtherGatesKeep

\* The plans of the five kinds of request are plans.
LEMMA PlansAreOK ==
    \A plan \in {<<"challenge", "nullifier", "vdf", "pqc", "mint">>,
                 <<"nullifier", "vdf", "pqc", "serve">>, <<"nullifier", "vdf", "serve">>,
                 <<"token", "serve">>, <<"nullifier", "token", "store">>} :
        plan \in Seq(GateNames) /\ plan # <<>> /\ PlanOK(plan)
<1> DEFINE Good(plan) == plan \in Seq(GateNames) /\ plan # <<>> /\ PlanOK(plan)
<1>1. Good(<<"challenge", "nullifier", "vdf", "pqc", "mint">>)
  BY DEF PlanOK, GateNames
<1>2. Good(<<"nullifier", "vdf", "pqc", "serve">>)
  BY DEF PlanOK, GateNames
<1>3. Good(<<"nullifier", "vdf", "serve">>)
  BY DEF PlanOK, GateNames
<1>4. Good(<<"token", "serve">>)
  BY DEF PlanOK, GateNames
<1>5. Good(<<"nullifier", "token", "store">>)
  BY DEF PlanOK, GateNames
<1> QED
  BY <1>1, <1>2, <1>3, <1>4, <1>5, Zenon

\* Each arrival brings a ticket if its plan asks for one.
LEMMA ArrivalStep ==
    ASSUME GInv, NEW r \in Requests,
           \/ redeem_cap_challenge(r) \/ auth_register_handler(r) \/ auth_login_handler(r)
           \/ WithToken(r) \/ phantom_deposit(r)
    PROVE  GInv'
<1> USE DEF Presents
<1>1. CASE redeem_cap_challenge(r)
  <2>1. PICK c \in Challenges, v \in Challenges, q \in Challenges :
          /\ Made(c) /\ Made(v)
          /\ Begin(r, Presents("redeem", c, v, q, None, None, issued[v].scope, 0),
                   <<"challenge", "nullifier", "vdf", "pqc", "mint">>)
    BY <1>1 DEF redeem_cap_challenge
  <2>2. issued[v].scope \in Scopes
    BY <2>1 DEF GInv, IssuedOK, Challenge, Made
  <2>3. <<c, issued[v].scope, 0>> \in Keys
    BY <2>2 DEF Keys, Days, Actions
  <2> QED
    BY <2>1, <2>3, BeginStep, PlansAreOK
<1>2. CASE auth_register_handler(r)
  <2>1. PICK c \in Challenges, v \in Challenges, q \in Challenges, user \in Users :
          /\ Made(c)
          /\ Begin(r, Presents("register", c, v, q, None, user, "register", 0),
                   <<"nullifier", "vdf", "pqc", "serve">>)
    BY <1>2 DEF auth_register_handler
  <2>2. <<c, "register", 0>> \in Keys
    BY DEF Keys, Days, Actions
  <2> QED
    BY <2>1, <2>2, BeginStep, PlansAreOK
<1>3. CASE auth_login_handler(r)
  <2>1. PICK kind \in {"login", "recover"}, c \in Challenges :
          /\ Made(c)
          /\ \E v \in Challenges, user \in Users :
                \/ Begin(r, Presents(kind, c, v, None, None, user, kind, 0),
                         <<"nullifier", "vdf", "serve">>)
                \/ \E q \in Challenges :
                      Begin(r, Presents(kind, c, v, q, None, user, kind, 0),
                            <<"nullifier", "vdf", "pqc", "serve">>)
    BY <1>3 DEF auth_login_handler
  <2>2. <<c, kind, 0>> \in Keys
    BY DEF Keys, Days, Actions
  <2> QED
    BY <2>1, <2>2, BeginStep, PlansAreOK
<1>4. CASE WithToken(r)
  <2>1. PICK k \in Requests, action \in Scopes :
          Begin(r, Presents("with_token", None, None, None, k, None, action, 0),
                <<"token", "serve">>)
    BY <1>4 DEF WithToken
  <2>2. ~(Head(<<"token", "serve">>) \in {"challenge", "nullifier"})
    OBVIOUS
  <2> QED
    BY <2>1, <2>2, BeginStep, PlansAreOK
<1>5. CASE phantom_deposit(r)
  <2>1. PICK c \in Challenges, k \in Requests :
          /\ Made(c)
          /\ Begin(r, Presents("deposit", c, None, None, k, None, "phantom_deposit", now \div Day),
                   <<"nullifier", "token", "store">>)
    BY <1>5 DEF phantom_deposit
  <2>2. now \div Day \in Days
    BY GateAssumption DEF Days, GInv
  <2>3. <<c, "phantom_deposit", now \div Day>> \in Keys
    BY <2>2 DEF Keys, Actions
  <2> QED
    BY <2>1, <2>3, BeginStep, PlansAreOK
<1> QED
  BY <1>1, <1>2, <1>3, <1>4, <1>5

\* What was signed before a restart is refused after it, so an empty store
\* forgets nothing that matters.
LEMMA RestartStep ==
    ASSUME GInv, Restart
    PROVE  GInv'
<1>1. /\ UNCHANGED <<now, issued, req, passed>> /\ boot' = boot + 1
      /\ nullifiers' = [k \in Keys |-> 0] /\ todo' = [r \in Requests |-> <<>>]
  BY DEF Restart
<1>2. IssuedOK'
  BY <1>1 DEF GInv, IssuedOK, Challenge
<1>3. \A r \in Requests : \A g : ~At(r, g)'
  BY <1>1 DEF At
<1>4. TodoOK'
  BY <1>1, <1>3 DEF GInv, TodoOK, PlanOK
<1>5. PastOK'
  <2> SUFFICES ASSUME NEW x \in passed, x[1] = "nullifier"
               PROVE  x[2] \in Keys' /\ issued'[x[2][1]] # None /\ Remembered(x[2])'
    BY <1>1 DEF PastOK
  <2>1. x[2] \in Keys /\ issued[x[2][1]] # None /\ x[2][1] \in Challenges
    BY DEF GInv, PastOK, Keys
  <2>2. issued[x[2][1]].boot \in Nat /\ issued[x[2][1]].boot <= boot
    BY <2>1 DEF GInv, IssuedOK, Challenge
  <2>3. issued'[x[2][1]].boot # boot'
    BY <2>2, <1>1 DEF GInv
  <2> QED
    BY <2>1, <2>3, <1>1 DEF Remembered, Keys, Days, Actions
<1> QED
  BY <1>1, <1>2, <1>4, <1>5 DEF GInv, NullifierOnce, Once, Keys, Days, Actions

\* The passing of time keeps the invariant.
LEMMA TickStep ==
    ASSUME GInv, Tick
    PROVE  GInv'
<1>1. /\ UNCHANGED <<boot, issued, nullifiers, req, todo, passed>>
      /\ now' = now + 1 /\ now' \in Nat /\ now <= now' /\ now' <= MaxClock
  BY GateAssumption DEF Tick, stores, requests, GInv
<1>2. IssuedOK'
  BY <1>1 DEF GInv, IssuedOK, Challenge
<1>3. TodoOK'
  <2>1. \A r, g : At(r, g)' <=> At(r, g)
    BY <1>1 DEF At
  <2>2. \A r : HasTicket(r)' <=> HasTicket(r)
    BY <1>1 DEF HasTicket, NullifierOf, Keys, Days, Actions
  <2> QED
    BY <1>1, <2>1, <2>2 DEF GInv, TodoOK, PlanOK
<1>4. PastOK'
  <2> SUFFICES ASSUME NEW x \in passed, x[1] = "nullifier"
               PROVE  x[2] \in Keys' /\ issued'[x[2][1]] # None /\ Remembered(x[2])'
    BY <1>1 DEF PastOK
  <2>1. /\ x[2] \in Keys /\ issued[x[2][1]] # None /\ Remembered(x[2])
        /\ x[2][1] \in Challenges
    BY DEF GInv, PastOK, Keys
  <2>2. Closing(x[2][1]) \in Nat /\ Closing(x[2][1])' = Closing(x[2][1])
    BY <2>1, <1>1, ClosingNat DEF GInv, Closing, Epoch
  <2>3. Remembered(x[2])'
    BY <2>1, <2>2, <1>1, GateAssumption DEF Remembered, GInv
  <2> QED
    BY <2>1, <2>3, <1>1 DEF Keys, Days, Actions
<1> QED
  BY <1>1, <1>2, <1>3, <1>4 DEF GInv, NullifierOnce, Once, Keys, Days, Actions

\* Init establishes the invariant.
LEMMA InitGInv == Init => GInv
<1> SUFFICES ASSUME Init PROVE GInv
  OBVIOUS
<1>1. now \in Nat /\ now <= MaxClock /\ boot \in Nat /\ nullifiers \in [Keys -> Nat]
  BY GateAssumption DEF Init
<1>2. IssuedOK
  BY DEF Init, IssuedOK
<1>3. \A r \in Requests : \A g : ~At(r, g)
  BY DEF Init, At
<1>4. TodoOK
  BY <1>3 DEF Init, TodoOK, PlanOK
<1>5. PastOK /\ NullifierOnce
  BY DEF Init, PastOK, NullifierOnce, Once
<1> QED
  BY <1>1, <1>2, <1>4, <1>5 DEF GInv

\* Every step keeps the invariant.
LEMMA NextGInv == GInv /\ [Next]_vars => GInv'
<1> SUFFICES ASSUME GInv, [Next]_vars PROVE GInv'
  OBVIOUS
<1>1. ASSUME NEW c \in Challenges, generate_challenge(c) PROVE GInv'
  BY <1>1, ChallengeStep
<1>2. ASSUME NEW r \in Requests,
             \/ redeem_cap_challenge(r) \/ auth_register_handler(r) \/ auth_login_handler(r)
             \/ WithToken(r) \/ phantom_deposit(r)
      PROVE  GInv'
  BY <1>2, ArrivalStep
<1>3. ASSUME NEW r \in Requests, verify_and_consume_nullifier(r) PROVE GInv'
  BY <1>3, NullifierStep
<1>4. ASSUME NEW r \in Requests, CheckChallenge(r) PROVE GInv'
  <2>1. At(r, "challenge") /\ (Proceed(r, "challenge", req[r].v) \/ Refuse(r))
    BY <1>4 DEF CheckChallenge
  <2>2. UNCHANGED <<now, boot, issued, nullifiers>>
    BY <1>4 DEF CheckChallenge, stores
  <2>3. TodoOK' /\ passed' \subseteq passed \cup {<<"challenge", req[r].v, r>>}
    BY <2>1, <2>2, GateOutcomes
  <2> QED
    BY <2>2, <2>3, OtherGatesKeep
<1>5. ASSUME NEW r \in Requests, verify_and_consume_vdf(r) PROVE GInv'
  <2>1. At(r, "vdf") /\ (Proceed(r, "vdf", req[r].v) \/ Refuse(r))
    BY <1>5 DEF verify_and_consume_vdf
  <2>2. UNCHANGED <<now, boot, issued, nullifiers>>
    BY <1>5 DEF verify_and_consume_vdf
  <2>3. TodoOK' /\ passed' \subseteq passed \cup {<<"vdf", req[r].v, r>>}
    BY <2>1, <2>2, GateOutcomes
  <2> QED
    BY <2>2, <2>3, OtherGatesKeep
<1>6. ASSUME NEW r \in Requests, verify_and_decapsulate_pqc(r) PROVE GInv'
  <2>1. At(r, "pqc") /\ (Proceed(r, "pqc", req[r].q) \/ Refuse(r))
    BY <1>6 DEF verify_and_decapsulate_pqc
  <2>2. UNCHANGED <<now, boot, issued, nullifiers>>
    BY <1>6 DEF verify_and_decapsulate_pqc
  <2>3. TodoOK' /\ passed' \subseteq passed \cup {<<"pqc", req[r].q, r>>}
    BY <2>1, <2>2, GateOutcomes
  <2> QED
    BY <2>2, <2>3, OtherGatesKeep
<1>7. ASSUME NEW r \in Requests, Mint(r) PROVE GInv'
  <2>1. At(r, "mint") /\ (Finish(r, "mint", req[r].v) \/ Refuse(r))
    BY <1>7 DEF Mint
  <2>2. UNCHANGED <<now, boot, issued, nullifiers>>
    BY <1>7 DEF Mint
  <2>3. TodoOK' /\ passed' \subseteq passed \cup {<<"mint", req[r].v, r>>}
    BY <2>1, <2>2, GateOutcomes
  <2> QED
    BY <2>2, <2>3, OtherGatesKeep
<1>8. ASSUME NEW r \in Requests, verify_and_consume_cap_token(r) PROVE GInv'
  <2>1. At(r, "token") /\ (Proceed(r, "token", req[r].k) \/ Refuse(r))
    BY <1>8 DEF verify_and_consume_cap_token
  <2>2. UNCHANGED <<now, boot, issued, nullifiers>>
    BY <1>8 DEF verify_and_consume_cap_token
  <2>3. TodoOK' /\ passed' \subseteq passed \cup {<<"token", req[r].k, r>>}
    BY <2>1, <2>2, GateOutcomes
  <2> QED
    BY <2>2, <2>3, OtherGatesKeep
<1>9. ASSUME NEW r \in Requests, Serve(r) PROVE GInv'
  <2>1. At(r, "serve") /\ (Finish(r, "serve", req[r].action) \/ Refuse(r))
    BY <1>9 DEF Serve
  <2>2. UNCHANGED <<now, boot, issued, nullifiers>>
    BY <1>9 DEF Serve, stores
  <2>3. TodoOK' /\ passed' \subseteq passed \cup {<<"serve", req[r].action, r>>}
    BY <2>1, <2>2, GateOutcomes
  <2> QED
    BY <2>2, <2>3, OtherGatesKeep
<1>10. ASSUME NEW r \in Requests, StoreEnvelope(r) PROVE GInv'
  <2>1. At(r, "store") /\ (Finish(r, "store", req[r].action) \/ Refuse(r))
    BY <1>10 DEF StoreEnvelope
  <2>2. UNCHANGED <<now, boot, issued, nullifiers>>
    BY <1>10 DEF StoreEnvelope, stores
  <2>3. TodoOK' /\ passed' \subseteq passed \cup {<<"store", req[r].action, r>>}
    BY <2>1, <2>2, GateOutcomes
  <2> QED
    BY <2>2, <2>3, OtherGatesKeep
<1>11. CASE UNCHANGED vars
  <2>1. UNCHANGED <<now, boot, issued, nullifiers, req, todo, passed>>
    BY <1>11 DEF vars
  <2>2. \A r, g : At(r, g)' <=> At(r, g)
    BY <2>1 DEF At
  <2>3. \A r : HasTicket(r)' <=> HasTicket(r)
    BY <2>1 DEF HasTicket, NullifierOf, Keys, Days, Actions
  <2>4. TodoOK'
    BY <2>1, <2>2, <2>3 DEF GInv, TodoOK, PlanOK
  <2>5. passed' \subseteq passed \cup {<<"none", 0, 0>>} /\ "none" # "nullifier"
    BY <2>1
  <2> QED
    BY <2>1, <2>4, <2>5, OtherGatesKeep
<1> QED
  BY <1>1, <1>2, <1>3, <1>4, <1>5, <1>6, <1>7, <1>8, <1>9, <1>10, <1>11,
     RestartStep, TickStep DEF Next

\* A quota ticket is spent once per action (verify_and_consume_nullifier),
\* for any number of requests, challenges and restarts, if a nullifier is kept
\* for at least the epochs its ticket is accepted in and a lock wait.
THEOREM TicketSpentOnce == Spec => []NullifierOnce
<1>1. GInv => NullifierOnce
  BY DEF GInv
<1> QED
  BY <1>1, InitGInv, NextGInv, PTL DEF Spec
-----------------------------------------------------------------------------
(***************************************************************************)
(* Keys and tokens: what was used is no longer in its store.               *)
(***************************************************************************)
\* A key in the store belongs to a challenge that was issued, a token in the
\* store to a request that minted it.
StoresOK ==
    /\ pqcKeys \in [Challenges -> Nat]
    /\ \A c \in Challenges : pqcKeys[c] # 0 => issued[c] # None
    /\ tokens \in [Requests -> Nat] /\ DOMAIN minted = Requests
    /\ \A k \in Requests : tokens[k] # 0 => minted[k] # None

\* What request r presents fits the gate i of its plan.
Fits(r, i) ==
    /\ todo[r][i] = "vdf" => req[r].v \in Challenges /\ issued[req[r].v] # None
    /\ todo[r][i] = "pqc" => req[r].q \in Challenges
    /\ todo[r][i] = "token" => req[r].k \in Requests
    /\ todo[r][i] = "mint" =>
          req[r].v \in Challenges /\ req[r].action \in Scopes /\ minted[r] = None

RequestsOK ==
    \A r \in Requests :
        /\ req[r].t \in Nat
        /\ req[r] = Idle => minted[r] = None
        /\ \A i \in 1..Len(todo[r]) : Fits(r, i)

\* What was used is no longer in its store, and was there once.
UsedOK ==
    \A x \in passed :
        /\ x[1] = "pqc" => x[2] \in Challenges /\ issued[x[2]] # None /\ pqcKeys[x[2]] = 0
        /\ x[1] = "token" => x[2] \in Requests /\ minted[x[2]] # None /\ tokens[x[2]] = 0

\* The inductive invariant.
KInv == StoresOK /\ RequestsOK /\ UsedOK /\ Once("pqc") /\ Once("token")
-----------------------------------------------------------------------------
\* The gates of a plan move forward by one.
LEMMA ShorterPlan ==
    ASSUME NEW q \in Seq(GateNames), q # <<>>, NEW i \in 1..Len(Tail(q))
    PROVE  i + 1 \in 1..Len(q) /\ Tail(q)[i] = q[i + 1]
<1>1. Len(q) \in Nat /\ Len(Tail(q)) = Len(q) - 1
  OBVIOUS
<1>2. i + 1 \in 1..Len(q)
  BY <1>1
<1>3. \A j \in 1..Len(Tail(q)) : Tail(q)[j] = q[j + 1]
  OBVIOUS
<1> QED
  BY <1>2, <1>3

\* The plans after a gate: that of the request is shortened or over.
LEMMA PlanAfterGate ==
    ASSUME GInv, NEW r \in Requests, NEW gate, NEW item, At(r, gate),
           Proceed(r, gate, item) \/ Finish(r, gate, item) \/ Refuse(r)
    PROVE  /\ req' = req
           /\ \A s \in Requests \ {r} : todo'[s] = todo[s]
           /\ todo'[r] = <<>> \/ (todo'[r] = Tail(todo[r]) /\ <<gate, item, r>> \in passed')
           /\ passed \subseteq passed' /\ passed' \subseteq passed \cup {<<gate, item, r>>}
           /\ todo[r] \in Seq(GateNames) /\ todo[r] # <<>> /\ todo[r][1] = gate
<1>1. todo \in [Requests -> Seq(GateNames)]
  BY DEF GInv, TodoOK
<1>2. todo[r] \in Seq(GateNames) /\ todo[r] # <<>> /\ todo[r][1] = gate
  BY <1>1 DEF At
<1>3. CASE Proceed(r, gate, item)
  BY <1>1, <1>2, <1>3 DEF Proceed
<1>4. CASE Finish(r, gate, item)
  BY <1>1, <1>2, <1>4 DEF Finish
<1>5. CASE Refuse(r)
  BY <1>1, <1>2, <1>5 DEF Refuse
<1> QED
  BY <1>3, <1>4, <1>5

\* A gate leaves the requests in order, if it mints nothing for a request that
\* still has to mint.
LEMMA RequestsAfterGate ==
    ASSUME GInv, RequestsOK, NEW r \in Requests, NEW gate, NEW item, At(r, gate),
           Proceed(r, gate, item) \/ Finish(r, gate, item) \/ Refuse(r),
           issued' = issued,
           \/ minted' = minted
           \/ /\ gate = "mint" /\ todo'[r] = <<>>
              /\ \A s \in Requests \ {r} : minted'[s] = minted[s]
    PROVE  RequestsOK'
<1>1. /\ req' = req
      /\ \A s \in Requests \ {r} : todo'[s] = todo[s]
      /\ todo'[r] = <<>> \/ (todo'[r] = Tail(todo[r]) /\ <<gate, item, r>> \in passed')
      /\ passed \subseteq passed'
      /\ todo[r] \in Seq(GateNames) /\ todo[r] # <<>> /\ todo[r][1] = gate
  BY PlanAfterGate
<1>2. ASSUME NEW s \in Requests \ {r}
      PROVE  /\ req'[s].t \in Nat
             /\ req'[s] = Idle => minted'[s] = None
             /\ \A i \in 1..Len(todo'[s]) : Fits(s, i)'
  <2>1. todo'[s] = todo[s] /\ req'[s] = req[s] /\ minted'[s] = minted[s]
    BY <1>1
  <2>2. ASSUME NEW i \in 1..Len(todo'[s]) PROVE Fits(s, i)'
    <3>1. Fits(s, i)
      BY <2>1, <2>2 DEF RequestsOK
    <3> QED
      BY <1>1, <2>1, <3>1 DEF Fits
  <2>3. req[s].t \in Nat /\ (req[s] = Idle => minted[s] = None)
    BY DEF RequestsOK
  <2>4. req'[s].t \in Nat /\ (req'[s] = Idle => minted'[s] = None)
    BY <2>1, <2>3
  <2> QED
    BY <2>2, <2>4
<1>3. req'[r].t \in Nat /\ (req'[r] = Idle => minted'[r] = None)
  <2>1. gate = "mint" => req[r].v \in Challenges
    <3>1. 1 \in 1..Len(todo[r])
      BY <1>1
    <3>2. Fits(r, 1)
      BY <3>1 DEF RequestsOK
    <3> QED
      BY <1>1, <3>2 DEF Fits
  <2>2. req[r].v \in Challenges => req[r] # Idle
    BY GateAssumption DEF Idle
  <2>3. req'[r] = req[r] /\ req[r].t \in Nat /\ (req[r] = Idle => minted[r] = None)
    BY <1>1 DEF RequestsOK
  <2>4. minted' = minted \/ gate = "mint"
    OBVIOUS
  <2> QED
    BY <2>1, <2>2, <2>3, <2>4
<1>4. ASSUME NEW i \in 1..Len(todo'[r]) PROVE Fits(r, i)'
  <2>1. CASE todo'[r] = <<>>
    BY <2>1
  <2>2. CASE todo'[r] # <<>>
    <3>1. todo'[r] = Tail(todo[r]) /\ <<gate, item, r>> \in passed'
      BY <1>1, <2>2, Zenon
    <3>2. Len(Tail(todo[r])) = Len(todo[r]) - 1
      BY <1>1
    <3>3. /\ todo'[r] = Tail(todo[r]) /\ Len(todo'[r]) = Len(todo[r]) - 1
          /\ <<gate, item, r>> \in passed'
      BY <3>1, <3>2
    <3>4. minted' = minted
      BY <2>2
    <3>5. i + 1 \in 1..Len(todo[r]) /\ todo'[r][i] = todo[r][i + 1]
      <4> DEFINE q == todo[r]
      <4>1. q \in Seq(GateNames) /\ q # <<>> /\ i \in 1..Len(Tail(q))
        BY <1>1, <3>3
      <4> HIDE DEF q
      <4>2. i + 1 \in 1..Len(q) /\ Tail(q)[i] = q[i + 1]
        BY <4>1, ShorterPlan
      <4> QED
        BY <4>2, <3>3 DEF q
    <3>6. Fits(r, i + 1)
      BY <3>5 DEF RequestsOK
    <3> QED
      BY <1>1, <3>3, <3>5, <3>6, <3>4 DEF Fits
  <2> QED
    BY <2>1, <2>2
<1> QED
  BY <1>2, <1>3, <1>4 DEF RequestsOK

\* A gate that uses neither a key nor a token, and mints nothing.
LEMMA PlainGate ==
    ASSUME GInv, KInv, NEW r \in Requests, NEW gate, NEW item, At(r, gate),
           Proceed(r, gate, item) \/ Finish(r, gate, item) \/ Refuse(r),
           gate \notin {"pqc", "token", "mint"},
           UNCHANGED <<issued, pqcKeys, tokens, minted>>
    PROVE  KInv'
<1>1. passed \subseteq passed' /\ passed' \subseteq passed \cup {<<gate, item, r>>}
  BY PlanAfterGate
<1>2. RequestsOK'
  BY RequestsAfterGate DEF KInv
<1>3. \A x \in passed' : x[1] \in {"pqc", "token", "mint"} => x \in passed
  BY <1>1
<1>4. UsedOK' /\ Once("pqc")' /\ Once("token")'
  BY <1>1, <1>3 DEF KInv, UsedOK, Once
<1>5. StoresOK'
  BY DEF KInv, StoresOK
<1> QED
  BY <1>2, <1>4, <1>5 DEF KInv

\* The gate of the KEM key: the key is gone after it.
LEMMA KeyGate ==
    ASSUME GInv, KInv, NEW r \in Requests, verify_and_decapsulate_pqc(r)
    PROVE  KInv'
<1> DEFINE q == req[r].q
<1>1. /\ At(r, "pqc") /\ UNCHANGED <<issued, tokens, minted>>
      /\ (pqcKeys[q] # 0 /\ Proceed(r, "pqc", q)) \/ Refuse(r)
      /\ pqcKeys' = [pqcKeys EXCEPT ![q] = 0]
  BY DEF verify_and_decapsulate_pqc, AfterDecapsulation
<1>2. /\ passed \subseteq passed' /\ passed' \subseteq passed \cup {<<"pqc", q, r>>}
      /\ todo[r] \in Seq(GateNames) /\ todo[r] # <<>> /\ todo[r][1] = "pqc"
  BY <1>1, PlanAfterGate
<1>3. RequestsOK'
  BY <1>1, RequestsAfterGate DEF KInv
<1>4. q \in Challenges
  <2>1. 1 \in 1..Len(todo[r])
    BY <1>2
  <2>2. Fits(r, 1)
    BY <2>1 DEF KInv, RequestsOK
  <2> QED
    BY <1>2, <2>2 DEF Fits
<1>5. pqcKeys \in [Challenges -> Nat] /\ pqcKeys' \in [Challenges -> Nat] /\ pqcKeys'[q] = 0
  BY <1>1, <1>4 DEF KInv, StoresOK
<1>6. \A c \in Challenges : pqcKeys'[c] # 0 => pqcKeys'[c] = pqcKeys[c]
  BY <1>1, <1>5
<1>7. StoresOK'
  BY <1>1, <1>5, <1>6 DEF KInv, StoresOK
<1>8. CASE Refuse(r)
  <2>1. passed' = passed
    BY <1>8 DEF Refuse
  <2> QED
    BY <1>1, <1>3, <1>6, <1>5, <1>7, <2>1 DEF KInv, UsedOK, Once
<1>9. CASE pqcKeys[q] # 0 /\ Proceed(r, "pqc", q)
  <2>1. issued[q] # None /\ \A x \in passed : x[1] = "pqc" => x[2] # q
    BY <1>4, <1>9 DEF KInv, StoresOK, UsedOK
  <2>2. \A x \in passed' : x \in passed \/ x = <<"pqc", q, r>>
    BY <1>2
  <2>3. UsedOK'
    <3> SUFFICES ASSUME NEW x \in passed'
                 PROVE  /\ x[1] = "pqc" => x[2] \in Challenges /\ issued[x[2]] # None /\ pqcKeys'[x[2]] = 0
                        /\ x[1] = "token" => x[2] \in Requests /\ minted[x[2]] # None /\ tokens[x[2]] = 0
      BY <1>1 DEF UsedOK
    <3>1. CASE x \in passed
      BY <1>2, <1>6, <3>1 DEF KInv, UsedOK
    <3>2. CASE x = <<"pqc", q, r>>
      BY <1>4, <1>5, <2>1, <3>2
    <3> QED
      BY <2>2, <3>1, <3>2
  <2>4. Once("pqc")' /\ Once("token")'
    BY <2>1, <2>2 DEF KInv, Once
  <2> QED
    BY <1>3, <1>7, <2>3, <2>4 DEF KInv
<1> QED
  BY <1>1, <1>8, <1>9

\* The gate of a CAPTCHA token: a genuine token is gone after it.
LEMMA TokenGate ==
    ASSUME GInv, KInv, NEW r \in Requests, verify_and_consume_cap_token(r)
    PROVE  KInv'
<1> DEFINE k == req[r].k
<1>1. PICK t \in Stamps(req[r].t) :
        IF Genuine(r, t)
        THEN /\ tokens' = [tokens EXCEPT ![k] = 0]
             /\ IF tokens[k] > t THEN Proceed(r, "token", k) ELSE Refuse(r)
        ELSE UNCHANGED tokens /\ Refuse(r)
  BY DEF verify_and_consume_cap_token, AfterUse
<1>2. At(r, "token") /\ UNCHANGED <<issued, pqcKeys, minted>>
  BY DEF verify_and_consume_cap_token
<1>3. t \in Nat
  <2>1. req[r].t \in Nat /\ now \in Nat
    BY DEF KInv, RequestsOK, GInv
  <2> QED
    BY <2>1, <1>1 DEF Stamps
<1>4. Proceed(r, "token", k) \/ Refuse(r)
  BY <1>1
<1>5. /\ passed \subseteq passed' /\ passed' \subseteq passed \cup {<<"token", k, r>>}
      /\ todo[r] \in Seq(GateNames) /\ todo[r] # <<>> /\ todo[r][1] = "token"
  BY <1>2, <1>4, PlanAfterGate
<1>6. RequestsOK'
  BY <1>2, <1>4, RequestsAfterGate DEF KInv
<1>7. k \in Requests
  <2>1. 1 \in 1..Len(todo[r])
    BY <1>5
  <2>2. Fits(r, 1)
    BY <2>1 DEF KInv, RequestsOK
  <2> QED
    BY <1>5, <2>2 DEF Fits
<1>8. tokens \in [Requests -> Nat]
  BY DEF KInv, StoresOK
<1>9. /\ tokens' \in [Requests -> Nat]
      /\ \A j \in Requests : tokens'[j] # 0 => tokens'[j] = tokens[j]
  BY <1>1, <1>7, <1>8
<1>10. StoresOK'
  BY <1>2, <1>9 DEF KInv, StoresOK
<1>11. CASE Refuse(r)
  <2>1. passed' = passed
    BY <1>11 DEF Refuse
  <2> QED
    BY <1>2, <1>6, <1>9, <1>10, <2>1 DEF KInv, UsedOK, Once
<1>12. CASE ~Refuse(r)
  <2>1. tokens' = [tokens EXCEPT ![k] = 0] /\ tokens[k] > t
    BY <1>1, <1>12
  <2>2. tokens[k] # 0 /\ tokens'[k] = 0
    BY <1>3, <1>7, <1>8, <2>1
  <2>3. minted[k] # None /\ \A x \in passed : x[1] = "token" => x[2] # k
    BY <1>7, <2>2 DEF KInv, StoresOK, UsedOK
  <2>4. \A x \in passed' : x \in passed \/ x = <<"token", k, r>>
    BY <1>5
  <2>5. UsedOK'
    <3> SUFFICES ASSUME NEW x \in passed'
                 PROVE  /\ x[1] = "pqc" => x[2] \in Challenges /\ issued[x[2]] # None /\ pqcKeys[x[2]] = 0
                        /\ x[1] = "token" => x[2] \in Requests /\ minted[x[2]] # None /\ tokens'[x[2]] = 0
      BY <1>2 DEF UsedOK
    <3>1. CASE x \in passed
      BY <1>5, <1>9, <3>1 DEF KInv, UsedOK
    <3>2. CASE x = <<"token", k, r>>
      BY <1>7, <2>2, <2>3, <3>2
    <3> QED
      BY <2>4, <3>1, <3>2
  <2>6. Once("pqc")' /\ Once("token")'
    BY <2>3, <2>4 DEF KInv, Once
  <2> QED
    BY <1>6, <1>10, <2>5, <2>6 DEF KInv
<1> QED
  BY <1>11, <1>12

\* The minting: the request has minted nothing before.
LEMMA MintGate ==
    ASSUME GInv, KInv, NEW r \in Requests, Mint(r)
    PROVE  KInv'
<1>1. At(r, "mint") /\ UNCHANGED <<issued, pqcKeys>>
  BY DEF Mint
<1>2. CASE Refuse(r) /\ UNCHANGED <<tokens, minted>>
  <2>1. RequestsOK'
    BY <1>1, <1>2, RequestsAfterGate DEF KInv
  <2>2. passed' = passed
    BY <1>2 DEF Refuse
  <2> QED
    BY <1>1, <1>2, <2>1, <2>2 DEF KInv, StoresOK, UsedOK, Once
<1>3. CASE /\ Finish(r, "mint", req[r].v)
           /\ tokens' = [k \in Requests |->
                           IF k = r THEN Inserted(r)
                           ELSE IF tokens[k] > req[r].t THEN tokens[k] ELSE 0]
           /\ minted' = [minted EXCEPT ![r] =
                [scope |-> req[r].action, expires |-> token_expires(r), boot |-> boot,
                 from |-> req[r].v]]
  <2>1. /\ passed \subseteq passed' /\ passed' \subseteq passed \cup {<<"mint", req[r].v, r>>}
        /\ todo[r] \in Seq(GateNames) /\ todo[r] # <<>> /\ todo[r][1] = "mint"
    BY <1>1, <1>3, PlanAfterGate
  <2>2. /\ req[r].t \in Nat /\ minted[r] = None
        /\ req[r].v \in Challenges /\ req[r].action \in Scopes
    <3>1. 1 \in 1..Len(todo[r])
      BY <2>1
    <3>2. Fits(r, 1) /\ req[r].t \in Nat
      BY <3>1 DEF KInv, RequestsOK
    <3> QED
      BY <2>1, <3>2 DEF Fits
  <2>3. DOMAIN minted = Requests /\ tokens \in [Requests -> Nat]
    BY DEF KInv, StoresOK
  <2>4. /\ DOMAIN minted' = Requests /\ minted'[r] # None
        /\ \A k \in Requests \ {r} : minted'[k] = minted[k]
    <3>1. token_expires(r) \in Nat /\ boot \in Nat
      BY <2>2, GateAssumption DEF token_expires, GInv
    <3>2. [scope |-> req[r].action, expires |-> token_expires(r), boot |-> boot,
           from |-> req[r].v] \in Token
      BY <2>2, <3>1 DEF Token
    <3> QED
      BY <1>3, <2>3, <3>2, NoneAssumption
  <2>5. RequestsOK'
    <3>1. todo'[r] = <<>>
      BY <1>3 DEF Finish, GInv, TodoOK
    <3> QED
      BY <1>1, <1>3, <2>4, <3>1, RequestsAfterGate DEF KInv
  <2>6. /\ tokens' \in [Requests -> Nat]
        /\ \A k \in Requests \ {r} : tokens'[k] # 0 => tokens'[k] = tokens[k]
    BY <1>3, <2>2, <2>3, GateAssumption DEF Inserted, token_expires
  <2>7. StoresOK'
    BY <1>1, <2>4, <2>6 DEF KInv, StoresOK
  <2>8. \A x \in passed' : x \in passed \/ x = <<"mint", req[r].v, r>>
    BY <2>1
  <2>9. UsedOK'
    <3> SUFFICES ASSUME NEW x \in passed'
                 PROVE  /\ x[1] = "pqc" => x[2] \in Challenges /\ issued[x[2]] # None /\ pqcKeys[x[2]] = 0
                        /\ x[1] = "token" => x[2] \in Requests /\ minted'[x[2]] # None /\ tokens'[x[2]] = 0
      BY <1>1 DEF UsedOK
    <3>1. CASE x \in passed
      <4>1. x[1] = "token" => x[2] \in Requests \ {r} /\ minted[x[2]] # None /\ tokens[x[2]] = 0
        BY <2>2, <3>1 DEF KInv, UsedOK
      <4>2. x[1] = "token" => minted'[x[2]] # None /\ tokens'[x[2]] = 0
        BY <2>4, <2>6, <4>1
      <4> QED
        BY <2>1, <3>1, <4>1, <4>2 DEF KInv, UsedOK
    <3>2. CASE x = <<"mint", req[r].v, r>>
      BY <3>2
    <3> QED
      BY <2>8, <3>1, <3>2
  <2>10. Once("pqc")' /\ Once("token")'
    BY <2>8 DEF KInv, Once
  <2> QED
    BY <2>5, <2>7, <2>9, <2>10 DEF KInv
<1> QED
  BY <1>2, <1>3 DEF Mint
-----------------------------------------------------------------------------
\* A new challenge has a new key.
LEMMA NewKey ==
    ASSUME GInv, KInv, NEW c \in Challenges, generate_challenge(c)
    PROVE  KInv'
<1>1. /\ issued[c] = None /\ UNCHANGED <<tokens, minted, req, todo, passed>>
      /\ pqcKeys' = [Retain(pqcKeys, now) EXCEPT ![c] = now + ChallengeTtl]
  BY DEF generate_challenge, requests
<1>2. /\ issued' \in [Challenges -> Challenge \cup {None}]
      /\ issued'[c] # None /\ \A d \in Challenges \ {c} : issued'[d] = issued[d]
  <2>1. PICK scope \in Scopes, user \in Users :
          issued' = [issued EXCEPT ![c] = [scope |-> scope, user |-> user, at |-> now, boot |-> boot]]
    BY DEF generate_challenge
  <2>2. [scope |-> scope, user |-> user, at |-> now, boot |-> boot] \in Challenge
    BY DEF Challenge, GInv
  <2> QED
    BY <2>1, <2>2, NoneAssumption DEF GInv, IssuedOK
<1>3. pqcKeys \in [Challenges -> Nat] /\ now \in Nat
  BY DEF KInv, StoresOK, GInv
<1>4. /\ pqcKeys' \in [Challenges -> Nat]
      /\ \A d \in Challenges \ {c} : pqcKeys'[d] # 0 => pqcKeys'[d] = pqcKeys[d]
  <2>1. /\ Retain(pqcKeys, now) \in [Challenges -> Nat]
        /\ \A d \in Challenges : Retain(pqcKeys, now)[d] # 0 => Retain(pqcKeys, now)[d] = pqcKeys[d]
    BY <1>3 DEF Retain
  <2> QED
    BY <1>1, <1>3, <2>1, GateAssumption
<1>5. StoresOK'
  BY <1>1, <1>2, <1>4 DEF KInv, StoresOK
<1>6. UsedOK'
  BY <1>1, <1>2, <1>4 DEF KInv, UsedOK
<1>7. RequestsOK'
  BY <1>1, <1>2 DEF KInv, RequestsOK, Fits
<1> QED
  BY <1>1, <1>5, <1>6, <1>7 DEF KInv, Once

\* A request that arrives presents what its gates ask for.
LEMMA ArrivalKeeps ==
    ASSUME GInv, KInv, NEW r \in Requests, NEW what, NEW plan, Begin(r, what, plan),
           what.t \in Nat, what # Idle, plan \in Seq(GateNames),
           \A i \in 1..Len(plan) :
              /\ plan[i] = "vdf" => what.v \in Challenges /\ issued[what.v] # None
              /\ plan[i] = "pqc" => what.q \in Challenges
              /\ plan[i] = "token" => what.k \in Requests
              /\ plan[i] = "mint" => what.v \in Challenges /\ what.action \in Scopes
    PROVE  KInv'
<1>1. /\ req[r] = Idle /\ UNCHANGED <<issued, pqcKeys, tokens, minted, passed>>
      /\ req' = [req EXCEPT ![r] = what] /\ todo' = [todo EXCEPT ![r] = plan]
  BY DEF Begin, stores
<1>2. /\ req'[r] = what /\ todo'[r] = plan
      /\ \A s \in Requests \ {r} : req'[s] = req[s] /\ todo'[s] = todo[s]
  BY <1>1 DEF GInv, TodoOK
<1>3. minted[r] = None
  BY <1>1 DEF KInv, RequestsOK
<1>4. ASSUME NEW i \in 1..Len(todo'[r]) PROVE Fits(r, i)'
  <2>1. i \in 1..Len(plan)
    BY <1>2
  <2>2. todo'[r] = plan /\ req'[r] = what /\ minted'[r] = None /\ issued' = issued
    BY <1>1, <1>2, <1>3
  <2> QED
    BY <2>1, <2>2 DEF Fits
<1>5. ASSUME NEW s \in Requests \ {r}, NEW i \in 1..Len(todo'[s]) PROVE Fits(s, i)'
  <2>1. Fits(s, i)
    BY <1>2, <1>5 DEF KInv, RequestsOK
  <2> QED
    BY <1>1, <1>2, <2>1 DEF Fits
<1>6. ASSUME NEW s \in Requests PROVE req'[s].t \in Nat /\ (req'[s] = Idle => minted'[s] = None)
  BY <1>1, <1>2 DEF KInv, RequestsOK
<1>7. RequestsOK'
  BY <1>4, <1>5, <1>6 DEF RequestsOK
<1> QED
  BY <1>1, <1>7 DEF KInv, StoresOK, UsedOK, Once

\* The five kinds of request do.
LEMMA Arrivals ==
    ASSUME GInv, KInv, NEW r \in Requests,
           \/ redeem_cap_challenge(r) \/ auth_register_handler(r) \/ auth_login_handler(r)
           \/ WithToken(r) \/ phantom_deposit(r)
    PROVE  KInv'
<1>1. now \in Nat
  BY DEF GInv
<1>2. ASSUME NEW x, x \in Challenges \cup Requests PROVE x # None
  BY <1>2, GateAssumption
<1>3. CASE redeem_cap_challenge(r)
  <2>1. PICK c \in Challenges, v \in Challenges, q \in Challenges :
          /\ Made(v)
          /\ Begin(r, Presents("redeem", c, v, q, None, None, issued[v].scope, 0),
                   <<"challenge", "nullifier", "vdf", "pqc", "mint">>)
    BY <1>3 DEF redeem_cap_challenge
  <2>2. PICK what : what = Presents("redeem", c, v, q, None, None, issued[v].scope, 0)
    OBVIOUS
  <2>3. issued[v].scope \in Scopes /\ issued[v] # None
    BY <2>1 DEF GInv, IssuedOK, Challenge, Made
  <2>4. /\ what.t \in Nat /\ what # Idle /\ what.q = q /\ what.v = v /\ what.action \in Scopes
    BY <1>1, <1>2, <2>2, <2>3 DEF Presents, Idle
  <2>5. PICK plan : plan = <<"challenge", "nullifier", "vdf", "pqc", "mint">>
    OBVIOUS
  <2>6. plan \in Seq(GateNames) /\ \A i \in 1..Len(plan) : plan[i] # "token"
    BY <2>5 DEF GateNames
  <2>7. Begin(r, what, plan)
    BY <2>1, <2>2, <2>5
  <2> QED
    BY <2>3, <2>4, <2>6, <2>7, ArrivalKeeps
<1>4. CASE auth_register_handler(r)
  <2>1. PICK c \in Challenges, v \in Challenges, q \in Challenges, user \in Users :
          /\ Made(v)
          /\ Begin(r, Presents("register", c, v, q, None, user, "register", 0),
                   <<"nullifier", "vdf", "pqc", "serve">>)
    BY <1>4 DEF auth_register_handler
  <2>2. PICK what : what = Presents("register", c, v, q, None, user, "register", 0)
    OBVIOUS
  <2>3. what.t \in Nat /\ what # Idle /\ what.q \in Challenges /\ what.v = v /\ issued[v] # None
    BY <1>1, <1>2, <2>1, <2>2 DEF Presents, Idle, Made
  <2>4. PICK plan : plan = <<"nullifier", "vdf", "pqc", "serve">>
    OBVIOUS
  <2>5. plan \in Seq(GateNames) /\ \A i \in 1..Len(plan) : plan[i] \notin {"token", "mint"}
    BY <2>4 DEF GateNames
  <2>6. Begin(r, what, plan)
    BY <2>1, <2>2, <2>4
  <2> QED
    BY <2>3, <2>5, <2>6, ArrivalKeeps
<1>5. CASE auth_login_handler(r)
  <2>1. PICK kind \in {"login", "recover"}, c \in Challenges, v \in Challenges, user \in Users :
          /\ Made(v)
          /\ \/ Begin(r, Presents(kind, c, v, None, None, user, kind, 0), <<"nullifier", "vdf", "serve">>)
             \/ \E q \in Challenges :
                   Begin(r, Presents(kind, c, v, q, None, user, kind, 0),
                         <<"nullifier", "vdf", "pqc", "serve">>)
    BY <1>5 DEF auth_login_handler
  <2>2. CASE Begin(r, Presents(kind, c, v, None, None, user, kind, 0), <<"nullifier", "vdf", "serve">>)
    <3>1. PICK what : what = Presents(kind, c, v, None, None, user, kind, 0)
      OBVIOUS
    <3>2. what.t \in Nat /\ what # Idle /\ what.v = v /\ issued[v] # None
      BY <1>1, <1>2, <2>1, <3>1 DEF Presents, Idle, Made
    <3>3. PICK plan : plan = <<"nullifier", "vdf", "serve">>
      OBVIOUS
    <3>4. plan \in Seq(GateNames) /\ \A i \in 1..Len(plan) : plan[i] \notin {"pqc", "token", "mint"}
      BY <3>3 DEF GateNames
    <3>5. Begin(r, what, plan)
      BY <2>2, <3>1, <3>3
    <3> QED
      BY <3>2, <3>4, <3>5, ArrivalKeeps
  <2>3. ASSUME NEW q \in Challenges,
               Begin(r, Presents(kind, c, v, q, None, user, kind, 0),
                     <<"nullifier", "vdf", "pqc", "serve">>)
        PROVE  KInv'
    <3>1. PICK what : what = Presents(kind, c, v, q, None, user, kind, 0)
      OBVIOUS
    <3>2. what.t \in Nat /\ what # Idle /\ what.q \in Challenges /\ what.v = v /\ issued[v] # None
      BY <1>1, <1>2, <2>1, <3>1 DEF Presents, Idle, Made
    <3>3. PICK plan : plan = <<"nullifier", "vdf", "pqc", "serve">>
      OBVIOUS
    <3>4. plan \in Seq(GateNames) /\ \A i \in 1..Len(plan) : plan[i] \notin {"token", "mint"}
      BY <3>3 DEF GateNames
    <3>5. Begin(r, what, plan)
      BY <2>3, <3>1, <3>3
    <3> QED
      BY <3>2, <3>4, <3>5, ArrivalKeeps
  <2> QED
    BY <2>1, <2>2, <2>3
<1>6. CASE WithToken(r)
  <2>1. PICK k \in Requests, action \in Scopes :
          Begin(r, Presents("with_token", None, None, None, k, None, action, 0), <<"token", "serve">>)
    BY <1>6 DEF WithToken
  <2>2. PICK what : what = Presents("with_token", None, None, None, k, None, action, 0)
    OBVIOUS
  <2>3. what.t \in Nat /\ what # Idle /\ what.k \in Requests
    BY <1>1, <1>2, <2>2 DEF Presents, Idle
  <2>4. PICK plan : plan = <<"token", "serve">>
    OBVIOUS
  <2>5. plan \in Seq(GateNames) /\ \A i \in 1..Len(plan) : plan[i] \notin {"vdf", "pqc", "mint"}
    BY <2>4 DEF GateNames
  <2>6. Begin(r, what, plan)
    BY <2>1, <2>2, <2>4
  <2> QED
    BY <2>3, <2>5, <2>6, ArrivalKeeps
<1>7. CASE phantom_deposit(r)
  <2>1. PICK c \in Challenges, k \in Requests :
          Begin(r, Presents("deposit", c, None, None, k, None, "phantom_deposit", now \div Day),
                <<"nullifier", "token", "store">>)
    BY <1>7 DEF phantom_deposit
  <2>2. PICK what : what = Presents("deposit", c, None, None, k, None, "phantom_deposit", now \div Day)
    OBVIOUS
  <2>3. what.t \in Nat /\ what # Idle /\ what.k \in Requests
    BY <1>1, <1>2, <2>2 DEF Presents, Idle
  <2>4. PICK plan : plan = <<"nullifier", "token", "store">>
    OBVIOUS
  <2>5. plan \in Seq(GateNames) /\ \A i \in 1..Len(plan) : plan[i] \notin {"vdf", "pqc", "mint"}
    BY <2>4 DEF GateNames
  <2>6. Begin(r, what, plan)
    BY <2>1, <2>2, <2>4
  <2> QED
    BY <2>3, <2>5, <2>6, ArrivalKeeps
<1> QED
  BY <1>3, <1>4, <1>5, <1>6, <1>7

\* Init establishes the invariant.
LEMMA InitKInv == Init => KInv
<1> SUFFICES ASSUME Init PROVE KInv
  OBVIOUS
<1>1. StoresOK /\ UsedOK /\ Once("pqc") /\ Once("token")
  BY DEF Init, StoresOK, UsedOK, Once
<1>2. RequestsOK
  BY DEF Init, RequestsOK, Idle
<1> QED
  BY <1>1, <1>2 DEF KInv

\* Every step keeps it.
LEMMA NextKInv == GInv /\ KInv /\ [Next]_vars => KInv'
<1> SUFFICES ASSUME GInv, KInv, [Next]_vars PROVE KInv'
  OBVIOUS
<1>1. ASSUME NEW r \in Requests, CheckChallenge(r) PROVE KInv'
  BY <1>1, PlainGate DEF CheckChallenge, stores
<1>2. ASSUME NEW r \in Requests, verify_and_consume_nullifier(r) PROVE KInv'
  <2>1. /\ At(r, "nullifier") /\ (Proceed(r, "nullifier", NullifierOf(r)) \/ Refuse(r))
        /\ UNCHANGED <<issued, pqcKeys, tokens, minted>>
    BY <1>2 DEF verify_and_consume_nullifier
  <2> QED
    BY <2>1, PlainGate
<1>3. ASSUME NEW r \in Requests, verify_and_consume_vdf(r) PROVE KInv'
  <2>1. /\ At(r, "vdf") /\ (Proceed(r, "vdf", req[r].v) \/ Refuse(r))
        /\ UNCHANGED <<issued, pqcKeys, tokens, minted>>
    BY <1>3 DEF verify_and_consume_vdf
  <2> QED
    BY <2>1, PlainGate
<1>4. ASSUME NEW r \in Requests, Serve(r) PROVE KInv'
  BY <1>4, PlainGate DEF Serve, stores
<1>5. ASSUME NEW r \in Requests, StoreEnvelope(r) PROVE KInv'
  BY <1>5, PlainGate DEF StoreEnvelope, stores
<1>6. ASSUME Restart PROVE KInv'
  <2>1. /\ UNCHANGED <<issued, minted, req, passed>> /\ todo' = [r \in Requests |-> <<>>]
        /\ pqcKeys' = [c \in Challenges |-> 0] /\ tokens' = [r \in Requests |-> 0]
    BY <1>6 DEF Restart
  <2>2. RequestsOK'
    BY <2>1 DEF KInv, RequestsOK
  <2> QED
    BY <2>1, <2>2 DEF KInv, StoresOK, UsedOK, Once
<1>7. ASSUME UNCHANGED <<issued, pqcKeys, tokens, minted, req, todo, passed>> PROVE KInv'
  BY <1>7 DEF KInv, StoresOK, RequestsOK, Fits, UsedOK, Once
<1>8. Tick => KInv'
  BY <1>7 DEF Tick, stores, requests
<1>9. UNCHANGED vars => KInv'
  BY <1>7 DEF vars
<1> QED
  BY <1>1, <1>2, <1>3, <1>4, <1>5, <1>6, <1>8, <1>9, NewKey, Arrivals, KeyGate, TokenGate, MintGate
     DEF Next

\* A KEM key is used once (verify_and_decapsulate_pqc).
THEOREM KeyUsedOnce == Spec => []KeyOnce
<1>1. KInv => KeyOnce
  BY DEF KInv, KeyOnce
<1> QED
  BY <1>1, InitGInv, NextGInv, InitKInv, NextKInv, PTL DEF Spec

-----------------------------------------------------------------------------
(***************************************************************************)
(* What a token was paid with.  A request mints only after it has passed   *)
(* the gates of its ticket, its puzzle and its key; the ticket and the key *)
(* let nobody else pass, the puzzle nobody before its last instant.        *)
(***************************************************************************)
\* The rest of a plan that ends in a minting.
MintPlans ==
    {<<"challenge", "nullifier", "vdf", "pqc", "mint">>, <<"nullifier", "vdf", "pqc", "mint">>,
     <<"vdf", "pqc", "mint">>, <<"pqc", "mint">>, <<"mint">>}

Mints(r) == \E i \in 1..Len(todo[r]) : todo[r][i] = "mint"

PaidTicket(r) == <<"nullifier", NullifierOf(r), r>> \in passed
PaidPuzzle(r) == <<"vdf", req[r].v, r>> \in passed
PaidKey(r) == <<"pqc", req[r].q, r>> \in passed

\* A request that will mint has paid at the gates it is past.
PaysAtGates(r) ==
    Mints(r) =>
        /\ todo[r] \in MintPlans
        /\ Head(todo[r]) \in {"vdf", "pqc", "mint"} => PaidTicket(r)
        /\ Head(todo[r]) \in {"pqc", "mint"} => PaidPuzzle(r)
        /\ Head(todo[r]) = "mint" => PaidKey(r)

PlansPaid == \A r \in Requests : PaysAtGates(r)

MintsPaid ==
    \A r \in Requests : minted[r] # None => PaidTicket(r) /\ PaidPuzzle(r) /\ PaidKey(r)

\* A puzzle that was used is in the store until its last instant, unless the
\* server was restarted, and up to that instant nobody else has used it.
Closed(v) == issued[v].boot # boot \/ vdfUsed[v] = Expires(v) \/ Expires(v) <= now

PuzzlesOK ==
    /\ vdfUsed \in [Challenges -> Nat]
    /\ \A x \in passed : x[1] = "vdf" =>
          /\ x[2] \in Challenges /\ issued[x[2]] # None /\ Closed(x[2])
          /\ \A y \in passed : y[1] = "vdf" /\ y[2] = x[2] => x = y \/ Expires(x[2]) <= now

\* The inductive invariant, with GInv and KInv.
OInv == PlansPaid /\ MintsPaid /\ PuzzlesOK

\* What follows a gate of such a plan.
LEMMA RestOfMintPlan ==
    ASSUME NEW p \in MintPlans, Tail(p) # <<>>
    PROVE  /\ Tail(p) \in MintPlans
           /\ Head(Tail(p)) \in {"vdf", "pqc", "mint"} => Head(p) \in {"nullifier", "vdf", "pqc"}
           /\ Head(Tail(p)) \in {"pqc", "mint"} => Head(p) \in {"vdf", "pqc"}
           /\ Head(Tail(p)) = "mint" => Head(p) = "pqc"
<1>1. CASE p = <<"challenge", "nullifier", "vdf", "pqc", "mint">>
  <2>1. Tail(p) = <<"nullifier", "vdf", "pqc", "mint">>
    BY <1>1
  <2> QED
    BY <1>1, <2>1 DEF MintPlans
<1>2. CASE p = <<"nullifier", "vdf", "pqc", "mint">>
  <2>1. Tail(p) = <<"vdf", "pqc", "mint">>
    BY <1>2
  <2> QED
    BY <1>2, <2>1 DEF MintPlans
<1>3. CASE p = <<"vdf", "pqc", "mint">>
  <2>1. Tail(p) = <<"pqc", "mint">>
    BY <1>3
  <2> QED
    BY <1>3, <2>1 DEF MintPlans
<1>4. CASE p = <<"pqc", "mint">>
  <2>1. Tail(p) = <<"mint">>
    BY <1>4
  <2> QED
    BY <1>4, <2>1 DEF MintPlans
<1>5. CASE p = <<"mint">>
  <2>1. Tail(p) = <<>>
    BY <1>5
  <2> QED
    BY <2>1
<1> QED
  BY <1>1, <1>2, <1>3, <1>4, <1>5 DEF MintPlans

\* A gate adds to what its request has paid; a token is minted by one that has
\* paid everything.
LEMMA GatePays ==
    ASSUME GInv, PlansPaid, MintsPaid, NEW r \in Requests, NEW gate, NEW item, At(r, gate),
           Proceed(r, gate, item) \/ Finish(r, gate, item) \/ Refuse(r),
           gate = "nullifier" => item = NullifierOf(r),
           gate = "vdf" => item = req[r].v,
           gate = "pqc" => item = req[r].q,
           \A s \in Requests : (s = r /\ gate = "mint") \/ minted'[s] = minted[s]
    PROVE  PlansPaid' /\ MintsPaid'
<1>1. /\ req' = req
      /\ \A s \in Requests \ {r} : todo'[s] = todo[s]
      /\ todo'[r] = <<>> \/ (todo'[r] = Tail(todo[r]) /\ <<gate, item, r>> \in passed')
      /\ passed \subseteq passed'
      /\ todo[r] \in Seq(GateNames) /\ todo[r] # <<>> /\ todo[r][1] = gate
  BY PlanAfterGate
<1>2. \A s : /\ PaidTicket(s)' <=> <<"nullifier", NullifierOf(s), s>> \in passed'
             /\ PaidPuzzle(s)' <=> <<"vdf", req[s].v, s>> \in passed'
             /\ PaidKey(s)' <=> <<"pqc", req[s].q, s>> \in passed'
  BY <1>1 DEF PaidTicket, PaidPuzzle, PaidKey, NullifierOf
<1>3. \A s : /\ PaidTicket(s) => PaidTicket(s)'
             /\ PaidPuzzle(s) => PaidPuzzle(s)'
             /\ PaidKey(s) => PaidKey(s)'
  BY <1>1, <1>2 DEF PaidTicket, PaidPuzzle, PaidKey
<1>4. PaysAtGates(r)'
  <2> SUFFICES ASSUME Mints(r)'
               PROVE  /\ todo'[r] \in MintPlans
                      /\ Head(todo'[r]) \in {"vdf", "pqc", "mint"} => PaidTicket(r)'
                      /\ Head(todo'[r]) \in {"pqc", "mint"} => PaidPuzzle(r)'
                      /\ Head(todo'[r]) = "mint" => PaidKey(r)'
    BY DEF PaysAtGates, MintPlans
  <2>1. todo'[r] # <<>>
    BY DEF Mints
  <2>2. todo'[r] = Tail(todo[r]) /\ <<gate, item, r>> \in passed'
    BY <1>1, <2>1
  <2>3. Mints(r)
    <3>1. PICK i \in 1..Len(Tail(todo[r])) : Tail(todo[r])[i] = "mint"
      BY <2>2 DEF Mints
    <3>2. i + 1 \in 1..Len(todo[r]) /\ Tail(todo[r])[i] = todo[r][i + 1]
      BY <1>1, ShorterPlan
    <3> QED
      BY <3>1, <3>2 DEF Mints
  <2>4. /\ todo[r] \in MintPlans /\ Head(todo[r]) = gate
        /\ Head(todo[r]) \in {"vdf", "pqc", "mint"} => PaidTicket(r)
        /\ Head(todo[r]) \in {"pqc", "mint"} => PaidPuzzle(r)
    BY <1>1, <2>3 DEF PlansPaid, PaysAtGates
  <2>5. PICK p \in MintPlans : p = todo[r]
    BY <2>4
  <2>6. /\ Tail(p) \in MintPlans
        /\ Head(Tail(p)) \in {"vdf", "pqc", "mint"} => Head(p) \in {"nullifier", "vdf", "pqc"}
        /\ Head(Tail(p)) \in {"pqc", "mint"} => Head(p) \in {"vdf", "pqc"}
        /\ Head(Tail(p)) = "mint" => Head(p) = "pqc"
    BY <2>1, <2>2, <2>5, RestOfMintPlan
  <2>7. /\ gate = "nullifier" => PaidTicket(r)'
        /\ gate = "vdf" => PaidPuzzle(r)'
        /\ gate = "pqc" => PaidKey(r)'
    BY <1>2, <2>2
  <2> QED
    BY <1>3, <2>2, <2>4, <2>5, <2>6, <2>7
<1>5. ASSUME NEW s \in Requests \ {r} PROVE PaysAtGates(s)'
  <2>1. PaysAtGates(s) /\ todo'[s] = todo[s] /\ (Mints(s)' <=> Mints(s))
    BY <1>1 DEF PlansPaid, Mints
  <2> QED
    BY <1>3, <2>1 DEF PaysAtGates, MintPlans
<1>6. ASSUME NEW s \in Requests, minted'[s] # None
      PROVE  PaidTicket(s)' /\ PaidPuzzle(s)' /\ PaidKey(s)'
  <2>1. CASE minted'[s] = minted[s]
    BY <1>3, <1>6, <2>1 DEF MintsPaid
  <2>2. CASE s = r /\ gate = "mint"
    <3>1. Mints(r) /\ Head(todo[r]) = "mint"
      BY <1>1, <2>2 DEF Mints
    <3> QED
      BY <1>3, <2>2, <3>1 DEF PlansPaid, PaysAtGates
  <2> QED
    BY <2>1, <2>2
<1> QED
  BY <1>4, <1>5, <1>6 DEF PlansPaid, MintsPaid

\* A step that leaves the used puzzles alone and lets no time but good time
\* pass keeps them in order.
LEMMA PuzzlesKept ==
    ASSUME PuzzlesOK, IssuedOK, UNCHANGED <<boot, vdfUsed>>,
           now \in Nat, now' \in Nat, now <= now',
           \A c \in Challenges : issued[c] # None => issued'[c] = issued[c],
           \A x \in passed' : x[1] = "vdf" => x \in passed
    PROVE  PuzzlesOK'
<1>1. ASSUME NEW v \in Challenges, issued[v] # None
      PROVE  /\ Expires(v) \in Nat /\ Expires(v)' = Expires(v) /\ issued'[v] = issued[v]
             /\ Expires(v) <= now => Expires(v) <= now'
  <2>1. issued[v].at \in Nat
    BY <1>1 DEF IssuedOK, Challenge
  <2>2. Expires(v) \in Nat /\ Expires(v)' = Expires(v)
    BY <1>1, <2>1, GateAssumption DEF Expires
  <2> QED
    BY <1>1, <2>2
<1>2. ASSUME NEW x \in passed', x[1] = "vdf"
      PROVE  /\ x[2] \in Challenges /\ issued'[x[2]] # None /\ Closed(x[2])'
             /\ \A y \in passed' : y[1] = "vdf" /\ y[2] = x[2] => x = y \/ Expires(x[2])' <= now'
  <2>1. /\ x \in passed /\ x[2] \in Challenges /\ issued[x[2]] # None /\ Closed(x[2])
        /\ \A y \in passed : y[1] = "vdf" /\ y[2] = x[2] => x = y \/ Expires(x[2]) <= now
    BY <1>2 DEF PuzzlesOK
  <2>2. /\ Expires(x[2])' = Expires(x[2]) /\ issued'[x[2]] = issued[x[2]]
        /\ Expires(x[2]) <= now => Expires(x[2]) <= now'
    BY <2>1, <1>1
  <2>3. Closed(x[2])'
    BY <2>1, <2>2 DEF Closed
  <2> QED
    BY <2>1, <2>2, <2>3
<1>3. vdfUsed' \in [Challenges -> Nat]
  BY DEF PuzzlesOK
<1> QED
  BY <1>2, <1>3 DEF PuzzlesOK

\* The gate of the puzzle: who passes with one that was used before comes at
\* its last instant.
LEMMA PuzzleGate ==
    ASSUME GInv, KInv, OInv, NEW r \in Requests, verify_and_consume_vdf(r)
    PROVE  PuzzlesOK'
<1>0. At(r, "vdf") /\ UNCHANGED <<now, boot, issued>>
  BY DEF verify_and_consume_vdf
<1>1. req[r].v \in Challenges /\ issued[req[r].v] # None
  <2>1. 1 \in 1..Len(todo[r]) /\ todo[r][1] = "vdf"
    BY <1>0 DEF GInv, TodoOK, At
  <2> QED
    BY <2>1 DEF KInv, RequestsOK, Fits
<1>2. PICK v \in Challenges : v = req[r].v
  BY <1>1
<1>a. PICK t1 \in Stamps(issued[v].at) : \E t2 \in Stamps(t1) :
        \/ /\ Signed(issued[v]) /\ ~(Retain(vdfUsed, t2)[v] > t2)
           /\ vdfUsed' = [Retain(vdfUsed, t2) EXCEPT ![v] = Expires(v)]
           /\ Proceed(r, "vdf", v)
        \/ vdfUsed' = Retain(vdfUsed, t2) /\ Refuse(r)
        \/ UNCHANGED vdfUsed /\ Refuse(r)
  BY <1>2 DEF verify_and_consume_vdf
<1>3. PICK t2 \in Stamps(t1) :
        \/ /\ Signed(issued[v]) /\ ~(Retain(vdfUsed, t2)[v] > t2)
           /\ vdfUsed' = [Retain(vdfUsed, t2) EXCEPT ![v] = Expires(v)]
           /\ Proceed(r, "vdf", v)
        \/ vdfUsed' = Retain(vdfUsed, t2) /\ Refuse(r)
        \/ UNCHANGED vdfUsed /\ Refuse(r)
  BY <1>a
<1>4. now \in Nat /\ t2 \in Nat /\ t2 <= now
  <2>1. now \in Nat /\ issued[v].at \in Nat
    BY <1>1, <1>2, ClosingNat DEF GInv
  <2>2. t1 \in Nat
    BY <2>1, StampBounds
  <2> QED
    BY <2>1, <2>2, StampBounds
<1>5. ASSUME NEW d \in Challenges, issued[d] # None
      PROVE  Expires(d) \in Nat /\ Expires(d)' = Expires(d) /\ issued'[d] = issued[d]
  <2>1. issued[d].at \in Nat
    BY <1>5, ClosingNat DEF GInv
  <2> QED
    BY <1>0, <2>1, GateAssumption DEF Expires
<1>6. /\ vdfUsed \in [Challenges -> Nat] /\ Retain(vdfUsed, t2) \in [Challenges -> Nat]
      /\ \A d \in Challenges : Retain(vdfUsed, t2)[d] = vdfUsed[d] \/ vdfUsed[d] <= t2
  <2>1. vdfUsed \in [Challenges -> Nat]
    BY DEF OInv, PuzzlesOK
  <2> QED
    BY <1>4, <2>1 DEF Retain
<1>7. ASSUME NEW d \in Challenges, issued[d] # None, Closed(d),
             vdfUsed'[d] \in {vdfUsed[d], Retain(vdfUsed, t2)[d]}
      PROVE  Closed(d)'
  <2>1. CASE vdfUsed'[d] = vdfUsed[d]
    BY <1>0, <1>5, <1>7, <2>1 DEF Closed
  <2>2. CASE vdfUsed[d] <= t2 /\ vdfUsed[d] = Expires(d)
    <3>1. Expires(d) <= now
      BY <1>4, <1>5, <1>7, <2>2
    <3> QED
      BY <1>0, <1>5, <1>7, <3>1 DEF Closed
  <2>3. CASE vdfUsed[d] # Expires(d)
    BY <1>0, <1>5, <1>7, <2>3 DEF Closed
  <2> QED
    BY <1>6, <1>7, <2>1, <2>2, <2>3
<1>8. CASE Refuse(r) /\ (vdfUsed' = Retain(vdfUsed, t2) \/ UNCHANGED vdfUsed)
  <2>1. passed' = passed
    BY <1>8 DEF Refuse
  <2>2. /\ vdfUsed' \in [Challenges -> Nat]
        /\ \A d \in Challenges : vdfUsed'[d] \in {vdfUsed[d], Retain(vdfUsed, t2)[d]}
    <3>1. CASE vdfUsed' = Retain(vdfUsed, t2)
      BY <1>6, <3>1
    <3>2. CASE UNCHANGED vdfUsed
      BY <1>6, <3>2
    <3> QED
      BY <1>8, <3>1, <3>2
  <2>3. ASSUME NEW x \in passed, x[1] = "vdf"
        PROVE  /\ x[2] \in Challenges /\ issued'[x[2]] # None /\ Closed(x[2])'
               /\ \A y \in passed : y[1] = "vdf" /\ y[2] = x[2] => x = y \/ Expires(x[2])' <= now'
    <3>1. /\ x[2] \in Challenges /\ issued[x[2]] # None /\ Closed(x[2])
          /\ \A y \in passed : y[1] = "vdf" /\ y[2] = x[2] => x = y \/ Expires(x[2]) <= now
      BY <2>3 DEF OInv, PuzzlesOK
    <3> QED
      BY <3>1, <1>0, <1>5, <1>7, <2>2
  <2> QED
    BY <2>1, <2>2, <2>3 DEF PuzzlesOK
<1>9. CASE /\ Signed(issued[v]) /\ ~(Retain(vdfUsed, t2)[v] > t2)
           /\ vdfUsed' = [Retain(vdfUsed, t2) EXCEPT ![v] = Expires(v)]
           /\ Proceed(r, "vdf", v)
  <2>1. passed' = passed \cup {<<"vdf", v, r>>}
    BY <1>9 DEF Proceed
  <2>2. Expires(v) \in Nat /\ Expires(v)' = Expires(v) /\ issued[v] # None
    BY <1>1, <1>2, <1>5
  <2>3. /\ vdfUsed' \in [Challenges -> Nat] /\ vdfUsed'[v] = Expires(v)
        /\ \A d \in Challenges \ {v} : vdfUsed'[d] = Retain(vdfUsed, t2)[d]
    BY <1>6, <1>9, <2>2
  <2>4. (\E x \in passed : x[1] = "vdf" /\ x[2] = v) => Expires(v) <= now
    <3> SUFFICES ASSUME NEW x \in passed, x[1] = "vdf", x[2] = v PROVE Expires(v) <= now
      OBVIOUS
    <3>1. Closed(v) /\ issued[v].boot = boot
      BY <1>9 DEF OInv, PuzzlesOK, Signed
    <3>2. CASE vdfUsed[v] = Expires(v)
      <4>1. Retain(vdfUsed, t2)[v] \in Nat /\ ~(Retain(vdfUsed, t2)[v] > t2) /\ vdfUsed[v] \in Nat
        BY <1>6, <1>9
      <4>2. vdfUsed[v] <= t2
        BY <1>4, <1>6, <4>1
      <4> QED
        BY <1>4, <2>2, <3>2, <4>2
    <3> QED
      BY <3>1, <3>2 DEF Closed
  <2>5. Closed(v)'
    BY <2>2, <2>3 DEF Closed
  <2>6. ASSUME NEW x \in passed', x[1] = "vdf"
        PROVE  /\ x[2] \in Challenges /\ issued'[x[2]] # None /\ Closed(x[2])'
               /\ \A y \in passed' : y[1] = "vdf" /\ y[2] = x[2] => x = y \/ Expires(x[2])' <= now'
    <3>1. CASE x[2] = v
      <4>1. \A y \in passed' : y = <<"vdf", v, r>> \/ y \in passed
        BY <2>1
      <4>2. ASSUME NEW y \in passed', y[1] = "vdf", y[2] = v, x # y PROVE Expires(v) <= now
        <5>1. \E z \in passed : z[1] = "vdf" /\ z[2] = v
          BY <3>1, <4>1, <4>2, <2>6
        <5> QED
          BY <5>1, <2>4
      <4> QED
        BY <1>0, <2>2, <2>5, <3>1, <4>2
    <3>2. CASE x[2] # v
      <4>1. x \in passed
        BY <2>1, <3>2
      <4>2. /\ x[2] \in Challenges /\ issued[x[2]] # None /\ Closed(x[2])
            /\ \A y \in passed : y[1] = "vdf" /\ y[2] = x[2] => x = y \/ Expires(x[2]) <= now
        BY <2>6, <4>1 DEF OInv, PuzzlesOK
      <4>3. Closed(x[2])' /\ Expires(x[2])' = Expires(x[2]) /\ issued'[x[2]] = issued[x[2]]
        BY <1>5, <1>7, <2>3, <3>2, <4>2
      <4>4. \A y \in passed' : y[2] = x[2] => y \in passed
        BY <2>1, <3>2
      <4> QED
        BY <1>0, <4>2, <4>3, <4>4
    <3> QED
      BY <3>1, <3>2
  <2> QED
    BY <2>3, <2>6 DEF PuzzlesOK
<1> QED
  BY <1>3, <1>8, <1>9

\* A request that arrives has paid nothing and minted nothing.
LEMMA ArrivalPays ==
    ASSUME GInv, KInv, OInv, NEW r \in Requests, NEW what, NEW plan, Begin(r, what, plan),
           plan = <<"challenge", "nullifier", "vdf", "pqc", "mint">>
              \/ \A i \in 1..Len(plan) : plan[i] # "mint"
    PROVE  OInv'
<1>1. /\ req[r] = Idle /\ UNCHANGED <<now, boot, issued, vdfUsed, minted, passed>>
      /\ todo'[r] = plan
      /\ \A s \in Requests \ {r} : req'[s] = req[s] /\ todo'[s] = todo[s]
  BY DEF Begin, stores, GInv, TodoOK
<1>2. minted[r] = None
  BY <1>1 DEF KInv, RequestsOK
<1>3. ASSUME NEW s \in Requests \ {r}
      PROVE  /\ PaidTicket(s)' <=> PaidTicket(s)
             /\ PaidPuzzle(s)' <=> PaidPuzzle(s)
             /\ PaidKey(s)' <=> PaidKey(s)
  BY <1>1 DEF PaidTicket, PaidPuzzle, PaidKey, NullifierOf
<1>4. PaysAtGates(r)'
  <2>1. CASE plan = <<"challenge", "nullifier", "vdf", "pqc", "mint">>
    <3>1. todo'[r] = <<"challenge", "nullifier", "vdf", "pqc", "mint">>
      BY <1>1, <2>1
    <3>2. Head(todo'[r]) = "challenge" /\ todo'[r] \in MintPlans
      BY <3>1 DEF MintPlans
    <3> QED
      BY <3>2 DEF PaysAtGates, MintPlans
  <2>2. CASE \A i \in 1..Len(plan) : plan[i] # "mint"
    BY <1>1, <2>2 DEF PaysAtGates, Mints
  <2> QED
    BY <2>1, <2>2
<1>5. \A s \in Requests \ {r} : PaysAtGates(s)'
  <2> SUFFICES ASSUME NEW s \in Requests \ {r} PROVE PaysAtGates(s)'
    OBVIOUS
  <2>1. PaysAtGates(s) /\ todo'[s] = todo[s] /\ (Mints(s)' <=> Mints(s))
    BY <1>1 DEF OInv, PlansPaid, Mints
  <2> QED
    BY <1>3, <2>1 DEF PaysAtGates, MintPlans
<1>6. MintsPaid'
  BY <1>1, <1>2, <1>3 DEF OInv, MintsPaid
<1>7. PuzzlesOK'
  BY <1>1, PuzzlesKept DEF OInv, GInv
<1> QED
  BY <1>4, <1>5, <1>6, <1>7 DEF OInv, PlansPaid

\* The five kinds of request: one of them mints.
LEMMA ArrivalsPay ==
    ASSUME GInv, KInv, OInv, NEW r \in Requests,
           \/ redeem_cap_challenge(r) \/ auth_register_handler(r) \/ auth_login_handler(r)
           \/ WithToken(r) \/ phantom_deposit(r)
    PROVE  OInv'
<1>1. ASSUME NEW what, NEW plan \in {<<"nullifier", "vdf", "pqc", "serve">>, <<"nullifier", "vdf", "serve">>,
                                     <<"token", "serve">>, <<"nullifier", "token", "store">>},
             Begin(r, what, plan)
      PROVE  OInv'
  <2>1. \A i \in 1..Len(plan) : plan[i] # "mint"
    OBVIOUS
  <2> QED
    BY <1>1, <2>1, ArrivalPays
<1>2. CASE redeem_cap_challenge(r)
  <2>1. PICK what : Begin(r, what, <<"challenge", "nullifier", "vdf", "pqc", "mint">>)
    BY <1>2 DEF redeem_cap_challenge
  <2>2. PICK plan : plan = <<"challenge", "nullifier", "vdf", "pqc", "mint">>
    OBVIOUS
  <2>3. Begin(r, what, plan)
    BY <2>1, <2>2
  <2> QED
    BY <2>2, <2>3, ArrivalPays
<1>3. CASE auth_register_handler(r)
  <2>1. PICK what : Begin(r, what, <<"nullifier", "vdf", "pqc", "serve">>)
    BY <1>3 DEF auth_register_handler
  <2> QED
    BY <1>1, <2>1
<1>4. CASE auth_login_handler(r)
  <2>1. PICK what : \/ Begin(r, what, <<"nullifier", "vdf", "serve">>)
                    \/ Begin(r, what, <<"nullifier", "vdf", "pqc", "serve">>)
    BY <1>4 DEF auth_login_handler
  <2> QED
    BY <1>1, <2>1
<1>5. CASE WithToken(r)
  <2>1. PICK what : Begin(r, what, <<"token", "serve">>)
    BY <1>5 DEF WithToken
  <2> QED
    BY <1>1, <2>1
<1>6. CASE phantom_deposit(r)
  <2>1. PICK what : Begin(r, what, <<"nullifier", "token", "store">>)
    BY <1>6 DEF phantom_deposit
  <2> QED
    BY <1>1, <2>1
<1> QED
  BY <1>2, <1>3, <1>4, <1>5, <1>6

\* A gate other than that of the puzzle.
LEMMA OtherGatePays ==
    ASSUME GInv, KInv, OInv, NEW r \in Requests, NEW gate, NEW item, At(r, gate),
           Proceed(r, gate, item) \/ Finish(r, gate, item) \/ Refuse(r),
           gate # "vdf", UNCHANGED <<now, boot, issued, vdfUsed>>,
           gate = "nullifier" => item = NullifierOf(r),
           gate = "pqc" => item = req[r].q,
           \A s \in Requests : (s = r /\ gate = "mint") \/ minted'[s] = minted[s]
    PROVE  OInv'
<1>1. PlansPaid' /\ MintsPaid'
  BY GatePays DEF OInv
<1>2. passed' \subseteq passed \cup {<<gate, item, r>>}
  BY PlanAfterGate
<1>3. PuzzlesOK'
  <2>1. \A x \in passed' : x[1] = "vdf" => x \in passed
    BY <1>2
  <2>2. now \in Nat /\ now <= now /\ IssuedOK
    BY DEF GInv
  <2> QED
    BY <2>1, <2>2, PuzzlesKept DEF OInv
<1> QED
  BY <1>1, <1>3 DEF OInv

\* Init establishes the invariant.
LEMMA InitOInv == Init => OInv
<1> SUFFICES ASSUME Init PROVE OInv
  OBVIOUS
<1>1. \A r \in Requests : PaysAtGates(r)
  BY DEF Init, PaysAtGates, Mints
<1> QED
  BY <1>1 DEF Init, OInv, PlansPaid, MintsPaid, PuzzlesOK

\* Every step keeps it.
LEMMA NextOInv == GInv /\ KInv /\ OInv /\ [Next]_vars => OInv'
<1> SUFFICES ASSUME GInv, KInv, OInv, [Next]_vars PROVE OInv'
  OBVIOUS
<1>1. ASSUME NEW r \in Requests, CheckChallenge(r) PROVE OInv'
  <2>1. /\ At(r, "challenge") /\ (Proceed(r, "challenge", req[r].v) \/ Refuse(r))
        /\ UNCHANGED <<now, boot, issued, vdfUsed, minted>>
    BY <1>1 DEF CheckChallenge, stores
  <2> QED
    BY <2>1, OtherGatePays
<1>2. ASSUME NEW r \in Requests, verify_and_consume_nullifier(r) PROVE OInv'
  <2>1. /\ At(r, "nullifier") /\ (Proceed(r, "nullifier", NullifierOf(r)) \/ Refuse(r))
        /\ UNCHANGED <<now, boot, issued, vdfUsed, minted>>
    BY <1>2 DEF verify_and_consume_nullifier
  <2> QED
    BY <2>1, OtherGatePays
<1>3. ASSUME NEW r \in Requests, verify_and_consume_vdf(r) PROVE OInv'
  <2>1. /\ At(r, "vdf") /\ (Proceed(r, "vdf", req[r].v) \/ Refuse(r))
        /\ minted' = minted
    BY <1>3 DEF verify_and_consume_vdf
  <2>2. PlansPaid' /\ MintsPaid'
    BY <2>1, GatePays DEF OInv
  <2> QED
    BY <1>3, <2>2, PuzzleGate DEF OInv
<1>4. ASSUME NEW r \in Requests, verify_and_decapsulate_pqc(r) PROVE OInv'
  <2>1. /\ At(r, "pqc") /\ (Proceed(r, "pqc", req[r].q) \/ Refuse(r))
        /\ UNCHANGED <<now, boot, issued, vdfUsed, minted>>
    BY <1>4 DEF verify_and_decapsulate_pqc
  <2> QED
    BY <2>1, OtherGatePays
<1>5. ASSUME NEW r \in Requests, Mint(r) PROVE OInv'
  <2>1. /\ At(r, "mint") /\ (Finish(r, "mint", req[r].v) \/ Refuse(r))
        /\ UNCHANGED <<now, boot, issued, vdfUsed>>
    BY <1>5 DEF Mint
  <2>2. \A s \in Requests : s = r \/ minted'[s] = minted[s]
    BY <1>5 DEF Mint, KInv, StoresOK
  <2> QED
    BY <2>1, <2>2, OtherGatePays
<1>6. ASSUME NEW r \in Requests, verify_and_consume_cap_token(r) PROVE OInv'
  <2>1. /\ At(r, "token") /\ (Proceed(r, "token", req[r].k) \/ Refuse(r))
        /\ UNCHANGED <<now, boot, issued, vdfUsed, minted>>
    BY <1>6 DEF verify_and_consume_cap_token
  <2> QED
    BY <2>1, OtherGatePays
<1>7. ASSUME NEW r \in Requests, Serve(r) PROVE OInv'
  <2>1. /\ At(r, "serve") /\ (Finish(r, "serve", req[r].action) \/ Refuse(r))
        /\ UNCHANGED <<now, boot, issued, vdfUsed, minted>>
    BY <1>7 DEF Serve, stores
  <2> QED
    BY <2>1, OtherGatePays
<1>8. ASSUME NEW r \in Requests, StoreEnvelope(r) PROVE OInv'
  <2>1. /\ At(r, "store") /\ (Finish(r, "store", req[r].action) \/ Refuse(r))
        /\ UNCHANGED <<now, boot, issued, vdfUsed, minted>>
    BY <1>8 DEF StoreEnvelope, stores
  <2> QED
    BY <2>1, OtherGatePays
<1>9. ASSUME UNCHANGED <<boot, vdfUsed, minted, req, todo, passed>>,
             now' \in Nat, now <= now',
             \A c \in Challenges : issued[c] # None => issued'[c] = issued[c]
      PROVE  OInv'
  <2>1. PlansPaid' /\ MintsPaid'
    BY <1>9 DEF OInv, PlansPaid, PaysAtGates, Mints, MintPlans, MintsPaid, PaidTicket, PaidPuzzle,
                PaidKey, NullifierOf
  <2>2. PuzzlesOK'
    BY <1>9, PuzzlesKept DEF OInv, GInv
  <2> QED
    BY <2>1, <2>2 DEF OInv
<1>10. ASSUME NEW c \in Challenges, generate_challenge(c) PROVE OInv'
  <2>1. /\ issued[c] = None /\ UNCHANGED <<now, boot, vdfUsed, minted, req, todo, passed>>
        /\ \A d \in Challenges \ {c} : issued'[d] = issued[d]
    <3>1. PICK scope \in Scopes, user \in Users :
            issued' = [issued EXCEPT ![c] = [scope |-> scope, user |-> user, at |-> now, boot |-> boot]]
      BY <1>10 DEF generate_challenge
    <3> QED
      BY <1>10, <3>1 DEF generate_challenge, requests, GInv, IssuedOK
  <2>2. now' \in Nat /\ now <= now'
    BY <2>1 DEF GInv
  <2>3. \A d \in Challenges : issued[d] # None => issued'[d] = issued[d]
    BY <2>1
  <2> QED
    BY <1>9, <2>1, <2>2, <2>3
<1>11. ASSUME Tick \/ UNCHANGED vars PROVE OInv'
  <2>1. /\ UNCHANGED <<boot, issued, vdfUsed, minted, req, todo, passed>>
        /\ now' \in Nat /\ now <= now'
    BY <1>11 DEF Tick, vars, stores, requests, GInv
  <2> QED
    BY <1>9, <2>1
<1>12. ASSUME Restart PROVE OInv'
  <2>1. /\ UNCHANGED <<now, issued, minted, req, passed>> /\ boot' = boot + 1
        /\ todo' = [r \in Requests |-> <<>>] /\ vdfUsed' = [c \in Challenges |-> 0]
    BY <1>12 DEF Restart
  <2>2. PlansPaid'
    BY <2>1 DEF PlansPaid, PaysAtGates, Mints
  <2>3. MintsPaid'
    BY <2>1 DEF OInv, MintsPaid, PaidTicket, PaidPuzzle, PaidKey, NullifierOf
  <2>4. \A c \in Challenges : /\ issued[c] # None => issued[c].boot # boot'
                              /\ Expires(c)' = Expires(c)
    BY <2>1 DEF GInv, IssuedOK, Challenge, Expires
  <2>5. PuzzlesOK'
    <3>1. \A x \in passed : x[1] = "vdf" => x[2] \in Challenges /\ issued[x[2]] # None
      BY DEF OInv, PuzzlesOK
    <3>2. \A x \in passed : x[1] = "vdf" => Closed(x[2])'
      BY <2>1, <2>4, <3>1 DEF Closed
    <3> QED
      BY <2>1, <2>4, <3>1, <3>2 DEF OInv, PuzzlesOK
  <2> QED
    BY <2>2, <2>3, <2>5 DEF OInv
<1> QED
  BY <1>1, <1>2, <1>3, <1>4, <1>5, <1>6, <1>7, <1>8, <1>10, <1>11, <1>12, ArrivalsPay DEF Next

\* No two tokens were paid for with the same ticket for the same scope, with
\* the same KEM key or, before its last instant, with the same puzzle, and a
\* token opens one gate, however requests combine the parts of challenges,
\* across retries and restarts (redeem_cap_challenge,
\* verify_and_consume_cap_token).
THEOREM GrantedOnce == Spec => []GrantsPaidOnce
<1>1. GInv /\ KInv /\ OInv => GrantsPaidOnce
  <2> SUFFICES ASSUME GInv, KInv, OInv, NEW r \in Requests, NEW s \in Requests,
                      r # s, minted[r] # None, minted[s] # None
               PROVE  /\ NullifierOf(r) # NullifierOf(s)
                      /\ req[r].q # req[s].q
                      /\ req[r].v = req[s].v => now >= Expires(req[r].v)
    BY DEF KInv, GrantsPaidOnce
  <2>1. /\ <<"nullifier", NullifierOf(r), r>> \in passed /\ <<"nullifier", NullifierOf(s), s>> \in passed
        /\ <<"pqc", req[r].q, r>> \in passed /\ <<"pqc", req[s].q, s>> \in passed
        /\ <<"vdf", req[r].v, r>> \in passed /\ <<"vdf", req[s].v, s>> \in passed
    BY DEF OInv, MintsPaid, PaidTicket, PaidPuzzle, PaidKey
  <2>2. NullifierOf(r) # NullifierOf(s)
    BY <2>1 DEF GInv, NullifierOnce, Once
  <2>3. req[r].q # req[s].q
    BY <2>1 DEF KInv, Once
  <2>4. ASSUME req[r].v = req[s].v PROVE now >= Expires(req[r].v)
    <3>1. /\ req[r].v \in Challenges /\ issued[req[r].v] # None
          /\ <<"vdf", req[r].v, r>> = <<"vdf", req[s].v, s>> \/ Expires(req[r].v) <= now
      BY <2>1, <2>4 DEF OInv, PuzzlesOK
    <3>2. Expires(req[r].v) \in Nat /\ now \in Nat
      BY <3>1, ClosingNat, GateAssumption DEF Expires, GInv
    <3> QED
      BY <3>1, <3>2
  <2> QED
    BY <2>2, <2>3, <2>4
<1> QED
  BY <1>1, InitGInv, NextGInv, InitKInv, NextKInv, InitOInv, NextOInv, PTL DEF Spec
-----------------------------------------------------------------------------
(***************************************************************************)
(* The first redemption of a challenge.  A gate refuses it only late, or   *)
(* because another request has presented the part the gate asks for.       *)
(***************************************************************************)
Redeeming == {"challenge", "nullifier", "vdf", "pqc", "mint"}

Past(s, gate) == \A i \in 1..Len(todo[s]) : todo[s][i] # gate

NoGateTwice(plan) == \A i, j \in 1..Len(plan) : plan[i] = plan[j] => i = j

\* A redemption presents a quota token at the gates of its plan.
RedeemOK(r) ==
    req[r].kind = "redeem" =>
        /\ req[r].c \in Challenges /\ issued[req[r].c] # None /\ req[r].t <= now
        /\ \A i \in 1..Len(todo[r]) : todo[r][i] \in Redeeming

RedeemsOK == \A r \in Requests : RedeemOK(r) /\ NoGateTwice(todo[r])

\* A request that has presented a part and is past the gate that takes it.
TicketSpender(c) == \E s \in Requests : req[s].c = c /\ Past(s, "nullifier")
PuzzleSpender(v) == \E s \in Requests : req[s].v = v /\ Past(s, "vdf")
KeySpender(q) == \E s \in Requests : req[s].q = q /\ Past(s, "pqc")

\* What the stores hold against a challenge, or no longer hold for it, is the
\* doing of such a request, or of a restart, or the key's time has come.
SpendersOK ==
    /\ DOMAIN vdfUsed = Challenges
    /\ \A key \in Keys : nullifiers[key] # 0 => TicketSpender(key[1])
    /\ \A v \in Challenges : vdfUsed[v] # 0 => PuzzleSpender(v)
    /\ \A q \in Challenges : issued[q] # None /\ issued[q].boot = boot =>
          pqcKeys[q] = Expires(q) \/ Expires(q) <= now \/ KeySpender(q)

EndsOK ==
    /\ DOMAIN result = Requests /\ DOMAIN ended = Requests
    /\ \A r \in Requests : req[r] = Idle => result[r] # "refused" /\ todo[r] = <<>>

\* The inductive invariant, with GInv, KInv and OInv.
PInv == RedeemsOK /\ SpendersOK /\ EndsOK /\ PunctualRedeemed

Late(r) ==
    \/ Epoch(ended[r]) > Epoch(issued[req[r].c].at) + Back
    \/ ended[r] > Expires(req[r].c)

Punctual(r) == RefusedOutright(r) => Late(r)

\* Later instants are in later epochs.
LEMMA EpochMonotone ==
    ASSUME NEW t \in Nat, NEW u \in Nat, t <= u
    PROVE  Epoch(t) <= Epoch(u)
<1>1. PICK d \in Nat, e \in Nat : d = Epoch(t) /\ e = Epoch(u)
  BY EpochBounds
<1>2. d * Window <= t /\ u < (e + 1) * Window
  BY <1>1, EpochBounds
<1>3. e + 1 <= d => (e + 1) * Window <= d * Window
  BY <1>1, GateAssumption, TimesMonotone
<1>4. d * Window \in Nat /\ (e + 1) * Window \in Nat
  BY <1>1, GateAssumption
<1> QED
  BY <1>1, <1>2, <1>3, <1>4

\* When the key of a challenge has expired, so has its quota token.
LEMMA KeyOutlivesTicket ==
    ASSUME NEW c, issued[c].at \in Nat, NEW t \in Nat, Expires(c) <= t
    PROVE  Epoch(t) > Epoch(issued[c].at) + Back
<1>1. PICK d \in Nat, e \in Nat : d = Epoch(issued[c].at) /\ e = Epoch(t)
  BY EpochBounds
<1>2. d * Window <= issued[c].at /\ t < (e + 1) * Window
  BY <1>1, EpochBounds
<1>3. (d + Back + 1) * Window = d * Window + (Back + 1) * Window
  BY <1>1, GateAssumption
<1>4. e + 1 <= d + Back + 1 => (e + 1) * Window <= (d + Back + 1) * Window
  BY <1>1, GateAssumption, TimesMonotone
<1>5. /\ d * Window \in Nat /\ (e + 1) * Window \in Nat /\ (Back + 1) * Window \in Nat
      /\ (d + Back + 1) * Window \in Nat
  BY <1>1, GateAssumption
<1>6. issued[c].at + ChallengeTtl <= t
  BY DEF Expires
<1>7. d * Window + (Back + 1) * Window <= t
  BY <1>2, <1>5, <1>6, PartsAssumption, GateAssumption
<1>8. ~(e + 1 <= d + Back + 1)
  BY <1>2, <1>3, <1>4, <1>5, <1>7
<1> QED
  BY <1>1, <1>8, GateAssumption

\* What pruning leaves in a store was there before.
LEMMA RetainInvents ==
    ASSUME NEW f, NEW t, NEW k \in DOMAIN f, Retain(f, t)[k] # 0
    PROVE  Retain(f, t)[k] = f[k]
  BY DEF Retain

\* A plan without its first gate does not come back to that gate.
LEMMA RestOfPlan ==
    ASSUME NEW p \in Seq(GateNames), p # <<>>, NoGateTwice(p)
    PROVE  /\ NoGateTwice(Tail(p))
           /\ \A i \in 1..Len(Tail(p)) : Tail(p)[i] # p[1]
           /\ \A i \in 1..Len(Tail(p)) : \E j \in 1..Len(p) : Tail(p)[i] = p[j]
<1>1. /\ Len(p) \in Nat /\ Len(Tail(p)) = Len(p) - 1 /\ 1 \in 1..Len(p)
  OBVIOUS
<1>2. \A i \in 1..Len(Tail(p)) : Tail(p)[i] = p[i + 1] /\ i + 1 \in 1..Len(p) /\ i \in Nat /\ i + 1 # 1
  BY <1>1
<1>3. NoGateTwice(Tail(p))
  <2> SUFFICES ASSUME NEW i \in 1..Len(Tail(p)), NEW j \in 1..Len(Tail(p)), Tail(p)[i] = Tail(p)[j]
               PROVE  i = j
    BY DEF NoGateTwice
  <2>1. i + 1 = j + 1
    BY <1>2 DEF NoGateTwice
  <2> QED
    BY <2>1, <1>2
<1>4. \A i \in 1..Len(Tail(p)) : Tail(p)[i] # p[1]
  BY <1>1, <1>2 DEF NoGateTwice
<1> QED
  BY <1>2, <1>3, <1>4

\* Who is past a gate stays past it, and who passes it gets past it.
LEMMA GateKeepsPast ==
    ASSUME GInv, RedeemsOK, NEW r \in Requests, NEW gate, NEW item, At(r, gate),
           Proceed(r, gate, item) \/ Finish(r, gate, item) \/ Refuse(r),
           UNCHANGED <<now, issued>>
    PROVE  /\ RedeemsOK' /\ req' = req
           /\ \A s \in Requests : \A g : Past(s, g) => Past(s, g)'
           /\ Past(r, gate)'
<1>1. /\ req' = req
      /\ \A s \in Requests \ {r} : todo'[s] = todo[s]
      /\ todo'[r] = <<>> \/ todo'[r] = Tail(todo[r])
      /\ todo[r] \in Seq(GateNames) /\ todo[r] # <<>> /\ todo[r][1] = gate
  BY PlanAfterGate
<1>2. /\ NoGateTwice(todo'[r])
      /\ \A i \in 1..Len(todo'[r]) : todo'[r][i] # gate /\ \E j \in 1..Len(todo[r]) : todo'[r][i] = todo[r][j]
  <2> DEFINE p == todo[r]
  <2>1. p \in Seq(GateNames) /\ p # <<>> /\ NoGateTwice(p) /\ p[1] = gate
    BY <1>1 DEF RedeemsOK
  <2> HIDE DEF p
  <2>2. CASE todo'[r] = <<>>
    BY <2>2 DEF NoGateTwice
  <2>3. CASE todo'[r] = Tail(todo[r])
    <3>1. /\ NoGateTwice(Tail(p))
          /\ \A i \in 1..Len(Tail(p)) : Tail(p)[i] # p[1]
          /\ \A i \in 1..Len(Tail(p)) : \E j \in 1..Len(p) : Tail(p)[i] = p[j]
      BY <2>1, RestOfPlan
    <3>2. todo'[r] = Tail(p)
      BY <2>3 DEF p
    <3>3. /\ NoGateTwice(todo'[r])
          /\ \A i \in 1..Len(todo'[r]) : todo'[r][i] # gate /\ \E j \in 1..Len(p) : todo'[r][i] = p[j]
      BY <2>1, <3>1, <3>2
    <3> QED
      BY <3>3 DEF p
  <2> QED
    BY <1>1, <2>2, <2>3
<1>3. \A s \in Requests : \A g : Past(s, g) => Past(s, g)'
  <2> SUFFICES ASSUME NEW s \in Requests, NEW g, Past(s, g) PROVE Past(s, g)'
    OBVIOUS
  <2>1. CASE s = r
    BY <2>1, <1>2 DEF Past
  <2>2. CASE s # r
    BY <2>2, <1>1 DEF Past
  <2> QED
    BY <2>1, <2>2
<1>4. Past(r, gate)'
  BY <1>2 DEF Past
<1>5. RedeemsOK'
  <2> SUFFICES ASSUME NEW s \in Requests PROVE RedeemOK(s)' /\ NoGateTwice(todo'[s])
    BY DEF RedeemsOK, NoGateTwice
  <2>1. RedeemOK(s) /\ NoGateTwice(todo[s])
    BY DEF RedeemsOK
  <2>2. CASE s = r
    BY <2>1, <2>2, <1>1, <1>2 DEF RedeemOK
  <2>3. CASE s # r
    BY <2>1, <2>3, <1>1 DEF RedeemOK
  <2> QED
    BY <2>2, <2>3
<1> QED
  BY <1>1, <1>3, <1>4, <1>5

\* A refusal that was excused stays so while its server runs.
LEMMA RefusalStands ==
    ASSUME GInv, PInv, NEW r \in Requests,
           boot' = boot, result'[r] = result[r], ended'[r] = ended[r],
           \A s \in Requests : req[s] # Idle => req'[s] = req[s],
           \A c \in Challenges : issued[c] # None => issued'[c] = issued[c],
           passed \subseteq passed'
    PROVE  Punctual(r)'
<1> SUFFICES ASSUME RefusedOutright(r)' PROVE Late(r)'
  BY DEF Punctual
<1>1. /\ req'[r].kind = "redeem" /\ result[r] = "refused"
      /\ req'[r].c = req'[r].v /\ req'[r].c = req'[r].q
      /\ issued'[req'[r].c].boot = boot
      /\ ~(\E s \in Requests \ {r} : req'[r].c \in {req'[s].c, req'[s].v, req'[s].q})
      /\ <<"pqc", req'[r].c, r>> \notin passed'
  BY DEF RefusedOutright, PresentedElsewhere
<1>2. req[r] # Idle
  BY <1>1 DEF PInv, EndsOK
<1>3. req'[r] = req[r]
  BY <1>2
<1>4. req[r].c \in Challenges /\ issued'[req[r].c] = issued[req[r].c]
  BY <1>1, <1>3 DEF PInv, RedeemsOK, RedeemOK
<1>5. ~PresentedElsewhere(r)
  <2> SUFFICES ASSUME NEW s \in Requests \ {r}, req[r].c \in {req[s].c, req[s].v, req[s].q}
               PROVE  FALSE
    BY DEF PresentedElsewhere
  <2>1. req[s] # Idle
    BY <1>4, GateAssumption DEF Idle
  <2>2. req'[s] = req[s]
    BY <2>1
  <2> QED
    BY <1>1, <1>3, <2>2
<1>6. RefusedOutright(r)
  BY <1>1, <1>3, <1>4, <1>5 DEF RefusedOutright
<1>7. Late(r)
  BY <1>6 DEF PInv, PunctualRedeemed, Late
<1> QED
  BY <1>3, <1>4, <1>7 DEF Late, Expires, Epoch

\* A gate that refuses an unused challenge only late keeps the requests and
\* the refusals in order.
LEMMA GateRefusesLate ==
    ASSUME GInv, PInv, NEW r \in Requests, NEW gate, NEW item, At(r, gate),
           UNCHANGED <<now, boot, issued>>,
           \/ Proceed(r, gate, item) \/ Finish(r, gate, item)
           \/ Refuse(r) /\ Punctual(r)'
    PROVE  RedeemsOK' /\ EndsOK' /\ PunctualRedeemed'
<1>1. RedeemsOK' /\ req' = req
  BY GateKeepsPast DEF PInv
<1>2. passed \subseteq passed' /\ \A s \in Requests \ {r} : todo'[s] = todo[s]
  BY PlanAfterGate
<1>3. /\ DOMAIN result' = Requests /\ DOMAIN ended' = Requests
      /\ \A s \in Requests \ {r} : result'[s] = result[s] /\ ended'[s] = ended[s]
      /\ Refuse(r) \/ (ended'[r] = ended[r] /\ result'[r] \in {result[r], "ok"})
  BY DEF PInv, EndsOK, Proceed, Finish, Refuse
<1>4. ASSUME NEW s \in Requests, result'[s] = result[s], ended'[s] = ended[s]
      PROVE  Punctual(s)'
  BY <1>1, <1>2, <1>3, <1>4, RefusalStands
<1>5. Punctual(r)'
  <2>1. CASE Refuse(r) /\ Punctual(r)'
    BY <2>1
  <2>2. CASE Finish(r, gate, item)
    <3>1. result'[r] = "ok"
      BY <2>2 DEF Finish, PInv, EndsOK
    <3> QED
      BY <3>1 DEF Punctual, RefusedOutright
  <2>3. CASE Proceed(r, gate, item)
    BY <2>3, <1>4 DEF Proceed
  <2> QED
    BY <2>1, <2>2, <2>3
<1>6. PunctualRedeemed'
  <2>1. \A s \in Requests : Punctual(s)'
    BY <1>3, <1>4, <1>5
  <2> QED
    BY <2>1 DEF PunctualRedeemed, Punctual, Late
<1>7. EndsOK'
  <2>1. req[r] # Idle
    BY DEF At, PInv, EndsOK
  <2> QED
    BY <1>1, <1>2, <1>3, <2>1 DEF PInv, EndsOK
<1> QED
  BY <1>1, <1>6, <1>7

\* The facts about a redemption refused outright in this step.
LEMMA AboutRefused ==
    ASSUME GInv, KInv, PInv, NEW r \in Requests, UNCHANGED <<now, boot, issued, req>>,
           Refuse(r), RefusedOutright(r)'
    PROVE  /\ req[r].kind = "redeem" /\ req[r].c \in Challenges
           /\ req[r].v = req[r].c /\ req[r].q = req[r].c
           /\ issued[req[r].c] # None /\ Signed(issued[req[r].c])
           /\ issued[req[r].c].at \in Nat /\ issued[req[r].c].at <= now
           /\ req[r].t \in Nat /\ req[r].t <= now /\ now \in Nat
           /\ ~PresentedElsewhere(r) /\ <<"pqc", req[r].c, r>> \notin passed
           /\ Late(r)' <=> \/ Epoch(now) > Epoch(issued[req[r].c].at) + Back
                           \/ now > Expires(req[r].c)
<1>1. /\ req[r].kind = "redeem" /\ Signed(issued[req[r].c])
      /\ req[r].v = req[r].c /\ req[r].q = req[r].c
      /\ ~PresentedElsewhere(r) /\ <<"pqc", req[r].c, r>> \notin passed
  BY DEF RefusedOutright, PresentedElsewhere, Refuse, Signed
<1>2. req[r].c \in Challenges /\ issued[req[r].c] # None /\ req[r].t <= now
  BY <1>1 DEF PInv, RedeemsOK, RedeemOK
<1>3. issued[req[r].c].at \in Nat /\ issued[req[r].c].at <= now
  BY <1>2, ClosingNat DEF GInv
<1>4. req[r].t \in Nat /\ now \in Nat
  BY DEF KInv, RequestsOK, GInv
<1>5. ended'[r] = now
  BY DEF Refuse, PInv, EndsOK
<1>6. Late(r)' <=> \/ Epoch(now) > Epoch(issued[req[r].c].at) + Back
                   \/ now > Expires(req[r].c)
  BY <1>5 DEF Late, Epoch, Expires
<1> QED
  BY <1>1, <1>2, <1>3, <1>4, <1>6

\* A gate changes in the stores only what its request is answerable for.
LEMMA SpendersKept ==
    ASSUME GInv, PInv, UNCHANGED <<now, boot, issued, req>>,
           \A s \in Requests : \A g : Past(s, g) => Past(s, g)',
           DOMAIN vdfUsed' = Challenges,
           \A key \in Keys : nullifiers'[key] # 0 => nullifiers[key] # 0 \/ TicketSpender(key[1])',
           \A v \in Challenges : vdfUsed'[v] # 0 => vdfUsed[v] # 0 \/ PuzzleSpender(v)',
           \A q \in Challenges : pqcKeys'[q] = pqcKeys[q] \/ KeySpender(q)'
    PROVE  SpendersOK'
<1>1. \A c : /\ TicketSpender(c) => TicketSpender(c)'
             /\ PuzzleSpender(c) => PuzzleSpender(c)'
             /\ KeySpender(c) => KeySpender(c)'
  BY DEF TicketSpender, PuzzleSpender, KeySpender
<1>2. \A c : Expires(c)' = Expires(c)
  BY DEF Expires
<1> QED
  BY <1>1, <1>2 DEF PInv, SpendersOK, Keys, Days, Actions

\* The checks before the first gate.
LEMMA CheckIsLate ==
    ASSUME GInv, KInv, PInv, NEW r \in Requests, CheckChallenge(r)
    PROVE  PInv'
<1>1. /\ At(r, "challenge") /\ UNCHANGED <<now, boot, issued, nullifiers, vdfUsed, pqcKeys>>
      /\ \/ Proceed(r, "challenge", req[r].v)
         \/ /\ ~(req[r].t <= Expires(req[r].v) /\ Signed(issued[req[r].v]))
            /\ Refuse(r)
  BY DEF CheckChallenge, stores
<1>2. req' = req /\ \A s \in Requests : \A g : Past(s, g) => Past(s, g)'
  BY <1>1, GateKeepsPast DEF PInv
<1>3. ASSUME ~(req[r].t <= Expires(req[r].v) /\ Signed(issued[req[r].v])), Refuse(r)
      PROVE  Punctual(r)'
  <2> SUFFICES ASSUME RefusedOutright(r)' PROVE Late(r)'
    BY DEF Punctual
  <2>1. /\ Signed(issued[req[r].c]) /\ issued[req[r].c].at \in Nat /\ req[r].v = req[r].c
        /\ req[r].t \in Nat /\ req[r].t <= now /\ now \in Nat
        /\ Late(r)' <=> \/ Epoch(now) > Epoch(issued[req[r].c].at) + Back
                        \/ now > Expires(req[r].c)
    BY <1>1, <1>2, <1>3, AboutRefused
  <2>2. Expires(req[r].c) \in Nat
    BY <2>1, GateAssumption DEF Expires
  <2> QED
    BY <1>3, <2>1, <2>2
<1>4. RedeemsOK' /\ EndsOK' /\ PunctualRedeemed'
  BY <1>1, <1>3, GateRefusesLate
<1>5. SpendersOK'
  BY <1>1, <1>2, SpendersKept DEF PInv, SpendersOK
<1> QED
  BY <1>4, <1>5 DEF PInv

\* The nullifier of an unused challenge is not in the store, and its ticket is
\* accepted until its epochs are over.
LEMMA TicketIsLate ==
    ASSUME GInv, KInv, PInv, NEW r \in Requests, verify_and_consume_nullifier(r)
    PROVE  PInv'
<1>0. /\ At(r, "nullifier") /\ UNCHANGED <<now, boot, issued, vdfUsed, pqcKeys>>
      /\ req[r].c \in Challenges /\ issued[req[r].c] # None
      /\ NullifierOf(r) \in Keys /\ NullifierOf(r)[1] = req[r].c
  BY DEF verify_and_consume_nullifier, GInv, TodoOK, HasTicket, NullifierOf
<1>c. PICK c \in Challenges : c = req[r].c
  BY <1>0
<1>k. PICK key \in Keys : key = NullifierOf(r) /\ key[1] = c
  BY <1>0, <1>c
<1>1. PICK t \in Stamps(issued[c].at) :
        \/ /\ nullifiers' = [Retain(nullifiers, t) EXCEPT ![key] = t + NullifierTtl]
           /\ Proceed(r, "nullifier", key)
        \/ /\ nullifiers' = Retain(nullifiers, t) /\ Refuse(r)
           /\ Retain(nullifiers, t)[key] > t
        \/ /\ UNCHANGED nullifiers /\ Refuse(r)
           /\ ~(Acceptable(c, t) /\ Signed(issued[c]) /\ Expected(r, t))
  BY <1>c, <1>k DEF verify_and_consume_nullifier
<1>2. now \in Nat /\ issued[c].at \in Nat /\ t \in Nat /\ t <= now
  <2>1. now \in Nat /\ issued[c].at \in Nat
    BY <1>0, <1>c, ClosingNat DEF GInv
  <2> QED
    BY <2>1, StampBounds
<1>3. Proceed(r, "nullifier", key) \/ Refuse(r)
  BY <1>1
<1>4. /\ req' = req /\ \A s \in Requests : \A g : Past(s, g) => Past(s, g)'
      /\ Past(r, "nullifier")'
  BY <1>0, <1>3, GateKeepsPast DEF PInv
<1>5. nullifiers \in [Keys -> Nat]
  BY DEF GInv
<1>6. \A k \in Keys : Retain(nullifiers, t)[k] # 0 => nullifiers[k] # 0
  BY <1>5, RetainInvents
<1>d. DOMAIN Retain(nullifiers, t) = Keys
  BY <1>5 DEF Retain
<1>7. SpendersOK'
  <2>1. TicketSpender(key[1])'
    BY <1>4, <1>c, <1>k DEF TicketSpender
  <2>2. ASSUME NEW k \in Keys, nullifiers'[k] # 0
        PROVE  nullifiers[k] # 0 \/ TicketSpender(k[1])'
    <3>1. CASE k = key
      BY <2>1, <3>1
    <3>2. CASE k # key
      <4>1. nullifiers'[k] \in {nullifiers[k], Retain(nullifiers, t)[k]}
        BY <1>1, <1>d, <3>2
      <4> QED
        BY <1>6, <2>2, <4>1
    <3> QED
      BY <3>1, <3>2
  <2> QED
    BY <1>0, <1>4, <2>2, SpendersKept DEF PInv, SpendersOK
<1>8. ASSUME Refuse(r),
             \/ Retain(nullifiers, t)[key] > t
             \/ ~(Acceptable(c, t) /\ Signed(issued[c]) /\ Expected(r, t))
      PROVE  Punctual(r)'
  <2> SUFFICES ASSUME RefusedOutright(r)' PROVE Late(r)'
    BY DEF Punctual
  <2>1. /\ req[r].kind = "redeem" /\ Signed(issued[c]) /\ ~PresentedElsewhere(r)
        /\ Late(r)' <=> \/ Epoch(now) > Epoch(issued[c].at) + Back
                        \/ now > Expires(c)
    BY <1>0, <1>4, <1>8, <1>c, AboutRefused
  <2>2. CASE Retain(nullifiers, t)[key] > t
    <3>1. nullifiers[key] # 0
      BY <1>2, <1>6, <2>2
    <3>2. PICK s \in Requests : req[s].c = c /\ Past(s, "nullifier")
      BY <1>k, <3>1 DEF PInv, SpendersOK, TicketSpender
    <3>3. s # r
      BY <1>0, <3>2 DEF At, Past, GInv, TodoOK
    <3> QED
      BY <1>c, <2>1, <3>2, <3>3 DEF PresentedElsewhere
  <2>3. CASE ~(Acceptable(c, t) /\ Signed(issued[c]) /\ Expected(r, t))
    <3>1. Expected(r, t)
      BY <2>1 DEF Expected
    <3>2. ~Acceptable(c, t)
      BY <2>1, <2>3, <3>1
    <3>3. /\ Epoch(t) \in Nat /\ Epoch(now) \in Nat /\ Epoch(issued[c].at) \in Nat
          /\ Epoch(t) <= Epoch(now)
      BY <1>2, EpochBounds, EpochMonotone
    <3> QED
      BY <2>1, <3>2, <3>3, GateAssumption DEF Acceptable
  <2> QED
    BY <1>8, <2>2, <2>3
<1>9. Proceed(r, "nullifier", key) \/ (Refuse(r) /\ Punctual(r)')
  BY <1>1, <1>8
<1>10. RedeemsOK' /\ EndsOK' /\ PunctualRedeemed'
  BY <1>0, <1>9, GateRefusesLate
<1> QED
  BY <1>7, <1>10 DEF PInv

\* The puzzle of an unused challenge is not in the store, and is accepted until
\* it expires.
LEMMA PuzzleIsLate ==
    ASSUME GInv, KInv, PInv, NEW r \in Requests, verify_and_consume_vdf(r)
    PROVE  PInv'
<1> DEFINE v == req[r].v
<1>1. At(r, "vdf") /\ UNCHANGED <<now, boot, issued, nullifiers, pqcKeys>>
  BY DEF verify_and_consume_vdf
<1>a. PICK t1 \in Stamps(issued[v].at) : \E t2 \in Stamps(t1) :
        \/ /\ vdfUsed' = [Retain(vdfUsed, t2) EXCEPT ![v] = Expires(v)]
           /\ Proceed(r, "vdf", v)
        \/ /\ vdfUsed' = Retain(vdfUsed, t2) /\ Refuse(r)
           /\ Retain(vdfUsed, t2)[v] > t2
        \/ /\ UNCHANGED vdfUsed /\ Refuse(r)
           /\ ~(/\ t1 <= Expires(v) /\ Signed(issued[v])
                /\ req[r].kind # "redeem" => req[r].user = issued[v].user)
  BY DEF verify_and_consume_vdf
<1>2. PICK t2 \in Stamps(t1) :
        \/ /\ vdfUsed' = [Retain(vdfUsed, t2) EXCEPT ![v] = Expires(v)]
           /\ Proceed(r, "vdf", v)
        \/ /\ vdfUsed' = Retain(vdfUsed, t2) /\ Refuse(r)
           /\ Retain(vdfUsed, t2)[v] > t2
        \/ /\ UNCHANGED vdfUsed /\ Refuse(r)
           /\ ~(/\ t1 <= Expires(v) /\ Signed(issued[v])
                /\ req[r].kind # "redeem" => req[r].user = issued[v].user)
  BY <1>a
<1>3. Proceed(r, "vdf", v) \/ Refuse(r)
  BY <1>2
<1>4. /\ req' = req /\ \A s \in Requests : \A g : Past(s, g) => Past(s, g)'
      /\ Past(r, "vdf")'
  BY <1>1, <1>3, GateKeepsPast DEF PInv
<1>5. DOMAIN vdfUsed = Challenges /\ DOMAIN Retain(vdfUsed, t2) = Challenges
  BY DEF PInv, SpendersOK, Retain
<1>6. \A k \in Challenges : Retain(vdfUsed, t2)[k] # 0 => vdfUsed[k] # 0
  BY <1>5, RetainInvents
<1>7. SpendersOK'
  <2>1. \A k \in Challenges : k = v => PuzzleSpender(k)'
    BY <1>4 DEF PuzzleSpender
  <2>2. DOMAIN vdfUsed' = Challenges
    BY <1>2, <1>5
  <2>3. ASSUME NEW k \in Challenges, vdfUsed'[k] # 0
        PROVE  vdfUsed[k] # 0 \/ PuzzleSpender(k)'
    <3>1. CASE k = v
      BY <2>1, <3>1
    <3>2. CASE k # v
      <4>1. vdfUsed'[k] \in {vdfUsed[k], Retain(vdfUsed, t2)[k]}
        BY <1>2, <1>5, <3>2
      <4> QED
        BY <1>6, <2>3, <4>1
    <3> QED
      BY <3>1, <3>2
  <2> QED
    BY <1>1, <1>4, <2>2, <2>3, SpendersKept
<1>8. ASSUME Refuse(r),
             \/ Retain(vdfUsed, t2)[v] > t2
             \/ ~(/\ t1 <= Expires(v) /\ Signed(issued[v])
                  /\ req[r].kind # "redeem" => req[r].user = issued[v].user)
      PROVE  Punctual(r)'
  <2> SUFFICES ASSUME RefusedOutright(r)' PROVE Late(r)'
    BY DEF Punctual
  <2>1. /\ req[r].kind = "redeem" /\ v = req[r].c /\ v \in Challenges /\ Signed(issued[v])
        /\ ~PresentedElsewhere(r) /\ now \in Nat /\ issued[v].at \in Nat
        /\ Late(r)' <=> \/ Epoch(now) > Epoch(issued[v].at) + Back
                        \/ now > Expires(v)
    BY <1>1, <1>4, <1>8, AboutRefused
  <2>2. t1 \in Nat /\ t1 <= now /\ t2 \in Nat
    <3>1. t1 \in Nat /\ t1 <= now
      BY <2>1, StampBounds
    <3> QED
      BY <2>1, <3>1, StampBounds
  <2>3. CASE Retain(vdfUsed, t2)[v] > t2
    <3>1. vdfUsed[v] # 0
      BY <1>6, <2>1, <2>2, <2>3
    <3>2. PICK s \in Requests : req[s].v = v /\ Past(s, "vdf")
      BY <2>1, <3>1 DEF PInv, SpendersOK, PuzzleSpender
    <3>3. s # r
      BY <1>1, <3>2 DEF At, Past, GInv, TodoOK
    <3> QED
      BY <2>1, <3>2, <3>3 DEF PresentedElsewhere
  <2>4. CASE ~(/\ t1 <= Expires(v) /\ Signed(issued[v])
               /\ req[r].kind # "redeem" => req[r].user = issued[v].user)
    <3>1. ~(t1 <= Expires(v))
      BY <2>1, <2>4
    <3>2. Expires(v) \in Nat
      BY <2>1, GateAssumption DEF Expires
    <3> QED
      BY <2>1, <2>2, <3>1, <3>2
  <2> QED
    BY <1>8, <2>3, <2>4
<1>9. Proceed(r, "vdf", v) \/ (Refuse(r) /\ Punctual(r)')
  BY <1>2, <1>8
<1>10. RedeemsOK' /\ EndsOK' /\ PunctualRedeemed'
  BY <1>1, <1>9, GateRefusesLate
<1> QED
  BY <1>7, <1>10 DEF PInv

\* The key of an unused challenge is in the store until it expires, and is
\* pruned then at the earliest.
LEMMA KeyIsLate ==
    ASSUME GInv, KInv, PInv, NEW r \in Requests, verify_and_decapsulate_pqc(r)
    PROVE  PInv'
<1> DEFINE q == req[r].q
<1>1. /\ At(r, "pqc") /\ UNCHANGED <<now, boot, issued, nullifiers, vdfUsed>>
      /\ pqcKeys' = [pqcKeys EXCEPT ![q] = 0]
      /\ \/ Proceed(r, "pqc", q)
         \/ ~(pqcKeys[q] # 0 /\ ~(pqcKeys[q] < now)) /\ Refuse(r)
  BY DEF verify_and_decapsulate_pqc, AfterDecapsulation
<1>2. /\ req' = req /\ \A s \in Requests : \A g : Past(s, g) => Past(s, g)'
      /\ Past(r, "pqc")'
  BY <1>1, GateKeepsPast DEF PInv
<1>3. SpendersOK'
  <2>1. \A k \in Challenges : pqcKeys'[k] = pqcKeys[k] \/ k = q
    BY <1>1 DEF KInv, StoresOK
  <2>2. KeySpender(q)'
    BY <1>2 DEF KeySpender
  <2> QED
    BY <1>1, <1>2, <2>1, <2>2, SpendersKept DEF PInv, SpendersOK
<1>4. ASSUME Refuse(r), ~(pqcKeys[q] # 0 /\ ~(pqcKeys[q] < now))
      PROVE  Punctual(r)'
  <2> SUFFICES ASSUME RefusedOutright(r)' PROVE Late(r)'
    BY DEF Punctual
  <2>1. /\ q = req[r].c /\ q \in Challenges /\ issued[q] # None /\ issued[q].boot = boot
        /\ ~PresentedElsewhere(r) /\ now \in Nat /\ issued[q].at \in Nat
        /\ Late(r)' <=> \/ Epoch(now) > Epoch(issued[q].at) + Back
                        \/ now > Expires(q)
    BY <1>1, <1>2, <1>4, AboutRefused DEF Signed
  <2>2. pqcKeys[q] = Expires(q) \/ Expires(q) <= now \/ KeySpender(q)
    BY <2>1 DEF PInv, SpendersOK
  <2>3. Expires(q) \in Nat
    BY <2>1, GateAssumption DEF Expires
  <2>4. CASE Expires(q) <= now
    BY <2>1, <2>4, KeyOutlivesTicket
  <2>5. CASE pqcKeys[q] = Expires(q)
    BY <1>4, <2>1, <2>3, <2>4, <2>5
  <2>6. ~KeySpender(q)
    <3> SUFFICES ASSUME NEW s \in Requests, req[s].q = q, Past(s, "pqc") PROVE FALSE
      BY DEF KeySpender
    <3>1. s # r
      BY <1>1 DEF At, Past, GInv, TodoOK
    <3> QED
      BY <2>1, <3>1 DEF PresentedElsewhere
  <2> QED
    BY <2>2, <2>4, <2>5, <2>6
<1>5. Proceed(r, "pqc", q) \/ (Refuse(r) /\ Punctual(r)')
  BY <1>1, <1>4
<1>6. RedeemsOK' /\ EndsOK' /\ PunctualRedeemed'
  BY <1>1, <1>5, GateRefusesLate
<1> QED
  BY <1>3, <1>6 DEF PInv

\* The minting comes after the key, and no other gate is one of a redemption.
LEMMA OtherGateIsLate ==
    ASSUME GInv, KInv, OInv, PInv, NEW r \in Requests,
           NEW gate \in {"mint", "token", "serve", "store"}, NEW item, At(r, gate),
           Proceed(r, gate, item) \/ Finish(r, gate, item) \/ Refuse(r),
           UNCHANGED <<now, boot, issued, nullifiers, vdfUsed, pqcKeys>>
    PROVE  PInv'
<1>1. req' = req /\ \A s \in Requests : \A g : Past(s, g) => Past(s, g)'
  BY GateKeepsPast DEF PInv
<1>2. SpendersOK'
  BY <1>1, SpendersKept DEF PInv, SpendersOK
<1>3. ASSUME Refuse(r) PROVE Punctual(r)'
  <2> SUFFICES ASSUME RefusedOutright(r)' PROVE FALSE
    BY DEF Punctual
  <2>1. req[r].kind = "redeem" /\ req[r].q = req[r].c /\ <<"pqc", req[r].c, r>> \notin passed
    BY <1>1, <1>3, AboutRefused
  <2>2. 1 \in 1..Len(todo[r]) /\ todo[r][1] = gate
    <3>1. todo[r] \in Seq(GateNames) /\ todo[r] # <<>> /\ todo[r][1] = gate
      BY PlanAfterGate
    <3> QED
      BY <3>1
  <2>3. gate = "mint"
    BY <2>1, <2>2 DEF PInv, RedeemsOK, RedeemOK, Redeeming
  <2>4. Mints(r) /\ Head(todo[r]) = "mint"
    BY <2>2, <2>3 DEF Mints
  <2>5. PaidKey(r)
    BY <2>4 DEF OInv, PlansPaid, PaysAtGates
  <2> QED
    BY <2>1, <2>5 DEF PaidKey
<1>4. RedeemsOK' /\ EndsOK' /\ PunctualRedeemed'
  BY <1>3, GateRefusesLate
<1> QED
  BY <1>2, <1>4 DEF PInv

\* A new challenge is unspent and its key is in the store; what its making
\* prunes has expired.
LEMMA NewChallenge ==
    ASSUME GInv, KInv, PInv, NEW c \in Challenges, generate_challenge(c)
    PROVE  PInv'
<1>1. /\ issued[c] = None
      /\ UNCHANGED <<now, boot, nullifiers, vdfUsed, req, todo, result, ended, passed>>
      /\ pqcKeys' = [Retain(pqcKeys, now) EXCEPT ![c] = now + ChallengeTtl]
  BY DEF generate_challenge, requests
<1>2. /\ issued'[c].at = now /\ \A d \in Challenges \ {c} : issued'[d] = issued[d]
      /\ \A d : issued[d] # None => issued'[d] = issued[d]
  <2>1. PICK scope \in Scopes, user \in Users :
          issued' = [issued EXCEPT ![c] = [scope |-> scope, user |-> user, at |-> now, boot |-> boot]]
    BY DEF generate_challenge
  <2> QED
    BY <1>1, <2>1 DEF GInv, IssuedOK
<1>3. \A d, g : (Past(d, g) <=> Past(d, g)') /\ (TicketSpender(d) <=> TicketSpender(d)')
                /\ (PuzzleSpender(d) <=> PuzzleSpender(d)') /\ (KeySpender(d) <=> KeySpender(d)')
  BY <1>1 DEF Past, TicketSpender, PuzzleSpender, KeySpender
<1>4. pqcKeys \in [Challenges -> Nat] /\ now \in Nat
  BY DEF KInv, StoresOK, GInv
<1>5. ASSUME NEW d \in Challenges, issued'[d] # None, issued'[d].boot = boot
      PROVE  pqcKeys'[d] = Expires(d)' \/ Expires(d)' <= now \/ KeySpender(d)'
  <2>1. CASE d = c
    BY <1>1, <1>2, <1>4, <2>1 DEF Expires, Retain
  <2>2. CASE d # c
    <3>1. issued'[d] = issued[d] /\ Expires(d)' = Expires(d)
      BY <1>2, <2>2 DEF Expires
    <3>2. pqcKeys[d] = Expires(d) \/ Expires(d) <= now \/ KeySpender(d)
      BY <1>5, <3>1 DEF PInv, SpendersOK
    <3>3. pqcKeys'[d] = IF Cardinality({k \in DOMAIN pqcKeys : pqcKeys[k] # 0}) > StoreCap
                        THEN (IF pqcKeys[d] > now THEN pqcKeys[d] ELSE 0) ELSE pqcKeys[d]
      BY <1>1, <1>4, <2>2 DEF Retain
    <3>4. pqcKeys'[d] = pqcKeys[d] \/ pqcKeys[d] <= now
      BY <1>4, <3>3
    <3> QED
      BY <1>3, <3>1, <3>2, <3>4
  <2> QED
    BY <2>1, <2>2
<1>6. SpendersOK'
  BY <1>1, <1>3, <1>5 DEF PInv, SpendersOK, Keys, Days, Actions
<1>7. RedeemsOK' /\ EndsOK'
  <2>1. \A r \in Requests : RedeemOK(r)'
    BY <1>1, <1>2 DEF PInv, RedeemsOK, RedeemOK
  <2> QED
    BY <1>1, <2>1 DEF PInv, RedeemsOK, EndsOK, NoGateTwice
<1>8. \A r \in Requests : Punctual(r)'
  BY <1>1, <1>2, RefusalStands
<1>9. PunctualRedeemed'
  BY <1>8 DEF PunctualRedeemed, Punctual, Late
<1> QED
  BY <1>6, <1>7, <1>9 DEF PInv

\* A request that arrives is not yet past any gate of its plan.
LEMMA ArrivalFits ==
    ASSUME GInv, KInv, PInv, NEW r \in Requests, NEW what, NEW plan, Begin(r, what, plan),
           plan \in Seq(GateNames), NoGateTwice(plan), what # Idle,
           what.kind = "redeem" =>
              /\ what.c \in Challenges /\ issued[what.c] # None /\ what.t <= now
              /\ \A i \in 1..Len(plan) : plan[i] \in Redeeming
    PROVE  PInv'
<1>1. /\ req[r] = Idle
      /\ UNCHANGED <<now, boot, issued, nullifiers, vdfUsed, pqcKeys, result, ended, passed>>
      /\ req'[r] = what /\ todo'[r] = plan
      /\ \A s \in Requests \ {r} : req'[s] = req[s] /\ todo'[s] = todo[s]
  BY DEF Begin, stores, GInv, TodoOK
<1>2. \A s \in Requests : req[s] # Idle => s # r /\ req'[s] = req[s] /\ todo'[s] = todo[s]
  BY <1>1
<1>3. RedeemsOK'
  <2>1. ASSUME NEW s \in Requests PROVE RedeemOK(s)' /\ NoGateTwice(todo'[s])
    <3>1. CASE s = r
      BY <1>1, <3>1 DEF RedeemOK
    <3>2. CASE s # r
      BY <1>1, <3>2 DEF PInv, RedeemsOK, RedeemOK
    <3> QED
      BY <3>1, <3>2
  <2> QED
    BY <2>1 DEF RedeemsOK, NoGateTwice
<1>4. EndsOK'
  BY <1>1 DEF PInv, EndsOK
<1>5. ASSUME NEW c \in Challenges
      PROVE  /\ TicketSpender(c) => TicketSpender(c)'
             /\ PuzzleSpender(c) => PuzzleSpender(c)'
             /\ KeySpender(c) => KeySpender(c)'
  <2>1. \A s \in Requests : c \in {req[s].c, req[s].v, req[s].q} => req[s] # Idle
    BY GateAssumption DEF Idle
  <2>2. \A s \in Requests : \A g : req[s] # Idle /\ Past(s, g) => Past(s, g)'
    BY <1>2 DEF Past
  <2> QED
    BY <1>2, <2>1, <2>2 DEF TicketSpender, PuzzleSpender, KeySpender
<1>6. SpendersOK'
  <2>1. \A key \in Keys : key[1] \in Challenges
    BY DEF Keys
  <2>2. \A c : Expires(c)' = Expires(c)
    BY <1>1 DEF Expires
  <2> QED
    BY <1>1, <1>5, <2>1, <2>2 DEF PInv, SpendersOK, Keys, Days, Actions
<1>7. \A s \in Requests : Punctual(s)'
  BY <1>1, <1>2, RefusalStands
<1>8. PunctualRedeemed'
  BY <1>7 DEF PunctualRedeemed, Punctual, Late
<1> QED
  BY <1>3, <1>4, <1>6, <1>8 DEF PInv

\* The five kinds of request do, and only a redemption says it is one.
LEMMA ArrivalsFit ==
    ASSUME GInv, KInv, PInv, NEW r \in Requests,
           \/ redeem_cap_challenge(r) \/ auth_register_handler(r) \/ auth_login_handler(r)
           \/ WithToken(r) \/ phantom_deposit(r)
    PROVE  PInv'
<1>1. \A x \in Challenges \cup Requests : x # None
  BY GateAssumption
<1>2. CASE redeem_cap_challenge(r)
  <2>1. PICK c \in Challenges, v \in Challenges, q \in Challenges :
          /\ Made(c)
          /\ Begin(r, Presents("redeem", c, v, q, None, None, issued[v].scope, 0),
                   <<"challenge", "nullifier", "vdf", "pqc", "mint">>)
    BY <1>2 DEF redeem_cap_challenge
  <2>2. PICK what : what = Presents("redeem", c, v, q, None, None, issued[v].scope, 0)
    OBVIOUS
  <2>3. what # Idle /\ what.c = c /\ what.t = now
    BY <1>1, <2>2 DEF Presents, Idle
  <2>4. PICK plan : plan = <<"challenge", "nullifier", "vdf", "pqc", "mint">>
    OBVIOUS
  <2>5. plan \in Seq(GateNames) /\ NoGateTwice(plan) /\ \A i \in 1..Len(plan) : plan[i] \in Redeeming
    BY <2>4 DEF GateNames, NoGateTwice, Redeeming
  <2>6. Begin(r, what, plan) /\ issued[c] # None /\ now <= now
    BY <2>1, <2>2, <2>4 DEF Made, GInv
  <2> QED
    BY <2>3, <2>5, <2>6, ArrivalFits
<1>3. ASSUME NEW what, what # Idle, what.kind # "redeem",
             NEW plan \in {<<"nullifier", "vdf", "pqc", "serve">>, <<"nullifier", "vdf", "serve">>,
                           <<"token", "serve">>, <<"nullifier", "token", "store">>},
             Begin(r, what, plan)
      PROVE  PInv'
  <2>1. plan \in Seq(GateNames) /\ NoGateTwice(plan)
    <3>1. CASE plan = <<"nullifier", "vdf", "pqc", "serve">>
      BY <3>1 DEF GateNames, NoGateTwice
    <3>2. CASE plan = <<"nullifier", "vdf", "serve">>
      BY <3>2 DEF GateNames, NoGateTwice
    <3>3. CASE plan = <<"token", "serve">>
      BY <3>3 DEF GateNames, NoGateTwice
    <3>4. CASE plan = <<"nullifier", "token", "store">>
      BY <3>4 DEF GateNames, NoGateTwice
    <3> QED
      BY <3>1, <3>2, <3>3, <3>4
  <2> QED
    BY <1>3, <2>1, ArrivalFits
<1>4. CASE auth_register_handler(r)
  <2>1. PICK c \in Challenges, v \in Challenges, q \in Challenges, user \in Users :
          Begin(r, Presents("register", c, v, q, None, user, "register", 0),
                <<"nullifier", "vdf", "pqc", "serve">>)
    BY <1>4 DEF auth_register_handler
  <2>2. PICK what : what = Presents("register", c, v, q, None, user, "register", 0)
    OBVIOUS
  <2>3. what # Idle /\ what.kind # "redeem"
    BY <1>1, <2>2 DEF Presents, Idle
  <2> QED
    BY <1>3, <2>1, <2>2, <2>3
<1>5. CASE auth_login_handler(r)
  <2>1. PICK kind \in {"login", "recover"}, c \in Challenges, v \in Challenges, user \in Users :
          \/ Begin(r, Presents(kind, c, v, None, None, user, kind, 0), <<"nullifier", "vdf", "serve">>)
          \/ \E q \in Challenges :
                Begin(r, Presents(kind, c, v, q, None, user, kind, 0),
                      <<"nullifier", "vdf", "pqc", "serve">>)
    BY <1>5 DEF auth_login_handler
  <2>2. \A q : LET what == Presents(kind, c, v, q, None, user, kind, 0)
               IN  what # Idle /\ what.kind # "redeem"
    BY <1>1 DEF Presents, Idle
  <2>3. ASSUME NEW q, NEW plan \in {<<"nullifier", "vdf", "pqc", "serve">>, <<"nullifier", "vdf", "serve">>},
               Begin(r, Presents(kind, c, v, q, None, user, kind, 0), plan)
        PROVE  PInv'
    BY <1>3, <2>2, <2>3
  <2> QED
    BY <2>1, <2>3
<1>6. CASE WithToken(r)
  <2>1. PICK k \in Requests, action \in Scopes :
          Begin(r, Presents("with_token", None, None, None, k, None, action, 0), <<"token", "serve">>)
    BY <1>6 DEF WithToken
  <2>2. PICK what : what = Presents("with_token", None, None, None, k, None, action, 0)
    OBVIOUS
  <2>3. what # Idle /\ what.kind # "redeem"
    BY <1>1, <2>2 DEF Presents, Idle
  <2> QED
    BY <1>3, <2>1, <2>2, <2>3
<1>7. CASE phantom_deposit(r)
  <2>1. PICK c \in Challenges, k \in Requests :
          Begin(r, Presents("deposit", c, None, None, k, None, "phantom_deposit", now \div Day),
                <<"nullifier", "token", "store">>)
    BY <1>7 DEF phantom_deposit
  <2>2. PICK what : what = Presents("deposit", c, None, None, k, None, "phantom_deposit", now \div Day)
    OBVIOUS
  <2>3. what # Idle /\ what.kind # "redeem"
    BY <1>1, <2>2 DEF Presents, Idle
  <2> QED
    BY <1>3, <2>1, <2>2, <2>3
<1> QED
  BY <1>2, <1>4, <1>5, <1>6, <1>7

\* After a restart nothing the old process signed counts any more.
LEMMA RestartExcuses ==
    ASSUME GInv, KInv, PInv, Restart
    PROVE  PInv'
<1>1. /\ boot' = boot + 1 /\ UNCHANGED <<now, issued, req, ended, passed>>
      /\ nullifiers' = [k \in Keys |-> 0] /\ vdfUsed' = [c \in Challenges |-> 0]
      /\ todo' = [r \in Requests |-> <<>>]
      /\ result' = [r \in Requests |-> IF todo[r] = <<>> THEN result[r] ELSE "lost"]
  BY DEF Restart
<1>2. \A c \in Challenges : issued[c] # None => issued[c].boot # boot'
  BY <1>1 DEF GInv, IssuedOK, Challenge
<1>3. RedeemsOK'
  <2>1. \A r \in Requests : RedeemOK(r)'
    BY <1>1 DEF PInv, RedeemsOK, RedeemOK
  <2>2. \A r \in Requests : NoGateTwice(todo'[r])
    BY <1>1 DEF NoGateTwice
  <2> QED
    BY <2>1, <2>2 DEF RedeemsOK, NoGateTwice
<1>4. EndsOK'
  BY <1>1 DEF PInv, EndsOK
<1>5. SpendersOK'
  BY <1>1, <1>2 DEF SpendersOK, Keys, Days, Actions
<1>6. PunctualRedeemed'
  <2>1. ASSUME NEW r \in Requests PROVE ~RefusedOutright(r)'
    BY <1>1, <1>2 DEF RefusedOutright, PInv, RedeemsOK, RedeemOK
  <2> QED
    BY <2>1 DEF PunctualRedeemed
<1> QED
  BY <1>3, <1>4, <1>5, <1>6 DEF PInv

\* Time that passes excuses nothing that was refused, and lets keys expire.
LEMMA TimeKeeps ==
    ASSUME GInv, KInv, PInv, Tick \/ UNCHANGED vars
    PROVE  PInv'
<1>1. /\ UNCHANGED <<boot, issued, nullifiers, vdfUsed, pqcKeys, req, todo, result, ended, passed>>
      /\ now \in Nat /\ now' \in Nat /\ now <= now'
  BY DEF Tick, vars, stores, requests, GInv
<1>2. \A c : /\ Expires(c)' = Expires(c)
             /\ TicketSpender(c)' <=> TicketSpender(c)
             /\ PuzzleSpender(c)' <=> PuzzleSpender(c)
             /\ KeySpender(c)' <=> KeySpender(c)
  BY <1>1 DEF Expires, TicketSpender, PuzzleSpender, KeySpender, Past
<1>3. RedeemsOK'
  <2>1. ASSUME NEW r \in Requests PROVE RedeemOK(r)' /\ NoGateTwice(todo'[r])
    <3>1. RedeemOK(r) /\ NoGateTwice(todo[r]) /\ req[r].t \in Nat
      BY DEF PInv, RedeemsOK, KInv, RequestsOK
    <3> QED
      BY <1>1, <3>1 DEF RedeemOK
  <2> QED
    BY <2>1 DEF RedeemsOK, NoGateTwice
<1>4. EndsOK'
  BY <1>1 DEF PInv, EndsOK
<1>5. ASSUME NEW c \in Challenges, issued[c] # None, Expires(c) <= now PROVE Expires(c) <= now'
  <2>1. issued[c].at \in Nat
    BY <1>5, ClosingNat DEF GInv
  <2>2. Expires(c) \in Nat
    BY <2>1, GateAssumption DEF Expires
  <2> QED
    BY <1>1, <1>5, <2>2
<1>6. SpendersOK'
  BY <1>1, <1>2, <1>5 DEF PInv, SpendersOK, Keys, Days, Actions
<1>7. \A r \in Requests : Punctual(r)'
  BY <1>1, RefusalStands
<1>8. PunctualRedeemed'
  BY <1>7 DEF PunctualRedeemed, Punctual, Late
<1> QED
  BY <1>3, <1>4, <1>6, <1>8 DEF PInv

\* Init establishes the invariant.
LEMMA InitPInv == Init => PInv
<1> SUFFICES ASSUME Init PROVE PInv
  OBVIOUS
<1>1. \A r \in Requests : RedeemOK(r) /\ NoGateTwice(todo[r])
  BY NoneAssumption DEF Init, RedeemOK, NoGateTwice, Idle
<1>2. SpendersOK
  BY DEF Init, SpendersOK
<1>3. EndsOK
  BY NoneAssumption DEF Init, EndsOK
<1>4. PunctualRedeemed
  BY NoneAssumption DEF Init, PunctualRedeemed, RefusedOutright
<1> QED
  BY <1>1, <1>2, <1>3, <1>4 DEF PInv, RedeemsOK

\* Every step keeps it.
LEMMA NextPInv == GInv /\ KInv /\ OInv /\ PInv /\ [Next]_vars => PInv'
<1> SUFFICES ASSUME GInv, KInv, OInv, PInv, [Next]_vars PROVE PInv'
  OBVIOUS
<1>1. ASSUME NEW r \in Requests, Mint(r) PROVE PInv'
  <2>1. /\ At(r, "mint") /\ (Finish(r, "mint", req[r].v) \/ Refuse(r))
        /\ UNCHANGED <<now, boot, issued, nullifiers, vdfUsed, pqcKeys>>
    BY <1>1 DEF Mint
  <2> QED
    BY <2>1, OtherGateIsLate
<1>2. ASSUME NEW r \in Requests, verify_and_consume_cap_token(r) PROVE PInv'
  <2>1. /\ At(r, "token") /\ (Proceed(r, "token", req[r].k) \/ Refuse(r))
        /\ UNCHANGED <<now, boot, issued, nullifiers, vdfUsed, pqcKeys>>
    BY <1>2 DEF verify_and_consume_cap_token
  <2> QED
    BY <2>1, OtherGateIsLate
<1>3. ASSUME NEW r \in Requests, Serve(r) PROVE PInv'
  <2>1. /\ At(r, "serve") /\ (Finish(r, "serve", req[r].action) \/ Refuse(r))
        /\ UNCHANGED <<now, boot, issued, nullifiers, vdfUsed, pqcKeys>>
    BY <1>3 DEF Serve, stores
  <2> QED
    BY <2>1, OtherGateIsLate
<1>4. ASSUME NEW r \in Requests, StoreEnvelope(r) PROVE PInv'
  <2>1. /\ At(r, "store") /\ (Finish(r, "store", req[r].action) \/ Refuse(r))
        /\ UNCHANGED <<now, boot, issued, nullifiers, vdfUsed, pqcKeys>>
    BY <1>4 DEF StoreEnvelope, stores
  <2> QED
    BY <2>1, OtherGateIsLate
<1> QED
  BY <1>1, <1>2, <1>3, <1>4, NewChallenge, ArrivalsFit, CheckIsLate, TicketIsLate, PuzzleIsLate,
     KeyIsLate, RestartExcuses, TimeKeeps
     DEF Next

\* A challenge nobody else has presented, redeemed with its own ticket, puzzle
\* and key, is refused by no gate as long as its
\* quota token is within its epochs and its server runs, for any number
\* of requests, challenges and restarts, if the other parts of a challenge live
\* as long as its token does (redeem_cap_challenge).
THEOREM PunctualAreRedeemed == Spec => []PunctualRedeemed
<1>1. PInv => PunctualRedeemed
  BY DEF PInv
<1> QED
  BY <1>1, InitGInv, NextGInv, InitKInv, NextKInv, InitOInv, NextOInv,
     InitPInv, NextPInv, PTL DEF Spec
=============================================================================
