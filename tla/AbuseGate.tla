------------------------------ MODULE AbuseGate ------------------------------
(***************************************************************************)
(* The anonymous gates in front of register, login, recover and the        *)
(* phantom deposit: quota nullifiers (core/rln.rs), the delay function     *)
(* (core/vdf.rs), one-time KEM keys (core/pqc.rs), CAPTCHA tokens          *)
(* (core/cap.rs), and the handlers that pass requests through them.        *)
(*                                                                         *)
(* One server process, any number of requests.  A request passes its gates *)
(* one after the other; each gate is one step under its store's mutex, and *)
(* other requests, the clock and a restart come between.  The time a gate  *)
(* works with is read before the mutex is taken, so it may be old when the *)
(* store is looked at: by at most LockWait.  Everything is in RAM and every*)
(* signing secret is drawn at start, so what was signed before a restart is*)
(* refused after it.                                                       *)
(*                                                                         *)
(* Cryptography is abstracted to what it decides: a signature is valid in  *)
(* the boot that made it, a nullifier is the pair of ticket and action, a  *)
(* proof or ciphertext is one an honest client computed.  The global rate  *)
(* limits refuse before anything is consumed and are left out.             *)
(***************************************************************************)
EXTENDS Naturals, Sequences, FiniteSets

CONSTANTS
    Requests,       \* requests of one behaviour
    Challenges,     \* challenges issued in one behaviour
    Scenarios,      \* bound: which requests, challenges, instants and restarts meet
    Users,          \* usernames a challenge can be bound to
    Scopes,         \* scopes of CAPTCHA challenges
    Window,         \* EPOCH_WINDOW_MS
    Back,           \* epochs a quota token stays acceptable: 4
    NullifierTtl,   \* NULLIFIER_TTL_MS
    ChallengeTtl,   \* VDF_TTL_MS, PQC_KEY_TTL_MS, CAP_CHALLENGE_TTL_MS
    TokenTtl,       \* CAP_TOKEN_TTL_MS
    Day,            \* 86 400 000
    StoreCap,       \* entries above which a store is pruned: 10 000
    LockWait,       \* bound: age of a time stamp when the mutex is obtained
    MaxClock,       \* bound: the last instant of any scenario
    None

\* A nullifier must be remembered for as long as its ticket is accepted, lock
\* waits included: 180 s against five windows of 15 s.
ASSUME GateAssumption ==
    /\ Window \in Nat \ {0} /\ Back \in Nat /\ LockWait \in Nat
    /\ NullifierTtl \in Nat /\ ChallengeTtl \in Nat /\ TokenTtl \in Nat
    /\ Day \in Nat \ {0} /\ StoreCap \in Nat /\ MaxClock \in Nat
    /\ NullifierTtl >= (Back + 1) * Window + LockWait
    /\ None \notin Challenges /\ None \notin Requests

\* The other parts of a challenge outlive its quota token: 180 s.
ASSUME PartsAssumption == ChallengeTtl >= (Back + 1) * Window

VARIABLES
    now,            \* now_ms()
    boot,           \* number of the current server process
    issued,         \* challenge -> its contents, None before it is issued
    nullifiers,     \* RLN_NULLIFIERS: <<ticket, action, day>> -> expiry, 0 if absent
    vdfUsed,        \* VDF_CONSUMED: challenge -> expiry, 0 if absent
    pqcKeys,        \* PQC_ACTIVE_KEYS: challenge -> expiry, 0 if absent
    tokens,         \* CONSUMED_CAP_TOKENS: minting request -> expiry, 0 if absent
    minted,         \* minting request -> what its token says, None if none
    req,            \* what each request presents, from its arrival on
    todo,           \* the gates each request still has to pass
    result,         \* how each request ended
    ended,          \* history: when it was refused
    passed          \* history: <<gate, item, request>> for every gate passed

vars == <<now, boot, issued, nullifiers, vdfUsed, pqcKeys, tokens, minted,
          req, todo, result, ended, passed>>
stores == <<nullifiers, vdfUsed, pqcKeys, tokens>>
requests == <<req, todo, result, ended, passed>>

\* The actions a nullifier can be bound to; the day counts for deposits only.
Actions == Scopes \cup {"register", "login", "recover", "phantom_deposit"}
Days == {t \div Day : t \in 0..MaxClock} \cup {0}
Keys == Challenges \X Actions \X Days

Challenge == [scope: Scopes, user: Users, at: Nat, boot: Nat]
Token == [scope: Scopes, expires: Nat, boot: Nat, from: Challenges]

ASSUME NoneAssumption ==
    /\ None \notin Challenge /\ None \notin Token
    /\ None \notin {"redeem", "refused"}

Idle == [kind |-> None, c |-> None, v |-> None, q |-> None, k |-> None,
         user |-> None, action |-> None, day |-> 0, t |-> 0]

\* The behaviour so far lies within one of the scenarios: its kinds of request
\* and scopes, and its numbers of requests, challenges, instants and restarts.
WithinBounds ==
    \E sc \in Scenarios :
        LET begun == {r \in Requests : req[r] # Idle}
        IN  /\ \A r \in begun : req[r].kind \in sc.kinds
            /\ Cardinality(begun) <= sc.requests
            /\ Cardinality({c \in Challenges : issued[c] # None}) <= sc.challenges
            /\ \A c \in Challenges : issued[c] # None => issued[c].scope \in sc.scopes
            /\ now <= sc.clock /\ boot <= sc.boots
-----------------------------------------------------------------------------
Epoch(t) == t \div Window
Expires(c) == issued[c].at + ChallengeTtl

\* The stamps a gate may be working with when it gets the mutex.  A request
\* cannot have been stamped before its challenge was made.
Stamps(made) == {t \in made..now : now <= t + LockWait}

\* Mutant: the pruning keeps what has expired instead of what has not.
Retain_Inverted(f, t) ==
    IF Cardinality({k \in DOMAIN f : f[k] # 0}) > StoreCap
    THEN [k \in DOMAIN f |-> IF f[k] > t THEN 0 ELSE f[k]] ELSE f

\* The pruning of a store that has grown over its cap.
Retain(f, t) ==
    IF Cardinality({k \in DOMAIN f : f[k] # 0}) > StoreCap
    THEN [k \in DOMAIN f |-> IF f[k] > t THEN f[k] ELSE 0] ELSE f

\* Mutant: the signing secrets survive a restart, the stores do not.
Signed_Persisted(thing) == TRUE

Signed(thing) == thing.boot = boot

At(r, gate) == todo[r] # <<>> /\ Head(todo[r]) = gate

Proceed(r, gate, item) ==
    /\ todo' = [todo EXCEPT ![r] = Tail(@)]
    /\ passed' = passed \cup {<<gate, item, r>>}
    /\ UNCHANGED <<req, result, ended>>

Finish(r, gate, item) ==
    /\ todo' = [todo EXCEPT ![r] = <<>>]
    /\ result' = [result EXCEPT ![r] = "ok"]
    /\ passed' = passed \cup {<<gate, item, r>>}
    /\ UNCHANGED <<req, ended>>

Refuse(r) ==
    /\ todo' = [todo EXCEPT ![r] = <<>>]
    /\ result' = [result EXCEPT ![r] = "refused"]
    /\ ended' = [ended EXCEPT ![r] = now]
    /\ UNCHANGED <<req, passed>>
-----------------------------------------------------------------------------
\* generate_cap_challenge and auth_challenge_handler: a delay puzzle, a quota
\* token and a KEM key whose secret half goes into the store.
generate_challenge(c) ==
    /\ issued[c] = None
    /\ \E scope \in Scopes, user \in Users :
          issued' = [issued EXCEPT ![c] =
                        [scope |-> scope, user |-> user, at |-> now, boot |-> boot]]
    /\ pqcKeys' = [Retain(pqcKeys, now) EXCEPT ![c] = now + ChallengeTtl]
    /\ UNCHANGED <<now, boot, nullifiers, vdfUsed, tokens, minted, requests>>
    /\ WithinBounds'

Made(c) == issued[c] # None

\* A request arrives with what its sender has and with the gates it must pass,
\* in order.  Sending the same again is another request.
Begin(r, what, plan) ==
    /\ req[r] = Idle
    /\ req' = [req EXCEPT ![r] = what]
    /\ todo' = [todo EXCEPT ![r] = plan]
    /\ UNCHANGED <<now, boot, issued, stores, minted, result, ended, passed>>
    /\ WithinBounds'

Presents(kind, c, v, q, k, user, action, day) ==
    [kind |-> kind, c |-> c, v |-> v, q |-> q, k |-> k,
     user |-> user, action |-> action, day |-> day, t |-> now]

\* A redemption names the challenge v, for its own scope.  The signature of the
\* challenge binds its delay puzzle and the name of its KEM key; but the ticket
\* it comes with is one of its own, and so is the key that the ciphertext names,
\* and nothing says that they are those of v.
redeem_cap_challenge(r) ==
    \E c, v, q \in Challenges :
          /\ Made(c) /\ Made(v) /\ Made(q)
          /\ Begin(r, Presents("redeem", c, v, q, None, None, issued[v].scope, 0),
                   <<"challenge", "nullifier", "vdf", "pqc", "mint">>)

\* A registration may combine the parts of several challenges too.
auth_register_handler(r) ==
    /\ \E c, v, q \in Challenges, user \in Users :
          /\ Made(c) /\ Made(v) /\ Made(q)
          /\ Begin(r, Presents("register", c, v, q, None, user, "register", 0),
                   <<"nullifier", "vdf", "pqc", "serve">>)

\* So may a login and a recovery, and they may leave out the KEM step.
auth_login_handler(r) ==
    \E kind \in {"login", "recover"}, c, v \in Challenges, user \in Users :
          /\ Made(c) /\ Made(v)
          /\ \/ Begin(r, Presents(kind, c, v, None, None, user, kind, 0),
                      <<"nullifier", "vdf", "serve">>)
             \/ \E q \in Challenges :
                   /\ Made(q)
                   /\ Begin(r, Presents(kind, c, v, q, None, user, kind, 0),
                            <<"nullifier", "vdf", "pqc", "serve">>)

\* Any of them with a CAPTCHA token instead.
WithToken(r) ==
    /\ \E k \in Requests, action \in Scopes \ {"phantom"} :
          /\ minted[k] # None
          /\ Begin(r, Presents("with_token", None, None, None, k, None, action, 0),
                   <<"token", "serve">>)

\* A deposit needs a quota token and a CAPTCHA token; its sender computes the
\* nullifier for the day it is.
phantom_deposit(r) ==
    /\ \E c \in Challenges, k \in Requests :
          /\ Made(c) /\ minted[k] # None
          /\ Begin(r, Presents("deposit", c, None, None, k, None, "phantom_deposit", now \div Day),
                   <<"nullifier", "token", "store">>)

\* The first checks of redeem_cap_challenge; "t" is the time it read then.
CheckChallenge(r) ==
    /\ At(r, "challenge")
    /\ LET v == req[r].v
       IN  IF req[r].t <= Expires(v) /\ Signed(issued[v])
           THEN Proceed(r, "challenge", v) ELSE Refuse(r)
    /\ UNCHANGED <<now, boot, issued, stores, minted>>

\* Mutant: a quota token of the last acceptable epoch is refused.
Acceptable_Strict(c, t) == Epoch(t) < Epoch(issued[c].at) + Back

\* The epoch of the quota token is recent enough.
Acceptable(c, t) == Epoch(t) <= Epoch(issued[c].at) + Back

\* compute_nullifier.
NullifierOf(r) == <<req[r].c, req[r].action, req[r].day>>

\* The nullifier a deposit must present is that of the server's current day.
Expected(r, t) == req[r].kind = "deposit" => req[r].day = t \div Day

verify_and_consume_nullifier(r) ==
    /\ At(r, "nullifier")
    /\ \E t \in Stamps(issued[req[r].c].at) :
          LET c == req[r].c
              key == NullifierOf(r)
              kept == Retain(nullifiers, t)
              wellFormed == Acceptable(c, t) /\ Signed(issued[c]) /\ Expected(r, t)
          IN  \/ /\ wellFormed /\ ~(kept[key] > t)
                 /\ nullifiers' = [kept EXCEPT ![key] = t + NullifierTtl]
                 /\ Proceed(r, "nullifier", key)
              \/ /\ wellFormed /\ kept[key] > t
                 /\ nullifiers' = kept
                 /\ Refuse(r)
              \/ /\ ~wellFormed
                 /\ UNCHANGED nullifiers
                 /\ Refuse(r)
    /\ UNCHANGED <<now, boot, issued, vdfUsed, pqcKeys, tokens, minted>>

\* verify_vdf reads the time once, verify_and_consume_vdf once more after it.
verify_and_consume_vdf(r) ==
    /\ At(r, "vdf")
    /\ \E t1 \in Stamps(issued[req[r].v].at) : \E t2 \in Stamps(t1) :
          LET v == req[r].v
              kept == Retain(vdfUsed, t2)
              valid == /\ t1 <= Expires(v) /\ Signed(issued[v])
                       /\ req[r].kind # "redeem" => req[r].user = issued[v].user
          IN  \/ /\ valid /\ ~(kept[v] > t2)
                 /\ vdfUsed' = [kept EXCEPT ![v] = Expires(v)]
                 /\ Proceed(r, "vdf", v)
              \/ /\ valid /\ kept[v] > t2
                 /\ vdfUsed' = kept
                 /\ Refuse(r)
              \/ /\ ~valid
                 /\ UNCHANGED vdfUsed
                 /\ Refuse(r)
    /\ UNCHANGED <<now, boot, issued, nullifiers, pqcKeys, tokens, minted>>

\* Mutant: the key is looked up, not removed.
AfterDecapsulation_Kept(q) == pqcKeys

AfterDecapsulation(q) == [pqcKeys EXCEPT ![q] = 0]

\* The key is removed whatever follows; the time is read under the mutex.
verify_and_decapsulate_pqc(r) ==
    /\ At(r, "pqc")
    /\ LET q == req[r].q
       IN  /\ IF pqcKeys[q] # 0 /\ ~(pqcKeys[q] < now)
              THEN Proceed(r, "pqc", q) ELSE Refuse(r)
           /\ pqcKeys' = AfterDecapsulation(q)
    /\ UNCHANGED <<now, boot, issued, nullifiers, vdfUsed, tokens, minted>>

token_expires(r) == req[r].t + TokenTtl

\* The expiry under which a new token is stored.
Inserted(r) == token_expires(r)

\* The end of redeem_cap_challenge: what the browser reports of itself may
\* still refuse; otherwise a token dated from the start of the request.
Mint(r) ==
    /\ At(r, "mint")
    /\ \/ Refuse(r) /\ UNCHANGED <<tokens, minted>>
       \/ /\ tokens' = [k \in Requests |->
                           IF k = r THEN Inserted(r)
                           ELSE IF tokens[k] > req[r].t THEN tokens[k] ELSE 0]
          /\ minted' = [minted EXCEPT ![r] =
                [scope |-> req[r].action, expires |-> token_expires(r), boot |-> boot,
                 from |-> req[r].v]]
          /\ Finish(r, "mint", req[r].v)
    /\ UNCHANGED <<now, boot, issued, nullifiers, vdfUsed, pqcKeys>>

ScopeOf(r) == IF req[r].kind = "deposit" THEN "phantom" ELSE req[r].action

\* The checks of the token itself.
Genuine(r, t) ==
    LET k == minted[req[r].k]
    IN  t <= k.expires /\ Signed(k) /\ k.scope = ScopeOf(r)

AfterUse(k) == [tokens EXCEPT ![k] = 0]

verify_and_consume_cap_token(r) ==
    /\ At(r, "token")
    /\ \E t \in Stamps(req[r].t) :
          IF Genuine(r, t)
          THEN /\ tokens' = AfterUse(req[r].k)
               /\ IF tokens[req[r].k] > t
                  THEN Proceed(r, "token", req[r].k) ELSE Refuse(r)
          ELSE UNCHANGED tokens /\ Refuse(r)
    /\ UNCHANGED <<now, boot, issued, nullifiers, vdfUsed, pqcKeys, minted>>

\* auth::register, auth::login, auth::recover behind the gates; they may refuse
\* (a taken name, a wrong password), and then what the request paid is gone.
Serve(r) ==
    /\ At(r, "serve")
    /\ Finish(r, "serve", req[r].action) \/ Refuse(r)
    /\ UNCHANGED <<now, boot, issued, stores, minted>>

\* try_deposit: the dead drop takes the envelope or its budget is used up, and
\* then what the request paid is gone.
StoreEnvelope(r) ==
    /\ At(r, "store")
    /\ Finish(r, "store", req[r].action) \/ Refuse(r)
    /\ UNCHANGED <<now, boot, issued, stores, minted>>

\* The process ends and a new one starts: requests under way are lost.
Restart ==
    /\ boot' = boot + 1
    /\ nullifiers' = [k \in Keys |-> 0]
    /\ vdfUsed' = [c \in Challenges |-> 0]
    /\ pqcKeys' = [c \in Challenges |-> 0]
    /\ tokens' = [r \in Requests |-> 0]
    /\ todo' = [r \in Requests |-> <<>>]
    /\ result' = [r \in Requests |-> IF todo[r] = <<>> THEN result[r] ELSE "lost"]
    /\ UNCHANGED <<now, issued, minted, req, ended, passed>>
    /\ WithinBounds'

\* Time passes, but no request waits for a mutex longer than LockWait: the
\* stamps account for that, not the clock.
Tick ==
    /\ now < MaxClock
    /\ now' = now + 1
    /\ UNCHANGED <<boot, issued, stores, minted, requests>>
    /\ WithinBounds'

Init ==
    /\ now = 0 /\ boot = 0
    /\ issued = [c \in Challenges |-> None]
    /\ nullifiers = [k \in Keys |-> 0]
    /\ vdfUsed = [c \in Challenges |-> 0]
    /\ pqcKeys = [c \in Challenges |-> 0]
    /\ tokens = [r \in Requests |-> 0]
    /\ minted = [r \in Requests |-> None]
    /\ req = [r \in Requests |-> Idle]
    /\ todo = [r \in Requests |-> <<>>]
    /\ result = [r \in Requests |-> None]
    /\ ended = [r \in Requests |-> 0]
    /\ passed = {}

Next ==
    \/ \E c \in Challenges : generate_challenge(c)
    \/ \E r \in Requests :
          \/ redeem_cap_challenge(r) \/ auth_register_handler(r) \/ auth_login_handler(r)
          \/ WithToken(r) \/ phantom_deposit(r)
          \/ CheckChallenge(r) \/ verify_and_consume_nullifier(r)
          \/ verify_and_consume_vdf(r) \/ verify_and_decapsulate_pqc(r)
          \/ Mint(r) \/ verify_and_consume_cap_token(r) \/ Serve(r) \/ StoreEnvelope(r)
    \/ Restart \/ Tick

Spec == Init /\ [][Next]_vars
-----------------------------------------------------------------------------
(***************************************************************************)
(* Properties.                                                             *)
(***************************************************************************)
\* Type invariant; a stored token has the expiry it says it has.
TypeOK ==
    /\ now \in Nat /\ boot \in Nat
    /\ issued \in [Challenges -> Challenge \cup {None}]
    /\ nullifiers \in [Keys -> Nat]
    /\ vdfUsed \in [Challenges -> Nat] /\ pqcKeys \in [Challenges -> Nat]
    /\ tokens \in [Requests -> Nat]
    /\ minted \in [Requests -> Token \cup {None}]
    /\ \A r \in Requests :
          /\ req[r].t <= now
          /\ tokens[r] # 0 => minted[r] # None /\ tokens[r] = minted[r].expires

Once(gate) ==
    \A x, y \in passed : x[1] = gate /\ y[1] = gate /\ x[2] = y[2] => x = y

\* A quota ticket is spent once per action, whatever requests are repeated,
\* stores pruned and however late a request gets the mutex
\* (verify_and_consume_nullifier).
NullifierOnce == Once("nullifier")

\* A token opens one gate, and no two tokens were paid for with the same thing,
\* across retries and restarts and however the parts of challenges are combined:
\* neither with one ticket for one scope, nor with one KEM key, nor with one
\* puzzle.  The exception of the puzzle is in the code: verify_vdf refuses it
\* when now > expires_at and verify_and_consume_vdf counts a used one while
\* expires > now, so that at its last instant it passes again, for whoever pays
\* with another ticket and key (redeem_cap_challenge,
\* verify_and_consume_cap_token).
GrantsPaidOnce ==
    /\ Once("token")
    /\ \A r, s \in Requests : r # s /\ minted[r] # None /\ minted[s] # None =>
          /\ NullifierOf(r) # NullifierOf(s)
          /\ req[r].q # req[s].q
          /\ req[r].v = req[s].v => now >= Expires(req[r].v)

\* A KEM key is used once, also by register requests that combine it with
\* another challenge's quota token (verify_and_decapsulate_pqc).
KeyOnce == Once("pqc")

\* Another request has presented a part of the challenge of r.
PresentedElsewhere(r) ==
    \E s \in Requests \ {r} : req[r].c \in {req[s].c, req[s].v, req[s].q}

\* A redemption with the parts of one challenge, refused although these were
\* nobody else's, its server is still running and the KEM key was not reached.
RefusedOutright(r) ==
    /\ req[r].kind = "redeem" /\ result[r] = "refused"
    /\ req[r].c = req[r].v /\ req[r].c = req[r].q
    /\ issued[req[r].c].boot = boot
    /\ ~PresentedElsewhere(r)
    /\ <<"pqc", req[r].c, r>> \notin passed

\* The first redemption of a challenge, with its own parts, that ends within the
\* quota token's epochs is refused by no gate: the life times of the parts do not cut each
\* other short within that span (redeem_cap_challenge).
PunctualRedeemed ==
    \A r \in Requests : RefusedOutright(r) =>
        \/ Epoch(ended[r]) > Epoch(issued[req[r].c].at) + Back
        \/ ended[r] > Expires(req[r].c)
=============================================================================
