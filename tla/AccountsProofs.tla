---------------------------- MODULE AccountsProofs ----------------------------
(***************************************************************************)
(* What a revocation achieves, for any number of accounts, tokens, sockets *)
(* and requests, in whatever order their statements meet and wherever they *)
(* are dropped.                                                            *)
(*                                                                         *)
(* A bar takes effect in bounded time (BarsTakeEffect).  The requests do   *)
(* not matter for it: a socket's stamp says until when the account was     *)
(* seen in good standing, and only the socket's own messages set it.       *)
(*                                                                         *)
(* A revocation reaches the sockets that exist (RevocationsReach), and a   *)
(* password reset the sessions that exist (ResetsEnd).  For these the      *)
(* requests do matter: what each of them has still to do is part of the    *)
(* invariant.                                                              *)
(***************************************************************************)
EXTENDS Accounts, TLAPS

AccountRow == [state: {"new", "live", "deleted"}, disabled: BOOLEAN, banned: BOOLEAN, password: Nat]
SocketState == [state: {"new", "up", "gone"}, user: Users \cup {None}, token: Tokens \cup {None},
                stamp: Nat, late: BOOLEAN]
Served == [stage: {"idle", "owner", "write", "recheck"}, user: Users \cup {None},
           token: Tokens \cup {None}, at: Nat]

JobsTyped ==
    /\ DOMAIN job = Requests
    /\ \A r \in Requests : job[r].user \in Users \cup {None} /\ job[r].token \in Tokens \cup {None}

TablesOK ==
    /\ account \in [Users -> AccountRow]
    /\ row \in [Tokens -> Users \cup {None}]
    /\ JobsTyped

ClockOK ==
    /\ now \in Nat /\ barred_at \in [Users -> Nat] /\ lag \in [Sockets -> Nat]
    /\ \A u \in Users : barred_at[u] <= now

\* The last check of a socket that acts for u at the stamp t is at most Delay
\* younger than the time since when u is barred.
CheckedBefore(u, t) ==
    /\ u \in Users /\ account[u].state # "new"
    /\ Barred(u) => t <= barred_at[u] + Delay

SocketsOK ==
    /\ sock \in [Sockets -> SocketState]
    /\ \A s \in Sockets :
          /\ sock[s].stamp <= now
          /\ sock[s].user # None => CheckedBefore(sock[s].user, sock[s].stamp)

\* An account that was found in good standing at the instant t.
SeenAt(u, t) ==
    /\ u \in Users /\ account[u].state # "new"
    /\ Barred(u) => t <= barred_at[u]

MessagesOK ==
    /\ ws \in [Sockets -> Served]
    /\ \A s \in Sockets :
          /\ ws[s].at <= now
          /\ ws[s].stage \in {"owner", "recheck"} => ws[s].user \in Users
          /\ ws[s].stage = "write" => SeenAt(ws[s].user, ws[s].at) /\ now <= ws[s].at + Delay
          /\ ws[s].stage = "recheck" =>
                sock[s].state = "gone" \/ (sock[s].state = "up" /\ sock[s].user = ws[s].user)

\* The inductive invariant.
AInv == TablesOK /\ ClockOK /\ SocketsOK /\ MessagesOK /\ BarTakesEffect
-----------------------------------------------------------------------------
\* A step of a request that leaves accounts and sockets alone.
LEMMA RequestSteps ==
    ASSUME AInv, TablesOK',
           UNCHANGED <<account, sock, ws, now, barred_at, lag, unchecked>>
    PROVE  AInv'
<1>1. ClockOK' /\ BarTakesEffect'
  BY DEF AInv, ClockOK, BarTakesEffect
<1>2. SocketsOK'
  BY DEF AInv, SocketsOK, CheckedBefore, Barred
<1>3. MessagesOK'
  BY DEF AInv, MessagesOK, SeenAt, Barred
<1> QED
  BY <1>1, <1>2, <1>3 DEF AInv

\* A statement that changes accounts: no account is new again, and one that
\* becomes barred is so from now on.
LEMMA AccountSteps ==
    ASSUME AInv, TablesOK', UNCHANGED <<sock, ws, now, lag, unchecked>>,
           barred_at' \in [Users -> Nat],
           \A u \in Users :
              /\ account[u].state # "new" => account'[u].state # "new"
              /\ barred_at'[u] <= now
              /\ Barred(u)' /\ account[u].state # "new" =>
                    (Barred(u) /\ barred_at'[u] = barred_at[u]) \/ barred_at'[u] = now
    PROVE  AInv'
<1>1. ClockOK' /\ BarTakesEffect'
  BY DEF AInv, ClockOK, BarTakesEffect
<1>2. ASSUME NEW u, NEW t \in Nat, t <= now, CheckedBefore(u, t) PROVE CheckedBefore(u, t)'
  <2>1. u \in Users /\ account[u].state # "new" /\ barred_at[u] \in Nat /\ barred_at'[u] \in Nat
    BY <1>2 DEF CheckedBefore, AInv, ClockOK
  <2> QED
    BY <1>2, <2>1, AccountsAssumption DEF CheckedBefore, AInv, ClockOK
<1>3. ASSUME NEW u, NEW t \in Nat, t <= now, SeenAt(u, t) PROVE SeenAt(u, t)'
  <2>1. u \in Users /\ account[u].state # "new" /\ barred_at[u] \in Nat /\ barred_at'[u] \in Nat
    BY <1>3 DEF SeenAt, AInv, ClockOK
  <2> QED
    BY <1>3, <2>1 DEF SeenAt, AInv, ClockOK
<1>4. SocketsOK'
  <2>1. \A s \in Sockets : sock[s].stamp \in Nat /\ sock[s].stamp <= now
    BY DEF AInv, SocketsOK, SocketState
  <2>2. \A s \in Sockets : sock[s].user # None => CheckedBefore(sock[s].user, sock[s].stamp)
    BY DEF AInv, SocketsOK
  <2>3. \A u : \A t \in Nat : t <= now /\ CheckedBefore(u, t) =>
          /\ u \in Users /\ account'[u].state # "new"
          /\ account'[u].state # "live" \/ account'[u].disabled \/ account'[u].banned =>
                t <= barred_at'[u] + Delay
    BY <1>2 DEF CheckedBefore, Barred
  <2> QED
    BY <2>1, <2>2, <2>3 DEF AInv, SocketsOK, CheckedBefore, Barred
<1>5. MessagesOK'
  <2>1. \A s \in Sockets : ws[s].at \in Nat /\ ws[s].at <= now
    BY DEF AInv, MessagesOK, Served
  <2>2. \A u : \A t \in Nat : t <= now /\ SeenAt(u, t) =>
          /\ u \in Users /\ account'[u].state # "new"
          /\ account'[u].state # "live" \/ account'[u].disabled \/ account'[u].banned =>
                t <= barred_at'[u]
    BY <1>3 DEF SeenAt, Barred
  <2> QED
    BY <2>1, <2>2 DEF AInv, MessagesOK, SeenAt, Barred
<1> QED
  BY <1>1, <1>4, <1>5 DEF AInv

\* What a request becomes keeps the tables typed.
LEMMA JobTyped ==
    ASSUME TablesOK, NEW r \in Requests, NEW plan, NEW u \in Users \cup {None}, NEW password, NEW out,
           Become(r, plan, u, password, out)
    PROVE  JobsTyped'
<1>1. /\ DOMAIN job' = Requests
      /\ job'[r] = [kind |-> job[r].kind, plan |-> plan, user |-> u, token |-> job[r].token,
                    password |-> password, out |-> out]
      /\ \A q \in Requests \ {r} : job'[q] = job[q]
  BY DEF Become, TablesOK, JobsTyped
<1> QED
  BY <1>1 DEF TablesOK, JobsTyped

LEMMA GoesOn ==
    ASSUME TablesOK, NEW r \in Requests, Proceed(r) \/ Stop(r)
    PROVE  JobsTyped'
<1>1. job[r].user \in Users \cup {None}
  BY DEF TablesOK, JobsTyped
<1> QED
  BY <1>1, JobTyped DEF Proceed, Stop

\* Every step of a request that leaves accounts and sockets alone.
LEMMA TableSteps ==
    ASSUME AInv, NEW r \in Requests,
           \/ Request(r) \/ Drop(r) \/ user_by_username(r) \/ invalidate_user_sessions(r)
           \/ create_session(r) \/ user_by_id(r) \/ authenticate_token(r) \/ logout(r)
           \/ Snapshot(r)
    PROVE  AInv'
<1> USE DEF AInv
<1>1. /\ job[r].user \in Users \cup {None} /\ None \in Users \cup {None}
      /\ job[r].token \in Tokens \cup {None}
  BY DEF TablesOK, JobsTyped
<1>2. UNCHANGED <<account, sock, ws, now, barred_at, lag, unchecked>>
  BY DEF Request, Drop, user_by_username, invalidate_user_sessions, create_session, user_by_id,
         authenticate_token, logout, Snapshot, Reads
<1>3. row' \in [Tokens -> Users \cup {None}]
  <2>1. CASE invalidate_user_sessions(r)
    BY <2>1 DEF invalidate_user_sessions, TablesOK
  <2>2. CASE create_session(r)
    BY <2>2, <1>1 DEF create_session, TablesOK
  <2>3. CASE logout(r)
    BY <2>3 DEF logout, TablesOK
  <2>4. CASE UNCHANGED row
    BY <2>4 DEF TablesOK
  <2> QED
    BY <2>1, <2>2, <2>3, <2>4
    DEF Request, Drop, user_by_username, user_by_id, authenticate_token, Snapshot, Reads
<1>4. JobsTyped'
  <2>1. CASE Request(r)
    <3>1. PICK kind \in Kinds, u \in Users \cup {None}, t \in Tokens \cup {None} :
             job' = [job EXCEPT ![r] = [kind |-> kind, plan |-> Plan(kind), user |-> u,
                                        token |-> t, password |-> 0, out |-> {}]]
      BY <2>1 DEF Request
    <3> QED
      BY <3>1 DEF TablesOK, JobsTyped
  <2>2. CASE Proceed(r) \/ Stop(r)
    BY <2>2, GoesOn
  <2>3. CASE user_by_username(r)
    BY <2>3, <2>2, <1>1, JobTyped DEF user_by_username, ProceedIf
  <2>4. CASE authenticate_token(r)
    <3>1. job[r].token # None => row[job[r].token] \in Users \cup {None}
      BY <1>1 DEF TablesOK
    <3> QED
      BY <2>4, <3>1, <1>1, JobTyped DEF authenticate_token
  <2>5. CASE Snapshot(r)
    BY <2>5, <1>1, JobTyped DEF Snapshot
  <2> QED
    BY <2>1, <2>2, <2>3, <2>4, <2>5
    DEF Drop, invalidate_user_sessions, create_session, user_by_id, logout, ProceedIf
<1> QED
  BY <1>2, <1>3, <1>4, RequestSteps DEF TablesOK
-----------------------------------------------------------------------------
\* An account that a statement changes keeps its type, is not new again, and
\* when it becomes barred that is noted (BarredNow); the others stay.
LEMMA OneAccount ==
    ASSUME AInv, NEW r \in Requests, NEW v \in AccountRow, row' = row,
           UNCHANGED <<sock, ws, now, lag, unchecked>>, JobsTyped',
           account' = [account EXCEPT ![job[r].user] = v],
           account[job[r].user].state # "new" => v.state # "new",
           \/ BarredNow(job[r].user)
           \/ /\ UNCHANGED barred_at
              /\ v.state # "live" \/ v.disabled \/ v.banned =>
                    account[job[r].user].state = "new" \/ Barred(job[r].user)
    PROVE  AInv'
<1>1. TablesOK'
  BY DEF AInv, TablesOK
<1>2. barred_at' \in [Users -> Nat] /\ \A u \in Users : barred_at'[u] <= now
  <2>1. CASE UNCHANGED barred_at
    BY <2>1 DEF AInv, ClockOK
  <2>2. CASE BarredNow(job[r].user)
    <3>1. /\ now \in Nat /\ barred_at \in [Users -> Nat]
          /\ \A u \in Users : barred_at[u] \in Nat /\ barred_at[u] <= now
      BY DEF AInv, ClockOK
    <3>2. PICK n : barred_at' = [barred_at EXCEPT ![job[r].user] = n]
                   /\ (n = barred_at[job[r].user] \/ n = now)
      BY <2>2 DEF BarredNow
    <3>3. CASE job[r].user \in Users
      BY <3>1, <3>2, <3>3
    <3>4. CASE job[r].user \notin Users
      BY <3>1, <3>2, <3>4
    <3> QED
      BY <3>3, <3>4
  <2> QED
    BY <2>1, <2>2
<1>3. ASSUME NEW u \in Users
      PROVE  /\ account[u].state # "new" => account'[u].state # "new"
             /\ Barred(u)' /\ account[u].state # "new" =>
                   (Barred(u) /\ barred_at'[u] = barred_at[u]) \/ barred_at'[u] = now
  <2>1. CASE u = job[r].user
    <3>1. account'[u] = v
      BY <2>1 DEF AInv, TablesOK
    <3>2. BarredNow(job[r].user) => barred_at'[u] = IF Barred(u) THEN barred_at[u] ELSE now
      BY <2>1 DEF AInv, ClockOK, BarredNow
    <3> QED
      BY <2>1, <3>1, <3>2 DEF Barred
  <2>2. CASE u # job[r].user
    <3>1. account'[u] = account[u]
      BY <2>2 DEF AInv, TablesOK
    <3>2. barred_at'[u] = barred_at[u]
      BY <2>2 DEF AInv, ClockOK, BarredNow
    <3> QED
      BY <3>1, <3>2 DEF Barred
  <2> QED
    BY <2>1, <2>2
<1> QED
  BY <1>1, <1>2, <1>3, AccountSteps

LEMMA AccountChanges ==
    ASSUME AInv, NEW r \in Requests,
           insert_user(r) \/ update_password_hash(r) \/ delete_user_account(r) \/ set_user_flag(r)
    PROVE  AInv'
<1> DEFINE u == job[r].user
<1>1. UNCHANGED <<row, sock, ws, now, lag, unchecked>>
  BY DEF insert_user, update_password_hash, delete_user_account, set_user_flag
<1>2. JobsTyped'
  <2>1. u \in Users \cup {None} /\ TablesOK
    BY DEF AInv, TablesOK, JobsTyped
  <2>2. \/ Proceed(r) \/ Stop(r)
        \/ Become(r, Tail(job[r].plan), u, account[u].password + 1, {})
    BY DEF insert_user, update_password_hash, delete_user_account, set_user_flag
  <2> QED
    BY <2>1, <2>2, GoesOn, JobTyped
<1>3. CASE UNCHANGED <<account, barred_at>>
  BY <1>1, <1>2, <1>3, RequestSteps DEF AInv, TablesOK
<1>4. CASE u \in Users
  <2>1. account \in [Users -> AccountRow] /\ account[u] \in AccountRow
    BY <1>4 DEF AInv, TablesOK
  <2>2. CASE insert_user(r) /\ account[u].state = "new"
    <3> DEFINE v == [account[u] EXCEPT !.state = "live"]
    <3>1. v \in AccountRow /\ account' = [account EXCEPT ![u] = v] /\ UNCHANGED barred_at
      BY <2>1, <2>2 DEF insert_user, AccountRow
    <3>2. v.state = "live"
      BY <2>1 DEF AccountRow
    <3> QED
      BY <1>1, <1>2, <2>2, <3>1, <3>2, OneAccount
  <2>3. CASE update_password_hash(r) /\ account[u].state = "live"
    <3> DEFINE v == [account[u] EXCEPT !.password = account[u].password + 1]
    <3>1. v \in AccountRow /\ account' = [account EXCEPT ![u] = v] /\ UNCHANGED barred_at
      BY <2>1, <2>3 DEF update_password_hash, AccountRow
    <3>2. v.state = account[u].state /\ v.disabled = account[u].disabled /\ v.banned = account[u].banned
      BY <2>1 DEF AccountRow
    <3> QED
      BY <1>1, <1>2, <2>3, <3>1, <3>2, OneAccount DEF Barred
  <2>4. CASE delete_user_account(r)
    <3> DEFINE v == [account[u] EXCEPT !.state = "deleted"]
    <3>1. v \in AccountRow /\ account' = [account EXCEPT ![u] = v] /\ BarredNow(u)
      BY <2>1, <2>4 DEF delete_user_account, AccountRow
    <3>2. v.state = "deleted"
      BY <2>1 DEF AccountRow
    <3> QED
      BY <1>1, <1>2, <3>1, <3>2, OneAccount
  <2>5. CASE set_user_flag(r) /\ account[u].state = "live"
    <3> DEFINE kind == job[r].kind
               a == account[u]
               v == [state |-> "live", password |-> a.password,
                     disabled |-> kind = "disable" \/ (a.disabled /\ kind # "enable"),
                     banned |-> kind = "ban" \/ (a.banned /\ kind # "unban")]
    <3>1. a.password \in Nat
      BY <2>1 DEF AccountRow
    <3>2. v \in AccountRow /\ v.state = "live"
      BY <3>1 DEF AccountRow
    <3>3. account' = [account EXCEPT ![u] = v]
      BY <2>5 DEF set_user_flag, Flagged
    <3>4. BarredNow(u) \/ (UNCHANGED barred_at /\ kind \notin {"ban", "disable"})
      BY <2>5 DEF set_user_flag
    <3>5. kind \notin {"ban", "disable"} /\ (v.state # "live" \/ v.disabled \/ v.banned) => Barred(u)
      BY <2>5 DEF Barred
    <3> QED
      BY <1>1, <1>2, <2>5, <3>2, <3>3, <3>4, <3>5, OneAccount
  <2>6. CASE set_user_flag(r) /\ account[u].state # "live"
    <3>1. account' = account /\ (BarredNow(u) \/ UNCHANGED barred_at) /\ Barred(u)
      BY <2>6 DEF set_user_flag, Flagged, Barred
    <3>2. barred_at' = barred_at
      BY <3>1 DEF BarredNow, AInv, ClockOK
    <3> QED
      BY <1>3, <3>1, <3>2
  <2> QED
    BY <1>3, <2>2, <2>3, <2>4, <2>5, <2>6 DEF insert_user, update_password_hash
<1>5. CASE u \notin Users
  <2>1. account' = account
    BY <1>5 DEF insert_user, update_password_hash, delete_user_account, set_user_flag, Flagged,
                AInv, TablesOK
  <2>2. barred_at' = barred_at
    BY <1>5 DEF insert_user, update_password_hash, delete_user_account, set_user_flag, BarredNow,
                AInv, ClockOK
  <2> QED
    BY <1>3, <2>1, <2>2
<1> QED
  BY <1>4, <1>5
-----------------------------------------------------------------------------
\* A step of one socket: the others are left alone.
LEMMA SocketStep ==
    ASSUME AInv, NEW s \in Sockets, NEW c \in SocketState, NEW m \in Served, NEW l \in Nat,
           UNCHANGED <<account, row, now, barred_at>>, JobsTyped', unchecked \subseteq unchecked',
           sock' = [sock EXCEPT ![s] = c], ws' = [ws EXCEPT ![s] = m], lag' = [lag EXCEPT ![s] = l],
           s \in unchecked' \/ l < Every + Delay,
           c.stamp <= now /\ (c.user # None => CheckedBefore(c.user, c.stamp)),
           m.at <= now,
           m.stage \in {"owner", "recheck"} => m.user \in Users,
           m.stage = "write" => SeenAt(m.user, m.at) /\ now <= m.at + Delay,
           m.stage = "recheck" => c.state = "gone" \/ (c.state = "up" /\ c.user = m.user)
    PROVE  AInv'
<1>1. TablesOK'
  BY DEF AInv, TablesOK
<1>2. ClockOK' /\ BarTakesEffect'
  BY DEF AInv, ClockOK, BarTakesEffect
<1>3. /\ sock' \in [Sockets -> SocketState] /\ ws' \in [Sockets -> Served]
      /\ sock'[s] = c /\ ws'[s] = m
      /\ \A q \in Sockets \ {s} : sock'[q] = sock[q] /\ ws'[q] = ws[q]
  BY DEF AInv, SocketsOK, MessagesOK
<1>4. SocketsOK'
  BY <1>3 DEF AInv, SocketsOK, CheckedBefore, Barred
<1>5. MessagesOK'
  BY <1>3 DEF AInv, MessagesOK, SeenAt, Barred
<1> QED
  BY <1>1, <1>2, <1>4, <1>5 DEF AInv

\* What the invariant says of one socket.
LEMMA SocketNow ==
    ASSUME AInv, NEW s \in Sockets
    PROVE  /\ sock[s] \in SocketState /\ ws[s] \in Served /\ lag[s] \in Nat
           /\ sock = [sock EXCEPT ![s] = sock[s]] /\ ws = [ws EXCEPT ![s] = ws[s]]
           /\ lag = [lag EXCEPT ![s] = lag[s]]
           /\ s \in unchecked \/ lag[s] < Every + Delay
           /\ sock[s].stamp <= now /\ (sock[s].user # None => CheckedBefore(sock[s].user, sock[s].stamp))
           /\ ws[s].at <= now
           /\ ws[s].stage \in {"owner", "recheck"} => ws[s].user \in Users
           /\ ws[s].stage = "write" => SeenAt(ws[s].user, ws[s].at) /\ now <= ws[s].at + Delay
           /\ ws[s].stage = "recheck" =>
                 sock[s].state = "gone" \/ (sock[s].state = "up" /\ sock[s].user = ws[s].user)
           /\ Gone(s) \in SocketState /\ Gone(s).user = None /\ Gone(s).state = "gone"
           /\ Gone(s).stamp = sock[s].stamp
           /\ Quiet \in Served /\ Quiet.stage = "idle" /\ Quiet.at = 0
           /\ now \in Nat
<1>1. sock[s] \in SocketState /\ ws[s] \in Served /\ lag[s] \in Nat /\ now \in Nat
  BY DEF AInv, SocketsOK, MessagesOK, ClockOK
<1>2. /\ sock = [sock EXCEPT ![s] = sock[s]] /\ ws = [ws EXCEPT ![s] = ws[s]]
      /\ lag = [lag EXCEPT ![s] = lag[s]]
  BY DEF AInv, SocketsOK, MessagesOK, ClockOK
<1>3. /\ Gone(s) \in SocketState /\ Gone(s).user = None /\ Gone(s).state = "gone"
      /\ Gone(s).stamp = sock[s].stamp
  BY <1>1 DEF Gone, SocketState
<1>4. Quiet \in Served /\ Quiet.stage = "idle" /\ Quiet.at = 0
  BY DEF Quiet, Served
<1> QED
  BY <1>1, <1>2, <1>3, <1>4 DEF AInv, SocketsOK, MessagesOK, BarTakesEffect

\* evict_user ends one socket, and leaves the message it is being served.
LEMMA Evicts ==
    ASSUME AInv, NEW r \in Requests, evict_user(r)
    PROVE  AInv'
<1>1. UNCHANGED <<account, row, ws, now, barred_at, lag, unchecked>>
  BY DEF evict_user
<1>2. JobsTyped'
  <2>1. TablesOK /\ job[r].user \in Users \cup {None}
    BY DEF AInv, TablesOK, JobsTyped
  <2>2. \/ Proceed(r)
        \/ \E s : Become(r, job[r].plan, job[r].user, job[r].password, job[r].out \ {s})
    BY DEF evict_user
  <2> QED
    BY <2>1, <2>2, GoesOn, JobTyped
<1>3. CASE UNCHANGED sock
  BY <1>1, <1>2, <1>3, RequestSteps DEF AInv, TablesOK
<1>4. ASSUME NEW s, sock' = [sock EXCEPT ![s] = Gone(s)] PROVE AInv'
  <2>1. CASE s \in Sockets
    <3> DEFINE c == Gone(s)
               m == ws[s]
               l == lag[s]
    <3>1. /\ c \in SocketState /\ m \in Served /\ l \in Nat
          /\ c.user = None /\ c.stamp <= now /\ c.state = "gone"
          /\ m.at <= now /\ (m.stage \in {"owner", "recheck"} => m.user \in Users)
          /\ m.stage = "write" => SeenAt(m.user, m.at) /\ now <= m.at + Delay
          /\ s \in unchecked \/ l < Every + Delay
      BY <2>1, SocketNow
    <3>2. /\ sock' = [sock EXCEPT ![s] = c] /\ ws' = [ws EXCEPT ![s] = m]
          /\ lag' = [lag EXCEPT ![s] = l] /\ unchecked' = unchecked
      BY <1>1, <1>4, <2>1, SocketNow
    <3> HIDE DEF c, m, l
    <3> QED
      BY <1>1, <1>2, <2>1, <3>1, <3>2, SocketStep
  <2>2. CASE s \notin Sockets
    <3>1. sock' = sock
      BY <1>4, <2>2 DEF AInv, SocketsOK
    <3> QED
      BY <1>3, <3>1
  <2> QED
    BY <2>1, <2>2
<1> QED
  BY <1>3, <1>4 DEF evict_user

\* The steps in which a socket opens, goes, or only reads.
LEMMA SocketReads ==
    ASSUME AInv, NEW s \in Sockets,
           \/ register_connection(s) \/ Identify(s) \/ IdentifyOwner(s) \/ RecheckBegins(s)
           \/ RecheckGone(s) \/ disconnect_player(s)
    PROVE  AInv'
<1>1. UNCHANGED <<account, row, now, barred_at, lag, unchecked>> /\ JobsTyped'
  BY DEF AInv, TablesOK, JobsTyped, register_connection, Identify, IdentifyOwner, RecheckBegins,
         RecheckGone, disconnect_player, Socket
<1> DEFINE c0 == sock[s]
           m0 == ws[s]
<1>2. /\ c0 \in SocketState /\ m0 \in Served /\ lag[s] \in Nat /\ now \in Nat
      /\ c0.stamp <= now /\ (c0.user # None => CheckedBefore(c0.user, c0.stamp))
      /\ m0.at <= now /\ (m0.stage \in {"owner", "recheck"} => m0.user \in Users)
      /\ m0.stage = "write" => SeenAt(m0.user, m0.at) /\ now <= m0.at + Delay
      /\ m0.stage = "recheck" => c0.state = "gone" \/ (c0.state = "up" /\ c0.user = m0.user)
      /\ s \in unchecked \/ lag[s] < Every + Delay
      /\ lag = [lag EXCEPT ![s] = lag[s]]
      /\ sock = [sock EXCEPT ![s] = c0] /\ ws = [ws EXCEPT ![s] = m0]
  BY SocketNow
<1>3. \A c \in SocketState, m \in Served :
         /\ sock' = [sock EXCEPT ![s] = c] /\ ws' = [ws EXCEPT ![s] = m]
         /\ c.stamp <= now /\ (c.user # None => CheckedBefore(c.user, c.stamp))
         /\ m.at <= now
         /\ m.stage \in {"owner", "recheck"} => m.user \in Users
         /\ m.stage = "write" => SeenAt(m.user, m.at) /\ now <= m.at + Delay
         /\ m.stage = "recheck" => c.state = "gone" \/ (c.state = "up" /\ c.user = m.user)
         => AInv'
  BY <1>1, <1>2, SocketStep
<1>4. CASE register_connection(s)
  <2> DEFINE c == [sock[s] EXCEPT !.state = "up"]
  <2>1. c \in SocketState /\ c.stamp = c0.stamp /\ c.user = c0.user /\ c0.state = "new"
    BY <1>2, <1>4 DEF SocketState, register_connection
  <2>2. sock' = [sock EXCEPT ![s] = c] /\ ws' = [ws EXCEPT ![s] = m0]
    BY <1>2, <1>4 DEF register_connection
  <2>3. m0.stage # "recheck"
    BY <1>2, <2>1
  <2> HIDE DEF c, c0, m0
  <2> QED
    BY <1>2, <1>3, <2>1, <2>2, <2>3
<1>5. CASE Identify(s)
  <2>1. PICK t \in Tokens : /\ row[t] # None
                            /\ ws' = [ws EXCEPT ![s] = [stage |-> "owner", user |-> row[t],
                                                        token |-> t, at |-> 0]]
    BY <1>5 DEF Identify
  <2> DEFINE m == [stage |-> "owner", user |-> row[t], token |-> t, at |-> 0]
  <2>2. row[t] \in Users
    BY <2>1 DEF AInv, TablesOK
  <2>3. m \in Served /\ m.stage = "owner" /\ m.user \in Users /\ m.at <= now
    BY <1>2, <2>2 DEF Served
  <2>4. sock' = [sock EXCEPT ![s] = c0] /\ ws' = [ws EXCEPT ![s] = m]
    BY <1>2, <1>5, <2>1 DEF Identify
  <2> HIDE DEF m, c0, m0
  <2> QED
    BY <1>2, <1>3, <2>3, <2>4
<1>6. CASE Done(s) /\ UNCHANGED sock
  <2>1. Quiet \in Served /\ Quiet.stage = "idle" /\ Quiet.at <= now
    BY SocketNow
  <2>2. sock' = [sock EXCEPT ![s] = c0] /\ ws' = [ws EXCEPT ![s] = Quiet]
    BY <1>2, <1>6 DEF Done
  <2> HIDE DEF c0, m0
  <2> QED
    BY <1>2, <1>3, <2>1, <2>2
<1>7. CASE IdentifyOwner(s) /\ ~Barred(m0.user)
  <2> DEFINE m == [stage |-> "write", user |-> m0.user, token |-> m0.token, at |-> now]
  <2>1. m \in Served /\ m.stage = "write" /\ m.user = m0.user /\ m.at = now /\ m.at <= now
    BY <1>2 DEF Served
  <2>2. m0.user \in Users
    BY <1>2, <1>7 DEF IdentifyOwner, Serving
  <2>3. SeenAt(m.user, m.at) /\ now <= m.at + Delay
    BY <1>2, <1>7, <2>1, <2>2, AccountsAssumption DEF SeenAt, Barred
  <2>4. sock' = [sock EXCEPT ![s] = c0] /\ ws' = [ws EXCEPT ![s] = m]
    BY <1>2, <1>7 DEF IdentifyOwner
  <2> HIDE DEF m, c0, m0
  <2> QED
    BY <1>2, <1>3, <2>1, <2>3, <2>4
<1>8. CASE RecheckBegins(s)
  <2> DEFINE m == [stage |-> "recheck", user |-> c0.user, token |-> None, at |-> now]
  <2>1. m \in Served /\ m.stage = "recheck" /\ m.user = c0.user /\ m.at <= now /\ m.user \in Users
    BY <1>2, <1>8 DEF Served, SocketState, RecheckBegins
  <2>2. c0.state = "up" /\ sock' = [sock EXCEPT ![s] = c0] /\ ws' = [ws EXCEPT ![s] = m]
    BY <1>2, <1>8 DEF RecheckBegins
  <2> HIDE DEF m, c0, m0
  <2> QED
    BY <1>2, <1>3, <2>1, <2>2
<1>9. CASE disconnect_player(s)
  <2> DEFINE c == Gone(s)
  <2>1. c \in SocketState /\ c.user = None /\ c.state = "gone" /\ c.stamp = c0.stamp
    BY SocketNow
  <2>2. sock' = [sock EXCEPT ![s] = c] /\ ws' = [ws EXCEPT ![s] = m0]
    BY <1>2, <1>9 DEF disconnect_player
  <2> HIDE DEF c, c0, m0
  <2> QED
    BY <1>2, <1>3, <2>1, <2>2
<1> QED
  BY <1>4, <1>5, <1>6, <1>7, <1>8, <1>9 DEF IdentifyOwner, RecheckGone

\* The write of identify: the account was seen in good standing Delay ago at most.
LEMMA Identifies ==
    ASSUME AInv, NEW s \in Sockets, identify_player(s)
    PROVE  AInv'
<1> DEFINE u == ws[s].user
           c == IF sock[s].state = "up"
                THEN [state |-> "up", user |-> u, token |-> ws[s].token, stamp |-> now,
                      late |-> Barred(u) \/ row[ws[s].token] = None]
                ELSE sock[s]
<1>1. UNCHANGED <<account, row, now, barred_at, lag, unchecked>> /\ JobsTyped'
  BY DEF AInv, TablesOK, JobsTyped, identify_player, Socket
<1>2. ws[s] \in Served /\ sock[s] \in SocketState /\ now \in Nat
  BY SocketNow
<1>3. SeenAt(u, ws[s].at) /\ now <= ws[s].at + Delay
  BY SocketNow DEF identify_player, Serving
<1>4. c \in SocketState /\ c.stamp <= now
  <2>1. CASE sock[s].state = "up"
    BY <2>1, <1>2 DEF SocketState, Served
  <2>2. CASE sock[s].state # "up"
    BY <2>2, <1>2, SocketNow
  <2> QED
    BY <2>1, <2>2
<1>5. c.user # None => CheckedBefore(c.user, c.stamp)
  <2>1. CASE sock[s].state = "up"
    <3>1. barred_at[u] \in Nat /\ ws[s].at \in Nat
      BY <1>2, <1>3 DEF SeenAt, AInv, ClockOK, Served
    <3>2. CheckedBefore(u, now)
      BY <1>2, <1>3, <3>1, AccountsAssumption DEF SeenAt, CheckedBefore
    <3> QED
      BY <2>1, <3>2
  <2>2. CASE sock[s].state # "up"
    BY <2>2, SocketNow
  <2> QED
    BY <2>1, <2>2
<1>6. sock' = [sock EXCEPT ![s] = c] /\ ws' = [ws EXCEPT ![s] = Quiet]
  BY SocketNow DEF identify_player, Done
<1>7. /\ Quiet \in Served /\ Quiet.stage = "idle" /\ Quiet.at <= now
      /\ lag[s] \in Nat /\ lag' = [lag EXCEPT ![s] = lag[s]]
      /\ s \in unchecked' \/ lag[s] < Every + Delay
  BY <1>1, SocketNow
<1> HIDE DEF c
<1> QED
  BY <1>1, <1>4, <1>5, <1>6, <1>7, SocketStep

\* A message is served: how long the account has been barred.
LEMMA Lag ==
    ASSUME AInv, NEW s \in Sockets, sock[s].user # None, Serve(s)
    PROVE  \E l \in Nat :
              /\ lag' = [lag EXCEPT ![s] = l]
              /\ (~Barred(sock[s].user) \/ now - sock[s].stamp < Every) => l < Every + Delay
<1> DEFINE u == sock[s].user
           l == IF Barred(u) THEN now - barred_at[u] ELSE 0
<1>1. /\ CheckedBefore(u, sock[s].stamp) /\ now \in Nat /\ sock[s] \in SocketState
  BY SocketNow
<1>2. barred_at[u] \in Nat /\ barred_at[u] <= now /\ sock[s].stamp \in Nat
  BY <1>1 DEF CheckedBefore, AInv, ClockOK, SocketState
<1>3. l \in Nat
  BY <1>1, <1>2
<1>4. (~Barred(u) \/ now - sock[s].stamp < Every) => l < Every + Delay
  BY <1>1, <1>2, AccountsAssumption DEF CheckedBefore
<1> QED
  BY <1>3, <1>4 DEF Serve

LEMMA Serves ==
    ASSUME AInv, NEW s \in Sockets, ServeFresh(s) \/ revalidate_session(s)
    PROVE  AInv'
<1>1. /\ UNCHANGED <<account, row, now, barred_at>> /\ JobsTyped'
      /\ unchecked \subseteq unchecked'
  BY DEF AInv, TablesOK, JobsTyped, ServeFresh, revalidate_session, Socket
<1> DEFINE c0 == sock[s]
           m0 == ws[s]
<1>2. /\ c0 \in SocketState /\ m0 \in Served /\ lag[s] \in Nat /\ now \in Nat
      /\ c0.stamp <= now /\ (c0.user # None => CheckedBefore(c0.user, c0.stamp))
      /\ m0.at <= now /\ m0.at \in Nat
      /\ s \in unchecked \/ lag[s] < Every + Delay
      /\ lag = [lag EXCEPT ![s] = lag[s]]
      /\ sock = [sock EXCEPT ![s] = c0] /\ ws = [ws EXCEPT ![s] = m0]
      /\ Quiet \in Served /\ Quiet.stage = "idle" /\ Quiet.at <= now
  BY SocketNow DEF Served
<1>3. CASE ServeFresh(s)
  <2>1. c0.user # None /\ now - c0.stamp < Every /\ m0.stage = "idle"
    BY <1>3 DEF ServeFresh, Serving
  <2>2. PICK l \in Nat : lag' = [lag EXCEPT ![s] = l] /\ l < Every + Delay
    BY <1>3, <2>1, Lag DEF ServeFresh
  <2>3. sock' = [sock EXCEPT ![s] = c0] /\ ws' = [ws EXCEPT ![s] = m0]
    BY <1>2, <1>3 DEF ServeFresh, StampAfter, SocketState
  <2> HIDE DEF c0, m0
  <2> QED
    BY <1>1, <1>2, <2>1, <2>2, <2>3, SocketStep
<1>4. CASE revalidate_session(s)
  <2>1. ws' = [ws EXCEPT ![s] = Quiet]
    BY <1>4 DEF revalidate_session, Done
  <2>2. CASE sock' = [sock EXCEPT ![s] = Gone(s)] /\ UNCHANGED lag
    <3>1. Gone(s) \in SocketState /\ Gone(s).user = None /\ Gone(s).stamp <= now
      BY SocketNow
    <3> QED
      BY <1>1, <1>2, <2>1, <2>2, <3>1, SocketStep
  <2>3. c0.state = "up" /\ c0.user = m0.user /\ c0.user \in Users /\ c0.user # None
    BY <1>4, SocketNow, AccountsAssumption DEF revalidate_session, Serving
  <2>4. CASE ~Barred(m0.user) /\ sock' = [sock EXCEPT ![s].stamp = m0.at] /\ Serve(s)
    <3> DEFINE c == [sock[s] EXCEPT !.stamp = m0.at]
    <3>1. c \in SocketState /\ c.user = c0.user /\ c.stamp = m0.at /\ c.stamp <= now
      BY <1>2 DEF SocketState
    <3>2. CheckedBefore(c.user, c.stamp)
      BY <2>3, <2>4, <3>1 DEF CheckedBefore, Barred
    <3>3. PICK l \in Nat : lag' = [lag EXCEPT ![s] = l] /\ l < Every + Delay
      BY <2>3, <2>4, Lag
    <3>4. sock' = [sock EXCEPT ![s] = c]
      BY <2>4
    <3> HIDE DEF c, c0, m0
    <3> QED
      BY <1>1, <1>2, <2>1, <3>1, <3>2, <3>3, <3>4, SocketStep
  <2>5. CASE s \in unchecked' /\ Serve(s) /\ UNCHANGED sock
    <3>1. PICK l \in Nat : lag' = [lag EXCEPT ![s] = l]
      BY <2>3, <2>5, Lag
    <3>2. sock' = [sock EXCEPT ![s] = c0]
      BY <1>2, <2>5
    <3> HIDE DEF c0, m0
    <3> QED
      BY <1>1, <1>2, <2>1, <2>5, <3>1, <3>2, SocketStep
  <2> QED
    BY <1>4, <2>2, <2>4, <2>5 DEF revalidate_session
<1> QED
  BY <1>3, <1>4
-----------------------------------------------------------------------------
LEMMA Ticks ==
    ASSUME AInv, Tick
    PROVE  AInv'
<1>1. /\ now \in Nat /\ now' = now + 1
      /\ UNCHANGED <<account, row, sock, ws, job, barred_at, lag, unchecked>>
  BY DEF AInv, ClockOK, Tick
<1>2. TablesOK' /\ BarTakesEffect'
  BY <1>1 DEF AInv, TablesOK, JobsTyped, BarTakesEffect
<1>3. ClockOK'
  BY <1>1 DEF AInv, ClockOK
<1>4. SocketsOK'
  <2>1. \A s \in Sockets : sock[s].stamp \in Nat
    BY DEF AInv, SocketsOK, SocketState
  <2> QED
    BY <1>1, <2>1 DEF AInv, SocketsOK, CheckedBefore, Barred
<1>5. MessagesOK'
  <2>1. \A s \in Sockets : ws[s].at \in Nat
    BY DEF AInv, MessagesOK, Served
  <2>2. \A s \in Sockets : ws[s].stage = "write" => now + 1 <= ws[s].at + Delay
    BY <1>1, <2>1, AccountsAssumption DEF Tick, Serving
  <2> QED
    BY <1>1, <2>1, <2>2 DEF AInv, MessagesOK, SeenAt, Barred
<1> QED
  BY <1>2, <1>3, <1>4, <1>5 DEF AInv

LEMMA Begins ==
    ASSUME Init
    PROVE  AInv
<1>1. TablesOK
  <2>1. account \in [Users -> AccountRow]
    <3> DEFINE Fresh == {[state |-> st, disabled |-> FALSE, banned |-> FALSE, password |-> 0] :
                           st \in {"new", "live"}}
    <3>1. account \in [Users -> Fresh]
      BY Zenon DEF Init
    <3>2. \A st \in {"new", "live"} :
             [state |-> st, disabled |-> FALSE, banned |-> FALSE, password |-> 0] \in AccountRow
      BY DEF AccountRow
    <3>3. \A a \in Fresh : a \in AccountRow
      BY <3>2, Zenon
    <3> HIDE DEF Fresh
    <3> QED
      BY <3>1, <3>3
  <2>2. row \in [Tokens -> Users \cup {None}]
    BY DEF Init
  <2>3. JobsTyped
    BY DEF Init, JobsTyped, Unused
  <2> QED
    BY <2>1, <2>2, <2>3 DEF TablesOK
<1>2. ClockOK /\ BarTakesEffect
  <2>1. 0 < Every + Delay
    BY AccountsAssumption
  <2> QED
    BY <2>1 DEF Init, ClockOK, BarTakesEffect
<1>3. SocketsOK
  BY DEF Init, SocketsOK, SocketState
<1>4. MessagesOK
  BY DEF Init, MessagesOK, Served, Quiet
<1> QED
  BY <1>1, <1>2, <1>3, <1>4 DEF AInv

\* The steps of a request that is under way, and those of a socket.
Acts(r) ==
    \/ Drop(r) \/ user_by_username(r) \/ insert_user(r)
    \/ update_password_hash(r) \/ invalidate_user_sessions(r) \/ create_session(r)
    \/ user_by_id(r) \/ authenticate_token(r) \/ logout(r)
    \/ delete_user_account(r) \/ set_user_flag(r)
    \/ Snapshot(r) \/ evict_user(r)

Moves(s) ==
    \/ register_connection(s) \/ Identify(s) \/ IdentifyOwner(s) \/ identify_player(s)
    \/ ServeFresh(s) \/ RecheckBegins(s) \/ revalidate_session(s) \/ RecheckGone(s)
    \/ disconnect_player(s)

LEMMA Cases ==
    ASSUME [Next]_vars
    PROVE  \/ UNCHANGED vars \/ Tick
           \/ \E r \in Requests : Request(r) \/ Acts(r)
           \/ \E s \in Sockets : Moves(s)
  BY DEF Next, Acts, Moves

LEMMA Steps ==
    ASSUME AInv, [Next]_vars
    PROVE  AInv'
<1>1. CASE Tick
  BY <1>1, Ticks
<1>2. CASE UNCHANGED vars
  <2>1. TablesOK'
    BY <1>2 DEF vars, AInv, TablesOK, JobsTyped
  <2> QED
    BY <1>2, <2>1, RequestSteps DEF vars
<1>3. ASSUME NEW r \in Requests, Request(r) \/ Acts(r) PROVE AInv'
  BY <1>3, TableSteps, AccountChanges, Evicts DEF Acts
<1>4. ASSUME NEW s \in Sockets, Moves(s) PROVE AInv'
  BY <1>4, SocketReads, Identifies, Serves DEF Moves
<1> QED
  BY <1>1, <1>2, <1>3, <1>4, Cases

\* For every number of accounts, sockets and requests, every life of a check
\* and every wait: a socket whose checks do not fail is served for less than
\* Every + Delay after its account was banned, disabled or deleted
\* (revalidate_session, identify_player).
THEOREM BarsTakeEffect == Spec => []BarTakesEffect
<1>1. Init => AInv
  BY Begins
<1>2. AInv /\ [Next]_vars => AInv'
  BY Steps
<1>3. AInv => BarTakesEffect
  BY DEF AInv
<1> QED
  BY <1>1, <1>2, <1>3, PTL DEF Spec
-----------------------------------------------------------------------------
(***************************************************************************)
(* What the requests still owe: a statement that revokes sessions or bars  *)
(* an account is followed, in the same request, by the disconnection of    *)
(* the account's sockets, and no step in between can end the request       *)
(* except when another one has to disconnect them.                         *)
(***************************************************************************)
\* The plans, by the number of statements that are left.
Evict1 == <<"evict">>
Disconnect == <<"snapshot", "evict">>
Reset3 == <<"reread", "snapshot", "evict">>
Reset4 == <<"open", "reread", "snapshot", "evict">>
Reset5 == <<"invalidate", "open", "reread", "snapshot", "evict">>
Reset6 == <<"password", "invalidate", "open", "reread", "snapshot", "evict">>
Reset7 == <<"phrase", "password", "invalidate", "open", "reread", "snapshot", "evict">>
Logout3 == <<"revoke", "snapshot", "evict">>
Logout4 == <<"owner", "revoke", "snapshot", "evict">>
Logout5 == <<"token", "owner", "revoke", "snapshot", "evict">>
Remove3 == <<"remove", "snapshot", "evict">>
Remove4 == <<"invalidate", "remove", "snapshot", "evict">>
Remove5 == <<"exists", "invalidate", "remove", "snapshot", "evict">>
Remove6 == <<"owner", "exists", "invalidate", "remove", "snapshot", "evict">>
Remove7 == <<"token", "owner", "exists", "invalidate", "remove", "snapshot", "evict">>
Purge1 == <<"remove">>
Purge2 == <<"invalidate", "remove">>
Purge3 == <<"exists", "invalidate", "remove">>
Bar3 == <<"invalidate", "snapshot", "evict">>
Bar4 == <<"bar", "invalidate", "snapshot", "evict">>
Lift1 == <<"lift">>
Open1 == <<"open">>
Register2 == <<"insert", "open">>
Login2 == <<"verify", "open">>

\* What is left of a request of each kind.
PlanOK(kind, p) ==
    \/ p = <<>>
    \/ kind = "register" /\ p \in {Register2, Open1}
    \/ kind = "login" /\ p \in {Login2, Open1}
    \/ kind = "recover" /\ p \in {Reset7, Reset6, Reset5, Reset4, Reset3, Disconnect, Evict1}
    \/ kind = "logout" /\ p \in {Logout5, Logout4, Logout3, Disconnect, Evict1}
    \/ kind = "delete" /\ p \in {Remove7, Remove6}
    \/ kind \in {"delete", "erase"} /\ p \in {Remove5, Remove4, Remove3, Disconnect, Evict1}
    \/ kind = "purge" /\ p \in {Purge3, Purge2, Purge1}
    \/ kind \in {"ban", "disable"} /\ p \in {Bar4, Bar3, Disconnect, Evict1}
    \/ kind \in {"unban", "enable"} /\ p = Lift1

First(p) == Head(p)
Rest(p) == Tail(p)

\* The first step of each, and what is left after it.
LEMMA Shapes ==
    /\ Evict1 # <<>> /\ First(Evict1) = "evict" /\ Rest(Evict1) = <<>>
    /\ Reset3 # <<>> /\ First(Reset3) = "reread" /\ Rest(Reset3) = Disconnect
    /\ Reset4 # <<>> /\ First(Reset4) = "open" /\ Rest(Reset4) = Reset3
    /\ Reset5 # <<>> /\ First(Reset5) = "invalidate" /\ Rest(Reset5) = Reset4
    /\ Reset6 # <<>> /\ First(Reset6) = "password" /\ Rest(Reset6) = Reset5
    /\ Reset7 # <<>> /\ First(Reset7) = "phrase" /\ Rest(Reset7) = Reset6
    /\ Logout3 # <<>> /\ First(Logout3) = "revoke" /\ Rest(Logout3) = Disconnect
    /\ Logout4 # <<>> /\ First(Logout4) = "owner" /\ Rest(Logout4) = Logout3
    /\ Logout5 # <<>> /\ First(Logout5) = "token" /\ Rest(Logout5) = Logout4
    /\ Remove3 # <<>> /\ First(Remove3) = "remove" /\ Rest(Remove3) = Disconnect
    /\ Remove4 # <<>> /\ First(Remove4) = "invalidate" /\ Rest(Remove4) = Remove3
    /\ Remove5 # <<>> /\ First(Remove5) = "exists" /\ Rest(Remove5) = Remove4
    /\ Remove6 # <<>> /\ First(Remove6) = "owner" /\ Rest(Remove6) = Remove5
    /\ Remove7 # <<>> /\ First(Remove7) = "token" /\ Rest(Remove7) = Remove6
    /\ Purge1 # <<>> /\ First(Purge1) = "remove" /\ Rest(Purge1) = <<>>
    /\ Purge2 # <<>> /\ First(Purge2) = "invalidate" /\ Rest(Purge2) = Purge1
    /\ Purge3 # <<>> /\ First(Purge3) = "exists" /\ Rest(Purge3) = Purge2
    /\ Bar3 # <<>> /\ First(Bar3) = "invalidate" /\ Rest(Bar3) = Disconnect
    /\ Bar4 # <<>> /\ First(Bar4) = "bar" /\ Rest(Bar4) = Bar3
    /\ Lift1 # <<>> /\ First(Lift1) = "lift" /\ Rest(Lift1) = <<>>
    /\ Open1 # <<>> /\ First(Open1) = "open" /\ Rest(Open1) = <<>>
    /\ Register2 # <<>> /\ First(Register2) = "insert" /\ Rest(Register2) = Open1
    /\ Login2 # <<>> /\ First(Login2) = "verify" /\ Rest(Login2) = Open1
    /\ Disconnect # <<>> /\ First(Disconnect) = "snapshot" /\ Rest(Disconnect) = Evict1
  BY DEF First, Rest, Evict1, Disconnect, Reset3, Reset4, Reset5, Reset6, Reset7, Logout3, Logout4, Logout5,
         Remove3, Remove4, Remove5, Remove6, Remove7, Purge1, Purge2, Purge3, Bar3, Bar4, Lift1,
         Open1, Register2, Login2

\* What is left of a plan after a step is again what is left of a request.
LEMMA Tails ==
    ASSUME NEW kind, NEW p, PlanOK(kind, p), p # <<>>
    PROVE  PlanOK(kind, Rest(p))
<1>1. CASE p \in {Register2, Login2, Open1, Lift1, Purge3, Purge2, Purge1}
  BY <1>1, Shapes DEF PlanOK
<1>2. CASE p \in {Reset7, Reset6, Reset5, Reset4, Reset3}
  BY <1>2, Shapes DEF PlanOK
<1>3. CASE p \in {Logout5, Logout4, Logout3, Bar4, Bar3}
  BY <1>3, Shapes DEF PlanOK
<1>4. CASE p \in {Remove7, Remove6, Remove5, Remove4, Remove3}
  BY <1>4, Shapes DEF PlanOK
<1>5. CASE p \in {Disconnect, Evict1}
  BY <1>5, Shapes DEF PlanOK
<1> QED
  BY <1>1, <1>2, <1>3, <1>4, <1>5 DEF PlanOK

\* A request starts with the whole plan of its kind.
LEMMA FirstPlan ==
    ASSUME NEW kind \in Kinds
    PROVE  PlanOK(kind, Plan(kind))
<1>1. /\ ResetSteps = Reset7 /\ LogoutSteps = Logout5 /\ DeleteSteps = Remove7
      /\ RemoveSteps = Remove5 /\ PurgeSteps = Purge3 /\ BarSteps = Bar4
  BY DEF ResetSteps, LogoutSteps, DeleteSteps, RemoveSteps, PurgeSteps, BarSteps,
         Reset7, Logout5, Remove7, Remove5, Purge3, Bar4
<1>2. <<"lift">> = Lift1 /\ <<"insert", "open">> = Register2 /\ <<"verify", "open">> = Login2
  BY DEF Lift1, Register2, Login2
<1> QED
  BY <1>1, <1>2, AccountsAssumption DEF Plan, PlanOK
-----------------------------------------------------------------------------
Issue == [password: Nat, late: BOOLEAN]

\* Each request does what is left of the plan of its kind, and those that name
\* an account name one of the table.
WorkOK ==
    /\ issued \in [Tokens -> {None} \cup Issue]
    /\ \A r \in Requests :
          /\ PlanOK(job[r].kind, job[r].plan)
          /\ job[r].password \in Nat
          /\ job[r].kind \notin {"none", "logout", "delete"} => job[r].user \in Users

\* The job of a request after its step.
LEMMA Fields ==
    ASSUME AInv, NEW r \in Requests, NEW plan, NEW u, NEW password, NEW out,
           Become(r, plan, u, password, out)
    PROVE  /\ \A q \in Requests \ {r} : job'[q] = job[q]
           /\ job'[r].kind = job[r].kind /\ job'[r].token = job[r].token
           /\ job'[r].plan = plan /\ job'[r].user = u
           /\ job'[r].password = password /\ job'[r].out = out
<1>1. DOMAIN job = Requests
  BY DEF AInv, TablesOK, JobsTyped
<1> QED
  BY <1>1 DEF Become

\* Where its step takes a request: to the next statement of its plan, to the
\* end, or to the next socket that it disconnects.
Moved(r) ==
    \/ job'[r].plan = Rest(job[r].plan)
    \/ /\ job'[r].plan = <<>>
       /\ \/ job[r].user \in torn'
          \/ First(job[r].plan) \in {"insert", "verify", "phrase", "exists"}
          \/ First(job[r].plan) = "reread" /\ account[job[r].user].state # "live"
          \/ First(job[r].plan) \in {"token", "owner"} /\ job[r].kind # "logout"
    \/ job'[r].plan = job[r].plan /\ First(job[r].plan) = "evict"

LEMMA Own ==
    ASSUME AInv, NEW r \in Requests, Acts(r)
    PROVE  /\ \A q \in Requests \ {r} : job'[q] = job[q]
           /\ job'[r].kind = job[r].kind /\ job'[r].token = job[r].token
           /\ job[r].plan # <<>> /\ Moved(r)
           /\ job'[r].user = job[r].user \/ First(job[r].plan) \in {"token", "owner"}
           /\ torn \subseteq torn'
<1>1. /\ job[r].plan # <<>>
      /\ torn \subseteq torn'
  BY DEF Acts, Drop, user_by_username, insert_user, update_password_hash, invalidate_user_sessions,
         create_session, user_by_id, authenticate_token, logout, delete_user_account,
         set_user_flag, Snapshot, evict_user, Reads, At, AtWork
<1> DEFINE Mine(plan, u) == /\ \A q \in Requests \ {r} : job'[q] = job[q]
                           /\ job'[r].kind = job[r].kind /\ job'[r].token = job[r].token
                           /\ job'[r].plan = plan /\ job'[r].user = u
<1>2. ASSUME Proceed(r) PROVE Mine(Rest(job[r].plan), job[r].user)
  BY <1>2, Fields DEF Proceed, Rest
<1>3. ASSUME Stop(r) PROVE Mine(<<>>, job[r].user)
  BY <1>3, Fields DEF Stop
<1>4. CASE Proceed(r)
  BY <1>1, <1>2, <1>4 DEF Moved
<1>5. CASE Drop(r)
  <2>1. Stop(r) /\ job[r].user \in torn'
    BY <1>5 DEF Drop
  <2> QED
    BY <1>1, <1>3, <2>1 DEF Moved
<1>6. CASE user_by_username(r)
  <2>1. First(job[r].plan) \in {"verify", "phrase"}
    BY <1>6 DEF user_by_username, At, First
  <2>2. \/ Proceed(r) \/ Stop(r)
        \/ \E pw : Become(r, Tail(job[r].plan), job[r].user, pw, {})
    BY <1>6 DEF user_by_username, ProceedIf
  <2>3. ASSUME NEW pw, Become(r, Tail(job[r].plan), job[r].user, pw, {})
        PROVE  Mine(Rest(job[r].plan), job[r].user)
    BY <2>3, Fields DEF Rest
  <2> QED
    BY <1>1, <1>2, <1>3, <2>1, <2>2, <2>3 DEF Moved
<1>7. CASE insert_user(r) /\ ~Proceed(r)
  <2>1. First(job[r].plan) = "insert" /\ Stop(r)
    BY <1>7 DEF insert_user, At, First
  <2> QED
    BY <1>1, <1>3, <2>1 DEF Moved
<1>8. CASE update_password_hash(r)
  <2>1. Mine(Rest(job[r].plan), job[r].user)
    BY <1>8, Fields DEF update_password_hash, Rest
  <2> QED
    BY <1>1, <2>1 DEF Moved
<1>9. CASE user_by_id(r) /\ ~Proceed(r)
  <2>1. /\ First(job[r].plan) \in {"reread", "exists"} /\ Stop(r)
        /\ account[job[r].user].state # "live"
    BY <1>9 DEF user_by_id, At, First, ProceedIf
  <2> QED
    BY <1>1, <1>3, <2>1 DEF Moved
<1>10. CASE authenticate_token(r)
  <2>1. First(job[r].plan) \in {"token", "owner"}
    BY <1>10 DEF authenticate_token, At, First
  <2>2. PICK u : Become(r, IF u # None \/ job[r].kind = "logout" THEN Tail(job[r].plan) ELSE <<>>,
                        u, 0, {})
    BY <1>10 DEF authenticate_token
  <2>3. Mine(IF u # None \/ job[r].kind = "logout" THEN Rest(job[r].plan) ELSE <<>>, u)
    BY <2>2, Fields DEF Rest
  <2> QED
    BY <1>1, <2>1, <2>3 DEF Moved
<1>11. CASE Snapshot(r)
  <2>1. Mine(Rest(job[r].plan), job[r].user)
    BY <1>11, Fields DEF Snapshot, Rest
  <2> QED
    BY <1>1, <2>1 DEF Moved
<1>12. CASE evict_user(r) /\ ~Proceed(r)
  <2>1. PICK x : Become(r, job[r].plan, job[r].user, job[r].password, job[r].out \ {x})
    BY <1>12 DEF evict_user
  <2>2. Mine(job[r].plan, job[r].user) /\ First(job[r].plan) = "evict"
    BY <1>12, <2>1, Fields DEF evict_user, At, First
  <2> QED
    BY <1>1, <2>2 DEF Moved
<1> HIDE DEF Own
<1> QED
  BY <1>4, <1>5, <1>6, <1>7, <1>8, <1>9, <1>10, <1>11, <1>12
  DEF Acts, invalidate_user_sessions, create_session, logout, delete_user_account, set_user_flag

\* A request that has not begun becomes one of the kinds, with its whole plan.
LEMMA Asked ==
    ASSUME AInv, NEW r \in Requests, Request(r)
    PROVE  /\ job[r].kind = "none" /\ job[r].plan = <<>> /\ job[r].user = None
           /\ \A q \in Requests \ {r} : job'[q] = job[q]
           /\ job'[r].kind \in Kinds /\ job'[r].plan = Plan(job'[r].kind)
           /\ job'[r].password = 0
           /\ job'[r].user \in Users \cup {None}
           /\ IF job'[r].kind \in {"logout", "delete"} THEN job'[r].user = None
                                                      ELSE job'[r].user \in Users
           /\ UNCHANGED <<account, row, issued, sock, ws, torn>>
<1>1. DOMAIN job = Requests
  BY DEF AInv, TablesOK, JobsTyped
<1>2. PICK kind \in Kinds, u \in Users \cup {None}, t \in Tokens \cup {None} :
         /\ IF kind \in {"logout", "delete"} THEN u = None ELSE u # None
         /\ job' = [job EXCEPT ![r] = [kind |-> kind, plan |-> Plan(kind), user |-> u,
                                       token |-> t, password |-> 0, out |-> {}]]
  BY DEF Request
<1>3. /\ job'[r] = [kind |-> kind, plan |-> Plan(kind), user |-> u,
                    token |-> t, password |-> 0, out |-> {}]
      /\ \A q \in Requests \ {r} : job'[q] = job[q]
  BY <1>1, <1>2
<1>4. job[r].kind = "none" /\ job[r].plan = <<>> /\ job[r].user = None
  BY DEF Request, Unused
<1> QED
  BY <1>2, <1>3, <1>4 DEF Request, Reads

\* Which plans have a given statement next.
LEMMA Next1 ==
    ASSUME NEW kind, NEW p, PlanOK(kind, p), p # <<>>
    PROVE  /\ First(p) = "insert" => p = Register2 /\ kind = "register"
           /\ First(p) = "verify" => p = Login2 /\ kind = "login"
           /\ First(p) = "phrase" => p = Reset7 /\ kind = "recover"
           /\ First(p) = "password" => p = Reset6 /\ kind = "recover"
           /\ First(p) = "invalidate" => \/ p = Reset5 /\ kind = "recover"
                                         \/ p = Remove4 /\ kind \in {"delete", "erase"}
                                         \/ p = Purge2 /\ kind = "purge"
                                         \/ p = Bar3 /\ kind \in {"ban", "disable"}
           /\ First(p) = "open" => \/ p = Open1 /\ kind \in {"register", "login"}
                                   \/ p = Reset4 /\ kind = "recover"
           /\ First(p) = "reread" => p = Reset3 /\ kind = "recover"
           /\ First(p) = "token" => \/ p = Logout5 /\ kind = "logout"
                                    \/ p = Remove7 /\ kind = "delete"
           /\ First(p) = "owner" => \/ p = Logout4 /\ kind = "logout"
                                    \/ p = Remove6 /\ kind = "delete"
           /\ First(p) = "revoke" => p = Logout3 /\ kind = "logout"
           /\ First(p) = "remove" => \/ p = Remove3 /\ kind \in {"delete", "erase"}
                                     \/ p = Purge1 /\ kind = "purge"
           /\ First(p) = "bar" => p = Bar4 /\ kind \in {"ban", "disable"}
           /\ First(p) = "lift" => kind \in {"unban", "enable"}
           /\ First(p) = "snapshot" => p = Disconnect
           /\ First(p) = "evict" => p = Evict1
<1>1. CASE kind \in {"register", "login", "purge", "unban", "enable"}
  BY <1>1, Shapes DEF PlanOK
<1>2. CASE kind = "recover"
  BY <1>2, Shapes DEF PlanOK
<1>3. CASE kind \in {"logout", "ban", "disable"}
  BY <1>3, Shapes DEF PlanOK
<1>4. CASE kind \in {"delete", "erase"}
  BY <1>4, Shapes DEF PlanOK
<1> QED
  BY <1>1, <1>2, <1>3, <1>4 DEF PlanOK

\* Only an authentication or a snapshot changes what a request has found out.
LEMMA WorkKept ==
    ASSUME AInv, WorkOK, [Next]_vars
    PROVE  WorkOK'
<1>1. ASSUME NEW r \in Requests, Request(r) PROVE WorkOK'
  <2>1. PlanOK(job'[r].kind, job'[r].plan) /\ job'[r].password \in Nat
    BY <1>1, Asked, FirstPlan
  <2>2. job'[r].kind \notin {"none", "logout", "delete"} => job'[r].user \in Users
    BY <1>1, Asked
  <2> QED
    BY <1>1, <2>1, <2>2, Asked DEF WorkOK
<1>2. ASSUME NEW r \in Requests, Acts(r) PROVE WorkOK'
  <2> DEFINE p == job[r].plan
             k == job[r].kind
             u == job[r].user
  <2>1. /\ PlanOK(k, p) /\ p # <<>> /\ job[r].password \in Nat
        /\ k \notin {"none", "logout", "delete"} => u \in Users
    BY <1>2, Own DEF WorkOK
  <2>2. PlanOK(k, Rest(p)) /\ PlanOK(k, <<>>)
    BY <2>1, Tails DEF PlanOK
  <2>3. PlanOK(job'[r].kind, job'[r].plan)
    BY <1>2, <2>1, <2>2, Own DEF Moved
  <2>4. First(p) \in {"token", "owner"} => k \in {"logout", "delete"}
    BY <2>1, Next1
  <2>5. job'[r].kind \notin {"none", "logout", "delete"} => job'[r].user \in Users
    BY <1>2, <2>1, <2>4, Own
  <2>6. \A v \in Users : account[v].password \in Nat /\ account[v].password + 1 \in Nat
    BY DEF AInv, TablesOK, AccountRow
  <2>7. job'[r].password \in Nat
    <3>1. CASE user_by_username(r)
      <4>1. First(p) \in {"verify", "phrase"}
        BY <3>1 DEF user_by_username, At, First
      <4>2. u \in Users
        BY <2>1, <4>1, Next1
      <4>3. PICK pw \in Nat : \E q : Become(r, q, u, pw, {}) \/ Become(r, q, u, pw, job[r].out)
        BY <2>1, <2>6, <3>1, <4>2 DEF user_by_username, ProceedIf, Proceed, Stop
      <4> QED
        BY <4>3, Fields
    <3>2. CASE update_password_hash(r)
      <4>1. First(p) = "password"
        BY <3>2 DEF update_password_hash, At, First
      <4>2. u \in Users
        BY <2>1, <4>1, Next1
      <4>3. Become(r, Tail(p), u, account[u].password + 1, {})
        BY <3>2 DEF update_password_hash
      <4> QED
        BY <2>6, <4>2, <4>3, Fields
    <3>3. CASE authenticate_token(r)
      <4>1. PICK v, q : Become(r, q, v, 0, {})
        BY <3>3 DEF authenticate_token
      <4> QED
        BY <4>1, Fields
    <3>4. ASSUME NEW q, NEW v, NEW out, Become(r, q, v, job[r].password, out)
          PROVE  job'[r].password \in Nat
      BY <2>1, <3>4, Fields
    <3> QED
      BY <1>2, <3>1, <3>2, <3>3, <3>4
      DEF Acts, Drop, insert_user, invalidate_user_sessions, create_session, user_by_id, logout,
          delete_user_account, set_user_flag, Snapshot, evict_user, Proceed, Stop, ProceedIf
  <2>8. issued' \in [Tokens -> {None} \cup Issue]
    <3>1. CASE create_session(r)
      <4>1. First(p) = "open"
        BY <3>1 DEF create_session, At, First
      <4>2. u \in Users
        BY <2>1, <4>1, Next1
      <4>3. [password |-> job[r].password, late |-> job[r].password < account[u].password] \in Issue
        BY <2>1, <2>6, <4>2 DEF Issue
      <4> QED
        BY <3>1, <4>3 DEF create_session, WorkOK
    <3>2. CASE UNCHANGED issued
      BY <3>2 DEF WorkOK
    <3> QED
      BY <1>2, <3>1, <3>2
      DEF Acts, Drop, user_by_username, insert_user, update_password_hash,
          invalidate_user_sessions, user_by_id, authenticate_token, logout, delete_user_account,
          set_user_flag, Snapshot, evict_user, Reads
  <2> HIDE DEF p, k, u
  <2> QED
    BY <1>2, <2>3, <2>5, <2>7, <2>8, Own DEF WorkOK
<1>3. CASE UNCHANGED <<issued, job>>
  BY <1>3 DEF WorkOK
<1>4. ASSUME NEW s \in Sockets, Moves(s) PROVE UNCHANGED <<issued, job>>
  BY <1>4 DEF Moves, register_connection, Identify, IdentifyOwner, identify_player, ServeFresh,
              RecheckBegins, revalidate_session, RecheckGone, disconnect_player, Socket
<1> QED
  BY <1>1, <1>2, <1>3, <1>4, Cases DEF Tick, vars
-----------------------------------------------------------------------------
\* The sockets of u need not be disconnected any more: a request was dropped,
\* a logout found no account in good standing, or the account was purged.
Excused(u) ==
    \/ u \in torn
    \/ \E r \in Requests :
          /\ job[r].kind = "logout" /\ job[r].user = None
          /\ job[r].plan \in {Logout4, Logout3, Disconnect, Evict1, <<>>}
    \/ \E r \in Requests : job[r].kind = "purge" /\ job[r].user = u

\* The request is about to disconnect the socket, whatever happens, ...
Leaving(r, s) ==
    /\ job[r].user = sock[s].user
    /\ job[r].plan = Disconnect \/ (job[r].plan = Evict1 /\ s \in job[r].out)

\* ... or unless it finds that the account has been deleted.
Owing(r, s) ==
    \/ Leaving(r, s)
    \/ job[r].user = sock[s].user /\ job[r].plan \in {Reset4, Reset3, Remove3, Bar3}

Expelled(s) == Excused(sock[s].user) \/ \E r \in Requests : Leaving(r, s)
Covered(s) == Excused(sock[s].user) \/ \E r \in Requests : Owing(r, s)

\* A socket that acts for a deleted account is going to be disconnected; one
\* whose session was revoked is so by a request that has it still to do.
SocketOK(s) ==
    sock[s].user # None /\ ~sock[s].late =>
       /\ Revoked(s) => Covered(s)
       /\ account[sock[s].user].state = "deleted" => Expelled(s)

SocketsCovered == \A s \in Sockets : SocketOK(s)

LEMMA StaysExcused ==
    ASSUME AInv, WorkOK, NEW r \in Requests, Acts(r) \/ Request(r), NEW u \in Users, Excused(u)
    PROVE  Excused(u)'
<1>1. torn \subseteq torn' /\ \A q \in Requests \ {r} : job'[q] = job[q]
  BY Own, Asked
<1>2. ASSUME job[r].kind = "logout" /\ job[r].user = None
             /\ job[r].plan \in {Logout4, Logout3, Disconnect, Evict1, <<>>}
      PROVE  job'[r].kind = "logout" /\ job'[r].user = None
             /\ job'[r].plan \in {Logout4, Logout3, Disconnect, Evict1, <<>>}
  <2>1. Acts(r)
    BY <1>2, Asked
  <2>2. job'[r].plan \in {Logout4, Logout3, Disconnect, Evict1, <<>>}
    BY <1>2, <2>1, Own, Shapes DEF Moved
  <2>3. CASE job'[r].user = job[r].user
    BY <1>2, <2>1, <2>2, <2>3, Own
  <2>4. CASE authenticate_token(r)
    <3>1. ~At(r, "token")
      BY <1>2, Shapes DEF At, First
    <3>2. Become(r, Tail(job[r].plan), None, 0, {})
      BY <1>2, <2>4, <3>1 DEF authenticate_token
    <3> QED
      BY <1>2, <2>1, <2>2, <3>2, Own, Fields
  <2>5. job'[r].user = job[r].user \/ authenticate_token(r)
    <3>1. job'[r].user = job[r].user \/ At(r, "token") \/ At(r, "owner")
      BY <2>1, Own DEF At, First
    <3>2. (At(r, "token") \/ At(r, "owner")) /\ Acts(r) => authenticate_token(r) \/ Drop(r)
      BY DEF Acts, user_by_username, insert_user, update_password_hash, invalidate_user_sessions,
             create_session, user_by_id, logout, delete_user_account, set_user_flag, Snapshot,
             evict_user, At
    <3>3. Drop(r) => job'[r].user = job[r].user
      BY Fields DEF Drop, Stop
    <3> QED
      BY <2>1, <3>1, <3>2, <3>3
  <2> QED
    BY <2>3, <2>4, <2>5
<1>3. ASSUME job[r].kind = "purge" /\ job[r].user = u
      PROVE  job'[r].kind = "purge" /\ job'[r].user = u
  <2>1. Acts(r) /\ job[r].plan # <<>> /\ PlanOK(job[r].kind, job[r].plan)
    BY <1>3, Asked, Own DEF WorkOK
  <2>2. First(job[r].plan) \notin {"token", "owner"}
    BY <1>3, <2>1, Next1
  <2> QED
    BY <1>3, <2>1, <2>2, Own
<1> QED
  BY <1>1, <1>2, <1>3 DEF Excused

\* Requests only end sockets.
LEMMA Ends ==
    ASSUME AInv, NEW r \in Requests, Acts(r) \/ Request(r), NEW s \in Sockets
    PROVE  sock'[s] = sock[s] \/ sock'[s].user = None
<1>1. CASE UNCHANGED sock
  BY <1>1
<1>2. CASE evict_user(r)
  <2>1. sock \in [Sockets -> SocketState]
    BY DEF AInv, SocketsOK
  <2>2. PICK x : sock' = sock \/ sock' = [sock EXCEPT ![x] = Gone(x)]
    BY <1>2 DEF evict_user
  <2>3. Gone(x).user = None
    BY DEF Gone
  <2> QED
    BY <2>1, <2>2, <2>3
<1> QED
  BY <1>1, <1>2
  DEF Acts, Request, Drop, user_by_username, insert_user, update_password_hash,
      invalidate_user_sessions, create_session, user_by_id, authenticate_token, logout,
      delete_user_account, set_user_flag, Snapshot, Reads

\* A request that is about to disconnect a socket does so, unless dropped.
LEMMA StaysLeaving ==
    ASSUME AInv, WorkOK, NEW q \in Requests, Acts(q) \/ Request(q), NEW r \in Requests,
           NEW s \in Sockets, Leaving(r, s), sock[s].user # None, sock'[s] = sock[s],
           sock[s].state = "up"
    PROVE  Leaving(r, s)' \/ sock[s].user \in torn'
<1>1. CASE r # q
  <2>1. job'[r] = job[r]
    BY <1>1, Own, Asked
  <2> QED
    BY <2>1 DEF Leaving
<1>2. CASE r = q
  <2>1. /\ job[q].plan # <<>> /\ job[q].user = sock[s].user
        /\ First(job[q].plan) \in {"snapshot", "evict"}
    BY <1>2, Shapes DEF Leaving
  <2>2. Acts(q)
    BY <2>1, Asked
  <2>3. Drop(q) \/ Snapshot(q) \/ evict_user(q)
    BY <2>1, <2>2 DEF Acts, user_by_username, insert_user, update_password_hash,
         invalidate_user_sessions, create_session, user_by_id, authenticate_token, logout,
         delete_user_account, set_user_flag, At, First
  <2>4. CASE Drop(q)
    BY <2>1, <2>4 DEF Drop
  <2>5. CASE Snapshot(q)
    <3>1. job[q].plan = Disconnect
      BY <1>2, <2>5, Shapes DEF Snapshot, At, Leaving, First
    <3>2. s \in SocketsOf(job[q].user)
      BY <2>1 DEF SocketsOf
    <3>3. job'[q].plan = Evict1 /\ job'[q].user = job[q].user /\ s \in job'[q].out
      <4>1. Become(q, Rest(job[q].plan), job[q].user, job[q].password, SocketsOf(job[q].user))
        BY <2>5 DEF Snapshot, Rest
      <4>2. Rest(job[q].plan) = Evict1
        BY <3>1, Shapes
      <4> QED
        BY <3>2, <4>1, <4>2, Fields
    <3> QED
      BY <1>2, <2>1, <3>3 DEF Leaving
  <2>6. CASE evict_user(q)
    <3>1. job[q].plan = Evict1 /\ s \in job[q].out
      BY <1>2, <2>6, Shapes DEF evict_user, At, Leaving, First
    <3>2. PICK x \in job[q].out :
             /\ sock' = [sock EXCEPT ![x] = Gone(x)]
             /\ Become(q, job[q].plan, job[q].user, job[q].password, job[q].out \ {x})
      BY <2>6, <3>1 DEF evict_user
    <3>3. x # s
      <4>1. sock \in [Sockets -> SocketState] /\ Gone(s).user = None
        BY DEF AInv, SocketsOK, Gone
      <4> QED
        BY <3>2, <4>1
    <3>4. job'[q].plan = Evict1 /\ job'[q].user = job[q].user /\ s \in job'[q].out
      BY <3>1, <3>2, <3>3, Fields
    <3> QED
      BY <1>2, <2>1, <3>4 DEF Leaving
  <2> QED
    BY <2>3, <2>4, <2>5, <2>6
<1> QED
  BY <1>1, <1>2

LEMMA StaysOwing ==
    ASSUME AInv, WorkOK, NEW q \in Requests, Acts(q) \/ Request(q), NEW r \in Requests,
           NEW s \in Sockets, Owing(r, s), sock[s].user # None, sock'[s] = sock[s],
           sock[s].state = "up"
    PROVE  \/ Owing(r, s)' \/ sock[s].user \in torn'
           \/ account[sock[s].user].state # "live"
<1>1. CASE Leaving(r, s)
  BY <1>1, StaysLeaving DEF Owing
<1>2. CASE r # q
  <2>1. job'[r] = job[r]
    BY <1>2, Own, Asked
  <2> QED
    BY <2>1 DEF Owing, Leaving
<1>3. CASE r = q /\ job[q].plan \in {Reset4, Reset3, Remove3, Bar3}
  <2>1. /\ job[q].plan # <<>> /\ job[q].user = sock[s].user
        /\ First(job[q].plan) \in {"open", "reread", "remove", "invalidate"}
    BY <1>3, Shapes DEF Owing, Leaving
  <2>2. Acts(q)
    BY <2>1, Asked
  <2>3. job'[q].user = sock[s].user /\ Moved(q)
    BY <2>1, <2>2, Own
  <2>4. CASE job'[q].plan = Rest(job[q].plan)
    <3>1. job'[q].plan \in {Reset3, Disconnect}
      BY <1>3, <2>4, Shapes
    <3> QED
      BY <1>3, <2>3, <3>1 DEF Owing, Leaving
  <2> QED
    BY <2>1, <2>3, <2>4 DEF Moved
<1> QED
  BY <1>1, <1>2, <1>3 DEF Owing
-----------------------------------------------------------------------------
\* The token t stands for the account u: in the table of sessions, in a socket,
\* in the message a socket is being served or in a logout.
Claimed(t, u) ==
    \/ row[t] = u
    \/ \E s \in Sockets : sock[s].token = t /\ sock[s].user = u
    \/ \E s \in Sockets : ws[s].token = t /\ ws[s].user = u
    \/ \E r \in Requests : job[r].kind = "logout" /\ job[r].token = t /\ job[r].user = u

\* A token stands for one account from its generation on.
ClaimsOK ==
    /\ \A t \in Tokens, u \in Users, v \in Users : Claimed(t, u) /\ Claimed(t, v) => u = v
    /\ \A t \in Tokens, u \in Users : Claimed(t, u) => issued[t] # None
    /\ \A s \in Sockets : sock[s].user # None => sock[s].token \in Tokens /\ sock[s].state = "up"
    /\ \A s \in Sockets : ws[s].stage \in {"owner", "write"} => ws[s].token \in Tokens

\* How the session of a socket comes to be revoked: each time by a request
\* that has to disconnect it next, or that excuses it.
LEMMA Revokes ==
    ASSUME AInv, WorkOK, ClaimsOK, NEW q \in Requests, Acts(q), NEW s \in Sockets,
           sock[s].user # None, sock'[s] = sock[s], ~Revoked(s), Revoked(s)'
    PROVE  Covered(s)'
<1> DEFINE u == sock[s].user
           t == sock[s].token
<1>1. /\ u \in Users /\ account[u].state = "live" /\ t \in Tokens /\ row[t] \in Users
      /\ ~account[u].disabled /\ ~account[u].banned
  BY DEF AInv, TablesOK, SocketsOK, CheckedBefore, Revoked, Barred, ClaimsOK
<1>2. row[t] = u
  BY <1>1 DEF ClaimsOK, Claimed
<1>3. /\ job[q].plan # <<>> /\ PlanOK(job[q].kind, job[q].plan)
      /\ job'[q].kind = job[q].kind /\ job'[q].token = job[q].token
  BY Own DEF WorkOK
<1>4. ASSUME Proceed(q), job[q].user = u,
             \/ Rest(job[q].plan) \in {Reset4, Remove3, Bar3, Disconnect}
             \/ job[q].kind = "purge"
      PROVE  Covered(s)'
  <2>1. job'[q].user = u /\ job'[q].plan = Rest(job[q].plan)
    BY <1>4, Fields DEF Proceed, Rest
  <2> QED
    BY <1>3, <1>4, <2>1 DEF Covered, Owing, Leaving, Excused
<1>5. CASE delete_user_account(q)
  <2>1. First(job[q].plan) = "remove" /\ Proceed(q) /\ UNCHANGED row
    BY <1>5 DEF delete_user_account, At, First
  <2>2. Rest(job[q].plan) = Disconnect \/ job[q].kind = "purge"
    BY <1>3, <2>1, Next1, Shapes
  <2>3. job[q].user = u
    <3>1. CASE job[q].user # u
      <4>1. account'[u] = account[u]
        BY <1>1, <1>5, <3>1 DEF delete_user_account, AInv, TablesOK
      <4> QED
        BY <2>1, <4>1 DEF Revoked, Barred
    <3> QED
      BY <3>1
  <2> QED
    BY <1>4, <2>1, <2>2, <2>3
<1>6. CASE set_user_flag(q)
  <2>1. First(job[q].plan) \in {"bar", "lift"} /\ Proceed(q) /\ UNCHANGED row
    BY <1>6 DEF set_user_flag, At, First
  <2>2. job[q].user = u
    <3>1. CASE job[q].user # u
      <4>1. account'[u] = account[u]
        BY <1>1, <1>6, <3>1 DEF set_user_flag, Flagged, AInv, TablesOK
      <4> QED
        BY <2>1, <4>1 DEF Revoked, Barred
    <3> QED
      BY <3>1
  <2>3. CASE First(job[q].plan) = "bar"
    <3>1. Rest(job[q].plan) = Bar3
      BY <1>3, <2>3, Next1, Shapes
    <3> QED
      BY <1>4, <2>1, <2>2, <3>1
  <2>4. CASE First(job[q].plan) = "lift"
    <3>1. job[q].kind \in {"unban", "enable"}
      BY <1>3, <2>4, Next1
    <3>2. account'[u].state = "live" /\ ~account'[u].disabled /\ ~account'[u].banned
      BY <1>1, <1>6, <2>2, <3>1 DEF set_user_flag, Flagged, AInv, TablesOK
    <3> QED
      BY <2>1, <3>2 DEF Revoked, Barred
  <2> QED
    BY <2>1, <2>3, <2>4
<1>7. CASE invalidate_user_sessions(q)
  <2>1. First(job[q].plan) = "invalidate" /\ Proceed(q) /\ UNCHANGED account
    BY <1>7 DEF invalidate_user_sessions, At, First
  <2>2. job[q].user = u
    <3>1. CASE job[q].user # u
      <4>1. row'[t] = row[t]
        BY <1>1, <1>2, <1>7, <3>1 DEF invalidate_user_sessions
      <4> QED
        BY <2>1, <4>1 DEF Revoked, Barred
    <3> QED
      BY <3>1
  <2>3. Rest(job[q].plan) \in {Reset4, Remove3, Disconnect} \/ job[q].kind = "purge"
    BY <1>3, <2>1, Next1, Shapes
  <2> QED
    BY <1>4, <2>1, <2>2, <2>3
<1>8. CASE logout(q)
  <2>1. First(job[q].plan) = "revoke" /\ Proceed(q) /\ UNCHANGED account
    BY <1>8 DEF logout, At, First
  <2>2. job[q].plan = Logout3 /\ job[q].kind = "logout"
    BY <1>3, <2>1, Next1
  <2>3. job[q].token = t
    <3>1. CASE job[q].token # t
      <4>1. row'[t] = row[t]
        BY <1>1, <1>8, <3>1 DEF logout, AInv, TablesOK
      <4> QED
        BY <2>1, <4>1 DEF Revoked, Barred
    <3> QED
      BY <3>1
  <2>4. job[q].user = u \/ job[q].user = None
    <3>1. job[q].user \in Users \cup {None}
      BY DEF AInv, TablesOK, JobsTyped
    <3> QED
      BY <1>1, <2>2, <2>3, <3>1 DEF ClaimsOK, Claimed
  <2>5. Rest(job[q].plan) = Disconnect
    BY <2>2, Shapes
  <2>6. CASE job[q].user = None
    <3>1. job'[q].user = None /\ job'[q].plan = Disconnect
      <4>1. Become(q, Rest(job[q].plan), job[q].user, job[q].password, job[q].out)
        BY <2>1 DEF Proceed, Rest
      <4> QED
        BY <2>5, <2>6, <4>1, Fields
    <3> QED
      BY <1>3, <2>2, <3>1 DEF Covered, Excused
  <2> QED
    BY <1>4, <2>1, <2>4, <2>5, <2>6
<1>9. CASE insert_user(q) \/ update_password_hash(q)
  <2>1. account'[u].state = "live" /\ ~account'[u].disabled /\ ~account'[u].banned
    BY <1>1, <1>9 DEF insert_user, update_password_hash, AInv, TablesOK, AccountRow
  <2> QED
    BY <1>1, <1>9, <2>1 DEF Revoked, Barred, insert_user, update_password_hash
<1>10. CASE create_session(q)
  <2>1. row'[t] # None
    <3>1. issued[t] # None
      BY <1>1, <1>2 DEF ClaimsOK, Claimed
    <3>2. row'[t] = row[t]
      BY <1>1, <1>10, <3>1 DEF create_session, AInv, TablesOK
    <3> QED
      BY <1>1, <3>2, AccountsAssumption
  <2> QED
    BY <1>10, <2>1 DEF Revoked, Barred, create_session
<1>11. CASE UNCHANGED <<account, row>>
  BY <1>11 DEF Revoked, Barred
<1> QED
  BY <1>5, <1>6, <1>7, <1>8, <1>9, <1>10, <1>11
  DEF Acts, Drop, user_by_username, user_by_id, authenticate_token, Snapshot, evict_user, Reads

\* Likewise the account of a socket comes to be deleted by a request that has
\* to disconnect it next, or by a purge.
LEMMA Deletes ==
    ASSUME AInv, WorkOK, NEW q \in Requests, Acts(q), NEW s \in Sockets,
           sock[s].user # None, sock'[s] = sock[s], account[sock[s].user].state # "deleted",
           account'[sock[s].user].state = "deleted"
    PROVE  Expelled(s)'
<1> DEFINE u == sock[s].user
<1>1. u \in Users /\ account[u].state # "new"
  BY DEF AInv, SocketsOK, CheckedBefore
<1>2. delete_user_account(q) /\ job[q].user = u
  <2>1. CASE insert_user(q) \/ update_password_hash(q) \/ set_user_flag(q)
    <3>1. account \in [Users -> AccountRow] /\ account[u] \in AccountRow
      BY <1>1 DEF AInv, TablesOK
    <3>2. CASE insert_user(q) \/ update_password_hash(q)
      BY <1>1, <3>1, <3>2 DEF insert_user, update_password_hash, AccountRow
    <3>3. CASE set_user_flag(q)
      BY <1>1, <3>1, <3>3 DEF set_user_flag, Flagged
    <3> QED
      BY <2>1, <3>2, <3>3
  <2>2. CASE delete_user_account(q) /\ job[q].user # u
    <3>1. account'[u] = account[u]
      BY <1>1, <2>2 DEF delete_user_account, AInv, TablesOK
    <3> QED
      BY <3>1
  <2> QED
    BY <2>1, <2>2
    DEF Acts, Drop, user_by_username, user_by_id, authenticate_token, Snapshot, evict_user, Reads,
        invalidate_user_sessions, create_session, logout
<1>3. /\ job[q].plan # <<>> /\ PlanOK(job[q].kind, job[q].plan)
      /\ First(job[q].plan) = "remove" /\ Proceed(q)
  BY <1>2, Own DEF WorkOK, delete_user_account, At, First
<1>4. Rest(job[q].plan) = Disconnect \/ job[q].kind = "purge"
  BY <1>3, Next1, Shapes
<1>5. job'[q].user = u /\ job'[q].plan = Rest(job[q].plan) /\ job'[q].kind = job[q].kind
  BY <1>2, <1>3, Fields DEF Proceed, Rest
<1> QED
  BY <1>2, <1>4, <1>5 DEF Expelled, Leaving, Excused
-----------------------------------------------------------------------------
LEMMA ClaimsShrink ==
    ASSUME ClaimsOK, issued' = issued,
           \A t \in Tokens, u \in Users : Claimed(t, u)' => Claimed(t, u),
           \A s \in Sockets : sock'[s].user # None => sock'[s].token \in Tokens /\ sock'[s].state = "up",
           \A s \in Sockets : ws'[s].stage \in {"owner", "write"} => ws'[s].token \in Tokens
    PROVE  ClaimsOK'
<1>1. /\ \A t \in Tokens, u \in Users, v \in Users : Claimed(t, u)' /\ Claimed(t, v)' => u = v
      /\ \A t \in Tokens, u \in Users : Claimed(t, u)' => issued'[t] # None
  BY DEF ClaimsOK
<1> QED
  BY <1>1 DEF ClaimsOK

\* The users named in the steps of requests come from the tables.
LEMMA ClaimsByRequest ==
    ASSUME AInv, WorkOK, ClaimsOK, NEW q \in Requests, Acts(q) \/ Request(q)
    PROVE  ClaimsOK'
<1>1. ASSUME NEW r \in Requests, NEW t \in Tokens, NEW u \in Users,
             job'[r].kind = "logout", job'[r].token = t, job'[r].user = u
      PROVE  Claimed(t, u)
  <2>1. CASE r # q
    <3>1. job'[r] = job[r]
      BY <2>1, Own, Asked
    <3> QED
      BY <1>1, <3>1 DEF Claimed
  <2>2. CASE r = q
    <3>1. Acts(q)
      BY <1>1, <2>2, Asked, AccountsAssumption
    <3>2. job[q].kind = "logout" /\ job[q].token = t
      BY <1>1, <2>2, <3>1, Own
    <3>3. CASE job'[q].user = job[q].user
      BY <1>1, <2>2, <3>2, <3>3 DEF Claimed
    <3>4. CASE authenticate_token(q)
      <4>1. PICK v : Become(q, IF v # None \/ job[q].kind = "logout" THEN Tail(job[q].plan) ELSE <<>>,
                            v, 0, {})
                     /\ (v = None \/ v = row[t] \/ v = job[q].user)
        BY <3>2, <3>4 DEF authenticate_token
      <4>2. job'[q].user = v
        BY <4>1, Fields
      <4> QED
        BY <1>1, <2>2, <3>2, <4>1, <4>2, AccountsAssumption DEF Claimed
    <3>5. job'[q].user = job[q].user \/ authenticate_token(q)
      <4>1. job'[q].user = job[q].user \/ At(q, "token") \/ At(q, "owner")
        BY <3>1, Own DEF At, First
      <4>2. (At(q, "token") \/ At(q, "owner")) /\ Acts(q) => authenticate_token(q) \/ Drop(q)
        BY DEF Acts, user_by_username, insert_user, update_password_hash, invalidate_user_sessions,
               create_session, user_by_id, logout, delete_user_account, set_user_flag, Snapshot,
               evict_user, At
      <4>3. Drop(q) => job'[q].user = job[q].user
        BY Fields DEF Drop, Stop
      <4> QED
        BY <3>1, <4>1, <4>2, <4>3
    <3> QED
      BY <3>3, <3>4, <3>5
  <2> QED
    BY <2>1, <2>2
<1>2. ws' = ws
  BY DEF Acts, Request, Drop, user_by_username, insert_user, update_password_hash,
         invalidate_user_sessions, create_session, user_by_id, authenticate_token, logout,
         delete_user_account, set_user_flag, Snapshot, evict_user, Reads
<1>3. \A s \in Sockets : sock'[s] = sock[s] \/ sock'[s].user = None
  BY Ends
<1>4. ASSUME NEW t \in Tokens, NEW u \in Users, Claimed(t, u)' PROVE Claimed(t, u) \/ row'[t] = u
  BY <1>1, <1>2, <1>3, <1>4, AccountsAssumption DEF Claimed
<1>5. /\ \A s \in Sockets : sock'[s].user # None => sock'[s].token \in Tokens /\ sock'[s].state = "up"
      /\ \A s \in Sockets : ws'[s].stage \in {"owner", "write"} => ws'[s].token \in Tokens
  BY <1>2, <1>3 DEF ClaimsOK
<1>6. CASE create_session(q)
  <2>1. PICK n \in Tokens : /\ issued[n] = None
                            /\ row' = [row EXCEPT ![n] = job[q].user]
                            /\ issued' = [issued EXCEPT ![n] =
                                  [password |-> job[q].password,
                                   late |-> job[q].password < account[job[q].user].password]]
    BY <1>6 DEF create_session
  <2>2. issued'[n] # None
    <3>1. issued' \in [Tokens -> {None} \cup Issue]
      BY WorkKept DEF WorkOK, Next, Acts
    <3>2. First(job[q].plan) = "open" /\ job[q].plan # <<>>
      BY <1>6 DEF create_session, At, First
    <3>3. job[q].user \in Users /\ job[q].password \in Nat
      BY <3>2, Next1 DEF WorkOK
    <3>4. account[job[q].user].password \in Nat
      BY <3>3 DEF AInv, TablesOK, AccountRow
    <3>5. [password |-> job[q].password,
           late |-> job[q].password < account[job[q].user].password] \in Issue
      BY <3>3, <3>4 DEF Issue
    <3>6. issued'[n] \in Issue
      BY <2>1, <3>5 DEF WorkOK
    <3> QED
      BY <3>6, AccountsAssumption DEF Issue
  <2>3. \A t \in Tokens \ {n} : row'[t] = row[t] /\ issued'[t] = issued[t]
    BY <2>1 DEF AInv, TablesOK, WorkOK
  <2>4. row'[n] = job[q].user
    BY <2>1 DEF AInv, TablesOK
  <2>5. \A u \in Users : ~Claimed(n, u)
    BY <2>1 DEF ClaimsOK
  <2>6. \A t \in Tokens \ {n}, u \in Users : Claimed(t, u)' => Claimed(t, u)
    BY <1>4, <2>3 DEF Claimed
  <2>7. \A u \in Users : Claimed(n, u)' => u = job[q].user
    BY <1>4, <2>4, <2>5
  <2>8. \A t \in Tokens, u \in Users, v \in Users : Claimed(t, u)' /\ Claimed(t, v)' => u = v
    BY <2>6, <2>7 DEF ClaimsOK
  <2>9. \A t \in Tokens, u \in Users : Claimed(t, u)' => issued'[t] # None
    BY <2>2, <2>3, <2>6 DEF ClaimsOK
  <2> QED
    BY <1>5, <2>8, <2>9 DEF ClaimsOK
<1>7. CASE ~create_session(q)
  <2>1. issued' = issued
    BY <1>7 DEF Acts, Request, Drop, user_by_username, insert_user, update_password_hash,
         invalidate_user_sessions, user_by_id, authenticate_token, logout,
         delete_user_account, set_user_flag, Snapshot, evict_user, Reads
  <2>2. \A t \in Tokens : row'[t] = row[t] \/ row'[t] = None
    <3>1. CASE logout(q)
      BY <3>1 DEF logout, AInv, TablesOK
    <3>2. CASE invalidate_user_sessions(q)
      BY <3>2 DEF invalidate_user_sessions
    <3> QED
      BY <1>7, <3>1, <3>2 DEF Acts, Request, Drop, user_by_username, insert_user,
         update_password_hash, user_by_id, authenticate_token,
         delete_user_account, set_user_flag, Snapshot, evict_user, Reads
  <2>3. \A t \in Tokens, u \in Users : Claimed(t, u)' => Claimed(t, u)
    BY <1>4, <2>2, AccountsAssumption DEF Claimed
  <2> QED
    BY <1>5, <2>1, <2>3, ClaimsShrink
<1> QED
  BY <1>6, <1>7

\* A socket that acts for an account after one of its steps did so before,
\* or has just identified and knows whether its session is revoked.
LEMMA SocketMoves ==
    ASSUME AInv, NEW s \in Sockets, Moves(s)
    PROVE  /\ UNCHANGED <<account, row, issued, job, torn>>
           /\ \A q \in Sockets \ {s} : sock'[q] = sock[q] /\ ws'[q] = ws[q]
           /\ \/ sock'[s].user = None
              \/ /\ sock'[s].user = sock[s].user /\ sock'[s].token = sock[s].token
                 /\ sock'[s].late = sock[s].late /\ (sock[s].state = "up" => sock'[s].state = "up")
              \/ /\ ws[s].stage = "write" /\ sock'[s].state = "up"
                 /\ sock'[s].user = ws[s].user /\ sock'[s].token = ws[s].token
                 /\ sock'[s].late = (Barred(ws[s].user) \/ row[ws[s].token] = None)
           /\ \/ ws'[s].user = None
              \/ ws'[s].user = ws[s].user /\ ws'[s].token = ws[s].token /\ ws[s].stage = "owner"
              \/ ws'[s] = ws[s]
              \/ ws'[s].token \in Tokens /\ row[ws'[s].token] = ws'[s].user
              \/ ws'[s].token = None /\ ws'[s].stage = "recheck"
           /\ ws'[s].user = None => ws'[s].stage = "idle"
<1>1. /\ UNCHANGED <<account, row, issued, job, torn>>
      /\ sock \in [Sockets -> SocketState] /\ ws \in [Sockets -> Served]
      /\ \A q \in Sockets : ws[q].stage \in {"owner", "write", "recheck"} => ws[q].user \in Users
      /\ \A q \in Sockets : ws[q].user = None => ws[q].stage = "idle"
  <2>1. /\ sock \in [Sockets -> SocketState] /\ ws \in [Sockets -> Served]
        /\ \A q \in Sockets : ws[q].stage \in {"owner", "write", "recheck"} => ws[q].user \in Users
    BY DEF AInv, SocketsOK, MessagesOK, SeenAt
  <2>2. \A q \in Sockets : ws[q].user = None => ws[q].stage = "idle"
    BY <2>1, AccountsAssumption DEF Served
  <2> QED
    BY <2>1, <2>2 DEF Moves, register_connection, Identify, IdentifyOwner, identify_player,
       ServeFresh, RecheckBegins, revalidate_session, RecheckGone, disconnect_player, Socket
<1>2. CASE Identify(s)
  <2>1. PICK t \in Tokens : /\ row[t] # None /\ sock' = sock
                            /\ ws' = [ws EXCEPT ![s] = [stage |-> "owner", user |-> row[t],
                                                        token |-> t, at |-> 0]]
    BY <1>2 DEF Identify
  <2> QED
    BY <1>1, <2>1
<1>3. CASE Done(s) /\ UNCHANGED sock
  <2>1. /\ ws'[s] = Quiet /\ \A q \in Sockets \ {s} : ws'[q] = ws[q]
        /\ Quiet.user = None /\ Quiet.stage = "idle"
    BY <1>1, <1>3 DEF Done, Quiet
  <2> QED
    BY <1>1, <1>3, <2>1
<1>4. CASE IdentifyOwner(s) /\ ~Done(s)
  <2>1. /\ ws' = [ws EXCEPT ![s] = [stage |-> "write", user |-> ws[s].user, token |-> ws[s].token,
                                    at |-> now]]
        /\ sock' = sock /\ ws[s].stage = "owner" /\ ws[s].user # None
    BY <1>1, <1>4, AccountsAssumption DEF IdentifyOwner, Serving
  <2>2. /\ ws'[s].user = ws[s].user /\ ws'[s].token = ws[s].token
        /\ \A q \in Sockets \ {s} : ws'[q] = ws[q]
    BY <1>1, <2>1
  <2> QED
    BY <1>1, <2>1, <2>2
<1>5. CASE identify_player(s)
  BY <1>1, <1>5 DEF identify_player, Done, Quiet, Serving
<1>6. CASE RecheckBegins(s)
  BY <1>1, <1>6 DEF RecheckBegins
<1>7. CASE ServeFresh(s) \/ register_connection(s)
  BY <1>1, <1>7 DEF ServeFresh, register_connection, SocketState
<1>8. CASE revalidate_session(s)
  <2>1. /\ ws'[s] = Quiet /\ \A q \in Sockets \ {s} : ws'[q] = ws[q]
        /\ Quiet.user = None /\ Quiet.stage = "idle"
    BY <1>1, <1>8 DEF revalidate_session, Done, Quiet
  <2>2. /\ \A q \in Sockets \ {s} : sock'[q] = sock[q]
        /\ \/ sock'[s].user = None
           \/ /\ sock'[s].user = sock[s].user /\ sock'[s].token = sock[s].token
              /\ sock'[s].late = sock[s].late /\ sock'[s].state = sock[s].state
    BY <1>1, <1>8 DEF revalidate_session, Gone, SocketState
  <2> QED
    BY <1>1, <2>1, <2>2
<1>9. CASE disconnect_player(s)
  BY <1>1, <1>9 DEF disconnect_player, Gone
<1> QED
  BY <1>2, <1>3, <1>4, <1>5, <1>6, <1>7, <1>8, <1>9 DEF Moves, RecheckGone, IdentifyOwner

LEMMA ClaimsBySocket ==
    ASSUME AInv, ClaimsOK, NEW s \in Sockets, Moves(s)
    PROVE  ClaimsOK'
<1>1. ASSUME NEW t \in Tokens, NEW u \in Users, Claimed(t, u)' PROVE Claimed(t, u)
  <2>1. ASSUME NEW q \in Sockets, sock'[q].token = t, sock'[q].user = u PROVE Claimed(t, u)
    <3>1. CASE q # s
      <4>1. sock'[q] = sock[q]
        BY <3>1, SocketMoves
      <4> QED
        BY <2>1, <4>1 DEF Claimed
    <3>2. CASE q = s
      <4>1. \/ sock[s].user = u /\ sock[s].token = t
            \/ ws[s].user = u /\ ws[s].token = t
        BY <2>1, <3>2, SocketMoves, AccountsAssumption
      <4> QED
        BY <4>1 DEF Claimed
    <3> QED
      BY <3>1, <3>2
  <2>2. ASSUME NEW q \in Sockets, ws'[q].token = t, ws'[q].user = u PROVE Claimed(t, u)
    <3>1. CASE q # s
      <4>1. ws'[q] = ws[q]
        BY <3>1, SocketMoves
      <4> QED
        BY <2>2, <4>1 DEF Claimed
    <3>2. CASE q = s
      <4>1. row[t] = u \/ (ws[s].user = u /\ ws[s].token = t)
        BY <2>2, <3>2, SocketMoves, AccountsAssumption
      <4> QED
        BY <4>1 DEF Claimed
    <3> QED
      BY <3>1, <3>2
  <2>3. job' = job /\ row' = row
    BY SocketMoves
  <2> QED
    BY <1>1, <2>1, <2>2, <2>3 DEF Claimed
<1>2. ASSUME NEW q \in Sockets, sock'[q].user # None
      PROVE  sock'[q].token \in Tokens /\ sock'[q].state = "up"
  <2>1. CASE q # s
    <3>1. sock'[q] = sock[q]
      BY <2>1, SocketMoves
    <3> QED
      BY <1>2, <3>1 DEF ClaimsOK
  <2>2. CASE q = s
    BY <1>2, <2>2, SocketMoves DEF ClaimsOK
  <2> QED
    BY <2>1, <2>2
<1>3. ASSUME NEW q \in Sockets, ws'[q].stage \in {"owner", "write"} PROVE ws'[q].token \in Tokens
  <2>1. CASE q # s
    <3>1. ws'[q] = ws[q]
      BY <2>1, SocketMoves
    <3> QED
      BY <1>3, <3>1 DEF ClaimsOK
  <2>2. CASE q = s
    BY <1>3, <2>2, SocketMoves DEF ClaimsOK
  <2> QED
    BY <2>1, <2>2
<1>4. issued' = issued
  BY SocketMoves
<1> QED
  BY <1>1, <1>2, <1>3, <1>4, ClaimsShrink

\* Nothing a socket does makes it outlive the revocation of its session.
LEMMA CoveredBySocket ==
    ASSUME AInv, ClaimsOK, SocketsCovered, NEW s \in Sockets, Moves(s)
    PROVE  SocketsCovered'
<1>1. UNCHANGED <<account, row, job, torn>>
  BY SocketMoves
<1>2. ASSUME NEW q \in Sockets, sock'[q].user # None, ~sock'[q].late,
             sock'[q].user = sock[q].user, sock'[q].token = sock[q].token,
             sock'[q].late = sock[q].late
      PROVE  SocketOK(q)'
  BY <1>1, <1>2
  DEF SocketsCovered, SocketOK, Covered, Expelled, Owing, Leaving, Excused, Revoked, Barred
<1>3. ASSUME NEW q \in Sockets, ~Revoked(q)' PROVE SocketOK(q)'
  BY <1>3 DEF SocketOK, Revoked, Barred
<1>4. ASSUME NEW q \in Sockets, sock'[q].user # None, ~sock'[q].late PROVE SocketOK(q)'
  <2>1. CASE q # s
    BY <1>2, <1>4, <2>1, SocketMoves
  <2>2. CASE q = s /\ sock'[s].user = sock[s].user /\ sock'[s].token = sock[s].token
             /\ sock'[s].late = sock[s].late
    BY <1>2, <1>4, <2>2
  <2>3. CASE q = s /\ sock'[s].user = ws[s].user /\ sock'[s].token = ws[s].token
             /\ sock'[s].late = (Barred(ws[s].user) \/ row[ws[s].token] = None)
    <3>1. ~Revoked(s)'
      BY <1>1, <1>4, <2>3 DEF Revoked, Barred
    <3> QED
      BY <1>3, <2>3, <3>1
  <2> QED
    BY <1>4, <2>1, <2>2, <2>3, SocketMoves
<1> QED
  BY <1>4 DEF SocketsCovered, SocketOK

\* A request keeps every revoked socket covered.
LEMMA CoveredByRequest ==
    ASSUME AInv, WorkOK, ClaimsOK, SocketsCovered, NEW q \in Requests, Acts(q) \/ Request(q)
    PROVE  SocketsCovered'
<1> SUFFICES ASSUME NEW s \in Sockets, sock'[s].user # None, ~sock'[s].late
             PROVE  SocketOK(s)'
  BY DEF SocketsCovered, SocketOK
<1> DEFINE u == sock[s].user
<1>1. /\ sock'[s] = sock[s] /\ u # None /\ ~sock[s].late /\ u \in Users /\ sock[s].state = "up"
      /\ account[u].state # "new"
  BY Ends DEF AInv, SocketsOK, CheckedBefore, ClaimsOK
<1>2. torn \subseteq torn'
  BY Own, Asked
<1>3. ASSUME Expelled(s) PROVE Expelled(s)'
  <2>1. CASE Excused(u)
    BY <1>1, <2>1, StaysExcused DEF Expelled, Excused
  <2>2. CASE \E r \in Requests : Leaving(r, s)
    BY <1>1, <2>2, StaysLeaving DEF Expelled, Excused
  <2> QED
    BY <1>3, <2>1, <2>2 DEF Expelled
<1>4. Expelled(s)' => Covered(s)'
  BY DEF Expelled, Covered, Owing
<1>5. ASSUME account'[u].state = "deleted" PROVE Expelled(s)'
  <2>1. CASE account[u].state = "deleted"
    BY <1>1, <1>3, <2>1 DEF SocketsCovered, SocketOK
  <2>2. CASE account[u].state # "deleted"
    <3>1. Acts(q)
      BY <1>5, <2>2, Asked
    <3> QED
      BY <1>1, <1>5, <2>2, <3>1, Deletes
  <2> QED
    BY <2>1, <2>2
<1>6. ASSUME Revoked(s)' PROVE Covered(s)'
  <2>1. CASE Revoked(s)
    <3>1. Covered(s)
      BY <1>1, <2>1 DEF SocketsCovered, SocketOK
    <3>2. CASE Excused(u)
      BY <1>1, <3>2, StaysExcused DEF Covered, Excused
    <3>3. ASSUME NEW r \in Requests, Owing(r, s) PROVE Covered(s)'
      <4>1. Owing(r, s)' \/ u \in torn' \/ account[u].state # "live"
        BY <1>1, <3>3, StaysOwing
      <4>2. CASE account[u].state # "live"
        <5>1. account[u].state = "deleted"
          BY <1>1, <4>2 DEF AInv, TablesOK, AccountRow
        <5> QED
          BY <1>1, <1>3, <1>4, <5>1 DEF SocketsCovered, SocketOK
      <4> QED
        BY <1>1, <4>1, <4>2 DEF Covered, Excused
    <3> QED
      BY <3>1, <3>2, <3>3 DEF Covered
  <2>2. CASE ~Revoked(s)
    <3>1. Acts(q)
      BY <1>1, <1>6, <2>2, Asked DEF Revoked, Barred
    <3> QED
      BY <1>1, <1>6, <2>2, <3>1, Revokes
  <2> QED
    BY <2>1, <2>2
<1> QED
  BY <1>1, <1>5, <1>6 DEF SocketOK
-----------------------------------------------------------------------------
\* A session opened with an old password is deleted by the reset that changed
\* it, unless that was dropped or the session was opened after it was deleted.
OldSessionsEnd ==
    \A t \in Tokens :
       row[t] # None /\ ~issued[t].late /\ issued[t].password < account[row[t]].password =>
          \/ row[t] \in torn
          \/ \E r \in Requests : job[r].plan = Reset5 /\ job[r].user = row[t]

LEMMA OldSessions ==
    ASSUME AInv, WorkOK, ClaimsOK, OldSessionsEnd, NEW q \in Requests, Acts(q) \/ Request(q)
    PROVE  OldSessionsEnd'
<1> SUFFICES ASSUME NEW t \in Tokens, row'[t] # None, ~issued'[t].late,
                    issued'[t].password < account'[row'[t]].password
             PROVE  \/ row'[t] \in torn'
                    \/ \E r \in Requests : job'[r].plan = Reset5 /\ job'[r].user = row'[t]
  BY DEF OldSessionsEnd
<1>1. torn \subseteq torn' /\ \A r \in Requests \ {q} : job'[r] = job[r]
  BY Own, Asked
<1>2. row'[t] = row[t] /\ issued'[t] = issued[t]
  <2>1. CASE create_session(q)
    <3>1. PICK n \in Tokens : /\ row' = [row EXCEPT ![n] = job[q].user]
                              /\ issued' = [issued EXCEPT ![n] =
                                    [password |-> job[q].password,
                                     late |-> job[q].password < account[job[q].user].password]]
                              /\ account' = account
      BY <2>1 DEF create_session
    <3>2. n # t
      BY <3>1 DEF AInv, TablesOK, WorkOK
    <3> QED
      BY <3>1, <3>2 DEF AInv, TablesOK, WorkOK
  <2>2. CASE ~create_session(q)
    <3>1. issued' = issued
      BY <2>2 DEF Acts, Request, Drop, user_by_username, insert_user, update_password_hash,
         invalidate_user_sessions, user_by_id, authenticate_token, logout,
         delete_user_account, set_user_flag, Snapshot, evict_user, Reads
    <3>2. CASE logout(q)
      BY <3>1, <3>2 DEF logout, AInv, TablesOK
    <3>3. CASE invalidate_user_sessions(q)
      BY <3>1, <3>3 DEF invalidate_user_sessions
    <3> QED
      BY <2>2, <3>1, <3>2, <3>3 DEF Acts, Request, Drop, user_by_username, insert_user,
         update_password_hash, user_by_id, authenticate_token,
         delete_user_account, set_user_flag, Snapshot, evict_user, Reads
  <2> QED
    BY <2>1, <2>2
<1> DEFINE u == row[t]
<1>3. u \in Users /\ u # None
  BY <1>2 DEF AInv, TablesOK
<1>4. CASE update_password_hash(q) /\ job[q].user = u
  <2>1. First(job[q].plan) = "password" /\ job[q].plan # <<>>
    BY <1>4 DEF update_password_hash, At, First
  <2>2. job[q].plan = Reset6
    BY <2>1, Next1 DEF WorkOK
  <2>3. PICK pw : Become(q, Rest(job[q].plan), u, pw, {})
    BY <1>4 DEF update_password_hash, Rest
  <2>4. Rest(job[q].plan) = Reset5
    BY <2>2, Shapes
  <2>5. job'[q].plan = Reset5 /\ job'[q].user = u
    BY <2>3, <2>4, Fields
  <2> QED
    BY <1>2, <2>5
<1>5. CASE ~(update_password_hash(q) /\ job[q].user = u)
  <2>1. account'[u].password = account[u].password
    <3>1. account \in [Users -> AccountRow] /\ account[u] \in AccountRow
      BY <1>3 DEF AInv, TablesOK
    <3>2. CASE insert_user(q) \/ update_password_hash(q) \/ delete_user_account(q)
      BY <1>3, <1>5, <3>1, <3>2 DEF insert_user, update_password_hash, delete_user_account, AccountRow
    <3>3. CASE set_user_flag(q)
      BY <1>3, <3>1, <3>3 DEF set_user_flag, Flagged
    <3> QED
      BY <3>2, <3>3 DEF Acts, Request, Drop, user_by_username, invalidate_user_sessions,
         create_session, user_by_id, authenticate_token, logout, Snapshot, evict_user, Reads
  <2>2. u \in torn \/ \E r \in Requests : job[r].plan = Reset5 /\ job[r].user = u
    BY <1>2, <2>1 DEF OldSessionsEnd
  <2>3. ASSUME job[q].plan = Reset5, job[q].user = u PROVE u \in torn'
    <3>1. /\ Acts(q) /\ First(job[q].plan) = "invalidate" /\ job[q].plan # <<>>
          /\ job[q].kind = "recover"
      <4>1. First(job[q].plan) = "invalidate" /\ job[q].plan # <<>>
        BY <2>3, Shapes
      <4>2. PlanOK(job[q].kind, job[q].plan)
        BY DEF WorkOK
      <4>3. Reset5 \notin {Remove4, Purge2, Bar3}
        BY DEF Reset5, Remove4, Purge2, Bar3
      <4>4. job[q].kind = "recover"
        BY <2>3, <4>1, <4>2, <4>3, Next1
      <4> QED
        BY <4>1, <4>4, Asked
    <3>2. invalidate_user_sessions(q) \/ Drop(q)
      BY <3>1 DEF Acts, user_by_username, insert_user, update_password_hash,
         create_session, user_by_id, authenticate_token, logout,
         delete_user_account, set_user_flag, Snapshot, evict_user, At, First
    <3>3. CASE Drop(q)
      BY <2>3, <3>3 DEF Drop
    <3>4. CASE invalidate_user_sessions(q)
      <4>1. row'[t] = None
        BY <2>3, <3>1, <3>4 DEF invalidate_user_sessions
      <4> QED
        BY <4>1
    <3> QED
      BY <3>2, <3>3, <3>4
  <2> QED
    BY <1>1, <1>2, <2>2, <2>3
<1> QED
  BY <1>4, <1>5
-----------------------------------------------------------------------------
\* The inductive invariant of the sessions.
SInv == AInv /\ WorkOK /\ ClaimsOK /\ SocketsCovered /\ OldSessionsEnd

LEMMA SessionsBegin ==
    ASSUME Init
    PROVE  SInv
<1>1. AInv
  BY Begins
<1>2. /\ issued = [t \in Tokens |-> IF row[t] = None THEN None ELSE [password |-> 0, late |-> FALSE]]
      /\ sock = [s \in Sockets |-> [state |-> "new", user |-> None, token |-> None,
                                    stamp |-> 0, late |-> FALSE]]
      /\ ws = [s \in Sockets |-> Quiet] /\ job = [r \in Requests |-> Unused]
  BY DEF Init
<1>3. WorkOK
  <2>1. [password |-> 0, late |-> FALSE] \in Issue
    BY DEF Issue
  <2>2. issued \in [Tokens -> {None} \cup Issue]
    BY <1>2, <2>1
  <2>3. \A r \in Requests : job[r].kind = "none" /\ job[r].plan = <<>> /\ job[r].password = 0
    BY <1>2 DEF Unused
  <2> QED
    BY <2>2, <2>3 DEF WorkOK, PlanOK
<1>4. /\ \A s \in Sockets : sock[s].user = None /\ ws[s].user = None /\ ws[s].stage = "idle"
      /\ \A r \in Requests : job[r].user = None
  BY <1>2 DEF Quiet, Unused
<1>5. ClaimsOK
  <2>1. \A t \in Tokens, u \in Users : Claimed(t, u) => row[t] = u
    BY <1>4, AccountsAssumption DEF Claimed
  <2>2. \A t \in Tokens : row[t] # None => issued[t] # None
    <3>1. [password |-> 0, late |-> FALSE] \in [password: Nat, late: BOOLEAN]
      OBVIOUS
    <3> QED
      BY <1>2, <3>1, AccountsAssumption
  <2> QED
    BY <1>4, <2>1, <2>2, AccountsAssumption DEF ClaimsOK
<1>6. SocketsCovered
  BY <1>4 DEF SocketsCovered, SocketOK
<1>7. OldSessionsEnd
  <2>1. \A u \in Users : account[u].password = 0
    <3> DEFINE Fresh == {[state |-> st, disabled |-> FALSE, banned |-> FALSE, password |-> 0] :
                           st \in {"new", "live"}}
    <3>1. account \in [Users -> Fresh]
      BY Zenon DEF Init
    <3>2. \A a \in Fresh : a.password = 0
      OBVIOUS
    <3> HIDE DEF Fresh
    <3> QED
      BY <3>1, <3>2
  <2>2. \A t \in Tokens : row[t] # None => row[t] \in Users /\ issued[t].password = 0
    BY <1>1, <1>2 DEF AInv, TablesOK
  <2> QED
    BY <2>1, <2>2 DEF OldSessionsEnd
<1> QED
  BY <1>1, <1>3, <1>5, <1>6, <1>7 DEF SInv

LEMMA SessionSteps ==
    ASSUME SInv, [Next]_vars
    PROVE  SInv'
<1> USE DEF SInv
<1>1. AInv' /\ WorkOK'
  BY Steps, WorkKept
<1>2. ASSUME NEW r \in Requests, Acts(r) \/ Request(r)
      PROVE  ClaimsOK' /\ SocketsCovered' /\ OldSessionsEnd'
  BY <1>2, ClaimsByRequest, CoveredByRequest, OldSessions
<1>3. ASSUME UNCHANGED <<account, row, issued, job, torn>> PROVE OldSessionsEnd'
  BY <1>3 DEF OldSessionsEnd
<1>4. ASSUME NEW s \in Sockets, Moves(s) PROVE ClaimsOK' /\ SocketsCovered' /\ OldSessionsEnd'
  BY <1>3, <1>4, ClaimsBySocket, CoveredBySocket, SocketMoves
<1>5. ASSUME UNCHANGED <<account, row, issued, sock, ws, job, torn>>
      PROVE  ClaimsOK' /\ SocketsCovered' /\ OldSessionsEnd'
  BY <1>3, <1>5 DEF ClaimsOK, Claimed, SocketsCovered, SocketOK, Covered, Expelled, Owing, Leaving,
                    Excused, Revoked, Barred
<1> QED
  BY <1>1, <1>2, <1>4, <1>5, Cases DEF Tick, vars

\* What covers a socket is a request that is pending.
LEMMA Pends ==
    ASSUME SInv
    PROVE  RevocationReachesSockets /\ ResetEndsSessions
<1>1. ASSUME NEW s \in Sockets, Covered(s) PROVE Pending(sock[s].user)
  <2>1. CASE Excused(sock[s].user)
    BY <2>1 DEF Excused, Pending
  <2>2. ASSUME NEW r \in Requests, Owing(r, s) PROVE Pending(sock[s].user)
    BY <2>2, Shapes DEF Owing, Leaving, Pending, AtWork
  <2> QED
    BY <1>1, <2>1, <2>2 DEF Covered
<1>2. RevocationReachesSockets
  BY <1>1 DEF SInv, SocketsCovered, SocketOK, RevocationReachesSockets
<1>3. ASSUME NEW t \in Tokens, row[t] # None
      PROVE  \/ issued[t].password >= account[row[t]].password
             \/ issued[t].late
             \/ Pending(row[t])
  <2>1. row[t] \in Users /\ issued[t] # None
    BY <1>3 DEF SInv, AInv, TablesOK, ClaimsOK, Claimed
  <2>2. issued[t].password \in Nat /\ account[row[t]].password \in Nat
    BY <2>1 DEF SInv, AInv, TablesOK, AccountRow, WorkOK, Issue
  <2>3. CASE issued[t].password < account[row[t]].password /\ ~issued[t].late
    <3>1. \/ row[t] \in torn
          \/ \E r \in Requests : job[r].plan = Reset5 /\ job[r].user = row[t]
      BY <1>3, <2>3 DEF SInv, OldSessionsEnd
    <3> QED
      BY <3>1, Shapes DEF Pending, AtWork
  <2> QED
    BY <2>2, <2>3
<1> QED
  BY <1>2, <1>3 DEF ResetEndsSessions

\* For every number of accounts, tokens, sockets and requests, in whatever
\* order their statements meet: a socket whose session is revoked, by a logout,
\* a password reset, a ban, a disabling or a deletion, is one that a request
\* under way has still to disconnect, or one that identified from what was read
\* before (disconnect_user_sessions, evict_user); the exceptions are the ones
\* Pending names.
THEOREM RevocationsReach == Spec => []RevocationReachesSockets
<1> QED
  BY SessionsBegin, SessionSteps, Pends, PTL DEF Spec

\* For every number of accounts, tokens, sockets and requests: when a password
\* reset is over, the sessions opened with the old password are gone, but for
\* those of a login that overlapped it (recover).
THEOREM ResetsEnd == Spec => []ResetEndsSessions
<1> QED
  BY SessionsBegin, SessionSteps, Pends, PTL DEF Spec
=============================================================================
