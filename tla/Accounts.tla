------------------------------ MODULE Accounts ------------------------------
(***************************************************************************)
(* Accounts, their session tokens and the sockets that act for them        *)
(* (core/database.rs, services/auth.rs, services/admin.rs, and the         *)
(* identification and revalidation of websocket/protocol.rs).              *)
(*                                                                         *)
(* Every SQL statement is a step of its own: no request runs in a          *)
(* transaction.  An HTTP request can be dropped between any two of its     *)
(* steps, when its client hangs up or a statement fails; a socket's        *)
(* messages are served one after the other.                                *)
(*                                                                         *)
(* Left out because they can only refuse: wrong passwords and phrases, name*)
(* checks, feature flags, the expiry of sessions, the 30-day limit of      *)
(* sockets (a socket can end at any time) and the second authentication of *)
(* delete_account.                                                         *)
(***************************************************************************)
EXTENDS Naturals, Sequences, FiniteSets

CONSTANTS
    Users,          \* account ids
    Tokens,         \* session tokens, each generated once
    Sockets,        \* WebSocket sessions, each opened once
    Requests,       \* HTTP requests
    Kinds,          \* the kinds of request made
    Every,          \* life of a check: 5 minutes
    Delay,          \* longest wait between the check and the write of identify
    MaxClock,       \* bound: the last instant of a behaviour
    None

ASSUME AccountsAssumption ==
    /\ None \notin Users \cup Tokens \cup [password: Nat, late: BOOLEAN]
    /\ Kinds \subseteq {"register", "login", "recover", "logout", "delete", "erase", "purge",
                        "ban", "disable", "unban", "enable"}
    /\ Every \in Nat \ {0} /\ Delay \in Nat /\ MaxClock \in Nat

VARIABLES
    account,        \* the table users
    row,            \* the table sessions: token -> user_id
    issued,         \* what each token was generated for
    sock,           \* state.players
    ws,             \* the message a socket is being served
    job,            \* the HTTP requests
    now,            \* now_ms()
    barred_at,      \* history: when each account was last barred
    lag,            \* history: for how long the account was barred when the
                    \* socket was last served
    unchecked,      \* history: sockets served although their check failed
    torn            \* history: accounts with a request dropped half-way

vars == <<account, row, issued, sock, ws, job, now, barred_at, lag, unchecked, torn>>

\* authenticate_token and session_revalidation admit an account that exists
\* and is neither disabled nor banned.
Barred(u) == account[u].state # "live" \/ account[u].disabled \/ account[u].banned

\* Mutant: recover ends the sessions before it changes the password.
ResetSteps_Swapped ==
    <<"phrase", "invalidate", "password", "open", "reread", "snapshot", "evict">>

\* recover.
ResetSteps == <<"phrase", "password", "invalidate", "open", "reread", "snapshot", "evict">>

\* logout.
LogoutSteps == <<"token", "owner", "revoke", "snapshot", "evict">>

\* delete_account, and delete_user_account on behalf of an administrator, who
\* also has many accounts deleted at once (purge_accounts).
DeleteSteps == <<"token", "owner", "exists", "invalidate", "remove", "snapshot", "evict">>
RemoveSteps == <<"exists", "invalidate", "remove", "snapshot", "evict">>
PurgeSteps == <<"exists", "invalidate", "remove">>

\* Mutant: the sockets are looked up before the account is barred.
BarSteps_SnapshotFirst == <<"snapshot", "bar", "invalidate", "evict">>

\* set_user_banned and set_user_disabled.
BarSteps == <<"bar", "invalidate", "snapshot", "evict">>

\* The statements of a request, in their order.
Plan(kind) ==
    CASE kind = "register" -> <<"insert", "open">>
      [] kind = "login" -> <<"verify", "open">>
      [] kind = "recover" -> ResetSteps
      [] kind = "logout" -> LogoutSteps
      [] kind = "delete" -> DeleteSteps
      [] kind = "erase" -> RemoveSteps
      [] kind = "purge" -> PurgeSteps
      [] kind \in {"ban", "disable"} -> BarSteps
      [] kind \in {"unban", "enable"} -> <<"lift">>

Unused == [kind |-> "none", plan |-> <<>>, user |-> None, token |-> None,
           password |-> 0, out |-> {}]

At(r, step) == job[r].plan # <<>> /\ Head(job[r].plan) = step
AtWork(r) == job[r].plan # <<>>

\* What the request still has to do and what it has found out.
Become(r, plan, u, password, out) ==
    job' = [job EXCEPT ![r] = [kind |-> @.kind, plan |-> plan, user |-> u, token |-> @.token,
                               password |-> password, out |-> out]]

\* The request goes on to its next step, or ends.
Proceed(r) == Become(r, Tail(job[r].plan), job[r].user, job[r].password, job[r].out)
Stop(r) == Become(r, <<>>, job[r].user, job[r].password, job[r].out)
ProceedIf(r, test) == IF test THEN Proceed(r) ELSE Stop(r)

\* A statement that reads the database only.
Reads == UNCHANGED <<account, row, issued, sock, ws, now, barred_at, lag, unchecked, torn>>
-----------------------------------------------------------------------------
\* Requests that name an account, and requests that present a token.
Request(r) ==
    /\ job[r] = Unused
    /\ \E kind \in Kinds :
          \E u \in Users \cup {None}, t \in Tokens \cup {None} :
             /\ IF kind \in {"logout", "delete"}
                THEN u = None /\ t # None /\ issued[t] # None
                ELSE u # None /\ t = None
             /\ job' = [job EXCEPT ![r] = [kind |-> kind, plan |-> Plan(kind), user |-> u,
                                           token |-> t, password |-> 0, out |-> {}]]
    /\ Reads

\* The client hangs up, or a statement fails and the handler returns.
Drop(r) ==
    /\ AtWork(r)
    /\ Stop(r)
    /\ torn' = torn \cup {job[r].user}
    /\ UNCHANGED <<account, row, issued, sock, ws, now, barred_at, lag, unchecked>>

\* login and recover read the account and compare the password or the phrase.
user_by_username(r) ==
    LET u == job[r].user
    IN  /\ \/ At(r, "verify") /\ IF ~Barred(u)
                                 THEN Become(r, Tail(job[r].plan), u, account[u].password, {})
                                 ELSE Stop(r)
           \/ At(r, "phrase") /\ ProceedIf(r, account[u].state = "live" /\ ~account[u].banned)
        /\ Reads

\* The new account of register; its id was never used before.
insert_user(r) ==
    /\ At(r, "insert")
    /\ IF account[job[r].user].state = "new"
       THEN account' = [account EXCEPT ![job[r].user].state = "live"] /\ Proceed(r)
       ELSE UNCHANGED account /\ Stop(r)
    /\ UNCHANGED <<row, issued, sock, ws, now, barred_at, lag, unchecked, torn>>

\* The UPDATE of recover; it changes nothing if the account is gone.
update_password_hash(r) ==
    LET u == job[r].user
        version == account[u].password + 1
    IN  /\ At(r, "password")
        /\ account' = IF account[u].state = "live"
                      THEN [account EXCEPT ![u].password = version] ELSE account
        /\ Become(r, Tail(job[r].plan), u, version, {})
        /\ UNCHANGED <<row, issued, sock, ws, now, barred_at, lag, unchecked, torn>>

\* DELETE of the account's sessions; set_user_banned and set_user_disabled go
\* on if it fails.
invalidate_user_sessions(r) ==
    /\ At(r, "invalidate")
    /\ \/ row' = [t \in Tokens |-> IF row[t] = job[r].user THEN None ELSE row[t]]
       \/ job[r].kind \in {"ban", "disable"} /\ UNCHANGED row
    /\ Proceed(r)
    /\ UNCHANGED <<account, issued, sock, ws, now, barred_at, lag, unchecked, torn>>

\* INSERT of a session; nothing asks whether the account is still there.
create_session(r) ==
    LET u == job[r].user
    IN  /\ At(r, "open")
        /\ \E t \in Tokens :
              /\ issued[t] = None
              /\ row' = [row EXCEPT ![t] = u]
              /\ issued' = [issued EXCEPT ![t] =
                    [password |-> job[r].password, late |-> job[r].password < account[u].password]]
        /\ Proceed(r)
        /\ UNCHANGED <<account, sock, ws, now, barred_at, lag, unchecked, torn>>

\* recover and delete_user_account read the account again.
user_by_id(r) ==
    /\ At(r, "reread") \/ At(r, "exists")
    /\ ProceedIf(r, account[job[r].user].state = "live")
    /\ Reads

\* authenticate_token in an HTTP request: first the session, then its account.
\* logout goes on without an account, delete_account does not.
authenticate_token(r) ==
    LET found(u) == Become(r, IF u # None \/ job[r].kind = "logout" THEN Tail(job[r].plan) ELSE <<>>,
                           u, 0, {})
    IN  /\ \/ At(r, "token") /\ found(IF job[r].token = None THEN None ELSE row[job[r].token])
           \/ At(r, "owner") /\ found(IF job[r].user = None \/ Barred(job[r].user)
                                      THEN None ELSE job[r].user)
        /\ Reads

\* DELETE of the token's session.
logout(r) ==
    /\ At(r, "revoke")
    /\ row' = [row EXCEPT ![job[r].token] = None]
    /\ Proceed(r)
    /\ UNCHANGED <<account, issued, sock, ws, now, barred_at, lag, unchecked, torn>>

BarredNow(u) == barred_at' = [barred_at EXCEPT ![u] = IF Barred(u) THEN @ ELSE now]

\* DELETE of the account, after its sessions.
delete_user_account(r) ==
    /\ At(r, "remove")
    /\ account' = [account EXCEPT ![job[r].user].state = "deleted"]
    /\ BarredNow(job[r].user)
    /\ Proceed(r)
    /\ UNCHANGED <<row, issued, sock, ws, now, lag, unchecked, torn>>

\* The UPDATE of set_user_banned and set_user_disabled; it changes nothing if
\* the account is gone.
Flagged(u, kind) ==
    IF account[u].state # "live" THEN account
    ELSE [account EXCEPT ![u] =
            [state |-> "live", password |-> @.password,
             disabled |-> kind = "disable" \/ (@.disabled /\ kind # "enable"),
             banned |-> kind = "ban" \/ (@.banned /\ kind # "unban")]]

set_user_flag(r) ==
    /\ At(r, "bar") \/ At(r, "lift")
    /\ account' = Flagged(job[r].user, job[r].kind)
    /\ IF job[r].kind \in {"ban", "disable"} THEN BarredNow(job[r].user) ELSE UNCHANGED barred_at
    /\ Proceed(r)
    /\ UNCHANGED <<row, issued, sock, ws, now, lag, unchecked, torn>>
-----------------------------------------------------------------------------
Gone(s) == [state |-> "gone", user |-> None, token |-> sock[s].token, stamp |-> sock[s].stamp,
            late |-> sock[s].late]

\* evict_user and disconnect_user_sessions: the sockets of the account are
\* looked up once and then disconnected one by one.
SocketsOf(u) == {s \in Sockets : sock[s].state = "up" /\ u # None /\ sock[s].user = u}

Snapshot(r) ==
    /\ At(r, "snapshot")
    /\ Become(r, Tail(job[r].plan), job[r].user, job[r].password, SocketsOf(job[r].user))
    /\ Reads

evict_user(r) ==
    /\ At(r, "evict")
    /\ \/ /\ job[r].out = {}
          /\ Proceed(r) /\ UNCHANGED sock
       \/ \E s \in job[r].out :
             /\ sock' = [sock EXCEPT ![s] = Gone(s)]
             /\ Become(r, job[r].plan, job[r].user, job[r].password, job[r].out \ {s})
    /\ UNCHANGED <<account, row, issued, ws, now, barred_at, lag, unchecked, torn>>
-----------------------------------------------------------------------------
Quiet == [stage |-> "idle", user |-> None, token |-> None, at |-> 0]
Serving(s, stage) == ws[s].stage = stage
Done(s) == ws' = [ws EXCEPT ![s] = Quiet]

\* A message of the socket that changes no table.
Socket == UNCHANGED <<account, row, issued, job, now, barred_at, torn>>

register_connection(s) ==
    /\ sock[s].state = "new"
    /\ sock' = [sock EXCEPT ![s].state = "up"]
    /\ Socket /\ UNCHANGED <<ws, lag, unchecked>>

\* identify_player: the session's row, then the account's row, then the write
\* that makes the socket the account's.
Identify(s) ==
    /\ sock[s].state = "up" /\ Serving(s, "idle")
    /\ \E t \in Tokens :
          /\ row[t] # None
          /\ ws' = [ws EXCEPT ![s] = [stage |-> "owner", user |-> row[t], token |-> t, at |-> 0]]
    /\ Socket /\ UNCHANGED <<sock, lag, unchecked>>

IdentifyOwner(s) ==
    /\ Serving(s, "owner")
    /\ IF Barred(ws[s].user) THEN Done(s)
       ELSE ws' = [ws EXCEPT ![s] = [stage |-> "write", user |-> @.user, token |-> @.token,
                                     at |-> now]]
    /\ Socket /\ UNCHANGED <<sock, lag, unchecked>>

identify_player(s) ==
    LET u == ws[s].user
    IN  /\ Serving(s, "write")
        /\ sock' = IF sock[s].state = "up"
                   THEN [sock EXCEPT ![s] =
                           [state |-> "up", user |-> u, token |-> ws[s].token, stamp |-> now,
                            late |-> Barred(u) \/ row[ws[s].token] = None]]
                   ELSE sock
        /\ Done(s)
        /\ Socket /\ UNCHANGED <<lag, unchecked>>

\* Mutant: a check counts from the last message on.
StampAfter_Sliding(s) == now

\* A message served within the life of a check leaves the check as it is.
StampAfter(s) == sock[s].stamp

Serve(s) ==
    lag' = [lag EXCEPT ![s] = IF Barred(sock[s].user) THEN now - barred_at[sock[s].user] ELSE 0]

\* revalidate_session in front of any operation but heartbeat and identify: a
\* check is good for a while, ...
ServeFresh(s) ==
    /\ sock[s].state = "up" /\ sock[s].user # None /\ Serving(s, "idle")
    /\ now - sock[s].stamp < Every
    /\ Serve(s)
    /\ sock' = [sock EXCEPT ![s].stamp = StampAfter(s)]
    /\ Socket /\ UNCHANGED <<ws, unchecked>>

RecheckBegins(s) ==
    /\ sock[s].state = "up" /\ sock[s].user # None /\ Serving(s, "idle")
    /\ now - sock[s].stamp >= Every
    /\ ws' = [ws EXCEPT ![s] = [stage |-> "recheck", user |-> sock[s].user, token |-> None,
                                 at |-> now]]
    /\ Socket /\ UNCHANGED <<sock, lag, unchecked>>

\* ... then the account is read again; a failing read lets the message pass.
revalidate_session(s) ==
    /\ Serving(s, "recheck") /\ sock[s].state = "up"
    /\ \/ /\ Barred(ws[s].user)
          /\ sock' = [sock EXCEPT ![s] = Gone(s)]
          /\ UNCHANGED <<lag, unchecked>>
       \/ /\ ~Barred(ws[s].user)
          /\ sock' = [sock EXCEPT ![s].stamp = ws[s].at]
          /\ Serve(s) /\ UNCHANGED unchecked
       \/ /\ unchecked' = unchecked \cup {s}
          /\ Serve(s) /\ UNCHANGED sock
    /\ Done(s)
    /\ Socket

\* The socket was removed while its message was being checked.
RecheckGone(s) ==
    /\ Serving(s, "recheck") /\ sock[s].state = "gone"
    /\ Done(s)
    /\ Socket /\ UNCHANGED <<sock, lag, unchecked>>

\* The client closes the socket, or its heartbeat is missing.
disconnect_player(s) ==
    /\ sock[s].state = "up" /\ Serving(s, "idle")
    /\ sock' = [sock EXCEPT ![s] = Gone(s)]
    /\ Socket /\ UNCHANGED <<ws, lag, unchecked>>

\* Time passes; a socket waits for its write for Delay at most.
Tick ==
    /\ now < MaxClock
    /\ \A s \in Sockets : Serving(s, "write") => now - ws[s].at < Delay
    /\ now' = now + 1
    /\ UNCHANGED <<account, row, issued, sock, ws, job, barred_at, lag, unchecked, torn>>

\* A database in use: the accounts that exist may have a session each.
Init ==
    /\ account \in [Users -> {[state |-> st, disabled |-> FALSE, banned |-> FALSE,
                               password |-> 0] : st \in {"new", "live"}}]
    /\ row \in {f \in [Tokens -> Users \cup {None}] :
                   \A u \in Users :
                       /\ Cardinality({t \in Tokens : f[t] = u}) <= 1
                       /\ account[u].state = "new" => \A t \in Tokens : f[t] # u}
    /\ issued = [t \in Tokens |->
                   IF row[t] = None THEN None ELSE [password |-> 0, late |-> FALSE]]
    /\ sock = [s \in Sockets |-> [state |-> "new", user |-> None, token |-> None,
                                  stamp |-> 0, late |-> FALSE]]
    /\ ws = [s \in Sockets |-> Quiet]
    /\ job = [r \in Requests |-> Unused]
    /\ now = 0
    /\ barred_at = [u \in Users |-> 0]
    /\ lag = [s \in Sockets |-> 0]
    /\ unchecked = {} /\ torn = {}

Next ==
    \/ \E r \in Requests :
          \/ Request(r) \/ Drop(r) \/ user_by_username(r) \/ insert_user(r)
          \/ update_password_hash(r) \/ invalidate_user_sessions(r) \/ create_session(r)
          \/ user_by_id(r) \/ authenticate_token(r) \/ logout(r)
          \/ delete_user_account(r) \/ set_user_flag(r)
          \/ Snapshot(r) \/ evict_user(r)
    \/ \E s \in Sockets :
          \/ register_connection(s) \/ Identify(s) \/ IdentifyOwner(s) \/ identify_player(s)
          \/ ServeFresh(s) \/ RecheckBegins(s) \/ revalidate_session(s) \/ RecheckGone(s)
          \/ disconnect_player(s)
    \/ Tick

Spec == Init /\ [][Next]_vars
-----------------------------------------------------------------------------
(***************************************************************************)
(* Properties.                                                             *)
(***************************************************************************)
\* Type invariant; a socket that is not connected acts for nobody, and a
\* session in the table has been handed out.
TypeOK ==
    /\ account \in [Users -> [state: {"new", "live", "deleted"}, disabled: BOOLEAN,
                              banned: BOOLEAN, password: Nat]]
    /\ row \in [Tokens -> Users \cup {None}]
    /\ \A t \in Tokens : row[t] # None => issued[t] # None
    /\ sock \in [Sockets -> [state: {"new", "up", "gone"}, user: Users \cup {None},
                             token: Tokens \cup {None}, stamp: 0..now, late: BOOLEAN]]
    /\ \A s \in Sockets : sock[s].state # "up" => sock[s].user = None
    /\ \A r \in Requests : job[r].user \in Users \cup {None} /\ job[r].out \subseteq Sockets
    /\ now \in 0..MaxClock
    /\ barred_at \in [Users -> 0..now] /\ lag \in [Sockets -> 0..now]
    /\ unchecked \subseteq Sockets /\ torn \subseteq Users \cup {None}

\* A ban, a disabling or a deletion takes effect: whatever requests race with
\* it or are dropped, a socket is not served for longer than the life of a
\* check and the wait of an identification after its account was barred, if
\* its checks do not fail (revalidate_session, identify_player).
BarTakesEffect ==
    \A s \in Sockets \ unchecked : lag[s] < Every + Delay

\* A request about the account that disconnects its sockets is under way, was
\* dropped, or is one that disconnects none: purge_accounts, and a logout that
\* found no account in good standing for its token.
Pending(u) ==
    \/ u \in torn
    \/ \E r \in Requests : job[r].kind = "logout" /\ job[r].user = None
    \/ \E r \in Requests : AtWork(r) /\ job[r].user = u
    \/ \E r \in Requests : job[r].kind = "purge" /\ job[r].user = u

\* The session of the socket was revoked.
Revoked(s) == Barred(sock[s].user) \/ row[sock[s].token] = None

\* Logout, password reset, ban, disabling and deletion end the sockets of the
\* account: when the request is done, only those are left that were identified
\* from what was read before it (disconnect_user_sessions, evict_user).
RevocationReachesSockets ==
    \A s \in Sockets : sock[s].user # None /\ Revoked(s) /\ ~sock[s].late => Pending(sock[s].user)

\* A password reset ends all sessions opened with the old password but those
\* of a login that had compared it before and inserts its session afterwards
\* (recover).
ResetEndsSessions ==
    \A t \in Tokens : row[t] # None =>
        \/ issued[t].password >= account[row[t]].password
        \/ issued[t].late
        \/ Pending(row[t])
=============================================================================
