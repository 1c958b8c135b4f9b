----------------------------- MODULE AccountData -----------------------------
(***************************************************************************)
(* What the server keeps for an account besides its credentials: the name, *)
(* the profile with its uploaded picture, the badges, the social blob, the *)
(* prekey and the block tags; the copies of it in the identified sessions  *)
(* and in the public profile cache; and the listing administrators see.    *)
(*                                                                         *)
(* Handlers run concurrently on several threads.  A request is a job that  *)
(* takes one step per SQL statement, file operation or critical section;   *)
(* everything else may happen between two steps.  A request can also end   *)
(* between two steps: a statement fails or its client goes away.           *)
(*                                                                         *)
(* A profile is its picture and one further field, "about", for the        *)
(* description, pronouns, links, status line and activity.  The banner is  *)
(* handled as the avatar is.  Login tokens, bans and the sockets' own      *)
(* checks are in Accounts, the session's status and calls in VoiceCalls.   *)
(***************************************************************************)
EXTENDS UserListing

CONSTANTS
    Users,          \* account ids, numbers
    Here,           \* the accounts that exist at first
    Malformed,      \* rows that do not decode (legacy or edited by hand)
    Created,        \* users.created_at
    Names,          \* usernames, lower-cased and numbered in their order
    FirstName,      \* username of each account at first, or on registration
    LookUps,        \* bound: look-ups made, each of an id, a name or both
    Sessions,       \* WebSocket sessions
    UserOf,         \* the account each identifies as
    Requests,       \* requests of one behaviour
    Scenarios,      \* bound: which requests, and how much time, meet
    Abouts,         \* values of the rest of a profile
    PreKeys,        \* prekey bundles
    Hints,          \* senders that can be blocked
    MaxBlocks,      \* MAX_BLOCKS_PER_ACCOUNT
    Versions,       \* versions of the social blob a client puts
    Ttl,            \* PUBLIC_PROFILE_CACHE_TTL_MS
    CacheCap,       \* entries above which the cache is pruned: 10 000
    Week,           \* the span within which a name changes once
    PageLimit,      \* rows on a page of the listing
    None

ASSUME DataAssumption ==
    /\ Users \subseteq Nat /\ IsFiniteSet(Users)
    /\ Here \subseteq Users /\ Malformed \subseteq Here
    /\ Created \in [Users -> Nat] /\ Names \subseteq Nat /\ FirstName \in [Users -> Names]
    /\ \A u, v \in Here : FirstName[u] = FirstName[v] => u = v
    /\ LookUps \subseteq ((Users \cup {None}) \X (Names \cup {None})) \ {<<None, None>>}
    /\ IsFiniteSet(Sessions) /\ UserOf \in [Sessions -> Here \ Malformed]
    /\ Abouts # {}
    /\ IsFiniteSet(Requests) /\ Requests \cap Users = {}
    /\ Versions \subseteq Nat \ {0} /\ MaxBlocks \in Nat \ {0}
    /\ Ttl \in Nat \ {0} /\ CacheCap \in Nat /\ Week \in Nat
    /\ PageLimit \in Nat \ {0}
    /\ None \notin Users \cup Nat \cup Requests \cup Sessions \cup PreKeys \cup Hints

Kinds == {"lookup", "settings", "identify", "upload", "rename", "badges",
          "register", "delete", "erase", "purge", "put_blob", "publish", "blocks", "leave"}
ASSUME KindsAssumption == None \notin Kinds
ProfileKinds == {"settings", "identify", "upload"}

\* A file is named after the request that stored it, an account's first
\* picture after the account.
Files == Users \cup Requests
Pictures == Files \cup {None}

Row == [name: Names, avatar: Pictures, about: Abouts, badges: BOOLEAN,
        ver: Nat, blob: Requests \cup {None}, renamed: Nat \cup {None}]
Public == [user: Users, name: Names, avatar: Pictures, about: Abouts, badges: BOOLEAN]

\* public_profile_cache_key.
CacheKeys == ({"id"} \X Users) \cup ({"username"} \X Names)
public_profile_cache_key(l) ==
    IF l[1] # None THEN <<"id", l[1]>> ELSE <<"username", l[2]>>

VARIABLES
    now,            \* now_ms()
    row,            \* users: account -> Row, None without a row
    files,          \* the upload directory
    prekeys,        \* account -> its published bundle, None without one
    blocks,         \* tags: <<account, bundle whose fingerprint is in it, hint>>
    sess,           \* session -> profile it holds, None when not identified
    cache,          \* public_profile_cache: key -> entry, None without one
    job,            \* the requests
    browse,         \* the listing an administrator pages through
    since,          \* history: when the public part of an account last changed
    marred          \* history: accounts whose profile requests overlapped or failed

vars == <<now, row, files, prekeys, blocks, sess, cache, job, browse, since, marred>>

NoBrowse == [state |-> "none", sort |-> "newest", cursor |-> <<>>,
             seen |-> [u \in Users |-> 0], steady |-> {}]

Entry == [value: Public, expires: Nat, over: BOOLEAN]

ASSUME NoneAssumption ==
    None \notin Row \cup Public \cup Entry \cup [avatar: Pictures, about: Abouts]

\* kind, stage and account; the session; the time read; the look-up; the row
\* or cache entry read; the picture and text to write; the number (new name or
\* version) and the version read; the bundle; the hints to block and unblock;
\* "over": the account changed after the look-up read it, the session that
\* identifies was closed.
Unused == [kind |-> None, stage |-> "new", user |-> None, s |-> None, t |-> 0,
           look |-> <<None, None>>, copy |-> None, avatar |-> None, about |-> None,
           n |-> 0, seen |-> 0, key |-> None, add |-> None, remove |-> None, over |-> FALSE]

AtWork(r) == job[r].stage \notin {"new", "done", "gone"}
At(r, kind, stage) == job[r].kind = kind /\ job[r].stage = stage

Exists(u) == row[u] # None
Shown(u) == [user |-> u, name |-> row[u].name, avatar |-> row[u].avatar,
             about |-> row[u].about, badges |-> row[u].badges]
Named(n) == {u \in Users \ Malformed : Exists(u) /\ row[u].name = n}

\* The requests made so far and the time that passed lie within one scenario.
WithinScenario(jobs, time, listing) ==
    \E sc \in Scenarios :
        LET made == {r \in Requests : jobs[r] # Unused}
        IN  /\ \A r \in made : jobs[r].kind \in sc.kinds /\ jobs[r].user \in sc.users \cup {None}
            /\ Cardinality({r \in made : jobs[r].kind = "lookup"}) <= sc.lookups
            /\ Cardinality({r \in made : jobs[r].kind # "lookup"}) <= sc.others
            /\ time <= sc.clock
            /\ listing => sc.browse
-----------------------------------------------------------------------------
Begin(r, j) ==
    /\ WithinScenario([job EXCEPT ![r] = j], now, browse # NoBrowse)
    /\ job' = [job EXCEPT ![r] = j]

\* A session serves one message at a time.
Free(s) == \A r \in Requests : AtWork(r) => job[r].s # s

\* What a request remembers is forgotten when it ends.
Moved(r, stage) ==
    IF stage \in {"done", "gone"}
    THEN [Unused EXCEPT !.kind = job[r].kind, !.user = job[r].user, !.stage = stage]
    ELSE [job[r] EXCEPT !.stage = stage]

Go(r, stage) == job' = [job EXCEPT ![r] = Moved(r, stage)]

\* r goes on to the stage; look-ups that have read account u and not yet
\* stored what they read are overtaken by the change.
Overtake(r, stage, u) ==
    job' = [q \in Requests |->
              IF q = r THEN Moved(r, stage)
              ELSE IF job[q].stage = "fill" /\ job[q].copy.user = u
              THEN [job[q] EXCEPT !.over = TRUE] ELSE job[q]]

\* An UPDATE of the row of u, without effect when there is no such row.
Update(r, stage, u, new) ==
    /\ row' = IF Exists(u) THEN [row EXCEPT ![u] = new] ELSE row
    /\ since' = IF Exists(u) THEN [since EXCEPT ![u] = now] ELSE since
    /\ Overtake(r, stage, u)

\* Mutant: the key of the id is forgotten.
invalidate_public_profile_cache_ByName(u, n) == [cache EXCEPT ![<<"username", n>>] = None]

invalidate_public_profile_cache(u, n) ==
    [k \in CacheKeys |-> IF k \in {<<"id", u>>, <<"username", n>>} THEN None ELSE cache[k]]

store == <<files, prekeys, blocks, sess>>
history == <<since, marred>>

\* Two requests on the profile of u are under way at once.
Marring(u) ==
    marred' = IF \E q \in Requests : AtWork(q) /\ job[q].kind \in ProfileKinds /\ job[q].user = u
              THEN marred \cup {u} ELSE marred
-----------------------------------------------------------------------------
(***************************************************************************)
(* request_public_profiles: the time is read once, before the look-ups.    *)
(***************************************************************************)
AskProfile(r) ==
    /\ \E l \in LookUps :
          /\ l[1] \notin Malformed
          /\ Begin(r, [Unused EXCEPT !.kind = "lookup", !.stage = "cache", !.t = now, !.look = l])
    /\ UNCHANGED <<now, row, store, cache, browse, history>>

Hit(k, t) == cache[k] # None /\ cache[k].expires > t

LookInCache(r) ==
    /\ At(r, "lookup", "cache")
    /\ LET k == public_profile_cache_key(job[r].look)
       IN  \/ Hit(k, job[r].t) /\ Go(r, "done")
           \/ ~Hit(k, job[r].t) /\ Go(r, IF job[r].look[1] # None THEN "by_id" ELSE "by_name")
    /\ UNCHANGED <<now, row, store, cache, browse, history>>

\* public_user_by_id_or_username; both SELECTs may fail.
Found(r, us, otherwise) ==
    \/ \E u \in us : job' = [job EXCEPT ![r] = [@ EXCEPT !.stage = "fill", !.copy = Shown(u)]]
    \/ us = {} /\ Go(r, otherwise)
    \/ Go(r, "done")

ReadPublic(r) ==
    /\ \/ /\ At(r, "lookup", "by_id")
          /\ Found(r, {u \in {job[r].look[1]} : Exists(u)},
                   IF job[r].look[2] # None THEN "by_name" ELSE "done")
       \/ /\ At(r, "lookup", "by_name")
          /\ Found(r, Named(job[r].look[2]), "done")
    /\ UNCHANGED <<now, row, store, cache, browse, history>>

Pruned(t) ==
    IF Cardinality({k \in CacheKeys : cache[k] # None}) > CacheCap
    THEN [k \in CacheKeys |-> IF cache[k] # None /\ cache[k].expires > t THEN cache[k] ELSE None]
    ELSE cache

\* Mutant: the entry's life begins when it is stored.
Lifetime_FromInsert(r) == now + Ttl

Lifetime(r) == job[r].t + Ttl

FillCache(r) ==
    /\ At(r, "lookup", "fill")
    /\ cache' = [Pruned(job[r].t) EXCEPT ![public_profile_cache_key(job[r].look)] =
                    [value |-> job[r].copy, expires |-> Lifetime(r), over |-> job[r].over]]
    /\ Go(r, "done")
    /\ UNCHANGED <<now, row, store, browse, history>>
-----------------------------------------------------------------------------
(***************************************************************************)
(* Profiles.  identify_player reads the account, then fills the session.   *)
(***************************************************************************)
Identify(r) ==
    /\ \E s \in Sessions :
          LET u == UserOf[s]
          IN  /\ Exists(u) /\ Free(s)
              /\ Begin(r, [Unused EXCEPT !.kind = "identify", !.stage = "enter", !.user = u,
                             !.s = s, !.avatar = row[u].avatar, !.about = row[u].about])
              /\ Marring(u)
    /\ UNCHANGED <<now, row, store, cache, browse, since>>

EnterSession(r) ==
    /\ At(r, "identify", "enter")
    /\ sess' = IF job[r].over THEN sess
               ELSE [sess EXCEPT ![job[r].s] = [avatar |-> job[r].avatar, about |-> job[r].about]]
    /\ Go(r, "done")
    /\ UNCHANGED <<now, row, files, prekeys, blocks, cache, browse, history>>

\* The client closes its socket; another may use the place of the session.
Leave(r) ==
    /\ \E s \in Sessions :
          /\ sess[s] # None /\ Free(s)
          /\ Begin(r, [Unused EXCEPT !.kind = "leave", !.stage = "done", !.user = UserOf[s]])
          /\ sess' = [sess EXCEPT ![s] = None]
    /\ UNCHANGED <<now, row, files, prekeys, blocks, cache, browse, history>>

\* update_client_settings with a profile, step 1: the session's profile is copied.
Settings(r) ==
    /\ \E s \in Sessions :
          /\ sess[s] # None /\ Free(s)
          /\ Begin(r, [Unused EXCEPT !.kind = "settings", !.stage = "parse", !.user = UserOf[s],
                         !.s = s, !.avatar = sess[s].avatar, !.about = sess[s].about])
          /\ Marring(UserOf[s])
    /\ UNCHANGED <<now, row, store, cache, browse, since>>

\* parse_user_profile: the picture is kept, cleared or a new file; what the
\* profile does not name is kept from the copy.  An invalid profile is
\* refused, a file already stored for it stays.
ParseProfile(r) ==
    /\ At(r, "settings", "parse")
    /\ \E a \in {job[r].avatar, None, r}, b \in Abouts :
          /\ files' = IF a = r THEN files \cup {r} ELSE files
          /\ \/ job' = [job EXCEPT ![r] = [@ EXCEPT !.stage = "write", !.avatar = a, !.about = b]]
             \/ Go(r, "done")
    /\ UNCHANGED <<now, row, prekeys, blocks, sess, cache, browse, history>>

\* The session gets the new profile if it is still there.
WriteSession(r) ==
    /\ At(r, "settings", "write")
    /\ LET s == job[r].s
       IN  \/ /\ sess[s] # None
              /\ sess' = [sess EXCEPT ![s] = [avatar |-> job[r].avatar, about |-> job[r].about]]
              /\ Go(r, "persist")
           \/ sess[s] = None /\ Go(r, "done") /\ UNCHANGED sess
    /\ UNCHANGED <<now, row, files, prekeys, blocks, cache, browse, history>>

\* update_profile; a failure is logged (op 8) or returned (upload).
PersistProfile(r) ==
    LET u == job[r].user
        next == IF job[r].kind = "upload" THEN "invalidate" ELSE "done"
    IN  /\ job[r].stage = "persist"
        /\ \/ /\ Update(r, next, u, [row[u] EXCEPT !.avatar = job[r].avatar, !.about = job[r].about])
              /\ UNCHANGED marred
           \/ /\ Go(r, "done") /\ marred' = marred \cup {u}
              /\ UNCHANGED <<row, since>>
        /\ UNCHANGED <<now, store, cache, browse>>

\* upload_profile_image, after the bearer token was resolved to the account.
Upload(r) ==
    /\ \E u \in Here \ Malformed :
          /\ Exists(u)
          /\ Begin(r, [Unused EXCEPT !.kind = "upload", !.stage = "file", !.user = u, !.copy = Shown(u)])
          /\ Marring(u)
    /\ UNCHANGED <<now, row, store, cache, browse, since>>

\* The image is refused, or stored as a file.
StoreFile(r) ==
    /\ At(r, "upload", "file")
    /\ \/ files' = files \cup {r} /\ Go(r, "sessions")
       \/ Go(r, "done") /\ UNCHANGED files
    /\ UNCHANGED <<now, row, prekeys, blocks, sess, cache, browse, history>>

\* All sessions of the account show it; the profile to store is that of the
\* last one visited, or the account's as it was read.
ShowInSessions(r) ==
    /\ At(r, "upload", "sessions")
    /\ LET own == {s \in Sessions : sess[s] # None /\ UserOf[s] = job[r].user}
       IN  /\ sess' = [s \in Sessions |-> IF s \in own THEN [sess[s] EXCEPT !.avatar = r] ELSE sess[s]]
           /\ \E b \in IF own = {} THEN {job[r].copy.about} ELSE {sess[s].about : s \in own} :
                 job' = [job EXCEPT ![r] = [@ EXCEPT !.stage = "remove", !.avatar = r, !.about = b]]
    /\ UNCHANGED <<now, row, files, prekeys, blocks, cache, browse, history>>

\* Mutant: the picture the profile has by now is removed.
Replaced_New(r) == {job[r].avatar}

\* previous_file_id: the picture the account had when the request arrived.
Replaced(r) == {job[r].copy.avatar}

RemoveOld(r) ==
    /\ At(r, "upload", "remove")
    /\ files' = files \ Replaced(r)
    /\ Go(r, "persist")
    /\ UNCHANGED <<now, row, prekeys, blocks, sess, cache, browse, history>>
-----------------------------------------------------------------------------
(***************************************************************************)
(* Names and badges.  The names shown in the sessions are set as well; the *)
(* rooms read them (RoomHistory), nothing here does.                       *)
(***************************************************************************)
Rename(r) ==
    /\ \E u \in Here \ Malformed, n \in Names :
          /\ Exists(u)
          /\ Begin(r, [Unused EXCEPT !.kind = "rename", !.stage = "check", !.user = u,
                         !.n = n, !.copy = Shown(u)])
    /\ UNCHANGED <<now, row, store, cache, browse, history>>

\* change_username: nothing to do, too soon, or go on.
CheckRename(r) ==
    LET u == job[r].user
        soon == row[u].renamed # None /\ row[u].renamed + Week >= now
    IN  /\ At(r, "rename", "check")
        /\ \/ ~Exists(u) /\ Go(r, "done")
           \/ Exists(u) /\ row[u].name = job[r].n /\ Go(r, "invalidate_old")
           \/ Exists(u) /\ row[u].name # job[r].n /\ soon /\ Go(r, "done")
           \/ /\ Exists(u) /\ row[u].name # job[r].n /\ ~soon
              /\ job' = [job EXCEPT ![r] = [@ EXCEPT !.stage = "unique", !.t = now]]
        /\ UNCHANGED <<now, row, store, cache, browse, history>>

CheckUnique(r) ==
    /\ At(r, "rename", "unique")
    /\ Go(r, IF Named(job[r].n) \ {job[r].user} # {} THEN "done" ELSE "update")
    /\ UNCHANGED <<now, row, store, cache, browse, history>>

\* The UPDATE fails on the UNIQUE column when the name was taken meanwhile.
UpdateName(r) ==
    LET u == job[r].user
        taken == \E v \in Users \ {u} : Exists(v) /\ row[v].name = job[r].n
    IN  /\ At(r, "rename", "update")
        /\ \/ taken /\ Go(r, "done") /\ UNCHANGED <<row, since, browse>>
           \/ /\ ~taken
              /\ Update(r, "reread", u, [row[u] EXCEPT !.name = job[r].n, !.renamed = job[r].t])
              /\ browse' = [browse EXCEPT !.steady = IF browse.sort = "username" THEN @ \ {u} ELSE @]
        /\ UNCHANGED <<now, store, cache, marred>>

\* set_user_badges by an administrator.
Badges(r) ==
    /\ \E u \in Here \ Malformed :
          Begin(r, [Unused EXCEPT !.kind = "badges", !.stage = "update", !.user = u])
    /\ UNCHANGED <<now, row, store, cache, browse, history>>

UpdateBadges(r) ==
    /\ At(r, "badges", "update")
    /\ \E b \in BOOLEAN :
          Update(r, "reread", job[r].user, [row[job[r].user] EXCEPT !.badges = b])
    /\ UNCHANGED <<now, store, cache, browse, marred>>

\* Both read the row again; it tells the name whose cache entry goes.
Reread(r) ==
    /\ job[r].stage = "reread"
    /\ LET u == job[r].user
       IN  IF Exists(u)
           THEN job' = [job EXCEPT ![r] = [@ EXCEPT !.n = row[u].name,
                          !.stage = IF job[r].kind = "rename" THEN "invalidate_old" ELSE "invalidate"]]
           ELSE Go(r, "done")
    /\ UNCHANGED <<now, row, store, cache, browse, history>>

\* The name under which a request forgets the account, besides its id.
Forgotten(r) ==
    IF job[r].stage = "invalidate_old" \/ job[r].kind \in {"upload", "delete"} THEN job[r].copy.name
    ELSE IF job[r].kind \in {"rename", "badges"} THEN job[r].n ELSE None

Invalidate(r) ==
    /\ job[r].stage \in {"invalidate_old", "invalidate"}
    /\ cache' = invalidate_public_profile_cache(job[r].user, Forgotten(r))
    /\ Go(r, IF job[r].stage = "invalidate_old" THEN "invalidate"
             ELSE IF job[r].kind = "delete" THEN "unfile" ELSE "done")
    /\ UNCHANGED <<now, row, store, browse, history>>
-----------------------------------------------------------------------------
(***************************************************************************)
(* Accounts come and go.                                                   *)
(***************************************************************************)
Register(r) ==
    /\ \E u \in Users \ Here :
          /\ ~Exists(u) /\ \A q \in Requests : job[q].user # u
          /\ \A v \in Users : Exists(v) => row[v].name # FirstName[u]
          /\ Begin(r, [Unused EXCEPT !.kind = "register", !.stage = "done", !.user = u])
          /\ row' = [row EXCEPT ![u] = [name |-> FirstName[u], avatar |-> None,
                        about |-> CHOOSE b \in Abouts : TRUE, badges |-> FALSE, ver |-> 0,
                        blob |-> None, renamed |-> None]]
          /\ since' = [since EXCEPT ![u] = now]
    /\ UNCHANGED <<now, store, cache, browse, marred>>

\* delete_account by its owner, delete_user_account and purge_accounts by an
\* administrator; the statements on prekeys, blocks and users follow each other.
Delete(r) ==
    /\ \E u \in Here \ Malformed, kind \in {"delete", "erase", "purge"} :
          /\ Exists(u)
          /\ Begin(r, [Unused EXCEPT !.kind = kind, !.user = u, !.copy = Shown(u),
                         !.stage = IF kind = "delete" THEN "check" ELSE "prekeys"])
    /\ UNCHANGED <<now, row, store, cache, browse, history>>

CheckDelete(r) ==
    /\ At(r, "delete", "check")
    /\ \/ Exists(job[r].user) /\ Go(r, "prekeys")
       \/ Go(r, "done")
    /\ UNCHANGED <<now, row, store, cache, browse, history>>

DeletePrekeys(r) ==
    /\ job[r].stage = "prekeys"
    /\ prekeys' = [prekeys EXCEPT ![job[r].user] = None]
    /\ Go(r, "blocks")
    /\ UNCHANGED <<now, row, files, blocks, sess, cache, browse, history>>

DeleteBlocks(r) ==
    /\ job[r].stage = "blocks"
    /\ blocks' = {b \in blocks : b[1] # job[r].user}
    /\ Go(r, "row")
    /\ UNCHANGED <<now, row, files, prekeys, sess, cache, browse, history>>

DeleteRow(r) ==
    LET u == job[r].user
    IN  /\ job[r].stage = "row"
        /\ Update(r, IF job[r].kind = "purge" THEN "done" ELSE "disconnect", u, None)
        /\ browse' = [browse EXCEPT !.steady = @ \ {u}]
        /\ UNCHANGED <<now, store, cache, marred>>

\* disconnect_user_sessions: the account's sockets are closed, also under
\* requests that they still serve.
Disconnect(r) ==
    /\ job[r].stage = "disconnect"
    /\ LET closed == {s \in Sessions : sess[s] # None /\ UserOf[s] = job[r].user}
       IN  /\ sess' = [s \in Sessions |-> IF s \in closed THEN None ELSE sess[s]]
           /\ job' = [q \in Requests |->
                        IF q = r THEN Moved(r, "invalidate")
                        ELSE IF At(q, "identify", "enter") /\ job[q].s \in closed
                        THEN [job[q] EXCEPT !.over = TRUE] ELSE job[q]]
    /\ UNCHANGED <<now, row, files, prekeys, blocks, cache, browse, history>>

\* The owner's deletion removes the picture the account had when it was asked for.
RemoveFiles(r) ==
    /\ At(r, "delete", "unfile")
    /\ files' = files \ {job[r].copy.avatar}
    /\ Go(r, "done")
    /\ UNCHANGED <<now, row, prekeys, blocks, sess, cache, browse, history>>
-----------------------------------------------------------------------------
(***************************************************************************)
(* The social blob: a SELECT of the version, then an UPDATE.               *)
(***************************************************************************)
PutBlob(r) ==
    /\ \E u \in Here \ Malformed, v \in Versions :
          /\ Exists(u)
          /\ Begin(r, [Unused EXCEPT !.kind = "put_blob", !.stage = "compare", !.user = u, !.n = v])
    /\ UNCHANGED <<now, row, store, cache, browse, history>>

Newer(v, current) == v > current

\* put_social_blob: a version that is not newer is a conflict.
CompareVersion(r) ==
    /\ At(r, "put_blob", "compare")
    /\ LET u == job[r].user
           current == IF Exists(u) THEN row[u].ver ELSE 0
       IN  job' = [job EXCEPT ![r] = [@ EXCEPT !.seen = current,
                      !.stage = IF Newer(job[r].n, current) THEN "store" ELSE "done"]]
    /\ UNCHANGED <<now, row, store, cache, browse, history>>

StoreBlob(r) ==
    /\ At(r, "put_blob", "store")
    /\ LET u == job[r].user
       IN  row' = IF Exists(u) THEN [row EXCEPT ![u] = [@ EXCEPT !.ver = job[r].n, !.blob = r]] ELSE row
    /\ Go(r, "done")
    /\ UNCHANGED <<now, store, cache, browse, history>>
-----------------------------------------------------------------------------
(***************************************************************************)
(* Prekeys and blocks, from identified sessions (ops 36 and 39).           *)
(***************************************************************************)
PublishPrekey(r) ==
    /\ \E s \in Sessions, k \in PreKeys :
          /\ sess[s] # None /\ Free(s)
          /\ Begin(r, [Unused EXCEPT !.kind = "publish", !.stage = "upsert", !.user = UserOf[s],
                         !.s = s, !.key = k])
    /\ UNCHANGED <<now, row, store, cache, browse, history>>

UpsertPrekey(r) ==
    /\ At(r, "publish", "upsert")
    /\ prekeys' = [prekeys EXCEPT ![job[r].user] = job[r].key]
    /\ Go(r, "done")
    /\ UNCHANGED <<now, row, files, blocks, sess, cache, browse, history>>

UpdateBlocks(r) ==
    /\ \E s \in Sessions, add, remove \in Hints \cup {None} :
          /\ sess[s] # None /\ Free(s)
          /\ add # None \/ remove # None
          /\ Begin(r, [Unused EXCEPT !.kind = "blocks", !.stage = "fingerprint", !.user = UserOf[s],
                         !.s = s, !.add = add, !.remove = remove])
    /\ UNCHANGED <<now, row, store, cache, browse, history>>

\* owner_fingerprint: tags are made with the bundle published now.
Fingerprint(r) ==
    /\ At(r, "blocks", "fingerprint")
    /\ LET k == prekeys[job[r].user]
       IN  IF k = None THEN Go(r, "done")
           ELSE job' = [job EXCEPT ![r] = [@ EXCEPT !.key = k,
                          !.stage = IF job[r].add # None THEN "count" ELSE "unblock"]]
    /\ UNCHANGED <<now, row, store, cache, browse, history>>

TagsOf(u) == {b \in blocks : b[1] = u}

\* Mutant: one more than the limit.
Room_OffByOne(u) == Cardinality(TagsOf(u)) <= MaxBlocks

Room(u) == Cardinality(TagsOf(u)) < MaxBlocks

\* add_block_tag: at the limit the hint is passed over without an error.
CountTags(r) ==
    /\ At(r, "blocks", "count")
    /\ Go(r, IF Room(job[r].user) THEN "insert" ELSE "unblock")
    /\ UNCHANGED <<now, row, store, cache, browse, history>>

\* The tag is the table's key: one another account has is not inserted.
InsertTag(r) ==
    /\ At(r, "blocks", "insert")
    /\ blocks' = IF \E v \in Users : <<v, job[r].key, job[r].add>> \in blocks THEN blocks
                 ELSE blocks \cup {<<job[r].user, job[r].key, job[r].add>>}
    /\ Go(r, "unblock")
    /\ UNCHANGED <<now, row, files, prekeys, sess, cache, browse, history>>

RemoveTag(r) ==
    /\ At(r, "blocks", "unblock")
    /\ blocks' = blocks \ {<<job[r].user, job[r].key, job[r].remove>>}
    /\ Go(r, "done")
    /\ UNCHANGED <<now, row, files, prekeys, sess, cache, browse, history>>
-----------------------------------------------------------------------------
(***************************************************************************)
(* An administrator pages through the listing, each page one request.      *)
(***************************************************************************)
StartBrowse ==
    /\ browse = NoBrowse
    /\ WithinScenario(job, now, TRUE)
    /\ \E sort \in Sorts :
          browse' = [NoBrowse EXCEPT !.state = "open", !.sort = sort,
                                     !.steady = {u \in Users \ Malformed : Exists(u)}]
    /\ UNCHANGED <<now, row, store, cache, job, history>>

list_users_page ==
    LET rows == {u \in Users : Exists(u)}
        key == [u \in rows |-> IF browse.sort = "username" THEN row[u].name ELSE Created[u]]
        page == Page(rows, Malformed, key, browse.sort, PageLimit, browse.cursor)
        next == NextCursor(rows, Malformed, key, browse.sort, PageLimit, browse.cursor)
    IN  /\ browse.state = "open"
        /\ browse' = [browse EXCEPT !.cursor = next,
                        !.seen = [u \in Users |-> IF u \in page THEN @[u] + 1 ELSE @[u]],
                        !.state = IF next = <<>> THEN "read" ELSE "open"]
        /\ UNCHANGED <<now, row, store, cache, job, history>>
-----------------------------------------------------------------------------
\* The client of an HTTP request goes away and its handler is dropped, or a
\* statement of a request fails and ends it.  Look-ups and the profile requests
\* of a socket have their own error paths.
Abandon(r) ==
    /\ AtWork(r) /\ job[r].kind \notin {"lookup", "settings", "identify"}
    /\ Go(r, "gone")
    /\ marred' = IF job[r].kind = "upload" THEN marred \cup {job[r].user} ELSE marred
    /\ UNCHANGED <<now, row, store, cache, browse, since>>

Tick ==
    /\ WithinScenario(job, now + 1, browse # NoBrowse)
    /\ now' = now + 1
    /\ UNCHANGED <<row, store, cache, job, browse, history>>

Init ==
    /\ now = 0
    /\ row = [u \in Users |->
                IF u \notin Here THEN None
                ELSE [name |-> FirstName[u], avatar |-> u, about |-> CHOOSE b \in Abouts : TRUE,
                      badges |-> FALSE, ver |-> 0, blob |-> None, renamed |-> None]]
    /\ files = Here
    /\ prekeys = [u \in Users |-> IF u \in Here /\ PreKeys # {} THEN CHOOSE k \in PreKeys : TRUE ELSE None]
    /\ blocks = {}
    /\ sess = [s \in Sessions |-> [avatar |-> UserOf[s], about |-> row[UserOf[s]].about]]
    /\ cache = [k \in CacheKeys |-> None]
    /\ job = [r \in Requests |-> Unused]
    /\ browse = NoBrowse
    /\ since = [u \in Users |-> 0] /\ marred = {}

\* A request arrives.
Arrive(r) ==
    /\ job[r] = Unused
    /\ \/ AskProfile(r) \/ Identify(r) \/ Leave(r) \/ Settings(r) \/ Upload(r)
       \/ Rename(r) \/ Badges(r) \/ Register(r) \/ Delete(r)
       \/ PutBlob(r) \/ PublishPrekey(r) \/ UpdateBlocks(r)

\* A request goes on.
Serve(r) ==
    /\ AtWork(r)
    /\ \/ LookInCache(r) \/ ReadPublic(r) \/ FillCache(r)
       \/ EnterSession(r) \/ ParseProfile(r) \/ WriteSession(r) \/ PersistProfile(r)
       \/ StoreFile(r) \/ ShowInSessions(r) \/ RemoveOld(r)
       \/ CheckRename(r) \/ CheckUnique(r) \/ UpdateName(r)
       \/ UpdateBadges(r) \/ Reread(r) \/ Invalidate(r)
       \/ CheckDelete(r) \/ DeletePrekeys(r) \/ DeleteBlocks(r)
       \/ DeleteRow(r) \/ Disconnect(r) \/ RemoveFiles(r)
       \/ CompareVersion(r) \/ StoreBlob(r) \/ UpsertPrekey(r)
       \/ Fingerprint(r) \/ CountTags(r) \/ InsertTag(r) \/ RemoveTag(r)
       \/ Abandon(r)

Next == (\E r \in Requests : Arrive(r) \/ Serve(r)) \/ StartBrowse \/ list_users_page \/ Tick

Spec == Init /\ [][Next]_vars
-----------------------------------------------------------------------------
(***************************************************************************)
(* Properties.                                                             *)
(***************************************************************************)
\* Type invariant.
TypeOK ==
    /\ now \in Nat
    /\ row \in [Users -> Row \cup {None}]
    /\ files \subseteq Files
    /\ prekeys \in [Users -> PreKeys \cup {None}]
    /\ blocks \subseteq Users \X PreKeys \X Hints
    /\ sess \in [Sessions -> [avatar: Pictures, about: Abouts] \cup {None}]
    /\ cache \in [CacheKeys -> Entry \cup {None}]
    /\ since \in [Users -> Nat] /\ marred \subseteq Users
    /\ \A r \in Requests : job[r].kind \in Kinds \cup {None} /\ job[r].t <= now

\* What a look-up takes from the cache is what the account is, or was less than
\* the cache's life time before the look-up was asked: a picture, a name, a
\* badge or an account that has gone is not shown after that, whatever
\* look-ups, changes and invalidations cross (request_public_profiles).
Outdated(value) == ~Exists(value.user) \/ Shown(value.user) # value

StaleWithinTtl ==
    [][\A r \in Requests :
          At(r, "lookup", "cache") /\ job'[r].stage = "done" =>
              LET value == cache[public_profile_cache_key(job[r].look)].value
              IN  Outdated(value) => job[r].t < since[value.user] + Ttl]_vars

\* The change of u by r has not yet reached the cache, or never will.
Pending(r, u) ==
    /\ job[r].user = u
    /\ \/ job[r].kind \in {"rename", "badges", "delete", "erase"}
             /\ job[r].stage \in {"reread", "disconnect", "invalidate_old", "invalidate", "gone"}
       \/ job[r].kind = "purge"

\* Under its own id an account is found in the cache with its current name and
\* badges: renames, badge changes and deletions leave no old entry behind.
\* Excepted are an entry that a look-up stored after it was overtaken, accounts
\* purged, and changes whose request was abandoned (invalidate_public_profile_cache).
OwnIdCurrent ==
    \A u \in Users :
        LET e == cache[<<"id", u>>]
        IN  e # None /\ ~e.over /\ e.value.user = u /\ (\A r \in Requests : ~Pending(r, u))
                => Exists(u) /\ row[u].name = e.value.name /\ row[u].badges = e.value.badges

\* The picture of a stored profile is in the upload directory, as long as the
\* requests on that profile come one after the other and succeed: the two ways
\* to set a picture, one of which removes the old file, agree on which file is
\* the old one (upload_profile_image, update_client_settings).
PicturesExist ==
    \A u \in Users :
        Exists(u) /\ u \notin marred
            /\ (\A r \in Requests : AtWork(r) => job[r].kind \notin ProfileKinds \/ job[r].user # u)
            => row[u].avatar \in files \cup {None}

\* The limit on block tags is checked before the insertion: it can be exceeded,
\* but only by what the account's other sessions insert at the same time
\* (add_block_tag).
BlocksBounded ==
    \A u \in Users :
        Cardinality(TagsOf(u)) < MaxBlocks + Cardinality({s \in Sessions : UserOf[s] = u}) \/ TagsOf(u) = {}

\* An account that is there throughout a browse, and keeps its name when names
\* order it, is on exactly one page, whatever accounts come, go and are renamed
\* between the pages.  Pages that hold nothing but malformed rows end a browse
\* early; they need more such rows than a page holds (list_users_page).
ListedOnce ==
    Cardinality(Malformed) <= PageLimit =>
        \A u \in browse.steady :
            /\ browse.seen[u] <= 1
            /\ browse.state = "read" => browse.seen[u] = 1
=============================================================================
