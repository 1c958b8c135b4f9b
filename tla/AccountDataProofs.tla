-------------------------- MODULE AccountDataProofs --------------------------
(***************************************************************************)
(* What account data keeps to, for any number of accounts, sessions and    *)
(* requests, and in whatever order their statements meet.                  *)
(*                                                                         *)
(* Base, on which everything rests, gives the types of the data and says   *)
(* which stage of which request remembers what (Plans, Fit).  On it rest,  *)
(* each with an invariant of its own:                                      *)
(*   AgedOK      the public cache is not outdated for long                 *)
(*               (NotShownForLong);                                        *)
(*   BlocksOK    tags and insertions under way are together within the     *)
(*               limit, one for each further session aside (TagsBounded);  *)
(*   CurrentOK   a change not yet in the cache is one a request has still  *)
(*               to carry there (FoundUnderItsId);                         *)
(*   PicturesOK  who may name a file, and that the one in use is there     *)
(*               (PicturesStay);                                           *)
(*   ListedOK    a browse has shown what its cursor has passed             *)
(*               (EachListedOnce).                                         *)
(***************************************************************************)
EXTENDS AccountData, Sequences, FiniteSetTheorems, WellFoundedInduction, TLAPS

\* The stages of each kind of request.
Plans ==
    ({"lookup"} \X {"cache", "by_id", "by_name", "fill", "done"})
    \cup ({"settings"} \X {"parse", "write", "persist", "done"})
    \cup ({"identify"} \X {"enter", "done"})
    \cup ({"upload"} \X {"file", "sessions", "remove", "persist", "invalidate", "done", "gone"})
    \cup ({"rename"} \X {"check", "unique", "update", "reread", "invalidate_old", "invalidate",
                         "done", "gone"})
    \cup ({"badges"} \X {"update", "reread", "invalidate", "done", "gone"})
    \cup ({"delete"} \X {"check", "prekeys", "blocks", "row", "disconnect", "invalidate",
                         "unfile", "done", "gone"})
    \cup ({"erase"} \X {"prekeys", "blocks", "row", "disconnect", "invalidate", "done", "gone"})
    \cup ({"purge"} \X {"prekeys", "blocks", "row", "done", "gone"})
    \cup ({"put_blob"} \X {"compare", "store", "done", "gone"})
    \cup ({"publish"} \X {"upsert", "done", "gone"})
    \cup ({"blocks"} \X {"fingerprint", "count", "insert", "unblock", "done", "gone"})
    \cup ({"register", "leave"} \X {"done"})
    \cup ({None} \X {"new"})

Stages == {"new", "cache", "by_id", "by_name", "fill", "parse", "write", "persist", "enter", "file",
           "sessions", "remove", "check", "unique", "update", "reread", "invalidate_old", "invalidate",
           "prekeys", "blocks", "row", "disconnect", "unfile", "compare", "store", "upsert",
           "fingerprint", "count", "insert", "unblock", "done", "gone"}

Job == [kind: Kinds \cup {None}, stage: Stages, user: Users \cup {None}, s: Sessions \cup {None},
        t: Nat, look: (Users \cup {None}) \X (Names \cup {None}), copy: Public \cup {None},
        avatar: Pictures, about: Abouts \cup {None}, n: Nat, seen: Nat,
        key: PreKeys \cup {None}, add: Hints \cup {None}, remove: Hints \cup {None}, over: BOOLEAN]

\* What a request in progress remembers is there when it needs it.
Fit(j) ==
    /\ j \in Job /\ <<j.kind, j.stage>> \in Plans
    /\ j.kind \notin {None, "lookup"} => j.user \in Users
    /\ j.kind = "lookup" => j.user = None
    /\ j.kind = "lookup" /\ j.stage # "done" => j.look # <<None, None>>
    /\ j.kind = "lookup" /\ j.stage = "by_id" => j.look[1] # None
    /\ j.kind = "lookup" /\ j.stage = "fill" => j.copy \in Public
    /\ j.kind \in {"upload", "delete"} /\ j.stage \notin {"done", "gone"} => j.copy \in Public
    /\ j.kind \in {"settings", "identify", "publish", "blocks"} /\ j.stage \notin {"done", "gone"} =>
          j.s \in Sessions /\ UserOf[j.s] = j.user
    /\ j.kind \in {"settings", "identify"} /\ j.stage # "done" => j.about \in Abouts
    /\ j.kind = "upload" /\ j.stage \in {"remove", "persist"} => j.about \in Abouts
    /\ j.kind = "rename" /\ j.stage \notin {"done", "gone"} => j.n \in Names
    /\ j.kind = "put_blob" /\ j.stage = "store" => j.n > j.seen
    /\ j.kind = "publish" /\ j.stage = "upsert" => j.key \in PreKeys
    /\ j.kind = "blocks" /\ j.stage \in {"count", "insert"} => j.key \in PreKeys /\ j.add \in Hints

JobsOK == DOMAIN job = Requests /\ \A r \in Requests : Fit(job[r]) /\ job[r].t <= now

DataOK ==
    /\ now \in Nat
    /\ row \in [Users -> Row \cup {None}]
    /\ sess \in [Sessions -> [avatar: Pictures, about: Abouts] \cup {None}]
    /\ cache \in [CacheKeys -> Entry \cup {None}]
    /\ since \in [Users -> Nat] /\ \A u \in Users : since[u] <= now
    /\ prekeys \in [Users -> PreKeys \cup {None}]
    /\ blocks \subseteq Users \X PreKeys \X Hints

Base == JobsOK /\ DataOK


Profile == [avatar: Pictures, about: Abouts]
-----------------------------------------------------------------------------
LEMMA NoneApart ==
    /\ None \notin Users /\ None \notin Nat /\ None \notin Requests /\ None \notin Sessions
    /\ None \notin PreKeys /\ None \notin Hints /\ None \notin Kinds /\ None \notin Names
    /\ None \notin Row /\ None \notin Public /\ None \notin Entry /\ None \notin Profile
    /\ None \in Pictures
BY DataAssumption, KindsAssumption, NoneAssumption DEF Profile, Pictures

LEMMA UnusedFits == Unused \in Job /\ Fit(Unused)
<1>1. Unused \in Job
  BY NoneApart DEF Unused, Job, Stages
<1>2. Unused.kind = None /\ Unused.stage = "new"
  BY DEF Unused
<1>3. <<None, "new">> \in Plans
  BY DEF Plans
<1>4. None \notin {"lookup", "upload", "delete", "settings", "identify", "publish", "blocks", "put_blob", "rename"}
  BY NoneApart DEF Kinds
<1>. QED  BY <1>1, <1>2, <1>3, <1>4 DEF Fit

\* A request that ends has nothing left but its kind and account.
LEMMA EndedFits ==
    ASSUME NEW r \in Requests, Fit(job[r]), NEW stage \in {"done", "gone"},
           <<job[r].kind, stage>> \in Plans
    PROVE  /\ Fit(Moved(r, stage)) /\ Moved(r, stage).t = 0
           /\ Moved(r, stage).stage = stage /\ Moved(r, stage).kind = job[r].kind
           /\ Moved(r, stage).user = job[r].user /\ Moved(r, stage).over = FALSE
           /\ Moved(r, stage).s = None
<1>1. Moved(r, stage) = [Unused EXCEPT !.kind = job[r].kind, !.user = job[r].user, !.stage = stage]
  BY DEF Moved
<1>2. job[r].kind \in Kinds \cup {None} /\ job[r].user \in Users \cup {None}
  BY DEF Fit, Job
<1>3. Moved(r, stage) \in Job
  <2>1. stage \in Stages
    BY DEF Stages
  <2>2. Moved(r, stage) =
          [kind |-> job[r].kind, stage |-> stage, user |-> job[r].user, s |-> None, t |-> 0,
           look |-> <<None, None>>, copy |-> None, avatar |-> None, about |-> None,
           n |-> 0, seen |-> 0, key |-> None, add |-> None, remove |-> None, over |-> FALSE]
    BY <1>1 DEF Unused
  <2>. QED  BY <1>2, <2>1, <2>2, NoneApart DEF Job
<1>4. /\ Moved(r, stage).stage = stage /\ Moved(r, stage).kind = job[r].kind
      /\ Moved(r, stage).user = job[r].user /\ Moved(r, stage).over = FALSE
      /\ Moved(r, stage).s = None /\ Moved(r, stage).t = 0
  BY <1>1, <1>2 DEF Unused
<1>5. job[r].kind \in {"lookup", "settings", "identify"} => stage = "done"
  BY NoneApart DEF Kinds, Plans
<1>. QED  BY <1>3, <1>4, <1>5 DEF Fit

\* One that goes on keeps what it remembers.
LEMMA GoesOn ==
    ASSUME NEW r \in Requests, job[r] \in Job, NEW stage \in Stages \ {"done", "gone"}
    PROVE  /\ Moved(r, stage) \in Job /\ Moved(r, stage).stage = stage
           /\ Moved(r, stage).kind = job[r].kind /\ Moved(r, stage).user = job[r].user
           /\ Moved(r, stage).s = job[r].s /\ Moved(r, stage).t = job[r].t
           /\ Moved(r, stage).look = job[r].look /\ Moved(r, stage).copy = job[r].copy
           /\ Moved(r, stage).avatar = job[r].avatar /\ Moved(r, stage).about = job[r].about
           /\ Moved(r, stage).n = job[r].n /\ Moved(r, stage).seen = job[r].seen
           /\ Moved(r, stage).key = job[r].key /\ Moved(r, stage).add = job[r].add
           /\ Moved(r, stage).remove = job[r].remove /\ Moved(r, stage).over = job[r].over
<1>1. Moved(r, stage) = [job[r] EXCEPT !.stage = stage]
  BY DEF Moved
<1>. QED  BY <1>1 DEF Job

LEMMA OvertakenFits ==
    ASSUME NEW j, Fit(j)
    PROVE  LET k == [j EXCEPT !.over = TRUE] IN
           /\ Fit(k) /\ k.t = j.t /\ k.over = TRUE /\ k.stage = j.stage /\ k.kind = j.kind
           /\ k.user = j.user /\ k.s = j.s /\ k.look = j.look /\ k.copy = j.copy
           /\ k.avatar = j.avatar /\ k.about = j.about /\ k.n = j.n /\ k.seen = j.seen
           /\ k.key = j.key /\ k.add = j.add /\ k.remove = j.remove
<1>. DEFINE k == [j EXCEPT !.over = TRUE]
<1>1. j \in Job
  BY DEF Fit
<1>2. /\ k \in Job /\ k.t = j.t /\ k.over = TRUE /\ k.stage = j.stage /\ k.kind = j.kind
      /\ k.user = j.user /\ k.s = j.s /\ k.look = j.look /\ k.copy = j.copy
      /\ k.avatar = j.avatar /\ k.about = j.about /\ k.n = j.n /\ k.seen = j.seen
      /\ k.key = j.key /\ k.add = j.add /\ k.remove = j.remove
  BY <1>1 DEF Job
<1>3. Fit(k)
  BY <1>2 DEF Fit
<1>. QED  BY <1>2, <1>3
-----------------------------------------------------------------------------
\* What one step does to the requests.
LEMMA OneMoved ==
    ASSUME JobsOK, now \in Nat, now' \in Nat, now' >= now, NEW r \in Requests,
           job' = [job EXCEPT ![r] = job'[r]], Fit(job'[r]), job'[r].t <= now'
    PROVE  JobsOK'
<1>1. ASSUME NEW q \in Requests PROVE Fit(job[q])' /\ (job[q].t <= now)'
  <2>1. CASE q = r
    BY <2>1 DEF JobsOK
  <2>2. CASE q # r
    <3>1. job'[q] = job[q] /\ Fit(job[q]) /\ job[q].t <= now /\ job[q].t \in Nat
      BY <2>2 DEF JobsOK, Fit, Job
    <3>. QED  BY <3>1
  <2>. QED  BY <2>1, <2>2
<1>. QED  BY <1>1 DEF JobsOK

LEMMA GoneOn ==
    ASSUME JobsOK, now \in Nat, now' = now, NEW r \in Requests, NEW stage, Go(r, stage),
           Fit(Moved(r, stage)), Moved(r, stage).t <= now
    PROVE  JobsOK'
<1>1. job' = [job EXCEPT ![r] = Moved(r, stage)] /\ job'[r] = Moved(r, stage)
  BY DEF Go, JobsOK
<1>2. job' = [job EXCEPT ![r] = job'[r]] /\ Fit(job'[r]) /\ job'[r].t <= now'
  BY <1>1
<1>3. now \in Nat /\ now' \in Nat /\ now' >= now
  OBVIOUS
<1>. QED  BY <1>2, <1>3, OneMoved

LEMMA OvertakesJobs ==
    ASSUME JobsOK, now \in Nat, now' = now, NEW r \in Requests, NEW stage, NEW u,
           Overtake(r, stage, u), Fit(Moved(r, stage)), Moved(r, stage).t <= now
    PROVE  JobsOK'
<1>1. ASSUME NEW q \in Requests PROVE Fit(job[q])' /\ (job[q].t <= now)'
  <2>1. CASE q = r
    BY <2>1 DEF Overtake
  <2>2. CASE q # r
    <3>1. Fit(job[q]) /\ job[q].t <= now
      BY DEF JobsOK
    <3>2. job'[q] = job[q] \/ job'[q] = [job[q] EXCEPT !.over = TRUE]
      BY <2>2 DEF Overtake
    <3>3. Fit([job[q] EXCEPT !.over = TRUE]) /\ [job[q] EXCEPT !.over = TRUE].t = job[q].t
      BY <3>1, OvertakenFits
    <3>. QED  BY <3>1, <3>2, <3>3
  <2>. QED  BY <2>1, <2>2
<1>. QED  BY <1>1 DEF JobsOK, Overtake

LEMMA MayEnd ==
    ASSUME JobsOK, now \in Nat, NEW r \in Requests, AtWork(r)
    PROVE  /\ Fit(Moved(r, "done")) /\ Moved(r, "done").t <= now
           /\ job[r].kind \notin {"lookup", "settings", "identify"} =>
                 Fit(Moved(r, "gone")) /\ Moved(r, "gone").t <= now
<1>1. Fit(job[r]) /\ <<job[r].kind, job[r].stage>> \in Plans
  BY DEF JobsOK, Fit
<1>2. job[r].stage \notin {"new", "done", "gone"}
  BY DEF AtWork
<1>3. <<job[r].kind, "done">> \in Plans
  BY <1>1, <1>2 DEF Plans
<1>4. job[r].kind \notin {"lookup", "settings", "identify"} => <<job[r].kind, "gone">> \in Plans
  BY <1>1, <1>2 DEF Plans
<1>5. Fit(Moved(r, "done")) /\ Moved(r, "done").t = 0
  BY <1>1, <1>3, EndedFits
<1>6. job[r].kind \notin {"lookup", "settings", "identify"} =>
         Fit(Moved(r, "gone")) /\ Moved(r, "gone").t = 0
  BY <1>1, <1>4, EndedFits
<1>. QED  BY <1>5, <1>6

LEMMA MayGoOn ==
    ASSUME JobsOK, NEW r \in Requests, AtWork(r), NEW stage \in Stages \ {"done", "gone"},
           <<job[r].kind, stage>> \in Plans,
           job[r].kind = "lookup" => stage # "fill" /\ (stage = "by_id" => job[r].look[1] # None),
           job[r].kind = "upload" => stage \notin {"remove", "persist"} \/ job[r].stage \in {"remove", "persist"},
           job[r].kind = "put_blob" => stage # "store",
           job[r].kind = "blocks" =>
              stage \notin {"count", "insert"} \/ job[r].stage \in {"count", "insert"}
    PROVE  Fit(Moved(r, stage)) /\ Moved(r, stage).t <= now
<1>1. Fit(job[r]) /\ job[r] \in Job /\ job[r].t <= now
  BY DEF JobsOK, Fit
<1>2. job[r].stage \notin {"new", "done", "gone"}
  BY DEF AtWork
<1>3. job[r].kind = "publish" => job[r].stage = "upsert"
  BY <1>1, <1>2, NoneApart DEF Fit, Plans, Kinds
<1>. QED  BY <1>1, <1>2, <1>3, GoesOn DEF Fit

LEMMA UsersServed == \A s \in Sessions : UserOf[s] \in Users
BY DataAssumption

LEMMA ShownPublic ==
    ASSUME DataOK, NEW u \in Users, Exists(u)
    PROVE  Shown(u) \in Public /\ Shown(u).user = u /\ row[u] \in Row
<1>1. row[u] \in Row
  BY DEF DataOK, Exists
<1>2. row[u].name \in Names /\ row[u].avatar \in Pictures /\ row[u].about \in Abouts /\ row[u].badges \in BOOLEAN
  BY <1>1 DEF Row
<1>. QED  BY <1>1, <1>2 DEF Shown, Public

\* Every request arrives with what its first steps need.
LEMMA ArrivesJobs ==
    ASSUME Base, NEW r \in Requests, Arrive(r)
    PROVE  JobsOK' /\ job' = [job EXCEPT ![r] = job'[r]]
<1>0. now \in Nat /\ now' = now /\ DOMAIN job = Requests
  BY DEF Base, DataOK, JobsOK, Arrive, AskProfile, Identify, Leave, Settings, Upload, Rename, Badges,
         Register, Delete, PutBlob, PublishPrekey, UpdateBlocks
<1>. SUFFICES job' = [job EXCEPT ![r] = job'[r]] /\ Fit(job'[r]) /\ job'[r].t <= now
  <2>1. now' \in Nat /\ now' >= now /\ (job'[r].t <= now => job'[r].t <= now')
    BY <1>0
  <2>. QED  BY <1>0, <2>1, OneMoved DEF Base
<1>1. ASSUME AskProfile(r) PROVE job' = [job EXCEPT ![r] = job'[r]] /\ Fit(job'[r]) /\ job'[r].t <= now
  <2>1. PICK l \in LookUps :
            Begin(r, [Unused EXCEPT !.kind = "lookup", !.stage = "cache", !.t = now, !.look = l])
    BY <1>1 DEF AskProfile
  <2>2. l \in (Users \cup {None}) \X (Names \cup {None}) /\ l # <<None, None>>
    BY DataAssumption
  <2>. DEFINE j == [Unused EXCEPT !.kind = "lookup", !.stage = "cache", !.t = now, !.look = l]
  <2>3. /\ j \in Job /\ j.kind = "lookup" /\ j.stage = "cache" /\ j.t = now
        /\ j.user = None /\ j.look = l
    BY <1>0, <2>2, NoneApart DEF Unused, Job, Stages, Kinds
  <2>4. Begin(r, j)
    BY <2>1
  <2>. HIDE DEF j
  <2>5. Fit(j)
    BY <2>2, <2>3 DEF Fit, Plans, Kinds
  <2>. QED  BY <1>0, <2>3, <2>4, <2>5 DEF Begin
<1>2. ASSUME Identify(r) PROVE job' = [job EXCEPT ![r] = job'[r]] /\ Fit(job'[r]) /\ job'[r].t <= now
  <2>1. PICK s \in Sessions :
            /\ Exists(UserOf[s]) /\ row[UserOf[s]] \in Row
            /\ Begin(r, [Unused EXCEPT !.kind = "identify", !.stage = "enter", !.user = UserOf[s],
                           !.s = s, !.avatar = row[UserOf[s]].avatar, !.about = row[UserOf[s]].about])
    BY <1>2, UsersServed DEF Identify, Exists, Base, DataOK
  <2>2. Exists(UserOf[s]) /\ row[UserOf[s]] \in Row
    BY <2>1
  <2>. DEFINE j == [Unused EXCEPT !.kind = "identify", !.stage = "enter", !.user = UserOf[s], !.s = s, !.avatar = row[UserOf[s]].avatar, !.about = row[UserOf[s]].about]
  <2>3. /\ j \in Job /\ j.kind = "identify" /\ j.stage = "enter" /\ j.t = 0
        /\ j.user = UserOf[s] /\ j.s = s /\ j.about \in Abouts
    BY <2>2, NoneApart, UsersServed DEF Unused, Job, Stages, Kinds, Row, Profile
  <2>4. Begin(r, j)
    BY <2>1
  <2>. HIDE DEF j
  <2>5. Fit(j)
    BY <2>1, <2>3, UsersServed, NoneApart DEF Fit, Plans, Kinds
  <2>. QED  BY <1>0, <2>3, <2>4, <2>5 DEF Begin
<1>3. ASSUME Leave(r) PROVE job' = [job EXCEPT ![r] = job'[r]] /\ Fit(job'[r]) /\ job'[r].t <= now
  <2>1. PICK s \in Sessions :
            Begin(r, [Unused EXCEPT !.kind = "leave", !.stage = "done", !.user = UserOf[s]])
    BY <1>3 DEF Leave
  <2>. DEFINE j == [Unused EXCEPT !.kind = "leave", !.stage = "done", !.user = UserOf[s]]
  <2>2. /\ j \in Job /\ j.kind = "leave" /\ j.stage = "done" /\ j.t = 0
        /\ j.user = UserOf[s]
    BY NoneApart, UsersServed DEF Unused, Job, Stages, Kinds, Row, Profile
  <2>3. Begin(r, j)
    BY <2>1
  <2>. HIDE DEF j
  <2>4. Fit(j)
    BY <2>1, <2>2, UsersServed, NoneApart DEF Fit, Plans, Kinds
  <2>. QED  BY <1>0, <2>2, <2>3, <2>4 DEF Begin
<1>4. ASSUME Settings(r) PROVE job' = [job EXCEPT ![r] = job'[r]] /\ Fit(job'[r]) /\ job'[r].t <= now
  <2>1. PICK s \in Sessions :
            /\ sess[s] \in Profile
            /\ Begin(r, [Unused EXCEPT !.kind = "settings", !.stage = "parse", !.user = UserOf[s],
                           !.s = s, !.avatar = sess[s].avatar, !.about = sess[s].about])
    BY <1>4 DEF Settings, Base, DataOK, Profile
  <2>2. sess[s] \in Profile
    BY <2>1
  <2>. DEFINE j == [Unused EXCEPT !.kind = "settings", !.stage = "parse", !.user = UserOf[s], !.s = s, !.avatar = sess[s].avatar, !.about = sess[s].about]
  <2>3. /\ j \in Job /\ j.kind = "settings" /\ j.stage = "parse" /\ j.t = 0
        /\ j.user = UserOf[s] /\ j.s = s /\ j.about \in Abouts
    BY <2>2, NoneApart, UsersServed DEF Unused, Job, Stages, Kinds, Row, Profile
  <2>4. Begin(r, j)
    BY <2>1
  <2>. HIDE DEF j
  <2>5. Fit(j)
    BY <2>1, <2>3, UsersServed, NoneApart DEF Fit, Plans, Kinds
  <2>. QED  BY <1>0, <2>3, <2>4, <2>5 DEF Begin
<1>5. ASSUME Upload(r) PROVE job' = [job EXCEPT ![r] = job'[r]] /\ Fit(job'[r]) /\ job'[r].t <= now
  <2>1. PICK u \in Users :
            /\ Shown(u) \in Public
            /\ Begin(r, [Unused EXCEPT !.kind = "upload", !.stage = "file", !.user = u, !.copy = Shown(u)])
    BY <1>5, ShownPublic, DataAssumption DEF Upload, Base
  <2>2. Shown(u) \in Public
    BY <2>1
  <2>. DEFINE j == [Unused EXCEPT !.kind = "upload", !.stage = "file", !.user = u, !.copy = Shown(u)]
  <2>3. /\ j \in Job /\ j.kind = "upload" /\ j.stage = "file" /\ j.t = 0
        /\ j.user = u /\ j.copy = Shown(u)
    BY <2>2, NoneApart DEF Unused, Job, Stages, Kinds, Row, Profile
  <2>4. Begin(r, j)
    BY <2>1
  <2>. HIDE DEF j
  <2>5. Fit(j)
    BY <2>1, <2>3, NoneApart DEF Fit, Plans, Kinds
  <2>. QED  BY <1>0, <2>3, <2>4, <2>5 DEF Begin
<1>6. ASSUME Rename(r) PROVE job' = [job EXCEPT ![r] = job'[r]] /\ Fit(job'[r]) /\ job'[r].t <= now
  <2>1. PICK u \in Users, n \in Names :
            /\ Shown(u) \in Public
            /\ Begin(r, [Unused EXCEPT !.kind = "rename", !.stage = "check", !.user = u,
                           !.n = n, !.copy = Shown(u)])
    BY <1>6, ShownPublic, DataAssumption DEF Rename, Base
  <2>2. Shown(u) \in Public
    BY <2>1
  <2>. DEFINE j == [Unused EXCEPT !.kind = "rename", !.stage = "check", !.user = u, !.n = n, !.copy = Shown(u)]
  <2>3. /\ j \in Job /\ j.kind = "rename" /\ j.stage = "check" /\ j.t = 0
        /\ j.user = u /\ j.n = n
    BY <2>2, NoneApart, DataAssumption DEF Unused, Job, Stages, Kinds, Row, Profile
  <2>4. Begin(r, j)
    BY <2>1
  <2>. HIDE DEF j
  <2>5. Fit(j)
    BY <2>1, <2>3, DataAssumption, NoneApart DEF Fit, Plans, Kinds
  <2>. QED  BY <1>0, <2>3, <2>4, <2>5 DEF Begin
<1>7. ASSUME Badges(r) PROVE job' = [job EXCEPT ![r] = job'[r]] /\ Fit(job'[r]) /\ job'[r].t <= now
  <2>1. PICK u \in Users :
            Begin(r, [Unused EXCEPT !.kind = "badges", !.stage = "update", !.user = u])
    BY <1>7, DataAssumption DEF Badges
  <2>. DEFINE j == [Unused EXCEPT !.kind = "badges", !.stage = "update", !.user = u]
  <2>2. /\ j \in Job /\ j.kind = "badges" /\ j.stage = "update" /\ j.t = 0
        /\ j.user = u
    BY NoneApart DEF Unused, Job, Stages, Kinds, Row, Profile
  <2>3. Begin(r, j)
    BY <2>1
  <2>. HIDE DEF j
  <2>4. Fit(j)
    BY <2>1, <2>2, NoneApart DEF Fit, Plans, Kinds
  <2>. QED  BY <1>0, <2>2, <2>3, <2>4 DEF Begin
<1>8. ASSUME Register(r) PROVE job' = [job EXCEPT ![r] = job'[r]] /\ Fit(job'[r]) /\ job'[r].t <= now
  <2>1. PICK u \in Users :
            Begin(r, [Unused EXCEPT !.kind = "register", !.stage = "done", !.user = u])
    BY <1>8 DEF Register
  <2>. DEFINE j == [Unused EXCEPT !.kind = "register", !.stage = "done", !.user = u]
  <2>2. /\ j \in Job /\ j.kind = "register" /\ j.stage = "done" /\ j.t = 0
        /\ j.user = u
    BY NoneApart DEF Unused, Job, Stages, Kinds, Row, Profile
  <2>3. Begin(r, j)
    BY <2>1
  <2>. HIDE DEF j
  <2>4. Fit(j)
    BY <2>1, <2>2, NoneApart DEF Fit, Plans, Kinds
  <2>. QED  BY <1>0, <2>2, <2>3, <2>4 DEF Begin
<1>9. ASSUME Delete(r) PROVE job' = [job EXCEPT ![r] = job'[r]] /\ Fit(job'[r]) /\ job'[r].t <= now
  <2>1. PICK u \in Users, kind \in {"delete", "erase", "purge"} :
            /\ Shown(u) \in Public
            /\ Begin(r, [Unused EXCEPT !.kind = kind, !.user = u, !.copy = Shown(u),
                           !.stage = IF kind = "delete" THEN "check" ELSE "prekeys"])
    BY <1>9, ShownPublic, DataAssumption DEF Delete, Base
  <2>2. Shown(u) \in Public
    BY <2>1
  <2>. DEFINE j == [Unused EXCEPT !.kind = kind, !.user = u, !.copy = Shown(u), !.stage = IF kind = "delete" THEN "check" ELSE "prekeys"]
  <2>3. /\ j \in Job /\ j.kind = kind /\ j.stage = (IF kind = "delete" THEN "check" ELSE "prekeys") /\ j.t = 0
        /\ j.user = u /\ j.copy = Shown(u)
    BY <2>2, NoneApart DEF Unused, Job, Stages, Kinds, Row, Profile
  <2>4. Begin(r, j)
    BY <2>1
  <2>. HIDE DEF j
  <2>5. Fit(j)
    BY <2>1, <2>3 DEF Fit, Plans, Kinds
  <2>. QED  BY <1>0, <2>3, <2>4, <2>5 DEF Begin
<1>10. ASSUME PutBlob(r) PROVE job' = [job EXCEPT ![r] = job'[r]] /\ Fit(job'[r]) /\ job'[r].t <= now
  <2>1. PICK u \in Users, v \in Nat :
            Begin(r, [Unused EXCEPT !.kind = "put_blob", !.stage = "compare", !.user = u, !.n = v])
    BY <1>10, DataAssumption DEF PutBlob
  <2>. DEFINE j == [Unused EXCEPT !.kind = "put_blob", !.stage = "compare", !.user = u, !.n = v]
  <2>2. /\ j \in Job /\ j.kind = "put_blob" /\ j.stage = "compare" /\ j.t = 0
        /\ j.user = u
    BY NoneApart DEF Unused, Job, Stages, Kinds, Row, Profile
  <2>3. Begin(r, j)
    BY <2>1
  <2>. HIDE DEF j
  <2>4. Fit(j)
    BY <2>1, <2>2, NoneApart DEF Fit, Plans, Kinds
  <2>. QED  BY <1>0, <2>2, <2>3, <2>4 DEF Begin
<1>11. ASSUME PublishPrekey(r) PROVE job' = [job EXCEPT ![r] = job'[r]] /\ Fit(job'[r]) /\ job'[r].t <= now
  <2>1. PICK s \in Sessions, k \in PreKeys :
            Begin(r, [Unused EXCEPT !.kind = "publish", !.stage = "upsert", !.user = UserOf[s],
                           !.s = s, !.key = k])
    BY <1>11 DEF PublishPrekey
  <2>. DEFINE j == [Unused EXCEPT !.kind = "publish", !.stage = "upsert", !.user = UserOf[s], !.s = s, !.key = k]
  <2>2. /\ j \in Job /\ j.kind = "publish" /\ j.stage = "upsert" /\ j.t = 0
        /\ j.user = UserOf[s] /\ j.s = s /\ j.key = k
    BY NoneApart, UsersServed DEF Unused, Job, Stages, Kinds, Row, Profile
  <2>3. Begin(r, j)
    BY <2>1
  <2>. HIDE DEF j
  <2>4. Fit(j)
    BY <2>1, <2>2, UsersServed, NoneApart DEF Fit, Plans, Kinds
  <2>. QED  BY <1>0, <2>2, <2>3, <2>4 DEF Begin
<1>12. ASSUME UpdateBlocks(r) PROVE job' = [job EXCEPT ![r] = job'[r]] /\ Fit(job'[r]) /\ job'[r].t <= now
  <2>1. PICK s \in Sessions, add \in Hints \cup {None}, remove \in Hints \cup {None} :
            Begin(r, [Unused EXCEPT !.kind = "blocks", !.stage = "fingerprint", !.user = UserOf[s],
                           !.s = s, !.add = add, !.remove = remove])
    BY <1>12 DEF UpdateBlocks
  <2>. DEFINE j == [Unused EXCEPT !.kind = "blocks", !.stage = "fingerprint", !.user = UserOf[s], !.s = s, !.add = add, !.remove = remove]
  <2>2. /\ j \in Job /\ j.kind = "blocks" /\ j.stage = "fingerprint" /\ j.t = 0
        /\ j.user = UserOf[s] /\ j.s = s
    BY NoneApart, UsersServed DEF Unused, Job, Stages, Kinds, Row, Profile
  <2>3. Begin(r, j)
    BY <2>1
  <2>. HIDE DEF j
  <2>4. Fit(j)
    BY <2>1, <2>2, UsersServed, NoneApart DEF Fit, Plans, Kinds
  <2>. QED  BY <1>0, <2>2, <2>3, <2>4 DEF Begin
<1>. QED  BY <1>1, <1>2, <1>3, <1>4, <1>5, <1>6, <1>7, <1>8, <1>9, <1>10, <1>11, <1>12 DEF Arrive
-----------------------------------------------------------------------------
\* A request that is served goes on to a stage of its plan.
LEMMA Ending ==
    ASSUME JobsOK, now \in Nat, now' = now, NEW r \in Requests, AtWork(r), Go(r, "done")
    PROVE  JobsOK'
BY MayEnd, GoneOn

LEMMA Advancing ==
    ASSUME JobsOK, now \in Nat, now' = now, NEW r \in Requests, AtWork(r),
           NEW stage \in Stages \ {"done", "gone"}, Go(r, stage), <<job[r].kind, stage>> \in Plans,
           job[r].kind = "lookup" => stage # "fill" /\ (stage = "by_id" => job[r].look[1] # None),
           job[r].kind = "upload" => stage \notin {"remove", "persist"} \/ job[r].stage \in {"remove", "persist"},
           job[r].kind = "put_blob" => stage # "store",
           job[r].kind = "blocks" =>
              stage \notin {"count", "insert"} \/ job[r].stage \in {"count", "insert"}
    PROVE  JobsOK'
BY MayGoOn, GoneOn

LEMMA Overtaking ==
    ASSUME JobsOK, now \in Nat, now' = now, NEW r \in Requests, AtWork(r), NEW u,
           NEW stage \in Stages \ {"gone"}, Overtake(r, stage, u), <<job[r].kind, stage>> \in Plans,
           job[r].kind \in {"settings", "upload", "rename", "badges", "delete", "erase", "purge"},
           stage \notin {"remove", "persist"}
    PROVE  JobsOK'
<1>1. CASE stage = "done"
  BY <1>1, MayEnd, OvertakesJobs
<1>2. CASE stage # "done"
  <2>1. Fit(Moved(r, stage)) /\ Moved(r, stage).t <= now
    BY <1>2, MayGoOn
  <2>. QED  BY <2>1, OvertakesJobs
<1>. QED  BY <1>1, <1>2

LEMMA Rewritten ==
    ASSUME NEW j \in Job
    PROVE  /\ \A x \in Stages : [j EXCEPT !.stage = x] \in Job
           /\ \A x \in Pictures : [j EXCEPT !.avatar = x] \in Job
           /\ \A x \in Abouts : [j EXCEPT !.about = x] \in Job
           /\ \A x \in Nat : [j EXCEPT !.n = x] \in Job
           /\ \A x \in Nat : [j EXCEPT !.seen = x] \in Job
           /\ \A x \in Nat : [j EXCEPT !.t = x] \in Job
           /\ \A x \in PreKeys : [j EXCEPT !.key = x] \in Job
           /\ \A x \in Public : [j EXCEPT !.copy = x] \in Job
BY DEF Job

LEMMA PictureNames == \A r \in Requests : r \in Pictures
BY DEF Pictures, Files

LEMMA Rewriting ==
    ASSUME JobsOK, now \in Nat, now' = now, NEW r \in Requests, NEW j,
           job' = [job EXCEPT ![r] = j], Fit(j), j.t <= now
    PROVE  JobsOK'
<1>1. job'[r] = j
  BY DEF JobsOK
<1>2. Fit(job'[r]) /\ job'[r].t <= now' /\ job' = [job EXCEPT ![r] = job'[r]]
  BY <1>1
<1>3. now' \in Nat /\ now' >= now
  OBVIOUS
<1>. QED  BY <1>2, <1>3, OneMoved

LEMMA ServesJobs ==
    ASSUME Base, NEW r \in Requests, Serve(r)
    PROVE  JobsOK'
<1>1. JobsOK /\ now \in Nat /\ now' = now /\ AtWork(r) /\ DataOK
  BY DEF Serve, Base, DataOK, LookInCache, ReadPublic, FillCache, EnterSession, ParseProfile, WriteSession,
         PersistProfile, StoreFile, ShowInSessions, RemoveOld, CheckRename, CheckUnique, UpdateName,
         UpdateBadges, Reread, Invalidate, CheckDelete, DeletePrekeys, DeleteBlocks, DeleteRow,
         Disconnect, RemoveFiles, CompareVersion, StoreBlob, UpsertPrekey, Fingerprint, CountTags,
         InsertTag, RemoveTag, Abandon
<1>2. /\ Fit(job[r]) /\ job[r] \in Job /\ job[r].t <= now /\ job[r].stage \notin {"new", "done", "gone"}
      /\ <<job[r].kind, job[r].stage>> \in Plans
  BY <1>1 DEF JobsOK, Fit, AtWork
<1>3. job[r] \in Job
  BY <1>2
<1>4. CASE LookInCache(r)
  <2>1. job[r].kind = "lookup" /\ job[r].stage = "cache"
    BY <1>4 DEF LookInCache, At
  <2>2. CASE job[r].look[1] # None
    <3>1. Go(r, "done") \/ Go(r, "by_id")
      BY <1>4, <2>2 DEF LookInCache
    <3>2. Go(r, "by_id") => JobsOK'
      BY <1>1, <2>1, <2>2, Advancing DEF Plans, Stages
    <3>. QED  BY <1>1, <3>1, <3>2, Ending
  <2>3. CASE job[r].look[1] = None
    <3>1. Go(r, "done") \/ Go(r, "by_name")
      BY <1>4, <2>3 DEF LookInCache
    <3>2. Go(r, "by_name") => JobsOK'
      BY <1>1, <2>1, Advancing DEF Plans, Stages
    <3>. QED  BY <1>1, <3>1, <3>2, Ending
  <2>. QED  BY <2>2, <2>3
<1>5. CASE ReadPublic(r)
  <2>1. job[r].kind = "lookup" /\ job[r].stage \in {"by_id", "by_name"}
    BY <1>5 DEF ReadPublic, At
  <2>2. ASSUME NEW u \in Users, Exists(u), job' = [job EXCEPT ![r] = [@ EXCEPT !.stage = "fill", !.copy = Shown(u)]]
        PROVE  JobsOK'
    <3>. DEFINE j == [job[r] EXCEPT !.stage = "fill", !.copy = Shown(u)]
    <3>1. Shown(u) \in Public
      BY <1>1, <2>2, ShownPublic
    <3>9. j \in Job
      <4>1. "fill" \in Stages
        BY DEF Stages
      <4>2. [[job[r] EXCEPT !.stage = "fill"] EXCEPT !.copy = Shown(u)] \in Job
        BY <1>3, <3>1, <4>1, Rewritten
      <4>. QED  BY <4>2
    <3>2. /\ j.kind = job[r].kind /\ j.stage = "fill" /\ j.copy = Shown(u) /\ j.t = job[r].t
          /\ j.look = job[r].look /\ j.user = job[r].user
      BY <1>3 DEF Job
    <3>3. job' = [job EXCEPT ![r] = j]
      BY <2>2
    <3>. HIDE DEF j
    <3>4. Fit(j)
      BY <1>2, <2>1, <3>1, <3>9, <3>2 DEF Fit, Plans
    <3>5. j.t <= now
      BY <1>2, <3>2
    <3>. QED  BY <1>1, <3>3, <3>4, <3>5, Rewriting
  <2>3. ASSUME Go(r, "by_name") PROVE JobsOK'
    BY <2>1, <2>3, <1>1, Advancing DEF Plans, Stages
  <2>4. CASE job[r].stage = "by_id"
    <3>1. Found(r, {u \in {job[r].look[1]} : Exists(u)}, IF job[r].look[2] # None THEN "by_name" ELSE "done")
      BY <1>5, <2>4 DEF ReadPublic, At
    <3>2. \A u : Exists(u) /\ u = job[r].look[1] => u \in Users
      <4>1. job[r].look[1] \in Users \cup {None}
        BY <1>2 DEF Job
      <4>. QED  BY <1>2, <2>1, <2>4, <4>1 DEF Fit
    <3>. QED  BY <1>1, <2>2, <2>3, <3>1, <3>2, Ending DEF Found
  <2>5. CASE job[r].stage = "by_name"
    <3>1. Found(r, Named(job[r].look[2]), "done")
      BY <1>5, <2>5 DEF ReadPublic, At
    <3>. QED  BY <1>1, <2>2, <3>1, Ending DEF Found, Named
  <2>. QED  BY <2>1, <2>4, <2>5
<1>6. CASE FillCache(r)
  <2>1. Go(r, "done")
    BY <1>6 DEF FillCache, At
  <2>. QED  BY <1>1, <2>1, Ending
<1>7. CASE EnterSession(r)
  <2>1. Go(r, "done")
    BY <1>7 DEF EnterSession, At
  <2>. QED  BY <1>1, <2>1, Ending
<1>8. CASE ParseProfile(r)
  <2>1. job[r].kind = "settings" /\ job[r].stage = "parse"
    BY <1>8, <1>2, NoneApart DEF ParseProfile, At, Plans, Kinds
  <2>2. ASSUME NEW a \in {job[r].avatar, None, r}, NEW b \in Abouts,
               job' = [job EXCEPT ![r] = [@ EXCEPT !.stage = "write", !.avatar = a, !.about = b]]
        PROVE  JobsOK'
    <3>. DEFINE j == [job[r] EXCEPT !.stage = "write", !.avatar = a, !.about = b]
    <3>1. j \in Job
      <4>1. ("write") \in Stages /\ (a) \in Pictures /\ (b) \in Abouts
        BY <1>3, PictureNames, NoneApart DEF Job, Stages
      <4>2. [[[job[r] EXCEPT !.stage = "write"] EXCEPT !.avatar = a] EXCEPT !.about = b] \in Job
        BY <1>3, <4>1, Rewritten
      <4>. QED  BY <4>2
    <3>2. /\ j.kind = job[r].kind /\ j.user = job[r].user /\ j.s = job[r].s /\ j.t = job[r].t
          /\ j.stage = "write" /\ j.about = b
      BY <1>3, PictureNames DEF Job
    <3>3. job' = [job EXCEPT ![r] = j]
      BY <2>2
    <3>. HIDE DEF j
    <3>4. Fit(j)
      BY <1>2, <2>1, <3>1, <3>2, <2>2 DEF Fit, Plans
    <3>5. j.t <= now
      BY <1>1, <1>2, <3>2
    <3>. QED  BY <1>1, <3>3, <3>4, <3>5, Rewriting
  <2>. QED  BY <1>8, <1>1, <2>2, Ending DEF ParseProfile
<1>9. CASE WriteSession(r)
  <2>1. Go(r, "persist") \/ Go(r, "done")
    BY <1>9 DEF WriteSession, At
  <2>2. Go(r, "persist") => JobsOK'
    BY <1>9, <1>1, Advancing DEF WriteSession, At, Plans, Stages
  <2>. QED  BY <1>1, <2>1, <2>2, Ending
<1>10. CASE PersistProfile(r)
  <2>1. job[r].kind \in {"settings", "upload"}
    BY <1>10, <1>2, NoneApart DEF PersistProfile, Plans, Kinds
  <2>2. CASE job[r].kind = "upload"
    <3>1. (\E u : Overtake(r, "invalidate", u)) \/ Go(r, "done")
      BY <1>10, <2>2 DEF PersistProfile, Update
    <3>2. ASSUME NEW u, Overtake(r, "invalidate", u) PROVE JobsOK'
      BY <1>1, <2>2, <3>2, Overtaking DEF Plans, Stages
    <3>. QED  BY <1>1, <3>1, <3>2, Ending
  <2>3. CASE job[r].kind = "settings"
    <3>1. (\E u : Overtake(r, "done", u)) \/ Go(r, "done")
      BY <1>10, <2>3 DEF PersistProfile, Update
    <3>2. ASSUME NEW u, Overtake(r, "done", u) PROVE JobsOK'
      BY <1>1, <2>3, <3>2, Overtaking DEF Plans, Stages
    <3>. QED  BY <1>1, <3>1, <3>2, Ending
  <2>. QED  BY <2>1, <2>2, <2>3
<1>11. CASE StoreFile(r)
  <2>1. Go(r, "sessions") \/ Go(r, "done")
    BY <1>11 DEF StoreFile, At
  <2>2. Go(r, "sessions") => JobsOK'
    BY <1>11, <1>1, Advancing DEF StoreFile, At, Plans, Stages
  <2>. QED  BY <1>1, <2>1, <2>2, Ending
<1>12. CASE ShowInSessions(r)
  <2>1. job[r].kind = "upload" /\ job[r].stage = "sessions" /\ job[r].copy \in Public
    BY <1>12, <1>2 DEF ShowInSessions, At, Fit
  <2>2. ASSUME NEW b \in Abouts,
               job' = [job EXCEPT ![r] = [@ EXCEPT !.stage = "remove", !.avatar = r, !.about = b]]
        PROVE  JobsOK'
    <3>. DEFINE j == [job[r] EXCEPT !.stage = "remove", !.avatar = r, !.about = b]
    <3>1. j \in Job
      <4>1. ("remove") \in Stages /\ (r) \in Pictures /\ (b) \in Abouts
        BY <1>3, PictureNames, NoneApart DEF Job, Stages
      <4>2. [[[job[r] EXCEPT !.stage = "remove"] EXCEPT !.avatar = r] EXCEPT !.about = b] \in Job
        BY <1>3, <4>1, Rewritten
      <4>. QED  BY <4>2
    <3>2. /\ j.kind = job[r].kind /\ j.user = job[r].user /\ j.s = job[r].s /\ j.t = job[r].t
          /\ j.stage = "remove" /\ j.about = b /\ j.copy = job[r].copy
      BY <1>3, PictureNames DEF Job
    <3>3. job' = [job EXCEPT ![r] = j]
      BY <2>2
    <3>. HIDE DEF j
    <3>4. Fit(j)
      BY <1>2, <2>1, <3>1, <3>2, <2>2 DEF Fit, Plans
    <3>5. j.t <= now
      BY <1>1, <1>2, <3>2
    <3>. QED  BY <1>1, <3>3, <3>4, <3>5, Rewriting
  <2>3. PICK b \in IF {s \in Sessions : sess[s] # None /\ UserOf[s] = job[r].user} = {} THEN {job[r].copy.about}
                   ELSE {sess[s].about : s \in {s \in Sessions : sess[s] # None /\ UserOf[s] = job[r].user}} :
            job' = [job EXCEPT ![r] = [@ EXCEPT !.stage = "remove", !.avatar = r, !.about = b]]
    BY <1>12 DEF ShowInSessions
  <2>4. job[r].copy.about \in Abouts
    BY <2>1 DEF Public
  <2>5. \A s \in Sessions : sess[s] # None => sess[s].about \in Abouts
    BY <1>1 DEF DataOK
  <2>6. b \in Abouts
    BY <2>3, <2>4, <2>5
  <2>. QED  BY <2>2, <2>3, <2>6
<1>13. CASE RemoveOld(r)
  <2>1. Go(r, "persist")
    BY <1>13 DEF RemoveOld, At
  <2>2. Go(r, "persist") => JobsOK'
    BY <1>13, <1>1, Advancing DEF RemoveOld, At, Plans, Stages
  <2>. QED  BY <1>1, <2>1, <2>2
<1>14. CASE CheckRename(r)
  <2>1. job[r].kind = "rename" /\ job[r].stage = "check"
    BY <1>14, <1>2, NoneApart DEF CheckRename, At, Plans, Kinds
  <2>2. ASSUME  job' = [job EXCEPT ![r] = [@ EXCEPT !.stage = "unique", !.t = now]]
        PROVE  JobsOK'
    <3>. DEFINE j == [job[r] EXCEPT !.stage = "unique", !.t = now]
    <3>1. j \in Job
      <4>1. ("unique") \in Stages /\ (now) \in Nat
        BY <1>3, <1>1, NoneApart DEF Job, Stages
      <4>2. [[job[r] EXCEPT !.stage = "unique"] EXCEPT !.t = now] \in Job
        BY <1>3, <4>1, Rewritten
      <4>. QED  BY <4>2
    <3>2. /\ j.kind = job[r].kind /\ j.user = job[r].user /\ j.s = job[r].s /\ j.t = now
          /\ j.stage = "unique" /\ j.n = job[r].n
      BY <1>3, <1>1 DEF Job
    <3>3. job' = [job EXCEPT ![r] = j]
      BY <2>2
    <3>. HIDE DEF j
    <3>4. Fit(j)
      BY <1>2, <2>1, <3>1, <3>2, NoneApart DEF Fit, Plans
    <3>5. j.t <= now
      BY <1>1, <1>2, <3>2
    <3>. QED  BY <1>1, <3>3, <3>4, <3>5, Rewriting
  <2>3. Go(r, "invalidate_old") => JobsOK'
    BY <1>1, <2>1, Advancing DEF Plans, Stages
  <2>. QED  BY <1>14, <1>1, <2>2, <2>3, Ending DEF CheckRename
<1>15. CASE CheckUnique(r)
  <2>1. Go(r, "done") \/ Go(r, "update")
    BY <1>15 DEF CheckUnique, At
  <2>2. Go(r, "update") => JobsOK'
    BY <1>15, <1>1, Advancing DEF CheckUnique, At, Plans, Stages
  <2>. QED  BY <1>1, <2>1, <2>2, Ending
<1>16. CASE UpdateName(r)
  <2>1. job[r].kind = "rename"
    BY <1>16, <1>2, NoneApart DEF UpdateName, At, Plans, Kinds
  <2>2. (\E u : Overtake(r, "reread", u)) \/ Go(r, "done")
    BY <1>16, <2>1 DEF UpdateName, Update
  <2>3. ASSUME NEW u, Overtake(r, "reread", u) PROVE JobsOK'
    BY <1>1, <2>1, <2>3, Overtaking DEF Plans, Stages
  <2>. QED  BY <1>1, <2>2, <2>3, Ending
<1>17. CASE UpdateBadges(r)
  <2>1. job[r].kind = "badges"
    BY <1>17, <1>2, NoneApart DEF UpdateBadges, At, Plans, Kinds
  <2>2. (\E u : Overtake(r, "reread", u))
    BY <1>17, <2>1 DEF UpdateBadges, Update
  <2>3. ASSUME NEW u, Overtake(r, "reread", u) PROVE JobsOK'
    BY <1>1, <2>1, <2>3, Overtaking DEF Plans, Stages
  <2>. QED  BY <1>1, <2>2, <2>3
<1>18. CASE Reread(r)
  <2>1. job[r].kind \in {"rename", "badges"} /\ job[r].stage = "reread"
    BY <1>18, <1>2, NoneApart DEF Reread, At, Plans, Kinds
  <2>2. Exists(job[r].user) => row[job[r].user].name \in Names /\ row[job[r].user].name \in Nat
    <3>1. job[r].user \in Users
      BY <1>2, <2>1, NoneApart DEF Fit, Kinds
    <3>. QED  BY <1>1, <3>1, ShownPublic, DataAssumption DEF Row
  <2>3. ASSUME Exists(job[r].user),
               job' = [job EXCEPT ![r] = [@ EXCEPT !.n = row[job[r].user].name,
                              !.stage = IF job[r].kind = "rename" THEN "invalidate_old" ELSE "invalidate"]]
        PROVE  JobsOK'
    <3>. DEFINE j == [job[r] EXCEPT !.n = row[job[r].user].name,
                              !.stage = IF job[r].kind = "rename" THEN "invalidate_old" ELSE "invalidate"]
    <3>1. j \in Job
      <4>1. (row[job[r].user].name) \in Nat /\ (IF job[r].kind = "rename" THEN "invalidate_old" ELSE "invalidate") \in Stages
        BY <1>3, <2>2, <2>3, NoneApart DEF Job, Stages
      <4>2. [[job[r] EXCEPT !.n = row[job[r].user].name] EXCEPT !.stage = IF job[r].kind = "rename" THEN "invalidate_old" ELSE "invalidate"] \in Job
        BY <1>3, <4>1, Rewritten
      <4>. QED  BY <4>2
    <3>2. /\ j.kind = job[r].kind /\ j.user = job[r].user /\ j.s = job[r].s /\ j.t = job[r].t
          /\ j.stage = (IF job[r].kind = "rename" THEN "invalidate_old" ELSE "invalidate")
          /\ j.n = row[job[r].user].name
      BY <1>3, <2>2, <2>3 DEF Job
    <3>3. job' = [job EXCEPT ![r] = j]
      BY <2>3
    <3>. HIDE DEF j
    <3>4. Fit(j)
      BY <1>2, <2>1, <3>1, <3>2, <2>2, <2>3 DEF Fit, Plans
    <3>5. j.t <= now
      BY <1>1, <1>2, <3>2
    <3>. QED  BY <1>1, <3>3, <3>4, <3>5, Rewriting
  <2>. QED  BY <1>18, <1>1, <2>3, Ending DEF Reread
<1>19. CASE Invalidate(r)
  <2>1. CASE job[r].stage = "invalidate_old"
    <3>1. Go(r, "invalidate")
      BY <1>19, <2>1 DEF Invalidate
    <3>2. job[r].kind = "rename"
      BY <1>2, <2>1, NoneApart DEF Plans
    <3>. QED  BY <1>1, <3>1, <3>2, Advancing DEF Plans, Stages
  <2>2. CASE job[r].stage # "invalidate_old" /\ job[r].kind = "delete"
    <3>1. Go(r, "unfile")
      BY <1>19, <2>2 DEF Invalidate
    <3>. QED  BY <1>1, <2>2, <3>1, Advancing DEF Plans, Stages
  <2>3. CASE job[r].stage # "invalidate_old" /\ job[r].kind # "delete"
    <3>1. Go(r, "done")
      BY <1>19, <2>3 DEF Invalidate
    <3>. QED  BY <1>1, <3>1, Ending
  <2>. QED  BY <2>1, <2>2, <2>3
<1>20. CASE CheckDelete(r)
  <2>1. Go(r, "prekeys") \/ Go(r, "done")
    BY <1>20 DEF CheckDelete, At
  <2>2. Go(r, "prekeys") => JobsOK'
    BY <1>20, <1>1, Advancing DEF CheckDelete, At, Plans, Stages
  <2>. QED  BY <1>1, <2>1, <2>2, Ending
<1>21. CASE DeletePrekeys(r)
  <2>1. job[r].kind \in {"delete", "erase", "purge"}
    BY <1>21, <1>2, NoneApart DEF DeletePrekeys, At, Plans, Kinds
  <2>2. Go(r, "blocks")
    BY <1>21, <2>1 DEF DeletePrekeys, At
  <2>3. Go(r, "blocks") => JobsOK'
    BY <1>21, <2>1, <1>1, Advancing DEF DeletePrekeys, At, Plans, Stages
  <2>. QED  BY <1>1, <2>2, <2>3
<1>22. CASE DeleteBlocks(r)
  <2>1. job[r].kind \in {"delete", "erase", "purge"}
    BY <1>22, <1>2, NoneApart DEF DeleteBlocks, At, Plans, Kinds
  <2>2. Go(r, "row")
    BY <1>22, <2>1 DEF DeleteBlocks, At
  <2>3. Go(r, "row") => JobsOK'
    BY <1>22, <2>1, <1>1, Advancing DEF DeleteBlocks, At, Plans, Stages
  <2>. QED  BY <1>1, <2>2, <2>3
<1>23. CASE DeleteRow(r)
  <2>1. job[r].kind \in {"delete", "erase", "purge"}
    BY <1>23, <1>2, NoneApart DEF DeleteRow, Plans, Kinds
  <2>2. CASE job[r].kind = "purge"
    <3>1. \E u : Overtake(r, "done", u)
      BY <1>23, <2>2 DEF DeleteRow, Update
    <3>2. ASSUME NEW u, Overtake(r, "done", u) PROVE JobsOK'
      BY <1>1, <2>2, <3>2, Overtaking DEF Plans, Stages
    <3>. QED  BY <3>1, <3>2
  <2>3. CASE job[r].kind # "purge"
    <3>1. \E u : Overtake(r, "disconnect", u)
      BY <1>23, <2>3 DEF DeleteRow, Update
    <3>2. ASSUME NEW u, Overtake(r, "disconnect", u) PROVE JobsOK'
      BY <1>1, <2>1, <2>3, <3>2, Overtaking DEF Plans, Stages
    <3>. QED  BY <3>1, <3>2
  <2>. QED  BY <2>2, <2>3
<1>24. CASE Disconnect(r)
  <2>1. job[r].kind \in {"delete", "erase"}
    BY <1>24, <1>2, NoneApart DEF Disconnect, Plans, Kinds
  <2>2. Fit(Moved(r, "invalidate")) /\ Moved(r, "invalidate").t <= now
    BY <1>1, <2>1, MayGoOn DEF Plans, Stages
  <2>3. ASSUME NEW q \in Requests PROVE Fit(job[q])' /\ (job[q].t <= now)'
    <3>1. Fit(job[q]) /\ job[q].t <= now
      BY <1>1 DEF JobsOK
    <3>2. Fit([job[q] EXCEPT !.over = TRUE]) /\ [job[q] EXCEPT !.over = TRUE].t = job[q].t
      BY <3>1, OvertakenFits
    <3>3. job'[q] \in {Moved(r, "invalidate"), [job[q] EXCEPT !.over = TRUE], job[q]}
      BY <1>24 DEF Disconnect
    <3>. QED  BY <1>1, <2>2, <3>1, <3>2, <3>3
  <2>. QED  BY <1>24, <2>3 DEF JobsOK, Disconnect
<1>25. CASE RemoveFiles(r)
  <2>1. Go(r, "done")
    BY <1>25 DEF RemoveFiles, At
  <2>. QED  BY <1>1, <2>1, Ending
<1>26. CASE CompareVersion(r)
  <2>1. job[r].kind = "put_blob" /\ job[r].stage = "compare"
    BY <1>26, <1>2, NoneApart DEF CompareVersion, At, Plans, Kinds
  <2>2. ASSUME NEW v \in Nat,
               job' = [job EXCEPT ![r] = [@ EXCEPT !.seen = v,
                              !.stage = IF Newer(job[r].n, v) THEN "store" ELSE "done"]]
        PROVE  JobsOK'
    <3>. DEFINE j == [job[r] EXCEPT !.seen = v,
                              !.stage = IF Newer(job[r].n, v) THEN "store" ELSE "done"]
    <3>1. j \in Job
      <4>1. (v) \in Nat /\ (IF Newer(job[r].n, v) THEN "store" ELSE "done") \in Stages
        BY <1>3, <2>2, NoneApart DEF Job, Stages
      <4>2. [[job[r] EXCEPT !.seen = v] EXCEPT !.stage = IF Newer(job[r].n, v) THEN "store" ELSE "done"] \in Job
        BY <1>3, <4>1, Rewritten
      <4>. QED  BY <4>2
    <3>2. /\ j.kind = job[r].kind /\ j.user = job[r].user /\ j.s = job[r].s /\ j.t = job[r].t
          /\ j.stage = (IF Newer(job[r].n, v) THEN "store" ELSE "done")
          /\ j.seen = v /\ j.n = job[r].n
      BY <1>3, <2>2 DEF Job
    <3>3. job' = [job EXCEPT ![r] = j]
      BY <2>2
    <3>. HIDE DEF j
    <3>4. Fit(j)
      BY <1>2, <2>1, <3>1, <3>2, <2>2 DEF Fit, Plans, Newer
    <3>5. j.t <= now
      BY <1>1, <1>2, <3>2
    <3>. QED  BY <1>1, <3>3, <3>4, <3>5, Rewriting
  <2>3. PICK v : /\ v = IF Exists(job[r].user) THEN row[job[r].user].ver ELSE 0
                 /\ job' = [job EXCEPT ![r] = [@ EXCEPT !.seen = v,
                              !.stage = IF Newer(job[r].n, v) THEN "store" ELSE "done"]]
    BY <1>26 DEF CompareVersion
  <2>4. job[r].user \in Users
    BY <1>2, <2>1, NoneApart DEF Fit, Kinds
  <2>5. v \in Nat
    BY <1>1, <2>3, <2>4, ShownPublic DEF Row
  <2>. QED  BY <2>2, <2>3, <2>5
<1>27. CASE StoreBlob(r)
  <2>1. Go(r, "done")
    BY <1>27 DEF StoreBlob, At
  <2>. QED  BY <1>1, <2>1, Ending
<1>28. CASE UpsertPrekey(r)
  <2>1. Go(r, "done")
    BY <1>28 DEF UpsertPrekey, At
  <2>. QED  BY <1>1, <2>1, Ending
<1>29. CASE Fingerprint(r)
  <2>1. job[r].kind = "blocks" /\ job[r].stage = "fingerprint"
    BY <1>29, <1>2, NoneApart DEF Fingerprint, At, Plans, Kinds
  <2>2. ASSUME NEW k \in PreKeys,
               job' = [job EXCEPT ![r] = [@ EXCEPT !.key = k,
                              !.stage = IF job[r].add # None THEN "count" ELSE "unblock"]]
        PROVE  JobsOK'
    <3>. DEFINE j == [job[r] EXCEPT !.key = k,
                              !.stage = IF job[r].add # None THEN "count" ELSE "unblock"]
    <3>1. j \in Job
      <4>1. (k) \in PreKeys /\ (IF job[r].add # None THEN "count" ELSE "unblock") \in Stages
        BY <1>3, <2>2, NoneApart DEF Job, Stages
      <4>2. [[job[r] EXCEPT !.key = k] EXCEPT !.stage = IF job[r].add # None THEN "count" ELSE "unblock"] \in Job
        BY <1>3, <4>1, Rewritten
      <4>. QED  BY <4>2
    <3>2. /\ j.kind = job[r].kind /\ j.user = job[r].user /\ j.s = job[r].s /\ j.t = job[r].t
          /\ j.stage = (IF job[r].add # None THEN "count" ELSE "unblock")
          /\ j.key = k /\ j.add = job[r].add /\ j.add \in Hints \cup {None}
      BY <1>3, <2>2 DEF Job
    <3>3. job' = [job EXCEPT ![r] = j]
      BY <2>2
    <3>. HIDE DEF j
    <3>4. Fit(j)
      BY <1>2, <2>1, <3>1, <3>2, <2>2 DEF Fit, Plans
    <3>5. j.t <= now
      BY <1>1, <1>2, <3>2
    <3>. QED  BY <1>1, <3>3, <3>4, <3>5, Rewriting
  <2>3. job[r].user \in Users
    BY <1>2, <2>1, NoneApart DEF Fit, Kinds
  <2>4. prekeys[job[r].user] \in PreKeys \cup {None}
    BY <1>1, <2>3 DEF DataOK
  <2>5. CASE prekeys[job[r].user] = None
    BY <1>29, <1>1, <2>5, Ending DEF Fingerprint
  <2>6. CASE prekeys[job[r].user] # None
    BY <1>29, <2>2, <2>4, <2>6 DEF Fingerprint
  <2>. QED  BY <2>5, <2>6
<1>30. CASE CountTags(r)
  <2>1. Go(r, "insert") \/ Go(r, "unblock")
    BY <1>30 DEF CountTags, At
  <2>2. Go(r, "insert") => JobsOK'
    BY <1>30, <1>1, Advancing DEF CountTags, At, Plans, Stages
  <2>3. Go(r, "unblock") => JobsOK'
    BY <1>30, <1>1, Advancing DEF CountTags, At, Plans, Stages
  <2>. QED  BY <1>1, <2>1, <2>2, <2>3
<1>31. CASE InsertTag(r)
  <2>1. Go(r, "unblock")
    BY <1>31 DEF InsertTag, At
  <2>2. Go(r, "unblock") => JobsOK'
    BY <1>31, <1>1, Advancing DEF InsertTag, At, Plans, Stages
  <2>. QED  BY <1>1, <2>1, <2>2
<1>32. CASE RemoveTag(r)
  <2>1. Go(r, "done")
    BY <1>32 DEF RemoveTag, At
  <2>. QED  BY <1>1, <2>1, Ending
<1>33. CASE Abandon(r)
  <2>1. Go(r, "gone") /\ Fit(Moved(r, "gone")) /\ Moved(r, "gone").t <= now
    BY <1>33, <1>1, MayEnd DEF Abandon
  <2>. QED  BY <1>1, <2>1, GoneOn
<1>. QED  BY <1>4, <1>5, <1>6, <1>7, <1>8, <1>9, <1>10, <1>11, <1>12, <1>13, <1>14, <1>15, <1>16, <1>17, <1>18, <1>19, <1>20, <1>21, <1>22, <1>23, <1>24, <1>25, <1>26, <1>27, <1>28, <1>29, <1>30, <1>31, <1>32, <1>33, Serve(r) DEF Serve
-----------------------------------------------------------------------------
\* Which steps change what.
LEMMA Touches ==
    ASSUME NEW r \in Requests, Arrive(r) \/ Serve(r)
    PROVE  /\ now' = now
           /\ \/ row' = row
              \/ PersistProfile(r) \/ UpdateName(r) \/ UpdateBadges(r) \/ Register(r) \/ DeleteRow(r) \/ StoreBlob(r)
           /\ \/ since' = since
              \/ PersistProfile(r) \/ UpdateName(r) \/ UpdateBadges(r) \/ Register(r) \/ DeleteRow(r)
           /\ \/ sess' = sess
              \/ EnterSession(r) \/ Leave(r) \/ WriteSession(r) \/ ShowInSessions(r) \/ Disconnect(r)
           /\ \/ cache' = cache
              \/ FillCache(r) \/ Invalidate(r)
           /\ \/ prekeys' = prekeys
              \/ UpsertPrekey(r) \/ DeletePrekeys(r)
           /\ \/ blocks' = blocks
              \/ DeleteBlocks(r) \/ InsertTag(r) \/ RemoveTag(r)
           /\ \/ files' = files
              \/ ParseProfile(r) \/ StoreFile(r) \/ RemoveOld(r) \/ RemoveFiles(r)
<1>1. CASE Arrive(r)
  BY <1>1 DEF Arrive, store, history,
         AskProfile, Identify, Leave, Settings, Upload, Rename, Badges, Register, Delete,
         PutBlob, PublishPrekey, UpdateBlocks
<1>2. CASE Serve(r)
  BY <1>2 DEF Serve, store, history,
         LookInCache, ReadPublic, FillCache, EnterSession, ParseProfile, WriteSession,
         PersistProfile, StoreFile, ShowInSessions, RemoveOld, CheckRename, CheckUnique,
         UpdateName, UpdateBadges, Reread, Invalidate, CheckDelete, DeletePrekeys, DeleteBlocks,
         DeleteRow, Disconnect, RemoveFiles, CompareVersion, StoreBlob, UpsertPrekey,
         Fingerprint, CountTags, InsertTag, RemoveTag, Abandon
<1>. QED  BY <1>1, <1>2

\* The tables, the sessions and the cache hold what they should.
LEMMA Updated ==
    ASSUME DataOK, NEW r, NEW stage, NEW u \in Users, NEW new, Exists(u) => new \in Row \cup {None},
           Update(r, stage, u, new), now' = now
    PROVE  /\ row' \in [Users -> Row \cup {None}]
           /\ since' \in [Users -> Nat] /\ \A v \in Users : since'[v] <= now'
<1>1. CASE Exists(u)
  <2>1. row' = [row EXCEPT ![u] = new] /\ since' = [since EXCEPT ![u] = now] /\ new \in Row \cup {None}
    BY <1>1 DEF Update
  <2>2. row' \in [Users -> Row \cup {None}]
    BY <2>1 DEF DataOK
  <2>3. since' \in [Users -> Nat] /\ \A v \in Users : since'[v] <= now
    BY <2>1 DEF DataOK
  <2>. QED  BY <2>2, <2>3
<1>2. CASE ~Exists(u)
  BY <1>2 DEF Update, DataOK
<1>. QED  BY <1>1, <1>2

LEMMA RowKept ==
    ASSUME Base, NEW r \in Requests, Arrive(r) \/ Serve(r)
    PROVE  /\ row' \in [Users -> Row \cup {None}]
           /\ since' \in [Users -> Nat] /\ \A v \in Users : since'[v] <= now'
<1>. DEFINE u == job[r].user
<1>1. /\ Fit(job[r]) /\ job[r] \in Job /\ DataOK /\ now' = now
      /\ <<job[r].kind, job[r].stage>> \in Plans
  BY Touches DEF Base, JobsOK, Fit
<1>2. u \in Users /\ Exists(u) => row[u] \in Row
  BY <1>1, ShownPublic
<1>3. CASE PersistProfile(r)
  <2>1. job[r].kind \in {"settings", "upload"} /\ job[r].stage = "persist"
    BY <1>1, <1>3, NoneApart DEF PersistProfile, Plans, Kinds
  <2>2. u \in Users /\ job[r].about \in Abouts /\ job[r].avatar \in Pictures
    BY <1>1, <2>1, NoneApart DEF Fit, Job, Kinds
  <2>. DEFINE new == [row[u] EXCEPT !.avatar = job[r].avatar, !.about = job[r].about]
  <2>3. Exists(u) => new \in Row
    BY <1>2, <2>2 DEF Row
  <2>4. (\E stage : Update(r, stage, u, new)) \/ (row' = row /\ since' = since)
    BY <1>3 DEF PersistProfile
  <2>. HIDE DEF new
  <2>. QED  BY <1>1, <2>2, <2>3, <2>4, Updated DEF DataOK
<1>4. CASE UpdateName(r)
  <2>1. u \in Users /\ job[r].n \in Names /\ job[r].t \in Nat
    BY <1>1, <1>4, NoneApart DEF UpdateName, At, Fit, Job, Kinds
  <2>. DEFINE new == [row[u] EXCEPT !.name = job[r].n, !.renamed = job[r].t]
  <2>2. Exists(u) => new \in Row
    BY <1>2, <2>1 DEF Row
  <2>3. Update(r, "reread", u, new) \/ (row' = row /\ since' = since)
    BY <1>4 DEF UpdateName
  <2>. HIDE DEF new
  <2>. QED  BY <1>1, <2>1, <2>2, <2>3, Updated DEF DataOK
<1>5. CASE UpdateBadges(r)
  <2>1. u \in Users
    BY <1>1, <1>5, NoneApart DEF UpdateBadges, At, Fit, Kinds
  <2>2. PICK b \in BOOLEAN : Update(r, "reread", u, [row[u] EXCEPT !.badges = b])
    BY <1>5 DEF UpdateBadges
  <2>. DEFINE new == [row[u] EXCEPT !.badges = b]
  <2>3. Exists(u) => new \in Row
    BY <1>2, <2>1 DEF Row
  <2>4. Update(r, "reread", u, new)
    BY <2>2
  <2>. HIDE DEF new
  <2>. QED  BY <1>1, <2>1, <2>3, <2>4, Updated
<1>6. CASE Register(r)
  <2>. DEFINE new(v) == [name |-> FirstName[v], avatar |-> None, about |-> CHOOSE b \in Abouts : TRUE,
                         badges |-> FALSE, ver |-> 0, blob |-> None, renamed |-> None]
  <2>1. PICK v \in Users : row' = [row EXCEPT ![v] = new(v)] /\ since' = [since EXCEPT ![v] = now]
    BY <1>6 DEF Register
  <2>2. (CHOOSE b \in Abouts : TRUE) \in Abouts
    BY DataAssumption
  <2>3. FirstName[v] \in Names
    BY DataAssumption
  <2>4. new(v) \in Row
    BY <2>2, <2>3, NoneApart DEF Row
  <2>. HIDE DEF new
  <2>. QED  BY <1>1, <2>1, <2>4 DEF DataOK
<1>7. CASE DeleteRow(r)
  <2>1. job[r].kind \in {"delete", "erase", "purge"}
    BY <1>1, <1>7, NoneApart DEF DeleteRow, Plans, Kinds
  <2>2. u \in Users
    BY <1>1, <2>1, NoneApart DEF Fit, Kinds
  <2>3. \E stage : Update(r, stage, u, None)
    BY <1>7 DEF DeleteRow
  <2>. QED  BY <1>1, <2>2, <2>3, Updated
<1>8. CASE StoreBlob(r)
  <2>1. u \in Users /\ job[r].n \in Nat
    BY <1>1, <1>8, NoneApart DEF StoreBlob, At, Fit, Job, Kinds
  <2>2. Exists(u) => [row[u] EXCEPT !.ver = job[r].n, !.blob = r] \in Row
    BY <1>2, <2>1 DEF Row
  <2>3. since' = since /\ row' = IF Exists(u) THEN [row EXCEPT ![u] = [row[u] EXCEPT !.ver = job[r].n, !.blob = r]] ELSE row
    BY <1>8 DEF StoreBlob, history
  <2>. QED  BY <1>1, <2>1, <2>2, <2>3 DEF DataOK
<1>9. CASE row' = row /\ since' = since
  BY <1>1, <1>9 DEF DataOK
<1>. QED  BY <1>3, <1>4, <1>5, <1>6, <1>7, <1>8, <1>9, Touches DEF StoreBlob, history

LEMMA SessionsKept ==
    ASSUME Base, NEW r \in Requests, Arrive(r) \/ Serve(r)
    PROVE  sess' \in [Sessions -> Profile \cup {None}]
<1>1. /\ Fit(job[r]) /\ job[r] \in Job /\ DataOK /\ sess \in [Sessions -> Profile \cup {None}]
      /\ <<job[r].kind, job[r].stage>> \in Plans
  BY DEF Base, JobsOK, Fit, DataOK, Profile
<1>2. CASE EnterSession(r)
  <2>1. job[r].s \in Sessions /\ job[r].about \in Abouts /\ job[r].avatar \in Pictures
    BY <1>1, <1>2 DEF EnterSession, At, Fit, Job
  <2>2. [avatar |-> job[r].avatar, about |-> job[r].about] \in Profile
    BY <2>1 DEF Profile
  <2>. QED  BY <1>1, <1>2, <2>1, <2>2 DEF EnterSession
<1>3. CASE Leave(r)
  BY <1>1, <1>3 DEF Leave
<1>4. CASE WriteSession(r)
  <2>1. job[r].s \in Sessions /\ job[r].about \in Abouts /\ job[r].avatar \in Pictures
    BY <1>1, <1>4 DEF WriteSession, At, Fit, Job
  <2>2. [avatar |-> job[r].avatar, about |-> job[r].about] \in Profile
    BY <2>1 DEF Profile
  <2>. QED  BY <1>1, <1>4, <2>1, <2>2 DEF WriteSession
<1>5. CASE ShowInSessions(r)
  <2>1. \A s \in Sessions : sess[s] # None => [sess[s] EXCEPT !.avatar = r] \in Profile
    BY <1>1, PictureNames DEF Profile
  <2>2. sess' = [s \in Sessions |-> IF sess[s] # None /\ UserOf[s] = job[r].user
                                    THEN [sess[s] EXCEPT !.avatar = r] ELSE sess[s]]
    BY <1>5 DEF ShowInSessions
  <2>. QED  BY <1>1, <2>1, <2>2
<1>6. CASE Disconnect(r)
  BY <1>1, <1>6 DEF Disconnect
<1>7. CASE sess' = sess
  BY <1>1, <1>7
<1>. QED  BY <1>2, <1>3, <1>4, <1>5, <1>6, <1>7, Touches

LEMMA KeyOf ==
    ASSUME NEW l \in (Users \cup {None}) \X (Names \cup {None}), l # <<None, None>>
    PROVE  public_profile_cache_key(l) \in CacheKeys
BY DEF public_profile_cache_key, CacheKeys

LEMMA PrunedCache ==
    ASSUME NEW t, cache \in [CacheKeys -> Entry \cup {None}]
    PROVE  /\ Pruned(t) \in [CacheKeys -> Entry \cup {None}]
           /\ \A k \in CacheKeys : Pruned(t)[k] \in {cache[k], None}
BY DEF Pruned

LEMMA CacheKept ==
    ASSUME Base, NEW r \in Requests, Arrive(r) \/ Serve(r)
    PROVE  cache' \in [CacheKeys -> Entry \cup {None}]
<1>1. Fit(job[r]) /\ job[r] \in Job /\ DataOK /\ cache \in [CacheKeys -> Entry \cup {None}]
  BY DEF Base, JobsOK, Fit, DataOK
<1>2. CASE FillCache(r)
  <2>. DEFINE e == [value |-> job[r].copy, expires |-> Lifetime(r), over |-> job[r].over]
              k == public_profile_cache_key(job[r].look)
  <2>1. job[r].copy \in Public /\ job[r].t \in Nat /\ job[r].over \in BOOLEAN /\ job[r].look # <<None, None>>
    BY <1>1, <1>2 DEF FillCache, At, Fit, Job
  <2>2. job[r].look \in (Users \cup {None}) \X (Names \cup {None})
    BY <1>1 DEF Job
  <2>3. k \in CacheKeys
    BY <2>1, <2>2, KeyOf
  <2>4. Lifetime(r) \in Nat
    BY <2>1, DataAssumption DEF Lifetime
  <2>5. e \in Entry
    BY <2>1, <2>4 DEF Entry
  <2>6. cache' = [Pruned(job[r].t) EXCEPT ![k] = e]
    BY <1>2 DEF FillCache
  <2>. HIDE DEF e, k
  <2>. QED  BY <1>1, <2>3, <2>5, <2>6, PrunedCache
<1>3. CASE Invalidate(r)
  BY <1>1, <1>3 DEF Invalidate, invalidate_public_profile_cache
<1>4. CASE cache' = cache
  BY <1>1, <1>4
<1>. QED  BY <1>2, <1>3, <1>4, Touches

LEMMA TagsKept ==
    ASSUME Base, NEW r \in Requests, Arrive(r) \/ Serve(r)
    PROVE  prekeys' \in [Users -> PreKeys \cup {None}] /\ blocks' \subseteq Users \X PreKeys \X Hints
<1>1. /\ Fit(job[r]) /\ job[r] \in Job /\ prekeys \in [Users -> PreKeys \cup {None}]
      /\ blocks \subseteq Users \X PreKeys \X Hints
  BY DEF Base, JobsOK, Fit, DataOK
<1>2. CASE UpsertPrekey(r)
  <2>1. job[r].key \in PreKeys
    BY <1>1, <1>2 DEF UpsertPrekey, At, Fit
  <2>. QED  BY <1>1, <1>2, <2>1 DEF UpsertPrekey
<1>3. CASE DeletePrekeys(r)
  BY <1>1, <1>3 DEF DeletePrekeys
<1>4. CASE DeleteBlocks(r)
  BY <1>1, <1>4 DEF DeleteBlocks
<1>5. CASE InsertTag(r)
  <2>1. job[r].user \in Users /\ job[r].key \in PreKeys /\ job[r].add \in Hints
    BY <1>1, <1>5, NoneApart DEF InsertTag, At, Fit, Kinds
  <2>2. blocks' = blocks \/ blocks' = blocks \cup {<<job[r].user, job[r].key, job[r].add>>}
    BY <1>5 DEF InsertTag
  <2>3. prekeys' = prekeys
    BY <1>5 DEF InsertTag
  <2>. QED  BY <1>1, <2>1, <2>2, <2>3
<1>6. CASE RemoveTag(r)
  BY <1>1, <1>6 DEF RemoveTag
<1>7. CASE prekeys' = prekeys /\ blocks' = blocks
  BY <1>1, <1>7
<1>. QED  BY <1>2, <1>3, <1>4, <1>5, <1>6, <1>7, Touches DEF UpsertPrekey, DeletePrekeys, DeleteBlocks, RemoveTag

LEMMA BaseKept ==
    ASSUME Base, [Next]_vars
    PROVE  Base'
<1>1. ASSUME NEW r \in Requests, Arrive(r) \/ Serve(r) PROVE Base'
  <2>1. JobsOK'
    BY <1>1, ArrivesJobs, ServesJobs
  <2>2. now' \in Nat
    BY <1>1, Touches DEF Base, DataOK
  <2>3. DataOK'
    BY <1>1, <2>2, RowKept, SessionsKept, CacheKept, TagsKept DEF DataOK, Profile
  <2>. QED  BY <2>1, <2>3 DEF Base
<1>2. CASE UNCHANGED <<row, store, cache, job, history>> /\ now' \in Nat /\ now' >= now
  <2>1. UNCHANGED <<row, prekeys, blocks, sess, cache, job, since>> /\ now \in Nat
    BY <1>2 DEF store, history, Base, DataOK
  <2>2. \A r \in Requests : job[r].t \in Nat
    BY DEF Base, JobsOK, Fit, Job
  <2>3. JobsOK'
    <3>1. \A r \in Requests : Fit(job[r]) /\ job[r].t <= now'
      BY <1>2, <2>1, <2>2 DEF Base, JobsOK
    <3>. QED  BY <2>1, <3>1 DEF JobsOK, Base
  <2>4. \A u \in Users : since[u] <= now'
    BY <1>2, <2>1 DEF Base, DataOK
  <2>. QED  BY <1>2, <2>1, <2>3, <2>4 DEF Base, DataOK
<1>3. now \in Nat
  BY DEF Base, DataOK
<1>4. CASE StartBrowse \/ list_users_page
  <2>1. UNCHANGED <<row, store, cache, job, history>> /\ now' = now
    BY <1>4 DEF StartBrowse, list_users_page
  <2>2. now' \in Nat /\ now' >= now
    BY <1>3, <2>1
  <2>. QED  BY <1>2, <2>1, <2>2
<1>5. CASE Tick
  BY <1>2, <1>3, <1>5 DEF Tick
<1>6. CASE UNCHANGED vars
  BY <1>2, <1>3, <1>6 DEF vars, store, history
<1>. QED  BY <1>1, <1>4, <1>5, <1>6 DEF Next

LEMMA BaseInit ==
    ASSUME Init
    PROVE  Base
<1>. DEFINE first(u) == [name |-> FirstName[u], avatar |-> u, about |-> CHOOSE b \in Abouts : TRUE,
                         badges |-> FALSE, ver |-> 0, blob |-> None, renamed |-> None]
<1>1. (CHOOSE b \in Abouts : TRUE) \in Abouts
  BY DataAssumption
<1>2. \A u \in Users : first(u) \in Row
  <2>1. \A u \in Users : FirstName[u] \in Names /\ u \in Pictures
    BY DataAssumption DEF Pictures, Files
  <2>. QED  BY <1>1, <2>1, NoneApart DEF Row
<1>3. row = [u \in Users |-> IF u \notin Here THEN None ELSE first(u)]
  BY DEF Init
<1>4. row \in [Users -> Row \cup {None}] /\ \A u \in Here : row[u] = first(u)
  BY <1>2, <1>3, DataAssumption
<1>5. sess \in [Sessions -> Profile \cup {None}]
  <2>1. \A s \in Sessions : UserOf[s] \in Here /\ UserOf[s] \in Users /\ UserOf[s] \in Pictures
    BY DataAssumption DEF Pictures, Files
  <2>2. \A s \in Sessions : row[UserOf[s]].about \in Abouts
    <3>1. \A s \in Sessions : row[UserOf[s]] \in Row
      BY <1>2, <1>4, <2>1
    <3>. QED  BY <3>1 DEF Row
  <2>. QED  BY <2>1, <2>2 DEF Init, Profile
<1>6. JobsOK
  <2>1. \A r \in Requests : job[r] = Unused
    BY DEF Init
  <2>2. Unused.t = 0 /\ now = 0
    BY DEF Unused, Init
  <2>. QED  BY <2>1, <2>2, UnusedFits DEF Init, JobsOK
<1>7. prekeys \in [Users -> PreKeys \cup {None}]
  BY DEF Init
<1>. QED  BY <1>4, <1>5, <1>6, <1>7 DEF Base, DataOK, Init, Profile
-----------------------------------------------------------------------------
\* How a request goes on, and what other requests notice.
Noticed(q) == job'[q] = job[q] \/ job'[q] = [job[q] EXCEPT !.over = TRUE]

Goes(r) ==
    /\ job'[r].kind = job[r].kind /\ job'[r].user = job[r].user /\ job'[r].s \in {job[r].s, None}
    /\ \A q \in Requests \ {r} : Noticed(q)

LEMMA MovedTo ==
    ASSUME NEW r \in Requests, job[r] \in Job, NEW stage
    PROVE  /\ Moved(r, stage).stage = stage /\ Moved(r, stage).kind = job[r].kind
           /\ Moved(r, stage).user = job[r].user /\ Moved(r, stage).s \in {job[r].s, None}
BY DEF Moved, Unused, Job

LEMMA WentTo ==
    ASSUME Base, NEW r \in Requests, NEW stage, Go(r, stage)
    PROVE  /\ job'[r] = Moved(r, stage) /\ job'[r].stage = stage
           /\ job'[r].kind = job[r].kind /\ job'[r].user = job[r].user /\ job'[r].s \in {job[r].s, None}
           /\ \A q \in Requests \ {r} : job'[q] = job[q]
<1>1. DOMAIN job = Requests /\ job[r] \in Job
  BY DEF Base, JobsOK, Fit
<1>2. job'[r] = Moved(r, stage) /\ \A q \in Requests \ {r} : job'[q] = job[q]
  BY <1>1 DEF Go
<1>. QED  BY <1>1, <1>2, MovedTo

LEMMA OvertookTo ==
    ASSUME Base, NEW r \in Requests, NEW stage, NEW u, Overtake(r, stage, u)
    PROVE  /\ job'[r] = Moved(r, stage) /\ job'[r].stage = stage
           /\ job'[r].kind = job[r].kind /\ job'[r].user = job[r].user /\ job'[r].s \in {job[r].s, None}
           /\ \A q \in Requests \ {r} :
                 job'[q] = IF job[q].stage = "fill" /\ job[q].copy.user = u
                           THEN [job[q] EXCEPT !.over = TRUE] ELSE job[q]
<1>1. job[r] \in Job
  BY DEF Base, JobsOK, Fit
<1>2. /\ job'[r] = Moved(r, stage)
      /\ \A q \in Requests \ {r} :
            job'[q] = IF job[q].stage = "fill" /\ job[q].copy.user = u
                      THEN [job[q] EXCEPT !.over = TRUE] ELSE job[q]
  BY DEF Overtake
<1>. QED  BY <1>1, <1>2, MovedTo

\* Only a look-up that found an account is about to store it.
LEMMA Serves ==
    ASSUME Base, NEW r \in Requests, Serve(r)
    PROVE  /\ Goes(r)
           /\ job'[r].stage = "insert" => CountTags(r) /\ Go(r, "insert")
           /\ job'[r].stage = "fill" => ReadPublic(r) /\ \E u \in Users :
                 Exists(u) /\ job' = [job EXCEPT ![r] = [@ EXCEPT !.stage = "fill", !.copy = Shown(u)]]
<1>1. DOMAIN job = Requests /\ job[r] \in Job
  BY DEF Base, JobsOK, Fit
<1>2. ASSUME NEW stage, stage # "fill", stage # "insert", Go(r, stage) \/ \E u : Overtake(r, stage, u)
      PROVE  Goes(r) /\ job'[r].stage # "fill" /\ job'[r].stage # "insert"
  BY <1>2, WentTo, OvertookTo DEF Noticed, Goes
<1>3. CASE LookInCache(r)
  <2>1. Go(r, "done") \/ Go(r, "by_id") \/ Go(r, "by_name")
    BY <1>3 DEF LookInCache, Update
  <2>. QED  BY <1>2, <2>1
<1>4. CASE ReadPublic(r)
  <2>1. \/ \E u \in Users :
              Exists(u) /\ job' = [job EXCEPT ![r] = [@ EXCEPT !.stage = "fill", !.copy = Shown(u)]]
        \/ Go(r, "by_name") \/ Go(r, "done")
    <3>1. job[r].stage = "by_id" /\ job[r].kind = "lookup" => job[r].look[1] \in Users
      BY <1>1 DEF Base, JobsOK, Fit, Job
    <3>. QED  BY <1>4, <3>1 DEF ReadPublic, Found, At, Named
  <2>2. CASE Go(r, "by_name") \/ Go(r, "done")
    BY <1>2, <2>2
  <2>3. ASSUME NEW u \in Users, Exists(u),
               job' = [job EXCEPT ![r] = [@ EXCEPT !.stage = "fill", !.copy = Shown(u)]]
        PROVE  Goes(r) /\ job'[r].stage = "fill"
    BY <1>1, <2>3 DEF Job, Noticed, Goes
  <2>. QED  BY <1>4, <2>1, <2>2, <2>3
<1>5. CASE FillCache(r)
  <2>1. Go(r, "done")
    BY <1>5 DEF FillCache, Update
  <2>. QED  BY <1>2, <2>1
<1>6. CASE EnterSession(r)
  <2>1. Go(r, "done")
    BY <1>6 DEF EnterSession, Update
  <2>. QED  BY <1>2, <2>1
<1>7. CASE ParseProfile(r)
  <2>1. (\E a, b : job' = [job EXCEPT ![r] = [@ EXCEPT !.stage = "write", !.avatar = a, !.about = b]])
           \/ Go(r, "done")
    BY <1>7 DEF ParseProfile
  <2>. QED  BY <1>1, <1>2, <2>1 DEF Job, Noticed, Goes
<1>8. CASE WriteSession(r)
  <2>1. Go(r, "persist") \/ Go(r, "done")
    BY <1>8 DEF WriteSession, Update
  <2>. QED  BY <1>2, <2>1
<1>9. CASE PersistProfile(r)
  <2>1. \E stage \in {"invalidate", "done"} : Go(r, stage) \/ \E u : Overtake(r, stage, u)
    BY <1>9 DEF PersistProfile, Update
  <2>. QED  BY <1>2, <2>1
<1>10. CASE StoreFile(r)
  <2>1. Go(r, "sessions") \/ Go(r, "done")
    BY <1>10 DEF StoreFile, Update
  <2>. QED  BY <1>2, <2>1
<1>11. CASE ShowInSessions(r)
  <2>1. PICK b : job' = [job EXCEPT ![r] = [@ EXCEPT !.stage = "remove", !.avatar = r, !.about = b]]
    BY <1>11 DEF ShowInSessions
  <2>. QED  BY <1>1, <2>1 DEF Job, Noticed, Goes
<1>12. CASE RemoveOld(r)
  <2>1. Go(r, "persist")
    BY <1>12 DEF RemoveOld, Update
  <2>. QED  BY <1>2, <2>1
<1>13. CASE CheckRename(r)
  <2>1. (job' = [job EXCEPT ![r] = [@ EXCEPT !.stage = "unique", !.t = now]])
           \/ Go(r, "done") \/ Go(r, "invalidate_old")
    BY <1>13 DEF CheckRename
  <2>. QED  BY <1>1, <1>2, <2>1 DEF Job, Noticed, Goes
<1>14. CASE CheckUnique(r)
  <2>1. Go(r, "done") \/ Go(r, "update")
    BY <1>14 DEF CheckUnique, Update
  <2>. QED  BY <1>2, <2>1
<1>15. CASE UpdateName(r)
  <2>1. Go(r, "done") \/ (\E u : Overtake(r, "reread", u))
    BY <1>15 DEF UpdateName, Update
  <2>. QED  BY <1>2, <2>1
<1>16. CASE UpdateBadges(r)
  <2>1. (\E u : Overtake(r, "reread", u))
    BY <1>16 DEF UpdateBadges, Update
  <2>. QED  BY <1>2, <2>1
<1>17. CASE Reread(r)
  <2>1. (\E x : \E y \in {"invalidate", "invalidate_old"} : job' = [job EXCEPT ![r] = [@ EXCEPT !.n = x, !.stage = y]])
           \/ Go(r, "done")
    BY <1>17 DEF Reread
  <2>. QED  BY <1>1, <1>2, <2>1 DEF Job, Noticed, Goes
<1>18. CASE Invalidate(r)
  <2>1. Go(r, "invalidate") \/ Go(r, "unfile") \/ Go(r, "done")
    BY <1>18 DEF Invalidate, Update
  <2>. QED  BY <1>2, <2>1
<1>19. CASE CheckDelete(r)
  <2>1. Go(r, "prekeys") \/ Go(r, "done")
    BY <1>19 DEF CheckDelete, Update
  <2>. QED  BY <1>2, <2>1
<1>20. CASE DeletePrekeys(r)
  <2>1. Go(r, "blocks")
    BY <1>20 DEF DeletePrekeys, Update
  <2>. QED  BY <1>2, <2>1
<1>21. CASE DeleteBlocks(r)
  <2>1. Go(r, "row")
    BY <1>21 DEF DeleteBlocks, Update
  <2>. QED  BY <1>2, <2>1
<1>22. CASE DeleteRow(r)
  <2>1. (\E u : Overtake(r, "done", u)) \/ (\E u : Overtake(r, "disconnect", u))
    BY <1>22 DEF DeleteRow, Update
  <2>. QED  BY <1>2, <2>1
<1>23. CASE Disconnect(r)
  <2>1. job'[r] = Moved(r, "invalidate") /\ \A q \in Requests \ {r} : Noticed(q)
    BY <1>23 DEF Disconnect, Noticed
  <2>2. /\ Moved(r, "invalidate").stage = "invalidate" /\ Moved(r, "invalidate").kind = job[r].kind
        /\ Moved(r, "invalidate").user = job[r].user
        /\ Moved(r, "invalidate").s \in {job[r].s, None}
    BY <1>1, MovedTo
  <2>. QED  BY <2>1, <2>2 DEF Goes
<1>24. CASE RemoveFiles(r)
  <2>1. Go(r, "done")
    BY <1>24 DEF RemoveFiles, Update
  <2>. QED  BY <1>2, <2>1
<1>25. CASE CompareVersion(r)
  <2>1. (\E x : \E y \in {"store", "done"} : job' = [job EXCEPT ![r] = [@ EXCEPT !.seen = x, !.stage = y]])
           \/ Go(r, "done")
    BY <1>25 DEF CompareVersion
  <2>. QED  BY <1>1, <1>2, <2>1 DEF Job, Noticed, Goes
<1>26. CASE StoreBlob(r)
  <2>1. Go(r, "done")
    BY <1>26 DEF StoreBlob, Update
  <2>. QED  BY <1>2, <2>1
<1>27. CASE UpsertPrekey(r)
  <2>1. Go(r, "done")
    BY <1>27 DEF UpsertPrekey, Update
  <2>. QED  BY <1>2, <2>1
<1>28. CASE Fingerprint(r)
  <2>1. (\E x : \E y \in {"count", "unblock"} : job' = [job EXCEPT ![r] = [@ EXCEPT !.key = x, !.stage = y]])
           \/ Go(r, "done")
    BY <1>28 DEF Fingerprint
  <2>. QED  BY <1>1, <1>2, <2>1 DEF Job, Noticed, Goes
<1>29. CASE CountTags(r)
  <2>1. Go(r, "insert") \/ Go(r, "unblock")
    BY <1>29 DEF CountTags
  <2>2. CASE Go(r, "insert")
    <3>1. Goes(r) /\ job'[r].stage = "insert"
      BY <2>2, WentTo DEF Noticed, Goes
    <3>. QED  BY <1>29, <2>2, <3>1
  <2>. QED  BY <1>2, <2>1, <2>2
<1>30. CASE InsertTag(r)
  <2>1. Go(r, "unblock")
    BY <1>30 DEF InsertTag, Update
  <2>. QED  BY <1>2, <2>1
<1>31. CASE RemoveTag(r)
  <2>1. Go(r, "done")
    BY <1>31 DEF RemoveTag, Update
  <2>. QED  BY <1>2, <2>1
<1>32. CASE Abandon(r)
  <2>1. Go(r, "gone")
    BY <1>32 DEF Abandon, Update
  <2>. QED  BY <1>2, <2>1
<1>. QED  BY <1>3, <1>4, <1>5, <1>6, <1>7, <1>8, <1>9, <1>10, <1>11, <1>12, <1>13, <1>14, <1>15, <1>16, <1>17, <1>18, <1>19, <1>20, <1>21, <1>22, <1>23, <1>24, <1>25, <1>26, <1>27, <1>28, <1>29, <1>30, <1>31, <1>32, Serve(r) DEF Serve

\* A request that arrives has stored nothing and changed nothing in the requests.
LEMMA Arrives ==
    ASSUME Base, NEW r \in Requests, Arrive(r)
    PROVE  /\ job[r] = Unused /\ job'[r].kind \in Kinds
           /\ job'[r].stage \in {"cache", "enter", "done", "parse", "file", "check", "update", "prekeys",
                                 "compare", "upsert", "fingerprint"}
           /\ \A q \in Requests \ {r} : job'[q] = job[q]
<1>1. DOMAIN job = Requests
  BY DEF Base, JobsOK
<1>2. job[r] = Unused
  BY DEF Arrive
<1>. DEFINE Sent == /\ job'[r].kind \in Kinds
                    /\ job'[r].stage \in {"cache", "enter", "done", "parse", "file", "check", "update",
                                          "prekeys", "compare", "upsert", "fingerprint"}
                    /\ \A q \in Requests \ {r} : job'[q] = job[q]
<1>3. ASSUME AskProfile(r) PROVE Sent
  BY <1>1, <1>3 DEF AskProfile, Begin, Unused, Kinds
<1>4. ASSUME Identify(r) PROVE Sent
  BY <1>1, <1>4 DEF Identify, Begin, Unused, Kinds
<1>5. ASSUME Leave(r) PROVE Sent
  BY <1>1, <1>5 DEF Leave, Begin, Unused, Kinds
<1>6. ASSUME Settings(r) PROVE Sent
  BY <1>1, <1>6 DEF Settings, Begin, Unused, Kinds
<1>7. ASSUME Upload(r) PROVE Sent
  BY <1>1, <1>7 DEF Upload, Begin, Unused, Kinds
<1>8. ASSUME Rename(r) PROVE Sent
  BY <1>1, <1>8 DEF Rename, Begin, Unused, Kinds
<1>9. ASSUME Badges(r) PROVE Sent
  BY <1>1, <1>9 DEF Badges, Begin, Unused, Kinds
<1>10. ASSUME Register(r) PROVE Sent
  BY <1>1, <1>10 DEF Register, Begin, Unused, Kinds
<1>11. ASSUME Delete(r) PROVE Sent
  BY <1>1, <1>11 DEF Delete, Begin, Unused, Kinds
<1>12. ASSUME PutBlob(r) PROVE Sent
  BY <1>1, <1>12 DEF PutBlob, Begin, Unused, Kinds
<1>13. ASSUME PublishPrekey(r) PROVE Sent
  BY <1>1, <1>13 DEF PublishPrekey, Begin, Unused, Kinds
<1>14. ASSUME UpdateBlocks(r) PROVE Sent
  BY <1>1, <1>14 DEF UpdateBlocks, Begin, Unused, Kinds
<1>. QED  BY <1>2, <1>3, <1>4, <1>5, <1>6, <1>7, <1>8, <1>9, <1>10, <1>11, <1>12, <1>13, <1>14 DEF Arrive

\* The others keep everything but, maybe, the mark that they were overtaken.
LEMMA OthersKeep ==
    ASSUME Base, NEW r \in Requests, Arrive(r) \/ Serve(r), NEW q \in Requests \ {r}
    PROVE  /\ job'[q].kind = job[q].kind /\ job'[q].stage = job[q].stage /\ job'[q].user = job[q].user
           /\ job'[q].s = job[q].s /\ job'[q].t = job[q].t /\ job'[q].copy = job[q].copy
           /\ job'[q].avatar = job[q].avatar /\ job'[q].over \in {job[q].over, TRUE}
<1>1. Noticed(q) /\ Fit(job[q])
  BY Serves, Arrives DEF Noticed, Goes, Base, JobsOK
<1>2. CASE job'[q] = [job[q] EXCEPT !.over = TRUE]
  BY <1>1, <1>2, OvertakenFits
<1>3. CASE job'[q] = job[q]
  BY <1>3
<1>. QED  BY <1>1, <1>2, <1>3 DEF Noticed
-----------------------------------------------------------------------------
\* How old a copy can be: a look-up, or the entry it stored, was asked no later
\* than the account changed.
OutIn(rows, value) ==
    \/ rows[value.user] = None
    \/ [user |-> value.user, name |-> rows[value.user].name, avatar |-> rows[value.user].avatar,
        about |-> rows[value.user].about, badges |-> rows[value.user].badges] # value

AgedOK ==
    /\ \A k \in CacheKeys : cache[k] # None =>
          /\ cache[k].expires <= now + Ttl
          /\ OutIn(row, cache[k].value) => cache[k].expires <= since[cache[k].value.user] + Ttl
    /\ \A r \in Requests : job[r].kind = "lookup" /\ job[r].stage = "fill" /\ OutIn(row, job[r].copy) =>
          job[r].t <= since[job[r].copy.user]

\* A step changes what is shown of one account, at this time, or of none.
Touched(u) == since' = [since EXCEPT ![u] = now] /\ \A v \in Users \ {u} : row'[v] = row[v]

Untouched ==
    /\ since' = since
    /\ \A v \in Users :
          /\ row'[v] = None <=> row[v] = None
          /\ row[v] # None =>
                /\ row'[v].name = row[v].name /\ row'[v].avatar = row[v].avatar
                /\ row'[v].about = row[v].about /\ row'[v].badges = row[v].badges

\* Steps that serve no request leave everything but the clock and the listing.
LEMMA Elsewhere ==
    ASSUME Base, [Next]_vars, ~\E r \in Requests : Arrive(r) \/ Serve(r)
    PROVE  /\ UNCHANGED <<row, files, prekeys, blocks, sess, cache, job, since, marred>>
           /\ now' \in Nat /\ now' >= now
<1>1. now \in Nat
  BY DEF Base, DataOK
<1>2. CASE StartBrowse \/ list_users_page \/ UNCHANGED vars
  <2>1. UNCHANGED <<row, store, cache, job, history>> /\ now' = now
    BY <1>2 DEF StartBrowse, list_users_page, vars, store, history
  <2>. QED  BY <1>1, <2>1 DEF store, history
<1>3. CASE Tick
  BY <1>1, <1>3 DEF Tick, store, history
<1>. QED  BY <1>2, <1>3 DEF Next

LEMMA CacheStage ==
    ASSUME NEW r \in Requests, Serve(r), job[r].kind = "lookup", job[r].stage = "cache"
    PROVE  LookInCache(r)
BY DEF Serve, ReadPublic, FillCache, EnterSession, ParseProfile, WriteSession, PersistProfile, StoreFile,
       ShowInSessions, RemoveOld, CheckRename, CheckUnique, UpdateName, UpdateBadges, Reread, Invalidate,
       CheckDelete, DeletePrekeys, DeleteBlocks, DeleteRow, Disconnect, RemoveFiles, CompareVersion,
       StoreBlob, UpsertPrekey, Fingerprint, CountTags, InsertTag, RemoveTag, Abandon, At

LEMMA Changes ==
    ASSUME Base, NEW r \in Requests, Arrive(r) \/ Serve(r)
    PROVE  Untouched \/ \E u \in Users : Touched(u)
<1>. DEFINE u == job[r].user
<1>1. /\ Fit(job[r]) /\ job[r] \in Job /\ DataOK /\ row \in [Users -> Row \cup {None}]
      /\ <<job[r].kind, job[r].stage>> \in Plans
  BY DEF Base, JobsOK, Fit, DataOK
<1>2. ASSUME NEW stage, NEW new, u \in Users, Update(r, stage, u, new)
      PROVE  Untouched \/ Touched(u)
  <2>1. CASE Exists(u)
    <3>1. row' = [row EXCEPT ![u] = new] /\ since' = [since EXCEPT ![u] = now]
      BY <1>2, <2>1 DEF Update
    <3>. QED  BY <1>1, <3>1 DEF Touched
  <2>2. CASE ~Exists(u)
    BY <1>2, <2>2 DEF Update, Untouched
  <2>. QED  BY <2>1, <2>2
<1>3. CASE row' = row /\ since' = since
  BY <1>3 DEF Untouched
<1>4. CASE PersistProfile(r)
  <2>1. u \in Users
    BY <1>1, <1>4, NoneApart DEF PersistProfile, Plans, Kinds, Fit
  <2>2. (\E stage, new : Update(r, stage, u, new)) \/ (row' = row /\ since' = since)
    BY <1>4 DEF PersistProfile
  <2>. QED  BY <1>2, <1>3, <2>1, <2>2
<1>5. CASE UpdateName(r)
  <2>1. u \in Users
    BY <1>1, <1>5, NoneApart DEF UpdateName, At, Fit, Kinds
  <2>2. (\E stage, new : Update(r, stage, u, new)) \/ (row' = row /\ since' = since)
    BY <1>5 DEF UpdateName
  <2>. QED  BY <1>2, <1>3, <2>1, <2>2
<1>6. CASE UpdateBadges(r)
  <2>1. u \in Users
    BY <1>1, <1>6, NoneApart DEF UpdateBadges, At, Fit, Kinds
  <2>2. \E stage, new : Update(r, stage, u, new)
    BY <1>6 DEF UpdateBadges
  <2>. QED  BY <1>2, <2>1, <2>2
<1>7. CASE DeleteRow(r)
  <2>1. u \in Users
    BY <1>1, <1>7, NoneApart DEF DeleteRow, Plans, Kinds, Fit
  <2>2. \E stage, new : Update(r, stage, u, new)
    BY <1>7 DEF DeleteRow
  <2>. QED  BY <1>2, <2>1, <2>2
<1>8. CASE Register(r)
  <2>1. PICK v \in Users : (\E new : row' = [row EXCEPT ![v] = new]) /\ since' = [since EXCEPT ![v] = now]
    BY <1>8 DEF Register
  <2>2. Touched(v)
    BY <1>1, <2>1 DEF Touched
  <2>. QED  BY <2>2
<1>9. CASE StoreBlob(r)
  <2>1. u \in Users
    BY <1>1, <1>9, NoneApart DEF StoreBlob, At, Fit, Kinds
  <2>2. since' = since /\ row' = IF Exists(u) THEN [row EXCEPT ![u] = [row[u] EXCEPT !.ver = job[r].n, !.blob = r]] ELSE row
    BY <1>9 DEF StoreBlob, history
  <2>3. CASE Exists(u)
    <3>1. row[u] \in Row /\ row' = [row EXCEPT ![u] = [row[u] EXCEPT !.ver = job[r].n, !.blob = r]]
      BY <1>1, <2>1, <2>2, <2>3, ShownPublic
    <3>2. row'[u] \in Row
      <4>1. job[r].n \in Nat
        BY <1>1 DEF Job
      <4>2. [row[u] EXCEPT !.ver = job[r].n, !.blob = r] \in Row
        BY <3>1, <4>1 DEF Row
      <4>. QED  BY <1>1, <2>1, <3>1, <4>2
    <3>3. /\ row'[u].name = row[u].name /\ row'[u].avatar = row[u].avatar
          /\ row'[u].about = row[u].about /\ row'[u].badges = row[u].badges
      BY <1>1, <2>1, <3>1 DEF Row
    <3>4. \A v \in Users \ {u} : row'[v] = row[v]
      BY <1>1, <3>1
    <3>. QED  BY <2>2, <2>3, <3>2, <3>3, <3>4, NoneApart DEF Untouched, Exists
  <2>4. CASE ~Exists(u)
    BY <1>3, <2>2, <2>4
  <2>. QED  BY <2>3, <2>4
<1>. QED  BY <1>3, <1>4, <1>5, <1>6, <1>7, <1>8, <1>9, Touches DEF StoreBlob, history

LEMMA GoesOutOfDate ==
    ASSUME Base, NEW r \in Requests, Arrive(r) \/ Serve(r), NEW v \in Public
    PROVE  /\ since'[v.user] \in {since[v.user], now}
           /\ OutIn(row', v) => OutIn(row, v) \/ since'[v.user] = now
<1>1. v.user \in Users /\ since \in [Users -> Nat]
  BY DEF Public, Base, DataOK
<1>2. CASE Untouched
  BY <1>1, <1>2 DEF Untouched, OutIn
<1>3. ASSUME NEW u \in Users, Touched(u)
      PROVE  /\ since'[v.user] \in {since[v.user], now}
             /\ OutIn(row', v) => OutIn(row, v) \/ since'[v.user] = now
  <2>1. CASE v.user = u
    BY <1>1, <1>3, <2>1 DEF Touched
  <2>2. CASE v.user # u
    BY <1>1, <1>3, <2>2 DEF Touched, OutIn
  <2>. QED  BY <2>1, <2>2
<1>. QED  BY <1>2, <1>3, Changes

\* A look-up that is about to store an account was about to before, or has just
\* read the account as it is.
LEMMA AboutToFill ==
    ASSUME Base, NEW r \in Requests, Arrive(r) \/ Serve(r), NEW q \in Requests, At(q, "lookup", "fill")'
    PROVE  \/ /\ At(q, "lookup", "fill") /\ job'[q].t = job[q].t /\ job'[q].copy = job[q].copy
              /\ job'[q].over = job[q].over \/ job'[q].over = TRUE
           \/ /\ q = r /\ ReadPublic(r)
              /\ \E u \in Users : Exists(u) /\ job'[q].copy = Shown(u)
<1>1. DOMAIN job = Requests /\ \A p \in Requests : job[p] \in Job /\ Fit(job[p])
  BY DEF Base, JobsOK, Fit
<1>2. CASE q # r
  <2>1. Noticed(q)
    BY <1>2, Serves, Arrives DEF Noticed, Goes
  <2>2. CASE job'[q] = job[q]
    BY <2>2 DEF At
  <2>3. CASE job'[q] = [job[q] EXCEPT !.over = TRUE]
    BY <1>1, <2>3, OvertakenFits DEF At
  <2>. QED  BY <2>1, <2>2, <2>3 DEF Noticed
<1>3. CASE q = r /\ Arrive(r)
  BY <1>3, Arrives DEF At
<1>4. CASE q = r /\ Serve(r)
  <2>1. PICK u \in Users : ReadPublic(r) /\ Exists(u) /\ job' = [job EXCEPT ![r] = [@ EXCEPT !.stage = "fill", !.copy = Shown(u)]]
    BY <1>4, Serves DEF At
  <2>2. job'[r].copy = Shown(u)
    BY <1>1, <2>1 DEF Job
  <2>. QED  BY <1>4, <2>1, <2>2
<1>. QED  BY <1>2, <1>3, <1>4

LEMMA AgedKept ==
    ASSUME Base, AgedOK, NEW r \in Requests, Arrive(r) \/ Serve(r)
    PROVE  AgedOK'
<1>1. now \in Nat /\ now' = now /\ Ttl \in Nat /\ since \in [Users -> Nat] /\ DataOK
  BY Touches, DataAssumption DEF Base, DataOK
<1>2. ASSUME NEW v \in Public, NEW t \in Nat, t <= now, OutIn(row, v) => t <= since[v.user], OutIn(row', v)
      PROVE  t <= since'[v.user]
  <2>1. v.user \in Users
    BY DEF Public
  <2>. QED  BY <1>1, <1>2, <2>1, GoesOutOfDate
<1>3. ASSUME NEW q \in Requests, job'[q].kind = "lookup", job'[q].stage = "fill", OutIn(row', job'[q].copy)
      PROVE  job'[q].t <= since'[job'[q].copy.user]
  <2>1. CASE At(q, "lookup", "fill") /\ job'[q].t = job[q].t /\ job'[q].copy = job[q].copy
    <3>1. job[q].copy \in Public /\ job[q].t \in Nat /\ job[q].t <= now
      BY <2>1 DEF Base, JobsOK, Fit, Job, At
    <3>2. OutIn(row, job[q].copy) => job[q].t <= since[job[q].copy.user]
      BY <2>1 DEF AgedOK, At
    <3>3. OutIn(row', job[q].copy)
      BY <1>3, <2>1
    <3>. QED  BY <1>2, <2>1, <3>1, <3>2, <3>3
  <2>2. ASSUME ReadPublic(r), NEW u \in Users, Exists(u), job'[q].copy = Shown(u) PROVE FALSE
    <3>1. row' = row
      BY <2>2 DEF ReadPublic
    <3>. QED  BY <1>1, <1>3, <2>2, <3>1, ShownPublic DEF OutIn, Exists, Shown
  <2>. QED  BY <1>3, <2>1, <2>2, AboutToFill DEF At
<1>4. ASSUME NEW k \in CacheKeys, cache[k] # None
      PROVE  /\ cache[k].expires <= now + Ttl
             /\ \A v \in Public : v = cache[k].value /\ OutIn(row', v) => cache[k].expires <= since'[v.user] + Ttl
  <2>1. /\ cache[k].value \in Public /\ cache[k].expires \in Nat /\ cache[k].expires <= now + Ttl
        /\ OutIn(row, cache[k].value) => cache[k].expires <= since[cache[k].value.user] + Ttl
    BY <1>1, <1>4 DEF DataOK, Entry, AgedOK
  <2>2. ASSUME NEW v \in Public, v = cache[k].value, OutIn(row', v)
        PROVE  cache[k].expires <= since'[v.user] + Ttl
    <3>1. v.user \in Users /\ since[v.user] \in Nat
      BY <1>1 DEF Public
    <3>2. CASE OutIn(row, v)
      BY <1>1, <2>1, <2>2, <3>1, <3>2, GoesOutOfDate DEF Base, DataOK
    <3>3. CASE since'[v.user] = now
      BY <2>1, <3>3
    <3>. QED  BY <2>2, <3>2, <3>3, GoesOutOfDate
  <2>. QED  BY <2>1, <2>2
<1>5. ASSUME NEW k \in CacheKeys, cache'[k] # None
      PROVE  /\ cache'[k].expires <= now + Ttl
             /\ OutIn(row', cache'[k].value) => cache'[k].expires <= since'[cache'[k].value.user] + Ttl
  <2>1. CASE cache'[k] = cache[k]
    <3>1. cache[k].value \in Public
      BY <1>1, <1>5, <2>1 DEF DataOK, Entry
    <3>. QED  BY <1>4, <1>5, <2>1, <3>1
  <2>2. CASE FillCache(r) /\ cache'[k] # cache[k]
    <3>. DEFINE e == [value |-> job[r].copy, expires |-> Lifetime(r), over |-> job[r].over]
    <3>1. cache'[k] = e
      BY <1>1, <1>5, <2>2, PrunedCache DEF FillCache, DataOK
    <3>2. job[r].copy \in Public /\ job[r].t \in Nat /\ job[r].t <= now /\ job[r].copy.user \in Users
      BY <2>2 DEF FillCache, Base, JobsOK, Fit, Job, At, Public
    <3>3. e.value = job[r].copy /\ e.expires = job[r].t + Ttl
      BY DEF Lifetime
    <3>. HIDE DEF e
    <3>4. row' = row /\ since' = since
      BY <2>2 DEF FillCache, history
    <3>5. OutIn(row, job[r].copy) => job[r].t <= since[job[r].copy.user]
      BY <2>2 DEF FillCache, AgedOK, At
    <3>6. OutIn(row', cache'[k].value) => OutIn(row, job[r].copy)
      BY <3>1, <3>3, <3>4
    <3>. QED  BY <1>1, <3>1, <3>2, <3>3, <3>4, <3>5, <3>6
  <2>3. CASE Invalidate(r)
    <3>1. cache'[k] = cache[k]
      BY <1>5, <2>3 DEF Invalidate, invalidate_public_profile_cache
    <3>. QED  BY <2>1, <3>1
  <2>. QED  BY <2>1, <2>2, <2>3, Touches
<1>. QED  BY <1>1, <1>3, <1>5 DEF AgedOK

LEMMA AgedKeptAlways ==
    ASSUME Base, AgedOK, [Next]_vars
    PROVE  AgedOK'
<1>1. CASE UNCHANGED <<row, cache, job, since>> /\ now' \in Nat /\ now' >= now
  <2>1. now \in Nat /\ Ttl \in Nat /\ \A k \in CacheKeys : cache[k] # None => cache[k].expires \in Nat
    BY DataAssumption DEF Base, DataOK, Entry
  <2>2. \A k \in CacheKeys : cache[k] # None => cache[k].expires <= now' + Ttl
    BY <1>1, <2>1 DEF AgedOK, At
  <2>. QED  BY <1>1, <2>2 DEF AgedOK
<1>. QED  BY <1>1, AgedKept, Elsewhere DEF Next

\* What a look-up takes from the cache is what the account is, or was less than
\* the entries' life time before the look-up was asked.
THEOREM NotShownForLong == Spec => StaleWithinTtl
<1>1. Init => Base /\ AgedOK
  <2>1. ASSUME Init PROVE AgedOK
    <3>1. (\A k \in CacheKeys : cache[k] = None) /\ \A r \in Requests : job[r] = Unused
      BY <2>1 DEF Init
    <3>. QED  BY <3>1 DEF AgedOK, Unused
  <2>. QED  BY <2>1, BaseInit
<1>2. Base /\ AgedOK /\ [Next]_vars => Base' /\ AgedOK'
  BY BaseKept, AgedKeptAlways
<1>. DEFINE Taken(r) == cache[public_profile_cache_key(job[r].look)].value
            Late == \A r \in Requests :
                       At(r, "lookup", "cache") /\ job'[r].stage = "done" =>
                          (Outdated(Taken(r)) => job[r].t < since[Taken(r).user] + Ttl)
<1>3. ASSUME Base, AgedOK, Next PROVE Late
  <2>. SUFFICES ASSUME NEW r \in Requests, At(r, "lookup", "cache"), job'[r].stage = "done", Outdated(Taken(r))
                PROVE  job[r].t < since[Taken(r).user] + Ttl
    OBVIOUS
  <2>1. job[r].kind = "lookup" /\ job[r].stage = "cache" /\ job[r] \in Job /\ job[r].look # <<None, None>>
    BY <1>3 DEF At, Base, JobsOK, Fit
  <2>2. LookInCache(r)
    <3>1. ASSUME NEW q \in Requests, q # r, Arrive(q) \/ Serve(q) PROVE FALSE
      <4>1. Noticed(r)
        BY <1>3, <3>1, Serves, Arrives DEF Noticed, Goes
      <4>2. job'[r].stage = job[r].stage
        BY <2>1, <4>1 DEF Noticed, Job
      <4>. QED  BY <2>1, <4>2
    <3>2. ~Arrive(r)
      BY <1>3, <2>1, Arrives DEF Unused
    <3>3. Serve(r)
      <4>1. job' # job
        BY <2>1
      <4>. QED  BY <1>3, <3>1, <3>2, <4>1 DEF Next, StartBrowse, list_users_page, Tick
    <3>. QED  BY <2>1, <3>3, CacheStage
  <2>. DEFINE k == public_profile_cache_key(job[r].look)
  <2>3. k \in CacheKeys
    BY <2>1, KeyOf DEF Job
  <2>4. Hit(k, job[r].t)
    <3>1. ASSUME NEW stage \in {"by_id", "by_name"}, Go(r, stage) PROVE FALSE
      BY <3>1, WentTo, <1>3
    <3>. QED  BY <2>2, <3>1 DEF LookInCache
  <2>. HIDE DEF k, Outdated, OutIn, Exists, Shown
  <2>5. /\ cache[k] # None /\ cache[k].expires > job[r].t /\ job[r].t \in Nat
        /\ cache[k].expires \in Nat /\ cache[k].value.user \in Users
    BY <1>3, <2>1, <2>3, <2>4 DEF Hit, Base, DataOK, Entry, Job, Public
  <2>6. OutIn(row, cache[k].value) => cache[k].expires <= since[cache[k].value.user] + Ttl
    BY <1>3, <2>3, <2>5 DEF AgedOK
  <2>7. since[cache[k].value.user] \in Nat /\ Ttl \in Nat
    BY <1>3, <2>5, DataAssumption DEF Base, DataOK
  <2>. QED  BY <2>5, <2>6, <2>7 DEF k, Outdated, OutIn, Exists, Shown
<1>. QED  BY <1>1, <1>2, <1>3, PTL DEF Spec, StaleWithinTtl
-----------------------------------------------------------------------------
\* The block tags of an account: every insertion that has passed the count is that of a
\* session of its own, and a session serves one request at a time.
SessionsOf(u) == {s \in Sessions : UserOf[s] = u}
Inserting(u) == {s \in SessionsOf(u) : \E r \in Requests : At(r, "blocks", "insert") /\ job[r].s = s}

SoleOK ==
    \A q, r \in Requests : AtWork(q) /\ AtWork(r) /\ job[q].s \in Sessions /\ job[q].s = job[r].s => q = r

BlocksOK ==
    /\ IsFiniteSet(blocks) /\ SoleOK
    /\ \A u \in Users : Cardinality(TagsOf(u)) + Cardinality(Inserting(u))
                           < MaxBlocks + Cardinality(SessionsOf(u))

LEMMA ArrivesFree ==
    ASSUME Base, NEW r \in Requests, Arrive(r), job'[r].s \in Sessions
    PROVE  Free(job'[r].s)
<1>1. DOMAIN job = Requests /\ None \notin Sessions
  BY NoneApart DEF Base, JobsOK
<1>2. ASSUME AskProfile(r) PROVE Free(job'[r].s)
  BY <1>1, <1>2 DEF AskProfile, Begin, Unused
<1>3. ASSUME Identify(r) PROVE Free(job'[r].s)
  BY <1>1, <1>3 DEF Identify, Begin, Unused
<1>4. ASSUME Leave(r) PROVE Free(job'[r].s)
  BY <1>1, <1>4 DEF Leave, Begin, Unused
<1>5. ASSUME Settings(r) PROVE Free(job'[r].s)
  BY <1>1, <1>5 DEF Settings, Begin, Unused
<1>6. ASSUME Upload(r) PROVE Free(job'[r].s)
  BY <1>1, <1>6 DEF Upload, Begin, Unused
<1>7. ASSUME Rename(r) PROVE Free(job'[r].s)
  BY <1>1, <1>7 DEF Rename, Begin, Unused
<1>8. ASSUME Badges(r) PROVE Free(job'[r].s)
  BY <1>1, <1>8 DEF Badges, Begin, Unused
<1>9. ASSUME Register(r) PROVE Free(job'[r].s)
  BY <1>1, <1>9 DEF Register, Begin, Unused
<1>10. ASSUME Delete(r) PROVE Free(job'[r].s)
  BY <1>1, <1>10 DEF Delete, Begin, Unused
<1>11. ASSUME PutBlob(r) PROVE Free(job'[r].s)
  BY <1>1, <1>11 DEF PutBlob, Begin, Unused
<1>12. ASSUME PublishPrekey(r) PROVE Free(job'[r].s)
  BY <1>1, <1>12 DEF PublishPrekey, Begin, Unused
<1>13. ASSUME UpdateBlocks(r) PROVE Free(job'[r].s)
  BY <1>1, <1>13 DEF UpdateBlocks, Begin, Unused
<1>. QED  BY <1>2, <1>3, <1>4, <1>5, <1>6, <1>7, <1>8, <1>9, <1>10, <1>11, <1>12, <1>13 DEF Arrive

LEMMA SoleKept ==
    ASSUME Base, SoleOK, NEW r \in Requests, Arrive(r) \/ Serve(r)
    PROVE  SoleOK'
<1>1. \A q \in Requests \ {r} : job'[q].s = job[q].s /\ job'[q].stage = job[q].stage
  BY OthersKeep
<1>2. ASSUME NEW q \in Requests \ {r}, AtWork(q)', AtWork(r)', job'[q].s \in Sessions, job'[q].s = job'[r].s PROVE FALSE
  <2>1. AtWork(q)
    BY <1>1, <1>2 DEF AtWork
  <2>2. CASE Serve(r)
    <3>1. AtWork(r) /\ job'[r].s \in {job[r].s, None}
      BY <2>2, Serves DEF Serve, Goes
    <3>. QED  BY <1>1, <1>2, <2>1, <3>1, NoneApart DEF SoleOK
  <2>3. CASE Arrive(r)
    <3>1. Free(job'[r].s)
      BY <1>2, <2>3, ArrivesFree
    <3>. QED  BY <1>1, <1>2, <2>1, <3>1 DEF Free
  <2>. QED  BY <2>2, <2>3
<1>3. ASSUME NEW p \in Requests, NEW q \in Requests, AtWork(p)', AtWork(q)', job'[p].s \in Sessions, job'[p].s = job'[q].s
      PROVE  p = q
  <2>1. CASE p # r /\ q # r
    BY <1>1, <1>3, <2>1 DEF SoleOK, AtWork
  <2>. QED  BY <1>2, <1>3, <2>1
<1>. QED  BY <1>3 DEF SoleOK

LEMMA InsertsOnlyCounted ==
    ASSUME Base, NEW r \in Requests, Arrive(r) \/ Serve(r), NEW u \in Users
    PROVE  \/ Inserting(u)' \subseteq Inserting(u)
           \/ CountTags(r) /\ Go(r, "insert") /\ job[r].user = u
<1>. SUFFICES ASSUME ~(CountTags(r) /\ Go(r, "insert") /\ job[r].user = u),
                     NEW s \in SessionsOf(u), NEW q \in Requests, At(q, "blocks", "insert")', job'[q].s = s
              PROVE  s \in Inserting(u)
  BY DEF Inserting, SessionsOf, At
<1>1. UserOf[s] = u /\ s \in Sessions
  BY DEF SessionsOf
<1>2. CASE q # r
  <2>1. job'[q].s = job[q].s /\ job'[q].stage = job[q].stage /\ job'[q].kind = job[q].kind
    BY <1>2, OthersKeep
  <2>. QED  BY <2>1 DEF Inserting, At
<1>3. CASE q = r
  <2>1. Serve(r)
    BY <1>3, Arrives DEF At
  <2>2. CountTags(r) /\ Go(r, "insert") /\ job'[r].s \in {job[r].s, None}
    BY <1>3, <2>1, Serves DEF At, Goes
  <2>3. job[r].s = s /\ UserOf[s] = job[r].user
    BY <1>1, <1>3, <2>2, NoneApart DEF CountTags, At, Base, JobsOK, Fit
  <2>. QED  BY <1>1, <2>2, <2>3
<1>. QED  BY <1>2, <1>3

LEMMA TagsOnlyInserted ==
    ASSUME Base, NEW r \in Requests, Arrive(r) \/ Serve(r), NEW u \in Users
    PROVE  \/ TagsOf(u)' \subseteq TagsOf(u)
           \/ /\ InsertTag(r) /\ job[r].user = u
              /\ TagsOf(u)' = TagsOf(u) \cup {<<job[r].user, job[r].key, job[r].add>>}
<1>1. CASE DeleteBlocks(r) \/ RemoveTag(r) \/ blocks' = blocks
  BY <1>1 DEF DeleteBlocks, RemoveTag, TagsOf
<1>2. CASE InsertTag(r)
  <2>1. CASE blocks' = blocks
    BY <2>1 DEF TagsOf
  <2>2. CASE blocks' = blocks \cup {<<job[r].user, job[r].key, job[r].add>>}
    <3>1. CASE job[r].user = u
      BY <1>2, <2>2, <3>1 DEF TagsOf
    <3>2. CASE job[r].user # u
      BY <2>2, <3>2 DEF TagsOf
    <3>. QED  BY <3>1, <3>2
  <2>. QED  BY <1>2, <2>1, <2>2 DEF InsertTag
<1>. QED  BY <1>1, <1>2, Touches

LEMMA FiniteSessions ==
    ASSUME NEW u \in Users
    PROVE  /\ IsFiniteSet(SessionsOf(u)) /\ IsFiniteSet(Inserting(u)) /\ IsFiniteSet(Inserting(u)')
           /\ Cardinality(SessionsOf(u)) \in Nat
           /\ Cardinality(Inserting(u)) \in Nat /\ Cardinality(Inserting(u)) <= Cardinality(SessionsOf(u))
           /\ Cardinality(Inserting(u)') \in Nat /\ Cardinality(Inserting(u)') <= Cardinality(SessionsOf(u))
<1>1. IsFiniteSet(Sessions) /\ SessionsOf(u) \subseteq Sessions
  BY DataAssumption DEF SessionsOf
<1>2. IsFiniteSet(SessionsOf(u))
  BY <1>1, FS_Subset
<1>3. Inserting(u) \subseteq SessionsOf(u) /\ Inserting(u)' \subseteq SessionsOf(u)
  BY DEF Inserting, SessionsOf
<1>. QED  BY <1>2, <1>3, FS_Subset, FS_CardinalityType

LEMMA BlocksKept ==
    ASSUME Base, BlocksOK, NEW r \in Requests, Arrive(r) \/ Serve(r)
    PROVE  BlocksOK'
<1>1. SoleOK'
  BY SoleKept DEF BlocksOK
<1>2. IsFiniteSet(blocks')
  <2>1. CASE blocks' \subseteq blocks
    BY <2>1, FS_Subset DEF BlocksOK
  <2>2. ASSUME NEW tag, blocks' = blocks \cup {tag} PROVE IsFiniteSet(blocks')
    BY <2>2, FS_AddElement DEF BlocksOK
  <2>3. (blocks' \subseteq blocks) \/ \E tag : blocks' = blocks \cup {tag}
    BY Touches DEF DeleteBlocks, RemoveTag, InsertTag
  <2>. QED  BY <2>1, <2>2, <2>3
<1>3. ASSUME NEW u \in Users
      PROVE  Cardinality(TagsOf(u)') + Cardinality(Inserting(u)') < MaxBlocks + Cardinality(SessionsOf(u))
  <2>. DEFINE T == Cardinality(TagsOf(u))
              I == Cardinality(Inserting(u))
              S == Cardinality(SessionsOf(u))
              TT == Cardinality(TagsOf(u)')
              II == Cardinality(Inserting(u)')
  <2>1. IsFiniteSet(TagsOf(u)) /\ IsFiniteSet(TagsOf(u)') /\ T \in Nat /\ TT \in Nat
    <3>1. TagsOf(u) \subseteq blocks /\ TagsOf(u)' \subseteq blocks'
      BY DEF TagsOf
    <3>2. IsFiniteSet(TagsOf(u)) /\ IsFiniteSet(TagsOf(u)')
      BY <1>2, <3>1, FS_Subset DEF BlocksOK
    <3>. QED  BY <3>2, FS_CardinalityType
  <2>2. /\ IsFiniteSet(SessionsOf(u)) /\ IsFiniteSet(Inserting(u)) /\ IsFiniteSet(Inserting(u)')
        /\ S \in Nat /\ I \in Nat /\ II \in Nat /\ II <= S
    BY FiniteSessions
  <2>3. T + I < MaxBlocks + S /\ MaxBlocks \in Nat
    BY DataAssumption DEF BlocksOK
  <2>4. TagsOf(u)' \subseteq TagsOf(u) => TT <= T
    BY <2>1, FS_Subset
  <2>5. Inserting(u)' \subseteq Inserting(u) => II <= I
    BY <2>2, FS_Subset
  <2>6. CASE CountTags(r) /\ Go(r, "insert") /\ job[r].user = u
    <3>1. T < MaxBlocks
      <4>1. job'[r].stage = "insert"
        BY <2>6, WentTo
      <4>2. ~Go(r, "unblock")
        BY <4>1, WentTo
      <4>. QED  BY <2>6, <4>2 DEF CountTags, Room
    <3>2. TT <= T
      <4>1. blocks' = blocks
        BY <2>6 DEF CountTags, store
      <4>. QED  BY <2>1, <4>1 DEF TagsOf
    <3>. QED  BY <2>1, <2>2, <2>3, <3>1, <3>2
  <2>7. CASE InsertTag(r) /\ job[r].user = u /\ TagsOf(u)' = TagsOf(u) \cup {<<job[r].user, job[r].key, job[r].add>>}
    <3>1. TT <= T + 1
      <4>1. PICK tag : TagsOf(u)' = TagsOf(u) \cup {tag}
        BY <2>7
      <4>2. Cardinality(TagsOf(u) \cup {tag}) = IF tag \in TagsOf(u) THEN T ELSE T + 1
        BY <2>1, FS_AddElement
      <4>3. TT = Cardinality(TagsOf(u) \cup {tag})
        BY <4>1
      <4>. QED  BY <2>1, <4>2, <4>3
    <3>2. job[r].s \in Inserting(u) \ Inserting(u)' /\ Inserting(u)' \subseteq Inserting(u)
      <4>1. At(r, "blocks", "insert") /\ job[r].s \in SessionsOf(u) /\ job[r].s \in Sessions
        BY <2>7 DEF InsertTag, At, Base, JobsOK, Fit, SessionsOf
      <4>2. job[r].s \in Inserting(u)
        BY <4>1 DEF Inserting
      <4>3. /\ job'[r].stage = "unblock" /\ \A q \in Requests \ {r} : job'[q] = job[q]
        BY <2>7, WentTo DEF InsertTag
      <4>4. \A q \in Requests : At(q, "blocks", "insert")' => q # r /\ job'[q].s # job[r].s
        BY <4>1, <4>3 DEF At, BlocksOK, SoleOK, AtWork
      <4>5. job[r].s \notin Inserting(u)'
        BY <4>4 DEF Inserting
      <4>6. ~CountTags(r)
        BY <4>1 DEF CountTags, At
      <4>. QED  BY <4>2, <4>5, <4>6, InsertsOnlyCounted
    <3>3. II <= I - 1
      <4>1. Inserting(u)' \subseteq Inserting(u) \ {job[r].s}
        BY <3>2
      <4>2. IsFiniteSet(Inserting(u) \ {job[r].s}) /\ Cardinality(Inserting(u) \ {job[r].s}) = I - 1
        BY <2>2, <3>2, FS_RemoveElement
      <4>. QED  BY <4>1, <4>2, FS_Subset
    <3>. QED  BY <2>1, <2>2, <2>3, <3>1, <3>3
  <2>8. CASE TagsOf(u)' \subseteq TagsOf(u) /\ Inserting(u)' \subseteq Inserting(u)
    <3>. QED  BY <2>1, <2>2, <2>3, <2>4, <2>5, <2>8
  <2>9. InsertTag(r) => ~CountTags(r)
    BY DEF InsertTag, CountTags, At
  <2>. QED  BY <2>6, <2>7, <2>8, InsertsOnlyCounted, TagsOnlyInserted
<1>. QED  BY <1>1, <1>2, <1>3 DEF BlocksOK, SessionsOf

\* The limit on block tags can be exceeded, but only by what the account's other
\* sessions insert at the same time.
THEOREM TagsBounded == Spec => []BlocksBounded
<1>1. Init => Base /\ BlocksOK
  <2>. SUFFICES ASSUME Init PROVE BlocksOK
    BY BaseInit
  <2>1. \A r \in Requests : job[r] = Unused
    BY DEF Init
  <2>2. SoleOK
    BY <2>1 DEF SoleOK, AtWork, Unused
  <2>3. ASSUME NEW u \in Users PROVE Cardinality(TagsOf(u)) + Cardinality(Inserting(u)) < MaxBlocks + Cardinality(SessionsOf(u))
    <3>1. TagsOf(u) = {} /\ Inserting(u) = {}
      BY <2>1 DEF Init, TagsOf, Inserting, At, Unused
    <3>2. Cardinality({}) = 0 /\ Cardinality(SessionsOf(u)) \in Nat /\ MaxBlocks \in Nat /\ MaxBlocks > 0
      BY FS_EmptySet, FiniteSessions, DataAssumption
    <3>. QED  BY <3>1, <3>2
  <2>. QED  BY <2>2, <2>3, FS_EmptySet DEF BlocksOK, Init
<1>2. Base /\ BlocksOK /\ [Next]_vars => Base' /\ BlocksOK'
  <2>. SUFFICES ASSUME Base, BlocksOK, [Next]_vars PROVE BlocksOK'
    BY BaseKept
  <2>1. CASE UNCHANGED <<blocks, job>>
    BY <2>1 DEF BlocksOK, SoleOK, TagsOf, Inserting, At, AtWork, SessionsOf
  <2>. QED  BY <2>1, BlocksKept, Elsewhere
<1>3. BlocksOK => BlocksBounded
  <2>. SUFFICES ASSUME BlocksOK, NEW u \in Users
                PROVE  Cardinality(TagsOf(u)) < MaxBlocks + Cardinality({s \in Sessions : UserOf[s] = u})
    BY DEF BlocksBounded
  <2>1. IsFiniteSet(TagsOf(u))
    BY FS_Subset DEF BlocksOK, TagsOf
  <2>2. Cardinality(TagsOf(u)) \in Nat /\ Cardinality(Inserting(u)) \in Nat /\ Cardinality(SessionsOf(u)) \in Nat
    BY <2>1, FiniteSessions, FS_CardinalityType
  <2>3. Cardinality(TagsOf(u)) + Cardinality(Inserting(u)) < MaxBlocks + Cardinality(SessionsOf(u)) /\ MaxBlocks \in Nat
    BY DataAssumption DEF BlocksOK
  <2>4. Cardinality(TagsOf(u)) < MaxBlocks + Cardinality(SessionsOf(u))
    BY <2>2, <2>3
  <2>. QED  BY <2>4 DEF SessionsOf
<1>. QED  BY <1>1, <1>2, <1>3, PTL DEF Spec
-----------------------------------------------------------------------------
\* What the cache holds under an account's id goes out of date only through a
\* change that has still to reach it.
PendingIn(jobs, r, u) ==
    /\ jobs[r].user = u
    /\ \/ jobs[r].kind \in {"rename", "badges", "delete", "erase"}
             /\ jobs[r].stage \in {"reread", "disconnect", "invalidate_old", "invalidate", "gone"}
       \/ jobs[r].kind = "purge"

AgreesIn(rows, jobs, u, value) ==
    IF rows[u] # None
    THEN \/ rows[u].name = value.name /\ rows[u].badges = value.badges
         \/ \E r \in Requests : PendingIn(jobs, r, u)
    ELSE \E r \in Requests : PendingIn(jobs, r, u) /\ jobs[r].kind \in {"delete", "erase", "purge"}

\* A look-up that was not overtaken holds the account as it is.
CurrentOK ==
    /\ \A r \in Requests : At(r, "lookup", "fill") /\ ~job[r].over => ~OutIn(row, job[r].copy)
    /\ \A u \in Users :
          LET e == cache[<<"id", u>>]
          IN  e # None /\ ~e.over /\ e.value.user = u => AgreesIn(row, job, u, e.value)

LEMMA PendingStage ==
    ASSUME NEW r \in Requests, Serve(r),
           job[r].kind \in Kinds,
           job[r].stage \in {"reread", "disconnect", "invalidate_old", "invalidate"}
    PROVE  Reread(r) \/ Disconnect(r) \/ Invalidate(r) \/ Abandon(r)
BY DEF Serve, LookInCache, ReadPublic, FillCache, EnterSession, ParseProfile, WriteSession, PersistProfile,
       StoreFile, ShowInSessions, RemoveOld, CheckRename, CheckUnique, UpdateName, UpdateBadges,
       CheckDelete, DeletePrekeys, DeleteBlocks, DeleteRow, RemoveFiles, CompareVersion,
       StoreBlob, UpsertPrekey, Fingerprint, CountTags, InsertTag, RemoveTag, At

LEMMA PendingStays ==
    ASSUME Base, NEW r \in Requests, Arrive(r) \/ Serve(r), NEW q \in Requests, NEW u, PendingIn(job, q, u)
    PROVE  \/ PendingIn(job', q, u) /\ job'[q].kind = job[q].kind
           \/ q = r /\ Invalidate(r)
           \/ q = r /\ Reread(r) /\ ~Exists(u)
<1>1. CASE q # r
  BY <1>1, OthersKeep DEF PendingIn
<1>2. CASE q = r
  <2>1. Serve(r)
    BY <1>2, Arrives, NoneApart DEF PendingIn, Unused, Kinds
  <2>2. job'[r].kind = job[r].kind /\ job'[r].user = job[r].user /\ job[r].user = u
    BY <1>2, <2>1, Serves DEF PendingIn, Goes
  <2>3. CASE job[r].kind = "purge"
    BY <1>2, <2>2, <2>3 DEF PendingIn
  <2>4. CASE job[r].kind \in {"rename", "badges", "delete", "erase"}
    <3>1. job[r].stage \in {"reread", "disconnect", "invalidate_old", "invalidate"} /\ job[r].kind \in Kinds
      BY <1>2, <2>1, <2>4 DEF PendingIn, Serve, AtWork, Kinds
    <3>2. CASE Abandon(r)
      <4>1. job'[r].stage = "gone"
        BY <3>2, WentTo DEF Abandon
      <4>. QED  BY <1>2, <2>2, <2>4, <4>1 DEF PendingIn
    <3>3. CASE Disconnect(r)
      <4>1. job'[r].stage = "invalidate"
        <5>1. job'[r] = Moved(r, "invalidate") /\ job[r] \in Job
          BY <3>3 DEF Disconnect, Base, JobsOK, Fit
        <5>. QED  BY <5>1, MovedTo
      <4>. QED  BY <1>2, <2>2, <2>4, <4>1 DEF PendingIn
    <3>4. CASE Reread(r) /\ Exists(u)
      <4>1. job'[r].stage \in {"invalidate_old", "invalidate"}
        <5>1. job[r] \in Job /\ DOMAIN job = Requests
          BY DEF Base, JobsOK, Fit
        <5>2. \E x : \E y \in {"invalidate_old", "invalidate"} :
                 job' = [job EXCEPT ![r] = [@ EXCEPT !.n = x, !.stage = y]]
          BY <2>2, <3>4 DEF Reread
        <5>. QED  BY <5>1, <5>2 DEF Job
      <4>. QED  BY <1>2, <2>2, <2>4, <4>1 DEF PendingIn
    <3>. QED  BY <1>2, <2>1, <3>1, <3>2, <3>3, <3>4, PendingStage
  <2>. QED  BY <1>2, <2>3, <2>4 DEF PendingIn
<1>. QED  BY <1>1, <1>2

\* What a step does to the name and the badges of an account.
LEMMA NameChanges ==
    ASSUME Base, NEW r \in Requests, Arrive(r) \/ Serve(r), NEW u \in Users
    PROVE  \/ /\ row'[u] = None <=> row[u] = None
              /\ row[u] # None => row'[u].name = row[u].name /\ row'[u].badges = row[u].badges
           \/ /\ row[u] # None /\ row'[u] # None /\ PendingIn(job', r, u)
              /\ (UpdateName(r) /\ job[r].user = u) \/ row'[u].name = row[u].name
           \/ /\ row'[u] = None /\ PendingIn(job', r, u) /\ job'[r].kind \in {"delete", "erase", "purge"}
              /\ DeleteRow(r) /\ job[r].user = u
           \/ row[u] = None /\ \A q \in Requests : job[q].user # u
<1>. DEFINE w == job[r].user
            Same == /\ row'[u] = None <=> row[u] = None
                    /\ row[u] # None => row'[u].name = row[u].name /\ row'[u].badges = row[u].badges
<1>1. /\ Fit(job[r]) /\ job[r] \in Job /\ row \in [Users -> Row \cup {None}]
      /\ <<job[r].kind, job[r].stage>> \in Plans /\ None \notin Row
  BY NoneApart DEF Base, JobsOK, Fit, DataOK
<1>2. row[u] # None => row[u] \in Row
  BY <1>1
<1>3. ASSUME NEW stage, NEW new, Update(r, stage, w, new), u # w \/ row[u] = None PROVE Same
  BY <1>1, <1>3 DEF Update, Exists
<1>4. ASSUME NEW stage, NEW new, Update(r, stage, w, new), u = w, row[u] # None
      PROVE  row'[u] = new /\ job'[r].stage = stage /\ job'[r].kind = job[r].kind /\ job'[r].user = u
  BY <1>1, <1>4, OvertookTo DEF Update, Exists
<1>5. CASE row' = row
  BY <1>5
<1>6. CASE PersistProfile(r)
  <2>. DEFINE new == [row[w] EXCEPT !.avatar = job[r].avatar, !.about = job[r].about]
  <2>1. (\E stage : Update(r, stage, w, new)) \/ row' = row
    BY <1>6 DEF PersistProfile
  <2>2. CASE u = w /\ row[u] # None
    <3>1. new # None /\ new.name = row[u].name /\ new.badges = row[u].badges
      <4>1. job[r].avatar \in Pictures /\ job[r].about \in Abouts
        BY <1>1, <1>6, NoneApart DEF PersistProfile, Plans, Kinds, Fit, Job
      <4>2. new \in Row /\ new.name = row[u].name /\ new.badges = row[u].badges
        BY <1>2, <2>2, <4>1 DEF Row
      <4>. QED  BY <1>1, <4>2
    <3>2. ASSUME NEW stage, Update(r, stage, w, new) PROVE Same
      <4>1. row'[u] = new
        BY <1>4, <2>2, <3>2
      <4>. QED  BY <2>2, <3>1, <4>1
    <3>3. row' = row => Same
      OBVIOUS
    <3>. QED  BY <2>1, <3>2, <3>3
  <2>. QED  BY <1>3, <1>5, <2>1, <2>2
<1>7. CASE UpdateName(r)
  <2>. DEFINE new == [row[w] EXCEPT !.name = job[r].n, !.renamed = job[r].t]
  <2>1. Update(r, "reread", w, new) \/ row' = row
    BY <1>7 DEF UpdateName
  <2>2. CASE u = w /\ row[u] # None /\ row' # row
    <3>1. row'[u] = new /\ job'[r].stage = "reread" /\ job'[r].kind = "rename" /\ job'[r].user = u
      BY <1>4, <1>7, <2>1, <2>2 DEF UpdateName, At
    <3>2. row'[u] # None
      <4>1. job[r].n \in Names /\ job[r].t \in Nat
        BY <1>1, <1>7 DEF UpdateName, At, Fit, Job
      <4>2. new \in Row
        BY <1>2, <2>2, <4>1 DEF Row
      <4>. QED  BY <1>1, <3>1, <4>2
    <3>. QED  BY <1>7, <2>2, <3>1, <3>2 DEF PendingIn
  <2>. QED  BY <1>3, <1>5, <2>1, <2>2
<1>8. CASE UpdateBadges(r)
  <2>1. PICK b \in BOOLEAN : Update(r, "reread", w, [row[w] EXCEPT !.badges = b])
    BY <1>8 DEF UpdateBadges
  <2>2. CASE u = w /\ row[u] # None
    <3>1. row'[u] = [row[w] EXCEPT !.badges = b] /\ job'[r].stage = "reread" /\ job'[r].kind = "badges" /\ job'[r].user = u
      BY <1>4, <1>8, <2>1, <2>2 DEF UpdateBadges, At
    <3>2. [row[w] EXCEPT !.badges = b] \in Row /\ [row[w] EXCEPT !.badges = b].name = row[u].name
      BY <1>2, <2>2 DEF Row
    <3>. QED  BY <1>1, <2>2, <3>1, <3>2 DEF PendingIn
  <2>. QED  BY <1>3, <2>1, <2>2
<1>9. CASE DeleteRow(r)
  <2>1. Update(r, IF job[r].kind = "purge" THEN "done" ELSE "disconnect", w, None)
    BY <1>9 DEF DeleteRow
  <2>2. job[r].kind \in {"delete", "erase", "purge"}
    BY <1>1, <1>9 DEF DeleteRow, Plans
  <2>3. CASE u = w /\ row[u] # None
    <3>1. /\ row'[u] = None /\ job'[r].kind = job[r].kind /\ job'[r].user = u
          /\ job[r].kind # "purge" => job'[r].stage = "disconnect"
      BY <1>4, <2>1, <2>3
    <3>. QED  BY <1>9, <2>2, <2>3, <3>1 DEF PendingIn
  <2>. QED  BY <1>3, <2>1, <2>3
<1>10. CASE Register(r)
  <2>1. PICK v \in Users : /\ row[v] = None /\ \A q \in Requests : job[q].user # v
                           /\ \E new : row' = [row EXCEPT ![v] = new]
    BY <1>10 DEF Register, Exists
  <2>2. CASE u = v
    BY <2>1, <2>2
  <2>3. CASE u # v
    BY <1>1, <2>1, <2>3
  <2>. QED  BY <2>2, <2>3
<1>11. CASE StoreBlob(r)
  <2>1. row' = IF Exists(w) THEN [row EXCEPT ![w] = [row[w] EXCEPT !.ver = job[r].n, !.blob = r]] ELSE row
    BY <1>11 DEF StoreBlob
  <2>2. CASE u = w /\ row[u] # None
    <3>1. job[r].n \in Nat
      BY <1>1 DEF Job
    <3>2. LET new == [row[u] EXCEPT !.ver = job[r].n, !.blob = r]
          IN  new \in Row /\ new.name = row[u].name /\ new.badges = row[u].badges
      BY <1>2, <2>2, <3>1 DEF Row
    <3>3. row'[u] = [row[u] EXCEPT !.ver = job[r].n, !.blob = r]
      BY <1>1, <2>1, <2>2 DEF Exists
    <3>4. row'[u] # None /\ row'[u].name = row[u].name /\ row'[u].badges = row[u].badges
      BY <1>1, <3>2, <3>3
    <3>. QED  BY <2>2, <3>4
  <2>. QED  BY <1>1, <1>5, <2>1, <2>2 DEF Exists
<1>. QED  BY <1>5, <1>6, <1>7, <1>8, <1>9, <1>10, <1>11, Touches

\* A statement that changes what is shown of an account overtakes its look-ups.
LEMMA ChangesOvertake ==
    ASSUME Base, NEW r \in Requests, Arrive(r) \/ Serve(r), NEW v \in Public,
           ~OutIn(row, v), OutIn(row', v)
    PROVE  \E stage : Overtake(r, stage, v.user)
<1>. DEFINE w == job[r].user
<1>1. v.user \in Users /\ row \in [Users -> Row \cup {None}] /\ job[r] \in Job
  BY DEF Public, Base, DataOK, JobsOK, Fit
<1>2. ASSUME NEW u \in Users, u # v.user, NEW new, row' = [row EXCEPT ![u] = new] PROVE FALSE
  BY <1>1, <1>2 DEF OutIn
<1>3. row' # row
  OBVIOUS
<1>4. ASSUME NEW stage, NEW new, Update(r, stage, w, new) PROVE Overtake(r, stage, v.user)
  <2>1. row' = [row EXCEPT ![w] = new] /\ Overtake(r, stage, w)
    BY <1>3, <1>4 DEF Update
  <2>2. w \in Users
    BY <1>1, <1>3, <2>1
  <2>. QED  BY <1>2, <2>1, <2>2
<1>5. CASE PersistProfile(r) \/ UpdateName(r) \/ UpdateBadges(r) \/ DeleteRow(r)
  <2>1. \E stage, new : Update(r, stage, w, new)
    BY <1>3, <1>5 DEF PersistProfile, UpdateName, UpdateBadges, DeleteRow
  <2>. QED  BY <1>4, <2>1
<1>6. CASE Register(r)
  <2>1. PICK u \in Users : row[u] = None /\ \E new : row' = [row EXCEPT ![u] = new]
    BY <1>6 DEF Register, Exists
  <2>. QED  BY <1>2, <2>1 DEF OutIn
<1>7. CASE StoreBlob(r)
  <2>1. row' = IF Exists(w) THEN [row EXCEPT ![w] = [row[w] EXCEPT !.ver = job[r].n, !.blob = r]] ELSE row
    BY <1>7 DEF StoreBlob
  <2>2. w = v.user /\ row[w] \in Row /\ row'[w] = [row[w] EXCEPT !.ver = job[r].n, !.blob = r]
    BY <1>1, <1>2, <1>3, <2>1 DEF OutIn
  <2>3. LET new == [row[w] EXCEPT !.ver = job[r].n, !.blob = r]
        IN  /\ new \in Row /\ new.name = row[w].name /\ new.badges = row[w].badges
            /\ new.avatar = row[w].avatar /\ new.about = row[w].about
    <3>1. job[r].n \in Nat
      BY <1>1 DEF Job
    <3>. QED  BY <2>2, <3>1 DEF Row
  <2>. QED  BY <2>2, <2>3, NoneApart DEF OutIn
<1>. QED  BY <1>3, <1>5, <1>6, <1>7, Touches

LEMMA FreshKept ==
    ASSUME Base, CurrentOK, NEW r \in Requests, Arrive(r) \/ Serve(r), NEW q \in Requests,
           At(q, "lookup", "fill")', ~job'[q].over
    PROVE  ~OutIn(row', job'[q].copy)
<1>1. ASSUME At(q, "lookup", "fill"), job'[q].copy = job[q].copy,
             job'[q].over = job[q].over \/ job'[q].over = TRUE, OutIn(row', job'[q].copy)
      PROVE  FALSE
  <2>1. job[q].copy \in Public /\ ~OutIn(row, job[q].copy)
    BY <1>1 DEF CurrentOK, At, Base, JobsOK, Fit
  <2>2. PICK stage : Overtake(r, stage, job[q].copy.user)
    BY <1>1, <2>1, ChangesOvertake
  <2>3. CASE q # r
    <3>1. job'[q] = IF job[q].stage = "fill" /\ job[q].copy.user = job[q].copy.user
                    THEN [job[q] EXCEPT !.over = TRUE] ELSE job[q]
      BY <2>2, <2>3, OvertookTo
    <3>2. job'[q] = [job[q] EXCEPT !.over = TRUE] /\ job[q] \in Job
      BY <1>1, <3>1 DEF At, Base, JobsOK, Fit
    <3>. QED  BY <3>2 DEF Job
  <2>4. CASE q = r
    <3>1. ReadPublic(r)
      BY <2>4, Serves, Arrives DEF At
    <3>. QED  BY <1>1, <2>1, <3>1 DEF ReadPublic
  <2>. QED  BY <2>3, <2>4
<1>2. ASSUME ReadPublic(r), NEW u \in Users, Exists(u), job'[q].copy = Shown(u) PROVE ~OutIn(row', job'[q].copy)
  BY <1>2 DEF OutIn, Shown, Exists, ReadPublic
<1>. QED  BY <1>1, <1>2, AboutToFill

LEMMA AgreesStays ==
    ASSUME Base, NEW r \in Requests, Arrive(r) \/ Serve(r), NEW u \in Users, NEW v \in Public,
           AgreesIn(row, job, u, v), ~(Invalidate(r) /\ job[r].user = u)
    PROVE  AgreesIn(row', job', u, v)
<1>1. ASSUME NEW q \in Requests, PendingIn(job, q, u), Exists(u) \/ job[q].kind \in {"delete", "erase", "purge"}
      PROVE  PendingIn(job', q, u) /\ job'[q].kind = job[q].kind
  <2>1. job[q].user = u
    BY <1>1 DEF PendingIn
  <2>2. Reread(r) => job[r].kind \notin {"delete", "erase", "purge"}
    BY DEF Reread, Base, JobsOK, Fit, Plans
  <2>. QED  BY <1>1, <2>1, <2>2, PendingStays
<1>2. CASE row[u] = None /\ row'[u] = None
  BY <1>1, <1>2 DEF AgreesIn
<1>3. CASE row[u] = None /\ row'[u] # None
  <2>1. \E q \in Requests : job[q].user = u
    BY <1>3 DEF AgreesIn, PendingIn
  <2>. QED  BY <1>3, <2>1, NameChanges DEF AgreesIn
<1>4. CASE row[u] # None /\ row'[u] = None
  BY <1>4, NameChanges DEF AgreesIn
<1>5. CASE row[u] # None /\ row'[u] # None
  <2>1. CASE \E q \in Requests : PendingIn(job, q, u)
    BY <1>1, <1>5, <2>1 DEF AgreesIn, Exists
  <2>2. CASE row[u].name = v.name /\ row[u].badges = v.badges
    BY <1>5, <2>2, NameChanges DEF AgreesIn
  <2>. QED  BY <1>5, <2>1, <2>2 DEF AgreesIn
<1>. QED  BY <1>2, <1>3, <1>4, <1>5

LEMMA CurrentKept ==
    ASSUME Base, CurrentOK, NEW r \in Requests, Arrive(r) \/ Serve(r)
    PROVE  CurrentOK'
<1>1. ASSUME NEW u \in Users, cache'[<<"id", u>>] # None, ~cache'[<<"id", u>>].over,
             cache'[<<"id", u>>].value.user = u
      PROVE  AgreesIn(row', job', u, cache'[<<"id", u>>].value)
  <2>. DEFINE k == <<"id", u>>
  <2>1. k \in CacheKeys /\ cache \in [CacheKeys -> Entry \cup {None}]
    BY DEF CacheKeys, Base, DataOK
  <2>2. CASE cache'[k] = cache[k]
    <3>1. cache[k].value \in Public /\ AgreesIn(row, job, u, cache[k].value)
      BY <1>1, <2>1, <2>2 DEF CurrentOK, Entry
    <3>2. ~(Invalidate(r) /\ job[r].user = u)
      BY <1>1, <2>1 DEF Invalidate, invalidate_public_profile_cache
    <3>3. AgreesIn(row', job', u, cache[k].value)
      BY <3>1, <3>2, AgreesStays
    <3>. QED  BY <2>2, <3>3
  <2>3. CASE FillCache(r) /\ cache'[k] # cache[k]
    <3>. DEFINE e == [value |-> job[r].copy, expires |-> Lifetime(r), over |-> job[r].over]
    <3>1. cache'[k] = e
      BY <1>1, <2>1, <2>3, PrunedCache DEF FillCache
    <3>2. e.value = job[r].copy /\ e.over = job[r].over
      OBVIOUS
    <3>3. ~OutIn(row, job[r].copy) /\ job[r].copy.user = u /\ row' = row
      BY <1>1, <2>3, <3>1, <3>2 DEF FillCache, CurrentOK
    <3>4. row[u] # None /\ row[u].name = job[r].copy.name /\ row[u].badges = job[r].copy.badges
      BY <3>3 DEF OutIn
    <3>5. AgreesIn(row', job', u, job[r].copy)
      BY <3>3, <3>4 DEF AgreesIn
    <3>. QED  BY <3>1, <3>2, <3>5
  <2>4. CASE Invalidate(r) /\ cache'[k] # cache[k]
    BY <1>1, <2>1, <2>4 DEF Invalidate, invalidate_public_profile_cache
  <2>. QED  BY <2>2, <2>3, <2>4, Touches
<1>2. \A q \in Requests : At(q, "lookup", "fill")' /\ ~job'[q].over => ~OutIn(row', job'[q].copy)
  BY FreshKept
<1>. QED  BY <1>1, <1>2 DEF CurrentOK

\* Under its own id an account is found in the cache with its current name and
\* badges: renames, badge changes and deletions leave no old entry behind but
\* one that an overtaken look-up stored, or while the change is on its way or
\* was abandoned (invalidate_public_profile_cache).
THEOREM FoundUnderItsId == Spec => []OwnIdCurrent
<1>1. Init => Base /\ CurrentOK
  <2>. SUFFICES ASSUME Init PROVE CurrentOK
    BY BaseInit
  <2>1. (\A r \in Requests : job[r] = Unused) /\ \A u \in Users : cache[<<"id", u>>] = None
    BY DEF Init, CacheKeys
  <2>. QED  BY <2>1 DEF CurrentOK, At, Unused
<1>2. Base /\ CurrentOK /\ [Next]_vars => Base' /\ CurrentOK'
  <2>. SUFFICES ASSUME Base, CurrentOK, [Next]_vars PROVE CurrentOK'
    BY BaseKept
  <2>1. CASE UNCHANGED <<row, cache, job>>
    BY <2>1 DEF CurrentOK, At
  <2>. QED  BY <2>1, CurrentKept, Elsewhere
<1>3. CurrentOK => OwnIdCurrent
  <2>1. ASSUME NEW r, NEW u PROVE PendingIn(job, r, u) = Pending(r, u)
    BY DEF PendingIn, Pending
  <2>. QED  BY <2>1 DEF CurrentOK, OwnIdCurrent, AgreesIn, Exists, Pending, PendingIn
<1>. QED  BY <1>1, <1>2, <1>3, PTL DEF Spec
-----------------------------------------------------------------------------
\* Pictures.  A file belongs to the account whose request, or whose first picture, it is;
\* an account's picture is one of its own.
OwnedIn(jobs, u, p) == p \in {None, u} \/ (p \in Requests /\ jobs[p].user = u)

Working(r, u) == AtWork(r) /\ job[r].kind \in ProfileKinds /\ job[r].user = u

OwnersOK ==
    /\ \A u \in Users : row[u] # None => OwnedIn(job, u, row[u].avatar)
    /\ \A s \in Sessions : sess[s] # None => OwnedIn(job, UserOf[s], sess[s].avatar)
    /\ \A r \in Requests : AtWork(r) =>
          /\ job[r].kind \in {"settings", "identify"} => OwnedIn(job, job[r].user, job[r].avatar)
          /\ job[r].kind \in {"upload", "delete"} => OwnedIn(job, job[r].user, job[r].copy.avatar)
          /\ job[r].kind = "upload" /\ job[r].stage \in {"remove", "persist"} => job[r].avatar = r
          /\ job[r].kind = "upload" => job[r].copy.avatar # r
          /\ job[r].kind = "delete" /\ job[r].stage \in {"disconnect", "invalidate", "unfile"} =>
                row[job[r].user] = None

\* Of one account that exists and whose profile requests neither overlapped nor failed:
\* its picture is stored unless the upload that replaced it is about to say so.
Stored(p) == p \in files \cup {None}

Pictured(u) ==
    row[u] # None /\ u \notin marred =>
        /\ \A q, r \in Requests : Working(q, u) /\ Working(r, u) => q = r
        /\ Stored(row[u].avatar) \/ \E r \in Requests : Working(r, u) /\ At(r, "upload", "persist")
        /\ \A s \in Sessions : sess[s] # None /\ UserOf[s] = u => Stored(sess[s].avatar)
        /\ \A r \in Requests : Working(r, u) =>
              /\ job[r].kind \in {"settings", "identify"} => Stored(job[r].avatar)
              /\ job[r].kind = "upload" /\ job[r].stage \in {"sessions", "remove", "persist"} => r \in files
              /\ job[r].kind = "upload" /\ job[r].stage \in {"remove", "persist"} =>
                    \A s \in Sessions : sess[s] # None /\ UserOf[s] = u => sess[s].avatar = r

PicturesOK == OwnersOK /\ \A u \in Users : Pictured(u)

LEMMA ProfileSteps ==
    ASSUME Base, NEW r \in Requests, Serve(r)
    PROVE  /\ job[r].kind \in {"settings", "identify"} =>
                 EnterSession(r) \/ ParseProfile(r) \/ WriteSession(r) \/ PersistProfile(r)
           /\ job[r].kind = "upload" =>
                 \/ StoreFile(r) \/ ShowInSessions(r) \/ RemoveOld(r) \/ PersistProfile(r)
                 \/ Invalidate(r) \/ Abandon(r)
           /\ job[r].kind = "delete" =>
                 \/ CheckDelete(r) \/ DeletePrekeys(r) \/ DeleteBlocks(r) \/ DeleteRow(r) \/ Disconnect(r)
                 \/ Invalidate(r) \/ RemoveFiles(r) \/ Abandon(r)
<1>1. <<job[r].kind, job[r].stage>> \in Plans /\ job[r].stage \notin {"new", "done", "gone"}
  BY DEF Base, JobsOK, Fit, Serve, AtWork
<1>2. CASE job[r].kind \in {"settings", "identify"}
  <2>1. job[r].stage \in {"parse", "write", "persist", "enter"}
    BY <1>1, <1>2, NoneApart DEF Plans, Kinds
  <2>. QED  BY <1>2, <2>1 DEF Serve, At, LookInCache, ReadPublic, FillCache, StoreFile, ShowInSessions,
         RemoveOld, CheckRename, CheckUnique, UpdateName, UpdateBadges, Reread, Invalidate, CheckDelete,
         DeletePrekeys, DeleteBlocks, DeleteRow, Disconnect, RemoveFiles, CompareVersion, StoreBlob,
         UpsertPrekey, Fingerprint, CountTags, InsertTag, RemoveTag, Abandon
<1>3. CASE job[r].kind = "upload"
  <2>1. job[r].stage \in {"file", "sessions", "remove", "persist", "invalidate"}
    BY <1>1, <1>3, NoneApart DEF Plans, Kinds
  <2>. QED  BY <1>3, <2>1 DEF Serve, At, LookInCache, ReadPublic, FillCache, EnterSession, ParseProfile,
         WriteSession, CheckRename, CheckUnique, UpdateName, UpdateBadges, Reread, CheckDelete,
         DeletePrekeys, DeleteBlocks, DeleteRow, Disconnect, RemoveFiles, CompareVersion, StoreBlob,
         UpsertPrekey, Fingerprint, CountTags, InsertTag, RemoveTag
<1>4. CASE job[r].kind = "delete"
  <2>1. job[r].stage \in {"check", "prekeys", "blocks", "row", "disconnect", "invalidate", "unfile"}
    BY <1>1, <1>4, NoneApart DEF Plans, Kinds
  <2>. QED  BY <1>4, <2>1 DEF Serve, At, LookInCache, ReadPublic, FillCache, EnterSession, ParseProfile,
         WriteSession, PersistProfile, StoreFile, ShowInSessions, RemoveOld, CheckRename, CheckUnique,
         UpdateName, UpdateBadges, Reread, CompareVersion, StoreBlob, UpsertPrekey, Fingerprint,
         CountTags, InsertTag, RemoveTag
<1>. QED  BY <1>2, <1>3, <1>4

\* What the requests that handle pictures begin with.
LEMMA ProfileArrivals ==
    ASSUME Base, NEW r \in Requests, Arrive(r)
    PROVE  /\ job'[r].kind = "identify" =>
                 \E u \in Users : /\ row[u] # None /\ job'[r].user = u /\ job'[r].avatar = row[u].avatar
                                  /\ Marring(u) /\ UNCHANGED <<row, sess, files>>
           /\ job'[r].kind = "settings" =>
                 \E s \in Sessions : /\ sess[s] # None /\ job'[r].user = UserOf[s]
                                     /\ job'[r].avatar = sess[s].avatar
                                     /\ Marring(UserOf[s]) /\ UNCHANGED <<row, sess, files>>
           /\ job'[r].kind = "upload" =>
                 \E u \in Users : /\ row[u] # None /\ job'[r].user = u /\ job'[r].copy.avatar = row[u].avatar
                                  /\ job'[r].stage = "file" /\ Marring(u) /\ UNCHANGED <<row, sess, files>>
           /\ job'[r].kind = "delete" =>
                 \E u \in Users : /\ row[u] # None /\ job'[r].user = u /\ job'[r].copy.avatar = row[u].avatar
                                  /\ job'[r].stage = "check"
           /\ marred \subseteq marred'
<1>1. DOMAIN job = Requests /\ UserOf \in [Sessions -> Users] /\ Here \subseteq Users
  BY DataAssumption DEF Base, JobsOK
<1>2. CASE Identify(r)
  <2>1. PICK s \in Sessions : /\ row[UserOf[s]] # None /\ Marring(UserOf[s])
                              /\ job' = [job EXCEPT ![r] = [Unused EXCEPT !.kind = "identify", !.stage = "enter",
                                           !.user = UserOf[s], !.s = s, !.avatar = row[UserOf[s]].avatar,
                                           !.about = row[UserOf[s]].about]]
    BY <1>2 DEF Identify, Begin, Exists
  <2>2. /\ job'[r].kind = "identify" /\ job'[r].user = UserOf[s] /\ job'[r].avatar = row[UserOf[s]].avatar
        /\ UserOf[s] \in Users /\ UNCHANGED <<row, sess, files>>
    BY <1>1, <1>2, <2>1 DEF Unused, Identify, store
  <2>. QED  BY <2>1, <2>2 DEF Marring
<1>3. CASE Settings(r)
  <2>1. PICK s \in Sessions : /\ sess[s] # None /\ Marring(UserOf[s])
                              /\ job' = [job EXCEPT ![r] = [Unused EXCEPT !.kind = "settings", !.stage = "parse",
                                           !.user = UserOf[s], !.s = s, !.avatar = sess[s].avatar,
                                           !.about = sess[s].about]]
    BY <1>3 DEF Settings, Begin
  <2>2. /\ job'[r].kind = "settings" /\ job'[r].user = UserOf[s] /\ job'[r].avatar = sess[s].avatar
        /\ UNCHANGED <<row, sess, files>>
    BY <1>1, <1>3, <2>1 DEF Unused, Settings, store
  <2>. QED  BY <2>1, <2>2 DEF Marring
<1>4. CASE Upload(r)
  <2>1. PICK u \in Here : /\ row[u] # None /\ Marring(u)
                          /\ job' = [job EXCEPT ![r] = [Unused EXCEPT !.kind = "upload", !.stage = "file",
                                       !.user = u, !.copy = Shown(u)]]
    BY <1>4 DEF Upload, Begin, Exists
  <2>2. /\ job'[r].kind = "upload" /\ job'[r].user = u /\ job'[r].copy = Shown(u) /\ job'[r].stage = "file"
        /\ UNCHANGED <<row, sess, files>>
    BY <1>1, <1>4, <2>1 DEF Unused, Upload, store
  <2>3. job'[r].copy.avatar = row[u].avatar /\ u \in Users
    BY <1>1, <2>2 DEF Shown
  <2>4. marred \subseteq marred'
    BY <2>1 DEF Marring
  <2>. QED  BY <2>1, <2>2, <2>3, <2>4
<1>5. CASE Delete(r)
  <2>1. PICK u \in Here, kind \in {"delete", "erase", "purge"} :
           /\ row[u] # None
           /\ job' = [job EXCEPT ![r] = [Unused EXCEPT !.kind = kind, !.user = u, !.copy = Shown(u),
                        !.stage = IF kind = "delete" THEN "check" ELSE "prekeys"]]
    BY <1>5 DEF Delete, Begin, Exists
  <2>2. /\ job'[r].kind = kind /\ job'[r].user = u /\ job'[r].copy = Shown(u)
        /\ kind = "delete" => job'[r].stage = "check"
    BY <1>1, <2>1 DEF Unused
  <2>. QED  BY <1>1, <1>5, <2>1, <2>2 DEF Shown, Delete, history
<1>6. CASE AskProfile(r) \/ Leave(r) \/ Rename(r) \/ Badges(r) \/ Register(r) \/ PutBlob(r)
             \/ PublishPrekey(r) \/ UpdateBlocks(r)
  <2>1. job'[r].kind \in {"lookup", "leave", "rename", "badges", "register", "put_blob", "publish", "blocks"}
    <3>1. CASE AskProfile(r)
      BY <1>1, <3>1 DEF AskProfile, Begin, Unused
    <3>2. CASE Leave(r)
      BY <1>1, <3>2 DEF Leave, Begin, Unused
    <3>3. CASE Rename(r)
      BY <1>1, <3>3 DEF Rename, Begin, Unused
    <3>4. CASE Badges(r)
      BY <1>1, <3>4 DEF Badges, Begin, Unused
    <3>5. CASE Register(r)
      BY <1>1, <3>5 DEF Register, Begin, Unused
    <3>6. CASE PutBlob(r)
      BY <1>1, <3>6 DEF PutBlob, Begin, Unused
    <3>7. CASE PublishPrekey(r)
      BY <1>1, <3>7 DEF PublishPrekey, Begin, Unused
    <3>8. CASE UpdateBlocks(r)
      BY <1>1, <3>8 DEF UpdateBlocks, Begin, Unused
    <3>. QED  BY <1>6, <3>1, <3>2, <3>3, <3>4, <3>5, <3>6, <3>7, <3>8
  <2>2. marred' = marred
    BY <1>6 DEF AskProfile, Leave, Rename, Badges, Register, PutBlob, PublishPrekey, UpdateBlocks, history
  <2>. QED  BY <2>1, <2>2
<1>. QED  BY <1>2, <1>3, <1>4, <1>5, <1>6 DEF Arrive

\* How a profile request goes on while it is at work.
LEMMA WorkBefore ==
    ASSUME Base, NEW r \in Requests, Arrive(r) \/ Serve(r), NEW q \in Requests, AtWork(q)'
    PROVE  \/ AtWork(q) /\ job'[q].kind = job[q].kind /\ job'[q].user = job[q].user
           \/ q = r /\ Arrive(r)
<1>1. CASE q # r
  BY <1>1, OthersKeep DEF AtWork
<1>2. CASE q = r /\ Serve(r)
  BY <1>2, Serves DEF Serve, Goes
<1>. QED  BY <1>1, <1>2

LEMMA NewOnes ==
    ASSUME Base, NEW r \in Requests
    PROVE  job[r] \in Job /\ DOMAIN job = Requests /\ (Arrive(r) => job[r].stage = "new")
<1>1. job[r] \in Job /\ DOMAIN job = Requests
  BY DEF Base, JobsOK, Fit
<1>2. Arrive(r) => job[r].stage = "new"
  BY Arrives DEF Unused
<1>. QED  BY <1>1, <1>2

LEMMA SettingsGoOn ==
    ASSUME Base, NEW r \in Requests, Arrive(r) \/ Serve(r), NEW q \in Requests, AtWork(q)', AtWork(q),
           job[q].kind \in {"settings", "identify"}
    PROVE  \/ job'[q].avatar = job[q].avatar
           \/ /\ q = r /\ ParseProfile(r) /\ job'[q].avatar \in {job[q].avatar, None, r}
              /\ job'[q].avatar = r => r \in files'
<1>1. job[r] \in Job /\ DOMAIN job = Requests /\ (Arrive(r) => job[r].stage = "new")
  BY NewOnes
<1>2. CASE q # r
  BY <1>2, OthersKeep
<1>3. CASE q = r
  <2>1. Serve(r)
    BY <1>1, <1>3 DEF AtWork
  <2>2. ~Go(r, "done")
    BY <1>3, WentTo DEF AtWork
  <2>3. CASE ParseProfile(r)
    <3>1. PICK a \in {job[r].avatar, None, r}, b \in Abouts :
             /\ files' = IF a = r THEN files \cup {r} ELSE files
             /\ job' = [job EXCEPT ![r] = [@ EXCEPT !.stage = "write", !.avatar = a, !.about = b]]
      BY <2>2, <2>3 DEF ParseProfile
    <3>2. job'[r].avatar = a
      BY <1>1, <3>1 DEF Job
    <3>. QED  BY <1>3, <2>3, <3>1, <3>2
  <2>4. CASE WriteSession(r)
    <3>1. Go(r, "persist")
      BY <2>2, <2>4 DEF WriteSession
    <3>2. job'[r] = Moved(r, "persist") /\ "persist" \in Stages \ {"done", "gone"}
      BY <3>1, WentTo DEF Stages
    <3>. QED  BY <1>1, <1>3, <3>2, GoesOn
  <2>5. CASE EnterSession(r)
    BY <2>2, <2>5 DEF EnterSession
  <2>6. CASE PersistProfile(r)
    <3>1. \E u : Overtake(r, "done", u)
      BY <1>3, <2>2, <2>6 DEF PersistProfile, Update
    <3>. QED  BY <1>3, <3>1, OvertookTo DEF AtWork
  <2>. QED  BY <1>3, <2>1, <2>3, <2>4, <2>5, <2>6, ProfileSteps
<1>. QED  BY <1>2, <1>3

LEMMA UploadGoesOn ==
    ASSUME Base, NEW r \in Requests, Arrive(r) \/ Serve(r), NEW q \in Requests, AtWork(q)', AtWork(q),
           job[q].kind = "upload"
    PROVE  /\ job'[q].copy = job[q].copy
           /\ job'[q].stage = "sessions" =>
                 (q # r /\ job[q].stage = "sessions") \/ (q = r /\ StoreFile(r) /\ q \in files')
           /\ job'[q].stage \in {"remove", "persist"} =>
                 \/ q # r /\ job[q].stage = job'[q].stage /\ job'[q].avatar = job[q].avatar
                 \/ q = r /\ ShowInSessions(r) /\ job[q].stage = "sessions" /\ job'[q].avatar = r
                 \/ q = r /\ RemoveOld(r) /\ job[q].stage = "remove" /\ job'[q].avatar = job[q].avatar
<1>1. /\ job[r] \in Job /\ DOMAIN job = Requests /\ (Arrive(r) => job[r].stage = "new")
      /\ {"sessions", "persist", "invalidate"} \subseteq Stages \ {"done", "gone"}
  BY NewOnes DEF Stages
<1>2. CASE q # r
  BY <1>2, OthersKeep
<1>3. CASE q = r
  <2>1. Serve(r)
    BY <1>1, <1>3 DEF AtWork
  <2>2. ~Go(r, "done") /\ ~Go(r, "gone")
    BY <1>3, WentTo DEF AtWork
  <2>3. CASE StoreFile(r)
    <3>1. Go(r, "sessions") /\ files' = files \cup {r}
      BY <2>2, <2>3 DEF StoreFile
    <3>2. job'[r] = Moved(r, "sessions")
      BY <3>1, WentTo
    <3>. QED  BY <1>1, <1>3, <2>3, <3>1, <3>2, GoesOn
  <2>4. CASE ShowInSessions(r)
    <3>1. PICK b : job' = [job EXCEPT ![r] = [@ EXCEPT !.stage = "remove", !.avatar = r, !.about = b]]
      BY <2>4 DEF ShowInSessions
    <3>2. job'[r].copy = job[r].copy /\ job'[r].stage = "remove" /\ job'[r].avatar = r
      BY <1>1, <3>1 DEF Job
    <3>. QED  BY <1>3, <2>4, <3>2 DEF ShowInSessions, At
  <2>5. CASE RemoveOld(r)
    <3>1. job'[r] = Moved(r, "persist")
      BY <2>5, WentTo DEF RemoveOld
    <3>. QED  BY <1>1, <1>3, <2>5, <3>1, GoesOn DEF RemoveOld, At
  <2>6. CASE PersistProfile(r)
    <3>1. \E u : Overtake(r, "invalidate", u)
      BY <1>3, <2>2, <2>6 DEF PersistProfile, Update
    <3>2. job'[r] = Moved(r, "invalidate")
      BY <3>1, OvertookTo
    <3>. QED  BY <1>1, <1>3, <3>2, GoesOn
  <2>7. CASE Invalidate(r)
    <3>1. Go(r, "invalidate")
      BY <1>3, <2>2, <2>7 DEF Invalidate
    <3>2. job'[r] = Moved(r, "invalidate")
      BY <3>1, WentTo
    <3>. QED  BY <1>1, <1>3, <3>2, GoesOn
  <2>8. ~Abandon(r)
    BY <2>2 DEF Abandon
  <2>. QED  BY <1>3, <2>1, <2>3, <2>4, <2>5, <2>6, <2>7, <2>8, ProfileSteps
<1>. QED  BY <1>2, <1>3

LEMMA DeleteGoesOn ==
    ASSUME Base, NEW r \in Requests, Arrive(r) \/ Serve(r), NEW q \in Requests, AtWork(q)', AtWork(q),
           job[q].kind = "delete"
    PROVE  /\ job'[q].copy = job[q].copy
           /\ job'[q].stage \in {"disconnect", "invalidate", "unfile"} =>
                 job[q].stage \in {"disconnect", "invalidate", "unfile"} \/ (q = r /\ DeleteRow(r))
<1>1. /\ job[r] \in Job /\ (Arrive(r) => job[r].stage = "new")
      /\ {"prekeys", "blocks", "row", "disconnect", "invalidate", "unfile"} \subseteq Stages \ {"done", "gone"}
  BY NewOnes DEF Stages
<1>2. CASE q # r
  BY <1>2, OthersKeep
<1>3. CASE q = r
  <2>1. Serve(r)
    BY <1>1, <1>3 DEF AtWork
  <2>2. ~Go(r, "done") /\ ~Go(r, "gone")
    BY <1>3, WentTo DEF AtWork
  <2>3. ASSUME NEW stage \in {"prekeys", "blocks", "row"}, Go(r, stage)
        PROVE  job'[r].copy = job[r].copy /\ job'[r].stage \notin {"disconnect", "invalidate", "unfile"}
    BY <1>1, <2>3, WentTo, GoesOn
  <2>4. CASE CheckDelete(r) \/ DeletePrekeys(r) \/ DeleteBlocks(r)
    <3>1. \E stage \in {"prekeys", "blocks", "row"} : Go(r, stage)
      BY <2>2, <2>4 DEF CheckDelete, DeletePrekeys, DeleteBlocks
    <3>. QED  BY <1>3, <2>3, <3>1
  <2>5. CASE DeleteRow(r)
    <3>1. \E u : Overtake(r, "disconnect", u)
      BY <1>3, <2>5 DEF DeleteRow, Update
    <3>2. job'[r] = Moved(r, "disconnect")
      BY <3>1, OvertookTo
    <3>. QED  BY <1>1, <1>3, <2>5, <3>2, GoesOn
  <2>6. CASE Disconnect(r)
    <3>1. job'[r] = Moved(r, "invalidate") /\ job[r].stage = "disconnect"
      BY <2>6 DEF Disconnect
    <3>. QED  BY <1>1, <1>3, <3>1, GoesOn
  <2>7. CASE Invalidate(r)
    <3>1. job[r].stage = "invalidate" /\ Go(r, "unfile")
      <4>1. job[r].stage # "invalidate_old"
        BY <1>3, NoneApart DEF Base, JobsOK, Fit, Plans, Kinds
      <4>. QED  BY <1>3, <2>7, <4>1 DEF Invalidate
    <3>2. job'[r] = Moved(r, "unfile")
      BY <3>1, WentTo
    <3>. QED  BY <1>1, <1>3, <3>1, <3>2, GoesOn
  <2>8. ~Abandon(r) /\ ~RemoveFiles(r)
    BY <2>2 DEF Abandon, RemoveFiles
  <2>. QED  BY <1>3, <2>1, <2>4, <2>5, <2>6, <2>7, <2>8, ProfileSteps
<1>. QED  BY <1>2, <1>3

\* Where a stored picture comes from.
LEMMA RowPicture ==
    ASSUME Base, NEW r \in Requests, Arrive(r) \/ Serve(r), NEW u \in Users, row'[u] # None
    PROVE  \/ row[u] # None /\ row'[u].avatar = row[u].avatar
           \/ row[u] # None /\ PersistProfile(r) /\ job[r].user = u /\ row'[u].avatar = job[r].avatar
           \/ row[u] = None /\ Register(r) /\ u \notin Here /\ row'[u].avatar = None
                 /\ \A q \in Requests : job[q].user # u
<1>. DEFINE w == job[r].user
<1>1. /\ Fit(job[r]) /\ job[r] \in Job /\ row \in [Users -> Row \cup {None}] /\ None \notin Row
      /\ <<job[r].kind, job[r].stage>> \in Plans
  BY NoneApart DEF Base, JobsOK, Fit, DataOK
<1>2. row[u] # None => row[u] \in Row
  BY <1>1
<1>3. ASSUME NEW stage, NEW new, Update(r, stage, w, new), row'[u] # row[u]
      PROVE  u = w /\ row[u] # None /\ row'[u] = new
  BY <1>1, <1>3 DEF Update, Exists
<1>4. CASE row'[u] = row[u]
  BY <1>4
<1>5. CASE PersistProfile(r) /\ row'[u] # row[u]
  <2>1. \E stage : Update(r, stage, w, [row[w] EXCEPT !.avatar = job[r].avatar, !.about = job[r].about])
    BY <1>5 DEF PersistProfile
  <2>2. u = w /\ row[u] \in Row /\ row'[u] = [row[w] EXCEPT !.avatar = job[r].avatar, !.about = job[r].about]
    BY <1>2, <1>3, <1>5, <2>1
  <2>3. row'[u].avatar = job[r].avatar
    BY <2>2 DEF Row
  <2>. QED  BY <1>1, <1>5, <2>2, <2>3
<1>6. CASE UpdateName(r) /\ row'[u] # row[u]
  <2>1. Update(r, "reread", w, [row[w] EXCEPT !.name = job[r].n, !.renamed = job[r].t])
    BY <1>6 DEF UpdateName
  <2>2. u = w /\ row[u] \in Row /\ row'[u] = [row[w] EXCEPT !.name = job[r].n, !.renamed = job[r].t]
    BY <1>2, <1>3, <1>6, <2>1
  <2>3. row'[u].avatar = row[u].avatar
    BY <2>2 DEF Row
  <2>. QED  BY <1>1, <2>2, <2>3
<1>7. CASE UpdateBadges(r) /\ row'[u] # row[u]
  <2>1. PICK b \in BOOLEAN : Update(r, "reread", w, [row[w] EXCEPT !.badges = b])
    BY <1>7 DEF UpdateBadges
  <2>2. u = w /\ row[u] \in Row /\ row'[u] = [row[w] EXCEPT !.badges = b]
    BY <1>2, <1>3, <1>7, <2>1
  <2>3. row'[u].avatar = row[u].avatar
    BY <2>2 DEF Row
  <2>. QED  BY <1>1, <2>2, <2>3
<1>8. CASE DeleteRow(r) /\ row'[u] # row[u]
  <2>1. \E stage : Update(r, stage, w, None)
    BY <1>8 DEF DeleteRow
  <2>. QED  BY <1>3, <1>8, <2>1
<1>9. CASE Register(r) /\ row'[u] # row[u]
  <2>1. PICK v \in Users \ Here :
            /\ row[v] = None /\ \A q \in Requests : job[q].user # v
            /\ row' = [row EXCEPT ![v] = [name |-> FirstName[v], avatar |-> None,
                        about |-> CHOOSE b \in Abouts : TRUE, badges |-> FALSE, ver |-> 0,
                        blob |-> None, renamed |-> None]]
    BY <1>9 DEF Register, Exists
  <2>2. u = v
    BY <1>1, <1>9, <2>1
  <2>3. row'[u].avatar = None
    BY <1>1, <2>1, <2>2
  <2>. QED  BY <1>9, <2>1, <2>2, <2>3
<1>10. CASE StoreBlob(r) /\ row'[u] # row[u]
  <2>1. row' = IF Exists(w) THEN [row EXCEPT ![w] = [row[w] EXCEPT !.ver = job[r].n, !.blob = r]] ELSE row
    BY <1>10 DEF StoreBlob
  <2>2. u = w /\ row[u] \in Row /\ row'[u] = [row[w] EXCEPT !.ver = job[r].n, !.blob = r]
    BY <1>1, <1>10, <2>1 DEF Exists
  <2>3. row'[u].avatar = row[u].avatar
    BY <2>2 DEF Row
  <2>. QED  BY <1>1, <2>2, <2>3
<1>. QED  BY <1>4, <1>5, <1>6, <1>7, <1>8, <1>9, <1>10, Touches

LEMMA SessionPicture ==
    ASSUME Base, NEW r \in Requests, Arrive(r) \/ Serve(r), NEW s \in Sessions, sess'[s] # None
    PROVE  \/ /\ sess[s] # None /\ sess'[s].avatar = sess[s].avatar
              /\ ShowInSessions(r) => UserOf[s] # job[r].user
           \/ /\ EnterSession(r) \/ WriteSession(r)
              /\ job[r].kind \in {"settings", "identify"} /\ AtWork(r)
              /\ UserOf[s] = job[r].user /\ sess'[s].avatar = job[r].avatar
           \/ ShowInSessions(r) /\ UserOf[s] = job[r].user /\ sess[s] # None /\ sess'[s].avatar = r
<1>1. Fit(job[r]) /\ sess \in [Sessions -> Profile \cup {None}]
  BY DEF Base, JobsOK, DataOK, Profile
<1>2. CASE EnterSession(r)
  <2>1. /\ job[r].kind = "identify" /\ job[r].stage = "enter" /\ job[r].s \in Sessions
        /\ UserOf[job[r].s] = job[r].user
    BY <1>1, <1>2 DEF EnterSession, At, Fit
  <2>2. ~ShowInSessions(r)
    BY <2>1 DEF ShowInSessions, At
  <2>3. sess' = sess \/ sess' = [sess EXCEPT ![job[r].s] = [avatar |-> job[r].avatar, about |-> job[r].about]]
    BY <1>2 DEF EnterSession
  <2>. QED  BY <1>1, <1>2, <2>1, <2>2, <2>3 DEF AtWork
<1>3. CASE WriteSession(r)
  <2>1. /\ job[r].kind = "settings" /\ job[r].stage = "write" /\ job[r].s \in Sessions
        /\ UserOf[job[r].s] = job[r].user
    BY <1>1, <1>3 DEF WriteSession, At, Fit
  <2>2. ~ShowInSessions(r)
    BY <2>1 DEF ShowInSessions, At
  <2>3. sess' = sess \/ sess' = [sess EXCEPT ![job[r].s] = [avatar |-> job[r].avatar, about |-> job[r].about]]
    BY <1>3 DEF WriteSession
  <2>. QED  BY <1>1, <1>3, <2>1, <2>2, <2>3 DEF AtWork
<1>4. CASE ShowInSessions(r)
  <2>1. sess' = [t \in Sessions |-> IF sess[t] # None /\ UserOf[t] = job[r].user
                                    THEN [sess[t] EXCEPT !.avatar = r] ELSE sess[t]]
    BY <1>4 DEF ShowInSessions
  <2>2. sess[s] # None
    BY <2>1
  <2>3. sess[s] \in Profile /\ [sess[s] EXCEPT !.avatar = r].avatar = r
    BY <1>1, <2>2 DEF Profile
  <2>. QED  BY <1>4, <2>1, <2>2, <2>3
<1>5. CASE (Leave(r) \/ Disconnect(r) \/ sess' = sess) /\ ~ShowInSessions(r)
  <2>1. sess'[s] = sess[s]
    BY <1>1, <1>5 DEF Leave, Disconnect
  <2>. QED  BY <1>5, <2>1
<1>. QED  BY <1>2, <1>3, <1>4, <1>5, Touches

LEMMA FilesStay ==
    ASSUME NEW r \in Requests, Arrive(r) \/ Serve(r), NEW p \in files, p \notin files'
    PROVE  /\ RemoveOld(r) \/ RemoveFiles(r)
           /\ AtWork(r) /\ p = job[r].copy.avatar
<1>1. RemoveOld(r) \/ RemoveFiles(r)
  BY Touches DEF ParseProfile, StoreFile
<1>2. p = job[r].copy.avatar
  BY <1>1 DEF RemoveOld, RemoveFiles, Replaced
<1>3. AtWork(r)
  BY <1>1 DEF RemoveOld, RemoveFiles, At, AtWork
<1>. QED  BY <1>1, <1>2, <1>3

LEMMA MarksStay ==
    ASSUME Base, NEW r \in Requests, Arrive(r) \/ Serve(r)
    PROVE  /\ marred \subseteq marred'
           /\ Abandon(r) /\ job[r].kind = "upload" => job[r].user \in marred'
<1>1. CASE Arrive(r)
  <2>1. ~Abandon(r)
    BY <1>1, Arrives DEF Abandon, AtWork, Unused
  <2>. QED  BY <1>1, <2>1, ProfileArrivals
<1>2. CASE Serve(r)
  BY <1>2 DEF Serve, history,
         LookInCache, ReadPublic, FillCache, EnterSession, ParseProfile, WriteSession,
         PersistProfile, StoreFile, ShowInSessions, RemoveOld, CheckRename, CheckUnique,
         UpdateName, UpdateBadges, Reread, Invalidate, CheckDelete, DeletePrekeys, DeleteBlocks,
         DeleteRow, Disconnect, RemoveFiles, CompareVersion, StoreBlob, UpsertPrekey,
         Fingerprint, CountTags, InsertTag, RemoveTag, Abandon
<1>. QED  BY <1>1, <1>2

LEMMA PersistedOrMarked ==
    ASSUME Base, NEW r \in Requests, PersistProfile(r), job[r].user \in Users, row[job[r].user] # None
    PROVE  \/ job[r].user \in marred'
           \/ row'[job[r].user] # None => row'[job[r].user].avatar = job[r].avatar
<1>. DEFINE w == job[r].user
<1>1. (\E stage : Update(r, stage, w, [row[w] EXCEPT !.avatar = job[r].avatar, !.about = job[r].about]))
         \/ w \in marred'
  BY DEF PersistProfile
<1>2. row \in [Users -> Row \cup {None}] /\ row[w] \in Row
  BY DEF Base, DataOK
<1>3. ASSUME NEW stage, Update(r, stage, w, [row[w] EXCEPT !.avatar = job[r].avatar, !.about = job[r].about])
      PROVE  row'[w].avatar = job[r].avatar
  <2>1. row'[w] = [row[w] EXCEPT !.avatar = job[r].avatar, !.about = job[r].about]
    BY <1>2, <1>3 DEF Update, Exists
  <2>. QED  BY <1>2, <2>1 DEF Row
<1>. QED  BY <1>1, <1>3

\* Owners stay.
LEMMA OwnedStays ==
    ASSUME Base, NEW r \in Requests, Arrive(r) \/ Serve(r), NEW u \in Users, NEW p, OwnedIn(job, u, p)
    PROVE  OwnedIn(job', u, p)
<1>1. job[r].user = u => job'[r].user = u
  <2>1. Arrive(r) => job[r].user = None
    BY Arrives DEF Unused
  <2>2. Serve(r) => job'[r].user = job[r].user
    BY Serves DEF Goes
  <2>. QED  BY <2>1, <2>2, NoneApart
<1>2. p \in Requests \ {r} => job'[p].user = job[p].user
  BY OthersKeep
<1>. QED  BY <1>1, <1>2 DEF OwnedIn

LEMMA OneOwner ==
    ASSUME NEW u \in Users, NEW v \in Users, NEW p, OwnedIn(job, u, p), OwnedIn(job, v, p), p # None
    PROVE  u = v
BY DataAssumption DEF OwnedIn

LEMMA ProfileUsers ==
    ASSUME Base, NEW r \in Requests, job[r].kind \in {"settings", "identify", "upload", "delete"}
    PROVE  job[r].user \in Users
BY NoneApart DEF Base, JobsOK, Fit, Kinds

LEMMA PersistKinds ==
    ASSUME Base, OwnersOK, NEW r \in Requests, Serve(r), PersistProfile(r)
    PROVE  /\ job[r].kind \in {"settings", "upload"} /\ job[r].stage = "persist" /\ AtWork(r)
           /\ job[r].user \in Users
           /\ job[r].kind = "upload" => job[r].avatar = r
           /\ OwnedIn(job, job[r].user, job[r].avatar)
<1>1. job[r].stage = "persist" /\ AtWork(r)
  BY DEF PersistProfile, Serve
<1>2. job[r].kind \in {"settings", "upload"}
  BY <1>1, NoneApart DEF Base, JobsOK, Fit, Plans, Kinds
<1>3. job[r].user \in Users
  BY <1>2, ProfileUsers
<1>4. job[r].kind = "upload" => job[r].avatar = r
  BY <1>1 DEF OwnersOK
<1>5. OwnedIn(job, job[r].user, job[r].avatar)
  BY <1>1, <1>2, <1>4 DEF OwnersOK, OwnedIn
<1>. QED  BY <1>1, <1>2, <1>3, <1>4, <1>5

LEMMA OwnersKept ==
    ASSUME Base, OwnersOK, NEW r \in Requests, Arrive(r) \/ Serve(r)
    PROVE  OwnersOK'
<1>1. ASSUME NEW u \in Users, row'[u] # None PROVE OwnedIn(job', u, row'[u].avatar)
  <2>1. CASE row[u] # None /\ row'[u].avatar = row[u].avatar
    <3>1. OwnedIn(job, u, row[u].avatar)
      BY <2>1 DEF OwnersOK
    <3>2. OwnedIn(job', u, row[u].avatar)
      BY <3>1, OwnedStays
    <3>. QED  BY <2>1, <3>2
  <2>2. CASE PersistProfile(r) /\ job[r].user = u /\ row'[u].avatar = job[r].avatar
    <3>1. Serve(r)
      BY <2>2, NewOnes DEF PersistProfile
    <3>2. OwnedIn(job', u, job[r].avatar)
      BY <2>2, <3>1, PersistKinds, OwnedStays
    <3>. QED  BY <2>2, <3>2
  <2>3. CASE row'[u].avatar = None
    BY <2>3 DEF OwnedIn
  <2>. QED  BY <1>1, <2>1, <2>2, <2>3, RowPicture
<1>2. ASSUME NEW s \in Sessions, sess'[s] # None PROVE OwnedIn(job', UserOf[s], sess'[s].avatar)
  <2>1. UserOf[s] \in Users
    BY UsersServed
  <2>2. CASE sess[s] # None /\ sess'[s].avatar = sess[s].avatar
    <3>1. OwnedIn(job', UserOf[s], sess[s].avatar)
      BY <2>1, <2>2, OwnedStays DEF OwnersOK
    <3>. QED  BY <2>2, <3>1
  <2>3. CASE /\ job[r].kind \in {"settings", "identify"} /\ AtWork(r)
             /\ UserOf[s] = job[r].user /\ sess'[s].avatar = job[r].avatar
    <3>1. OwnedIn(job', UserOf[s], job[r].avatar)
      BY <2>1, <2>3, OwnedStays DEF OwnersOK
    <3>. QED  BY <2>3, <3>1
  <2>4. CASE ShowInSessions(r) /\ UserOf[s] = job[r].user /\ sess'[s].avatar = r
    <3>1. OwnedIn(job, UserOf[s], r)
      BY <2>4 DEF OwnedIn
    <3>. QED  BY <2>1, <2>4, <3>1, OwnedStays
  <2>. QED  BY <1>2, <2>2, <2>3, <2>4, SessionPicture
<1>3. ASSUME NEW q \in Requests, AtWork(q)', job'[q].kind \in {"settings", "identify"}
      PROVE  OwnedIn(job', job'[q].user, job'[q].avatar)
  <2>1. CASE AtWork(q) /\ job'[q].kind = job[q].kind /\ job'[q].user = job[q].user
    <3>1. job[q].user \in Users /\ OwnedIn(job, job[q].user, job[q].avatar)
      BY <1>3, <2>1, ProfileUsers DEF OwnersOK
    <3>2. OwnedIn(job', job[q].user, job[q].avatar)
      BY <3>1, OwnedStays
    <3>3. CASE job'[q].avatar = job[q].avatar
      BY <2>1, <3>2, <3>3
    <3>4. CASE q = r /\ job'[q].avatar \in {None, r}
      BY <3>4 DEF OwnedIn
    <3>. QED  BY <1>3, <2>1, <3>3, <3>4, SettingsGoOn
  <2>2. CASE q = r /\ Arrive(r)
    <3>1. CASE job'[r].kind = "identify"
      <4>1. PICK u \in Users : row[u] # None /\ job'[r].user = u /\ job'[r].avatar = row[u].avatar
        BY <2>2, <3>1, ProfileArrivals
      <4>2. OwnedIn(job', u, row[u].avatar)
        BY <4>1, OwnedStays DEF OwnersOK
      <4>. QED  BY <2>2, <4>1, <4>2
    <3>2. CASE job'[r].kind = "settings"
      <4>1. PICK s \in Sessions : sess[s] # None /\ job'[r].user = UserOf[s] /\ job'[r].avatar = sess[s].avatar
        BY <2>2, <3>2, ProfileArrivals
      <4>2. OwnedIn(job', UserOf[s], sess[s].avatar)
        BY <4>1, OwnedStays, UsersServed DEF OwnersOK
      <4>. QED  BY <2>2, <4>1, <4>2
    <3>. QED  BY <1>3, <2>2, <3>1, <3>2
  <2>. QED  BY <1>3, <2>1, <2>2, WorkBefore
<1>4. ASSUME NEW q \in Requests, AtWork(q)', job'[q].kind \in {"upload", "delete"}
      PROVE  /\ OwnedIn(job', job'[q].user, job'[q].copy.avatar)
             /\ job'[q].kind = "upload" => job'[q].copy.avatar # q
  <2>1. CASE AtWork(q) /\ job'[q].kind = job[q].kind /\ job'[q].user = job[q].user
    <3>1. job'[q].copy = job[q].copy
      BY <1>4, <2>1, UploadGoesOn, DeleteGoesOn
    <3>2. /\ job[q].user \in Users /\ OwnedIn(job, job[q].user, job[q].copy.avatar)
          /\ job[q].kind = "upload" => job[q].copy.avatar # q
      BY <1>4, <2>1, ProfileUsers DEF OwnersOK
    <3>3. OwnedIn(job', job[q].user, job[q].copy.avatar)
      BY <3>2, OwnedStays
    <3>. QED  BY <2>1, <3>1, <3>2, <3>3
  <2>2. CASE q = r /\ Arrive(r)
    <3>1. PICK u \in Users : row[u] # None /\ job'[r].user = u /\ job'[r].copy.avatar = row[u].avatar
      BY <1>4, <2>2, ProfileArrivals
    <3>2. OwnedIn(job, u, row[u].avatar)
      BY <3>1 DEF OwnersOK
    <3>3. OwnedIn(job', u, row[u].avatar)
      BY <3>2, OwnedStays
    <3>4. row[u].avatar # r
      <4>1. job[r].user = None
        BY <2>2, Arrives DEF Unused
      <4>. QED  BY <3>2, <4>1, NoneApart, DataAssumption DEF OwnedIn
    <3>. QED  BY <2>2, <3>1, <3>3, <3>4
  <2>. QED  BY <1>4, <2>1, <2>2, WorkBefore
<1>5. ASSUME NEW q \in Requests, AtWork(q)', job'[q].kind = "upload", job'[q].stage \in {"remove", "persist"}
      PROVE  job'[q].avatar = q
  <2>1. CASE AtWork(q) /\ job'[q].kind = job[q].kind
    BY <1>5, <2>1, UploadGoesOn DEF OwnersOK
  <2>2. CASE q = r /\ Arrive(r)
    BY <1>5, <2>2, ProfileArrivals
  <2>. QED  BY <1>5, <2>1, <2>2, WorkBefore
<1>6. ASSUME NEW q \in Requests, AtWork(q)', job'[q].kind = "delete",
             job'[q].stage \in {"disconnect", "invalidate", "unfile"}
      PROVE  row'[job'[q].user] = None
  <2>1. CASE AtWork(q) /\ job'[q].kind = job[q].kind /\ job'[q].user = job[q].user
    <3>1. job[q].user \in Users
      BY <1>6, <2>1, ProfileUsers
    <3>2. CASE job[q].stage \in {"disconnect", "invalidate", "unfile"}
      <4>1. row[job[q].user] = None
        BY <1>6, <2>1, <3>2 DEF OwnersOK
      <4>. QED  BY <2>1, <3>1, <4>1, RowPicture
    <3>3. CASE q = r /\ DeleteRow(r)
      <4>1. \E stage : Update(r, stage, job[q].user, None)
        BY <3>3 DEF DeleteRow
      <4>2. row'[job[q].user] = None
        BY <3>1, <4>1 DEF Update, Exists, Base, DataOK
      <4>. QED  BY <2>1, <4>2
    <3>. QED  BY <1>6, <2>1, <3>2, <3>3, DeleteGoesOn
  <2>2. CASE q = r /\ Arrive(r)
    BY <1>6, <2>2, ProfileArrivals
  <2>. QED  BY <1>6, <2>1, <2>2, WorkBefore
<1>. QED  BY <1>1, <1>2, <1>3, <1>4, <1>5, <1>6 DEF OwnersOK

\* A file of an account that exists is removed only by an upload of its owner.
LEMMA StoredStays ==
    ASSUME Base, OwnersOK, NEW r \in Requests, Arrive(r) \/ Serve(r), NEW u \in Users, row[u] # None,
           NEW p, OwnedIn(job, u, p), Stored(p)
    PROVE  \/ p \in files' \cup {None}
           \/ RemoveOld(r) /\ AtWork(r) /\ job[r].kind = "upload" /\ job[r].user = u /\ p = job[r].copy.avatar
<1>. SUFFICES ASSUME p \in files, p \notin files', p # None
              PROVE  RemoveOld(r) /\ AtWork(r) /\ job[r].kind = "upload" /\ job[r].user = u /\ p = job[r].copy.avatar
  BY DEF Stored
<1>1. (RemoveOld(r) \/ RemoveFiles(r)) /\ AtWork(r) /\ p = job[r].copy.avatar
  BY FilesStay
<1>2. /\ RemoveOld(r) => job[r].kind = "upload"
      /\ RemoveFiles(r) => job[r].kind = "delete" /\ job[r].stage = "unfile"
  BY DEF RemoveOld, RemoveFiles, At
<1>3. job[r].user \in Users /\ OwnedIn(job, job[r].user, p)
  BY <1>1, <1>2, ProfileUsers DEF OwnersOK
<1>4. job[r].user = u
  BY <1>3, OneOwner
<1>5. ~RemoveFiles(r)
  BY <1>1, <1>2, <1>4 DEF OwnersOK
<1>. QED  BY <1>1, <1>2, <1>4, <1>5

\* A profile request that arrives meets no other, or the account is marred.
LEMMA WorkingBefore ==
    ASSUME Base, NEW r \in Requests, Arrive(r) \/ Serve(r), NEW u \in Users, u \notin marred',
           NEW q \in Requests, Working(q, u)'
    PROVE  \/ Working(q, u) /\ job'[q].kind = job[q].kind /\ AtWork(q) /\ AtWork(q)' /\ job'[q].user = job[q].user
           \/ /\ q = r /\ Arrive(r) /\ \A p \in Requests : ~Working(p, u)
              /\ job'[r].kind \in ProfileKinds /\ job'[r].user = u
<1>1. AtWork(q)' /\ job'[q].kind \in ProfileKinds /\ job'[q].user = u
  BY DEF Working
<1>2. CASE AtWork(q) /\ job'[q].kind = job[q].kind /\ job'[q].user = job[q].user
  BY <1>1, <1>2 DEF Working
<1>3. CASE q = r /\ Arrive(r)
  <2>1. Marring(u)
    BY <1>1, <1>3, ProfileArrivals DEF ProfileKinds
  <2>2. \A p \in Requests : ~Working(p, u)
    BY <2>1 DEF Marring, Working
  <2>. QED  BY <1>1, <1>3, <2>2
<1>. QED  BY <1>1, <1>2, <1>3, WorkBefore

\* A step on an account whose picture is stored leaves it stored.
LEMMA PicturedKept ==
    ASSUME Base, PicturesOK, NEW r \in Requests, Arrive(r) \/ Serve(r), NEW u \in Users
    PROVE  Pictured(u)'
<1>. DEFINE Kept(p) == p \in files' \cup {None}
            Last(q) == \A s \in Sessions : sess'[s] # None /\ UserOf[s] = u => sess'[s].avatar = q
<1>. SUFFICES ASSUME row'[u] # None, u \notin marred'
              PROVE  /\ \A q, p \in Requests : Working(q, u)' /\ Working(p, u)' => q = p
                     /\ Kept(row'[u].avatar) \/ \E q \in Requests : Working(q, u)' /\ At(q, "upload", "persist")'
                     /\ \A s \in Sessions : sess'[s] # None /\ UserOf[s] = u => Kept(sess'[s].avatar)
                     /\ \A q \in Requests : Working(q, u)' =>
                           /\ job'[q].kind \in {"settings", "identify"} => Kept(job'[q].avatar)
                           /\ job'[q].kind = "upload" /\ job'[q].stage \in {"sessions", "remove", "persist"} => q \in files'
                           /\ job'[q].kind = "upload" /\ job'[q].stage \in {"remove", "persist"} => Last(q)
  BY DEF Pictured, Stored
<1>1. u \notin marred /\ OwnersOK /\ Pictured(u)
  BY MarksStay DEF PicturesOK
<1>2. CASE row[u] = None
  <2>1. Register(r) /\ u \notin Here /\ row'[u].avatar = None /\ \A q \in Requests : job[q].user # u
    BY <1>2, RowPicture
  <2>2. \A q \in Requests : ~Working(q, u)'
    <3>1. ASSUME NEW q \in Requests, Working(q, u)' PROVE FALSE
      <4>1. Arrive(r) /\ job'[r].kind \in ProfileKinds
        BY <2>1, <3>1, WorkingBefore DEF Working
      <4>2. row' = row
        BY <4>1, ProfileArrivals DEF ProfileKinds
      <4>. QED  BY <1>2, <4>2
    <3>. QED  BY <3>1
  <2>3. \A s \in Sessions : UserOf[s] # u
    BY <2>1, DataAssumption
  <2>. QED  BY <2>1, <2>2, <2>3
<1>3. CASE row[u] # None
  <2>1. /\ \A q, p \in Requests : Working(q, u) /\ Working(p, u) => q = p
        /\ Stored(row[u].avatar) \/ \E q \in Requests : Working(q, u) /\ At(q, "upload", "persist")
        /\ \A s \in Sessions : sess[s] # None /\ UserOf[s] = u => Stored(sess[s].avatar)
        /\ \A q \in Requests : Working(q, u) =>
              /\ job[q].kind \in {"settings", "identify"} => Stored(job[q].avatar)
              /\ job[q].kind = "upload" /\ job[q].stage \in {"sessions", "remove", "persist"} => q \in files
              /\ job[q].kind = "upload" /\ job[q].stage \in {"remove", "persist"} =>
                    \A s \in Sessions : sess[s] # None /\ UserOf[s] = u => sess[s].avatar = q
    BY <1>1, <1>3 DEF Pictured
  <2>. DEFINE Removes == RemoveOld(r) /\ AtWork(r) /\ job[r].kind = "upload" /\ job[r].user = u
  <2>2. ASSUME NEW p, OwnedIn(job, u, p), Stored(p) PROVE Kept(p) \/ (Removes /\ p = job[r].copy.avatar)
    BY <1>1, <1>3, <2>2, StoredStays
  <2>3. Removes => /\ Working(r, u) /\ job[r].stage = "remove" /\ r \in files /\ job[r].copy.avatar # r
                   /\ \A s \in Sessions : sess[s] # None /\ UserOf[s] = u => sess[s].avatar = r
    <3>1. Removes => Working(r, u) /\ job[r].stage = "remove"
      BY DEF Working, ProfileKinds, RemoveOld, At
    <3>. QED  BY <1>1, <2>1, <3>1 DEF OwnersOK
  <2>4. \A q, p \in Requests : Working(q, u)' /\ Working(p, u)' => q = p
    <3>1. ASSUME NEW q \in Requests, NEW p \in Requests, Working(q, u)', Working(p, u)' PROVE q = p
      <4>1. Working(q, u) \/ (q = r /\ \A o \in Requests : ~Working(o, u))
        BY <3>1, WorkingBefore
      <4>2. Working(p, u) \/ (p = r /\ \A o \in Requests : ~Working(o, u))
        BY <3>1, WorkingBefore
      <4>. QED  BY <2>1, <4>1, <4>2
    <3>. QED  BY <3>1
  <2>5. Kept(row'[u].avatar) \/ \E q \in Requests : Working(q, u)' /\ At(q, "upload", "persist")'
    <3>1. CASE PersistProfile(r) /\ job[r].user = u
      <4>1. Serve(r)
        BY <3>1, NewOnes DEF PersistProfile
      <4>2. /\ job[r].kind \in {"settings", "upload"} /\ job[r].stage = "persist" /\ AtWork(r)
            /\ job[r].kind = "upload" => job[r].avatar = r
        BY <1>1, <3>1, <4>1, PersistKinds
      <4>3. Working(r, u)
        BY <3>1, <4>2 DEF Working, ProfileKinds
      <4>4. Stored(job[r].avatar)
        BY <2>1, <4>2, <4>3 DEF Stored
      <4>5. row'[u].avatar = job[r].avatar
        BY <1>3, <3>1, PersistedOrMarked
      <4>6. files' = files
        BY <3>1 DEF PersistProfile, store
      <4>. QED  BY <4>4, <4>5, <4>6 DEF Stored
    <3>2. CASE row'[u].avatar = row[u].avatar /\ ~(PersistProfile(r) /\ job[r].user = u)
      <4>1. CASE Stored(row[u].avatar)
        <5>1. OwnedIn(job, u, row[u].avatar)
          BY <1>1, <1>3 DEF OwnersOK
        <5>2. CASE Removes
          <6>1. job'[r].stage = "persist" /\ job'[r].kind = job[r].kind /\ job'[r].user = job[r].user
            BY <5>2, WentTo DEF RemoveOld
          <6>2. Working(r, u)' /\ At(r, "upload", "persist")'
            BY <5>2, <6>1 DEF Working, At, AtWork, ProfileKinds
          <6>. QED  BY <6>2
        <5>3. Removes \/ Kept(row[u].avatar)
          BY <2>2, <4>1, <5>1
        <5>. QED  BY <3>2, <5>2, <5>3
      <4>2. ASSUME NEW q \in Requests, Working(q, u), At(q, "upload", "persist")
            PROVE  Working(q, u)' /\ At(q, "upload", "persist")'
        <5>1. CASE q # r
          BY <4>2, <5>1, OthersKeep DEF Working, At, AtWork
        <5>2. CASE q = r
          <6>1. Serve(r)
            BY <4>2, <5>2, NewOnes DEF At
          <6>2. PersistProfile(r) \/ Abandon(r)
            BY <4>2, <5>2, <6>1, ProfileSteps DEF At, StoreFile, ShowInSessions, RemoveOld, Invalidate
          <6>3. ~Abandon(r)
            BY <4>2, <5>2, MarksStay DEF Working, At
          <6>. QED  BY <3>2, <4>2, <5>2, <6>2, <6>3 DEF Working
        <5>. QED  BY <5>1, <5>2
      <4>. QED  BY <2>1, <4>1, <4>2
    <3>. QED  BY <1>3, <3>1, <3>2, RowPicture
  <2>6. ASSUME NEW s \in Sessions, sess'[s] # None, UserOf[s] = u PROVE Kept(sess'[s].avatar)
    <3>1. CASE sess[s] # None /\ sess'[s].avatar = sess[s].avatar
      <4>1. OwnedIn(job, u, sess[s].avatar) /\ Stored(sess[s].avatar)
        BY <1>1, <2>1, <2>6, <3>1 DEF OwnersOK
      <4>2. Kept(sess[s].avatar)
        BY <2>2, <2>3, <2>6, <3>1, <4>1
      <4>. QED  BY <3>1, <4>2
    <3>2. CASE /\ EnterSession(r) \/ WriteSession(r)
               /\ job[r].kind \in {"settings", "identify"} /\ AtWork(r)
               /\ UserOf[s] = job[r].user /\ sess'[s].avatar = job[r].avatar
      <4>1. Working(r, u)
        BY <2>6, <3>2 DEF Working, ProfileKinds
      <4>2. Stored(job[r].avatar)
        BY <2>1, <3>2, <4>1
      <4>3. files' = files
        BY <3>2 DEF EnterSession, WriteSession
      <4>. QED  BY <3>2, <4>2, <4>3 DEF Stored
    <3>3. CASE ShowInSessions(r) /\ UserOf[s] = job[r].user /\ sess'[s].avatar = r
      <4>1. job[r].kind = "upload" /\ job[r].stage = "sessions" /\ files' = files
        BY <3>3 DEF ShowInSessions, At
      <4>2. Working(r, u)
        BY <2>6, <3>3, <4>1 DEF Working, ProfileKinds, AtWork
      <4>3. r \in files
        BY <2>1, <4>1, <4>2
      <4>. QED  BY <3>3, <4>1, <4>3
    <3>. QED  BY <2>6, <3>1, <3>2, <3>3, SessionPicture
  <2>7. ASSUME NEW q \in Requests, Working(q, u)', job'[q].kind \in {"settings", "identify"}
        PROVE  Kept(job'[q].avatar)
    <3>1. CASE Working(q, u) /\ AtWork(q) /\ AtWork(q)' /\ job'[q].kind = job[q].kind
      <4>1. ~Removes
        BY <2>1, <2>3, <2>7, <3>1
      <4>2. Stored(job[q].avatar) /\ OwnedIn(job, u, job[q].avatar)
        BY <1>1, <2>1, <2>7, <3>1 DEF OwnersOK, Working
      <4>3. Kept(job[q].avatar)
        BY <2>2, <4>1, <4>2
      <4>4. \/ job'[q].avatar = job[q].avatar
            \/ q = r /\ job'[q].avatar \in {job[q].avatar, None, r} /\ (job'[q].avatar = r => r \in files')
        BY <2>7, <3>1, SettingsGoOn
      <4>. QED  BY <4>3, <4>4
    <3>2. CASE q = r /\ Arrive(r) /\ (\A p \in Requests : ~Working(p, u)) /\ job'[r].user = u
      <4>1. CASE job'[r].kind = "identify"
        <5>1. job'[r].avatar = row[u].avatar /\ files' = files
          BY <3>2, <4>1, ProfileArrivals
        <5>2. Stored(row[u].avatar)
          BY <2>1, <3>2
        <5>. QED  BY <3>2, <5>1, <5>2 DEF Stored
      <4>2. CASE job'[r].kind = "settings"
        <5>1. PICK s \in Sessions : sess[s] # None /\ u = UserOf[s] /\ job'[r].avatar = sess[s].avatar
                                    /\ files' = files
          BY <3>2, <4>2, ProfileArrivals
        <5>. QED  BY <2>1, <3>2, <5>1 DEF Stored
      <4>. QED  BY <2>7, <3>2, <4>1, <4>2
    <3>. QED  BY <2>7, <3>1, <3>2, WorkingBefore
  <2>8. ASSUME NEW q \in Requests, Working(q, u)', job'[q].kind = "upload"
        PROVE  /\ job'[q].stage \in {"sessions", "remove", "persist"} => q \in files'
               /\ job'[q].stage \in {"remove", "persist"} => Last(q)
    <3>1. CASE /\ Working(q, u) /\ AtWork(q) /\ AtWork(q)' /\ job'[q].kind = job[q].kind
               /\ job'[q].user = job[q].user
      <4>1. q \in files => q \in files'
        <5>1. OwnedIn(job, u, q) /\ q # None
          BY <3>1, NoneApart DEF OwnedIn, Working
        <5>2. Removes => q = r
          BY <2>1, <2>3, <3>1
        <5>. QED  BY <2>2, <2>3, <5>1, <5>2 DEF Stored
      <4>2. job'[q].stage \in {"sessions", "remove", "persist"} => q \in files'
        <5>1. CASE job[q].stage \in {"sessions", "remove", "persist"}
          BY <2>1, <2>8, <3>1, <4>1, <5>1
        <5>2. CASE q = r /\ StoreFile(r) /\ q \in files'
          BY <5>2
        <5>. QED  BY <2>8, <3>1, <5>1, <5>2, UploadGoesOn
      <4>3. ASSUME job'[q].stage \in {"remove", "persist"} PROVE Last(q)
        <5>1. CASE q = r /\ ShowInSessions(r)
          <6>1. ~EnterSession(r) /\ ~WriteSession(r)
            BY <5>1 DEF ShowInSessions, EnterSession, WriteSession, At
          <6>2. job[r].user = u
            BY <3>1, <5>1 DEF Working
          <6>. QED  BY <5>1, <6>1, <6>2, SessionPicture
        <5>2. CASE job[q].stage \in {"remove", "persist"}
          <6>1. \A s \in Sessions : sess[s] # None /\ UserOf[s] = u => sess[s].avatar = q
            BY <2>1, <2>8, <3>1, <5>2
          <6>2. ASSUME NEW s \in Sessions, sess'[s] # None, UserOf[s] = u,
                       EnterSession(r) \/ WriteSession(r),
                       job[r].kind \in {"settings", "identify"}, AtWork(r), UserOf[s] = job[r].user
                PROVE  FALSE
            <7>1. Working(r, u)
              BY <6>2 DEF Working, ProfileKinds
            <7>2. r = q
              BY <2>1, <3>1, <7>1
            <7>. QED  BY <2>8, <3>1, <6>2, <7>2
          <6>3. ASSUME NEW s \in Sessions, UserOf[s] = u, ShowInSessions(r), UserOf[s] = job[r].user PROVE FALSE
            <7>1. job[r].kind = "upload" /\ job[r].stage = "sessions"
              BY <6>3 DEF ShowInSessions, At
            <7>2. Working(r, u)
              BY <6>3, <7>1 DEF Working, ProfileKinds, AtWork
            <7>3. r = q
              BY <2>1, <3>1, <7>2
            <7>. QED  BY <5>2, <7>1, <7>3
          <6>4. ASSUME NEW s \in Sessions, sess'[s] # None, UserOf[s] = u PROVE sess'[s].avatar = q
            BY <6>1, <6>2, <6>3, <6>4, SessionPicture
          <6>. QED  BY <6>4
        <5>. QED  BY <2>8, <3>1, <4>3, <5>1, <5>2, UploadGoesOn
      <4>. QED  BY <4>2, <4>3
    <3>2. CASE q = r /\ Arrive(r)
      <4>1. job'[r].stage = "file"
        BY <2>8, <3>2, ProfileArrivals
      <4>. QED  BY <3>2, <4>1
    <3>. QED  BY <2>8, <3>1, <3>2, WorkingBefore
  <2>9. \A s \in Sessions : sess'[s] # None /\ UserOf[s] = u => Kept(sess'[s].avatar)
    BY <2>6
  <2>. QED  BY <2>4, <2>5, <2>7, <2>8, <2>9
<1>. QED  BY <1>2, <1>3

\* The picture of a stored profile is in the upload directory, as long as the
\* requests on that profile come one after the other and succeed.
THEOREM PicturesStay == Spec => []PicturesExist
<1>1. Init => Base /\ PicturesOK
  <2>. SUFFICES ASSUME Init PROVE PicturesOK
    BY BaseInit
  <2>1. \A r \in Requests : job[r] = Unused /\ ~AtWork(r)
    BY DEF Init, AtWork, Unused
  <2>2. \A r \in Requests, u \in Users : ~Working(r, u)
    BY <2>1 DEF Working
  <2>3. files = Here /\ \A u \in Users : row[u] # None => u \in Here /\ row[u].avatar = u
    BY DEF Init
  <2>4. \A s \in Sessions : sess[s].avatar = UserOf[s] /\ UserOf[s] \in Here
    BY DataAssumption DEF Init
  <2>5. OwnersOK
    BY <2>1, <2>3, <2>4 DEF OwnersOK, OwnedIn
  <2>6. \A u \in Users : Pictured(u)
    BY <2>2, <2>3, <2>4 DEF Pictured, Stored
  <2>. QED  BY <2>5, <2>6 DEF PicturesOK
<1>2. Base /\ PicturesOK /\ [Next]_vars => Base' /\ PicturesOK'
  <2>. SUFFICES ASSUME Base, PicturesOK, [Next]_vars PROVE PicturesOK'
    BY BaseKept
  <2>1. CASE UNCHANGED <<row, files, sess, job, marred>>
    BY <2>1 DEF PicturesOK, OwnersOK, Pictured, Stored, Working, At, AtWork
  <2>2. ASSUME NEW r \in Requests, Arrive(r) \/ Serve(r) PROVE PicturesOK'
    BY <2>2, OwnersKept, PicturedKept DEF PicturesOK
  <2>. QED  BY <2>1, <2>2, Elsewhere
<1>3. PicturesOK => PicturesExist
  <2>. SUFFICES ASSUME PicturesOK, NEW u \in Users, Exists(u), u \notin marred,
                       \A r \in Requests : AtWork(r) => job[r].kind \notin ProfileKinds \/ job[r].user # u
                PROVE  row[u].avatar \in files \cup {None}
    BY DEF PicturesExist
  <2>1. \A r \in Requests : ~Working(r, u)
    BY DEF Working
  <2>. QED  BY <2>1 DEF PicturesOK, Pictured, Stored, Exists
<1>. QED  BY <1>1, <1>2, <1>3, PTL DEF Spec
-----------------------------------------------------------------------------
\* The order of the listing, and the pages cut from it.
LEMMA Ordered ==
    ASSUME NEW sort, NEW a \in Nat \X Nat, NEW b \in Nat \X Nat, NEW c \in Nat \X Nat
    PROVE  /\ Precedes(sort, a, b) => ~Precedes(sort, b, a)
           /\ Precedes(sort, a, b) /\ Precedes(sort, b, c) => Precedes(sort, a, c)
           /\ a # b => Precedes(sort, a, b) \/ Precedes(sort, b, a)
BY DEF Precedes

LEMMA LeastOf ==
    ASSUME NEW S, S # {}, NEW f \in [S -> Nat]
    PROVE  \E x \in S : \A y \in S : f[x] <= f[y]
<1>. DEFINE T == {f[x] : x \in S}
<1>1. T \subseteq Nat /\ T # {}
  OBVIOUS
<1>2. \E m \in T : \A n \in T : ~(<<n, m>> \in OpToRel(<, Nat))
  BY <1>1, WFMin, NatLessThanWellFounded
<1>3. PICK x \in S : \A y \in S : ~(<<f[y], f[x]>> \in OpToRel(<, Nat))
  BY <1>2
<1>4. \A y \in S : ~(f[y] < f[x])
  BY <1>3 DEF OpToRel
<1>. QED  BY <1>4

\* The row u, ordered.
Place(key, u) == <<key[u], u>>
Ahead(sort, key, v, u) == Precedes(sort, Place(key, v), Place(key, u))
Earlier(ids, key, sort, u) == {v \in ids : Ahead(sort, key, v, u)}

LEMMA AheadOrders ==
    ASSUME NEW sort, NEW rows \in SUBSET Nat, NEW key \in [rows -> Nat],
           NEW u \in rows, NEW v \in rows, NEW w \in rows
    PROVE  /\ ~Ahead(sort, key, u, u)
           /\ Ahead(sort, key, u, v) => ~Ahead(sort, key, v, u)
           /\ Ahead(sort, key, u, v) /\ Ahead(sort, key, v, w) => Ahead(sort, key, u, w)
           /\ u # v => Ahead(sort, key, u, v) \/ Ahead(sort, key, v, u)
<1>1. Place(key, u) \in Nat \X Nat /\ Place(key, v) \in Nat \X Nat /\ Place(key, w) \in Nat \X Nat
  BY DEF Place
<1>2. u # v => Place(key, u) # Place(key, v)
  BY DEF Place
<1>. QED  BY <1>1, <1>2, Ordered DEF Ahead

LEMMA EarlierGrows ==
    ASSUME NEW sort, NEW rows \in SUBSET Nat, NEW key \in [rows -> Nat],
           NEW S \in SUBSET rows, IsFiniteSet(S), NEW u \in S, NEW v \in S, Ahead(sort, key, v, u)
    PROVE  Cardinality(Earlier(S, key, sort, v)) < Cardinality(Earlier(S, key, sort, u))
<1>1. Earlier(S, key, sort, v) \subseteq Earlier(S, key, sort, u) \ {v} /\ v \in Earlier(S, key, sort, u)
  <2>1. ~Ahead(sort, key, v, v) /\ u \in rows /\ v \in rows
    BY AheadOrders
  <2>2. ASSUME NEW w \in S, Ahead(sort, key, w, v) PROVE Ahead(sort, key, w, u)
    <3>1. w \in rows
      OBVIOUS
    <3>. QED  BY <2>1, <2>2, <3>1, AheadOrders
  <2>. QED  BY <2>1, <2>2 DEF Earlier
<1>2. IsFiniteSet(Earlier(S, key, sort, u))
  BY FS_Subset DEF Earlier
<1>3. /\ IsFiniteSet(Earlier(S, key, sort, u) \ {v})
      /\ Cardinality(Earlier(S, key, sort, u) \ {v}) = Cardinality(Earlier(S, key, sort, u)) - 1
  BY <1>1, <1>2, FS_RemoveElement
<1>4. Cardinality(Earlier(S, key, sort, v)) <= Cardinality(Earlier(S, key, sort, u) \ {v})
  BY <1>1, <1>3, FS_Subset
<1>5. Cardinality(Earlier(S, key, sort, u)) \in Nat /\ Cardinality(Earlier(S, key, sort, v)) \in Nat
  BY <1>2, FS_CardinalityType, FS_Subset DEF Earlier
<1>. QED  BY <1>3, <1>4, <1>5

LEMMA Ranks ==
    ASSUME NEW sort, NEW key, NEW S, IsFiniteSet(S)
    PROVE  /\ \A u \in S : Cardinality(Earlier(S, key, sort, u)) \in Nat
           /\ \A n : FirstOf(n, S, key, sort) = {u \in S : Cardinality(Earlier(S, key, sort, u)) < n}
<1>1. \A u \in S : IsFiniteSet(Earlier(S, key, sort, u))
  BY FS_Subset DEF Earlier
<1>. QED  BY <1>1, FS_CardinalityType DEF FirstOf, Earlier, Ahead, Place

\* What is cut off comes after everything that is left.
LEMMA FirstComesFirst ==
    ASSUME NEW sort, NEW rows \in SUBSET Nat, NEW key \in [rows -> Nat],
           NEW S \in SUBSET rows, IsFiniteSet(S), NEW n \in Nat,
           NEW u \in FirstOf(n, S, key, sort), NEW v \in S \ FirstOf(n, S, key, sort)
    PROVE  Ahead(sort, key, u, v)
<1>1. /\ u \in S /\ Cardinality(Earlier(S, key, sort, u)) \in Nat /\ Cardinality(Earlier(S, key, sort, u)) < n
      /\ Cardinality(Earlier(S, key, sort, v)) \in Nat /\ ~(Cardinality(Earlier(S, key, sort, v)) < n)
  BY Ranks
<1>2. ~Ahead(sort, key, v, u)
  <2>1. u \in S /\ v \in S
    BY <1>1
  <2>2. Ahead(sort, key, v, u) => Cardinality(Earlier(S, key, sort, v)) < Cardinality(Earlier(S, key, sort, u))
    BY <2>1, EarlierGrows
  <2>. QED  BY <1>1, <2>2
<1>3. u \in rows /\ v \in rows /\ u # v
  BY <1>1
<1>. QED  BY <1>2, <1>3, AheadOrders

\* Fewer than asked for are all there are.
LEMMA FewAreAll ==
    ASSUME NEW sort, NEW rows \in SUBSET Nat, NEW key \in [rows -> Nat],
           NEW S \in SUBSET rows, IsFiniteSet(S), NEW n \in Nat,
           Cardinality(FirstOf(n, S, key, sort)) < n
    PROVE  FirstOf(n, S, key, sort) = S
<1>. DEFINE F == FirstOf(n, S, key, sort)
            rank == [u \in S \ F |-> Cardinality(Earlier(S, key, sort, u))]
<1>1. F \subseteq S /\ IsFiniteSet(F) /\ Cardinality(F) \in Nat
  BY FS_Subset, FS_CardinalityType DEF FirstOf
<1>2. SUFFICES ASSUME S \ F # {} PROVE FALSE
  BY <1>1
<1>3. rank \in [S \ F -> Nat]
  BY Ranks
<1>. HIDE DEF F
<1>4. PICK u \in S \ F : \A v \in S \ F : rank[u] <= rank[v]
  BY <1>2, <1>3, LeastOf
<1>5. \A v \in S \ F : Cardinality(Earlier(S, key, sort, u)) <= Cardinality(Earlier(S, key, sort, v))
  BY <1>4
<1>6. Earlier(S, key, sort, u) \subseteq F
  <2>1. ASSUME NEW v \in S, Ahead(sort, key, v, u), v \notin F PROVE FALSE
    <3>1. Cardinality(Earlier(S, key, sort, v)) < Cardinality(Earlier(S, key, sort, u))
      BY <2>1, EarlierGrows
    <3>2. Cardinality(Earlier(S, key, sort, v)) \in Nat /\ Cardinality(Earlier(S, key, sort, u)) \in Nat
      BY Ranks
    <3>. QED  BY <1>5, <2>1, <3>1, <3>2
  <2>. QED  BY <2>1 DEF Earlier
<1>7. Cardinality(Earlier(S, key, sort, u)) <= Cardinality(F)
  BY <1>1, <1>6, FS_Subset
<1>8. ~(Cardinality(Earlier(S, key, sort, u)) < n) /\ Cardinality(Earlier(S, key, sort, u)) \in Nat
  BY Ranks DEF F
<1>9. Cardinality(F) < n
  BY DEF F
<1>. QED  BY <1>1, <1>7, <1>8, <1>9

\* There is a last one.
LEMMA LastOne ==
    ASSUME NEW sort, NEW rows \in SUBSET Nat, NEW key \in [rows -> Nat],
           NEW S \in SUBSET rows, IsFiniteSet(S), S # {}
    PROVE  \E u \in S : \A v \in S \ {u} : Ahead(sort, key, v, u)
<1>. DEFINE left == [u \in S |-> Cardinality({v \in S : Ahead(sort, key, u, v)})]
<1>1. \A u \in S : IsFiniteSet({v \in S : Ahead(sort, key, u, v)})
                   /\ Cardinality({v \in S : Ahead(sort, key, u, v)}) \in Nat
  BY FS_Subset, FS_CardinalityType
<1>2. left \in [S -> Nat]
  BY <1>1
<1>3. PICK u \in S : \A v \in S : left[u] <= left[v]
  BY <1>2, LeastOf
<1>4. ASSUME NEW v \in S, Ahead(sort, key, u, v) PROVE FALSE
  <2>. DEFINE B(x) == {w \in S : Ahead(sort, key, x, w)}
  <2>1. B(v) \subseteq B(u) \ {v} /\ v \in B(u)
    <3>1. ~Ahead(sort, key, v, v) /\ u \in rows /\ v \in rows
      BY AheadOrders
    <3>2. ASSUME NEW w \in S, Ahead(sort, key, v, w) PROVE Ahead(sort, key, u, w)
      <4>1. w \in rows
        OBVIOUS
      <4>. QED  BY <1>4, <3>1, <3>2, <4>1, AheadOrders
    <3>. QED  BY <1>4, <3>1, <3>2
  <2>2. IsFiniteSet(B(u)) /\ Cardinality(B(u)) \in Nat /\ Cardinality(B(v)) \in Nat
    BY <1>1
  <2>3. Cardinality(B(u)) <= Cardinality(B(v))
    BY <1>3
  <2>. HIDE DEF B
  <2>4. IsFiniteSet(B(u) \ {v}) /\ Cardinality(B(u) \ {v}) = Cardinality(B(u)) - 1
    BY <2>1, <2>2, FS_RemoveElement
  <2>5. Cardinality(B(v)) <= Cardinality(B(u) \ {v})
    BY <2>1, <2>4, FS_Subset
  <2>. QED  BY <2>2, <2>3, <2>4, <2>5
<1>. QED  BY <1>4, AheadOrders

\* A page holds rows after the cursor only; the rows after the cursor that it
\* does not hold are those after the next cursor.
LEMMA PageCuts ==
    ASSUME NEW sort, NEW rows \in SUBSET Nat, IsFiniteSet(rows), NEW key \in [rows -> Nat],
           NEW malformed, IsFiniteSet(malformed), NEW limit \in Nat \ {0}, NEW cursor
    PROVE  LET rest == {u \in rows : After(sort, cursor, Place(key, u))}
               page == Page(rows, malformed, key, sort, limit, cursor)
               next == NextCursor(rows, malformed, key, sort, limit, cursor)
           IN  /\ page \subseteq rest
               /\ \/ next = <<>> /\ (Cardinality(malformed) <= limit => rest \ malformed \subseteq page)
                  \/ \E last \in page :
                        /\ next = Place(key, last)
                        /\ \A u \in page : ~Ahead(sort, key, last, u)
                        /\ \A u \in (rest \ malformed) \ page : Ahead(sort, key, last, u)
<1>. DEFINE rest == {u \in rows : After(sort, cursor, Place(key, u))}
            fetched == Fetched(rows, key, sort, limit, cursor)
            page == Page(rows, malformed, key, sort, limit, cursor)
            next == NextCursor(rows, malformed, key, sort, limit, cursor)
            good == fetched \ malformed
<1>1. fetched = FirstOf(limit + 1, rest, key, sort) /\ page = FirstOf(limit, good, key, sort)
  BY DEF Fetched, Page, Place
<1>2. \A n, ids : FirstOf(n, ids, key, sort) \subseteq ids
  BY DEF FirstOf
<1>3. /\ rest \in SUBSET rows /\ fetched \in SUBSET rest /\ good \in SUBSET rest /\ page \subseteq good
      /\ good \in SUBSET rows /\ page \in SUBSET rows
  BY <1>1, <1>2
<1>4. /\ IsFiniteSet(rest) /\ IsFiniteSet(fetched) /\ IsFiniteSet(good) /\ IsFiniteSet(page)
      /\ Cardinality(fetched) \in Nat /\ Cardinality(good) \in Nat /\ Cardinality(page) \in Nat
      /\ Cardinality(good) <= Cardinality(fetched) /\ Cardinality(page) <= Cardinality(good)
  BY <1>3, FS_Subset, FS_CardinalityType
<1>5. next = LET last == CHOOSE u \in page : \A v \in page \ {u} : Ahead(sort, key, v, u)
             IN  IF Cardinality(fetched) > limit /\ page # {} THEN Place(key, last) ELSE <<>>
  BY DEF NextCursor, Ahead, Place
<1>. HIDE DEF rest, fetched, page, next, good
<1>6. CASE Cardinality(fetched) > limit /\ page # {}
  <2>. DEFINE last == CHOOSE u \in page : \A v \in page \ {u} : Ahead(sort, key, v, u)
  <2>1. last \in page /\ \A v \in page \ {last} : Ahead(sort, key, v, last)
    BY <1>3, <1>4, <1>6, LastOne
  <2>2. next = Place(key, last)
    BY <1>5, <1>6
  <2>. HIDE DEF last
  <2>3. \A u \in page : ~Ahead(sort, key, last, u)
    BY <1>3, <2>1, AheadOrders
  <2>4. ASSUME NEW u \in (rest \ malformed) \ page PROVE Ahead(sort, key, last, u)
    <3>1. CASE u \in fetched
      <4>1. u \in good \ page
        BY <3>1 DEF good
      <4>. QED  BY <1>1, <1>3, <1>4, <2>1, <4>1, FirstComesFirst
    <3>2. CASE u \notin fetched
      <4>1. last \in fetched /\ u \in rest \ fetched /\ limit + 1 \in Nat
        BY <1>3, <2>1, <3>2 DEF good
      <4>. QED  BY <1>1, <1>3, <1>4, <4>1, FirstComesFirst
    <3>. QED  BY <3>1, <3>2
  <2>. QED  BY <1>3, <2>1, <2>2, <2>3, <2>4 DEF rest, page, next, good
<1>7. CASE ~(Cardinality(fetched) > limit /\ page # {})
  <2>1. next = <<>>
    BY <1>5, <1>7
  <2>2. good \subseteq page
    <3>1. CASE Cardinality(page) < limit
      BY <1>1, <1>3, <1>4, <3>1, FewAreAll
    <3>2. CASE ~(Cardinality(page) < limit)
      <4>1. page # {}
        BY <3>2, FS_EmptySet
      <4>2. Cardinality(fetched) <= limit
        BY <1>4, <1>7, <4>1
      <4>3. Cardinality(page) = Cardinality(good)
        BY <1>4, <3>2, <4>2
      <4>. QED  BY <1>3, <1>4, <4>3, FS_Subset
    <3>. QED  BY <3>1, <3>2
  <2>3. ASSUME Cardinality(malformed) <= limit PROVE Cardinality(fetched) <= limit
    <3>1. SUFFICES ASSUME page = {} PROVE Cardinality(fetched) <= limit
      BY <1>4, <1>7
    <3>2. fetched \subseteq malformed
      BY <2>2, <3>1 DEF good
    <3>. QED  BY <1>4, <2>3, <3>2, FS_Subset, FS_CardinalityType
  <2>4. ASSUME Cardinality(malformed) <= limit PROVE fetched = rest
    <3>1. Cardinality(fetched) < limit + 1 /\ limit + 1 \in Nat
      BY <1>4, <2>3, <2>4
    <3>. QED  BY <1>1, <1>3, <1>4, <3>1, FewAreAll
  <2>. QED  BY <1>3, <2>1, <2>2, <2>4 DEF rest, page, next, good
<1>. QED  BY <1>6, <1>7
-----------------------------------------------------------------------------
\* The listing an administrator pages through: what has been shown of the
\* steady accounts is what the cursor has passed.
Listing == [state: {"none", "open", "read"}, sort: Sorts, cursor: {<<>>} \cup (Nat \X Nat),
            seen: [Users -> Nat], steady: SUBSET (Users \ Malformed)]

SortKey(rows, sort, u) == IF sort = "username" THEN rows[u].name ELSE Created[u]

ListedOK ==
    /\ browse \in Listing
    /\ browse.state = "none" => browse.steady = {}
    /\ \A u \in browse.steady : row[u] # None
    /\ Cardinality(Malformed) <= PageLimit =>
          \A u \in browse.steady :
              /\ browse.state = "open" =>
                    browse.seen[u] = IF After(browse.sort, browse.cursor, <<SortKey(row, browse.sort, u), u>>)
                                     THEN 0 ELSE 1
              /\ browse.state = "read" => browse.seen[u] = 1

LEMMA SteadyRows ==
    ASSUME Base, ListedOK, NEW r \in Requests, Arrive(r) \/ Serve(r)
    PROVE  \E steady \in SUBSET browse.steady :
              /\ browse' = [browse EXCEPT !.steady = steady]
              /\ \A u \in steady : row'[u] # None /\ (browse.sort = "username" => row'[u].name = row[u].name)
<1>1. browse \in Listing /\ browse.steady \subseteq Users /\ \A u \in browse.steady : row[u] # None
  BY DEF ListedOK, Listing
<1>2. browse' = browse \/ UpdateName(r) \/ DeleteRow(r)
  <2>1. CASE Arrive(r)
    BY <2>1 DEF Arrive, AskProfile, Identify, Leave, Settings, Upload, Rename, Badges, Register, Delete,
         PutBlob, PublishPrekey, UpdateBlocks
  <2>2. CASE Serve(r)
    BY <2>2 DEF Serve, LookInCache, ReadPublic, FillCache, EnterSession, ParseProfile, WriteSession,
         PersistProfile, StoreFile, ShowInSessions, RemoveOld, CheckRename, CheckUnique,
         UpdateName, UpdateBadges, Reread, Invalidate, CheckDelete, DeletePrekeys, DeleteBlocks,
         DeleteRow, Disconnect, RemoveFiles, CompareVersion, StoreBlob, UpsertPrekey,
         Fingerprint, CountTags, InsertTag, RemoveTag, Abandon
  <2>. QED  BY <2>1, <2>2
<1>3. ASSUME NEW u \in browse.steady, ~(DeleteRow(r) /\ job[r].user = u),
             browse.sort = "username" => ~(UpdateName(r) /\ job[r].user = u)
      PROVE  row'[u] # None /\ (browse.sort = "username" => row'[u].name = row[u].name)
  <2>1. u \in Users /\ row[u] # None
    BY <1>1
  <2>. QED  BY <1>3, <2>1, NameChanges
<1>4. ASSUME NEW steady \in SUBSET browse.steady, browse' = [browse EXCEPT !.steady = steady],
             \A u \in steady : /\ ~(DeleteRow(r) /\ job[r].user = u)
                               /\ browse.sort = "username" => ~(UpdateName(r) /\ job[r].user = u)
      PROVE  \E kept \in SUBSET browse.steady :
              /\ browse' = [browse EXCEPT !.steady = kept]
              /\ \A u \in kept : row'[u] # None /\ (browse.sort = "username" => row'[u].name = row[u].name)
  BY <1>3, <1>4
<1>5. browse = [browse EXCEPT !.steady = browse.steady]
  BY <1>1 DEF Listing
<1>6. CASE UpdateName(r) /\ browse' # browse
  <2>. DEFINE steady == IF browse.sort = "username" THEN browse.steady \ {job[r].user} ELSE browse.steady
  <2>1. browse' = [browse EXCEPT !.steady = steady]
    BY <1>6 DEF UpdateName
  <2>2. ~DeleteRow(r)
    BY <1>6 DEF UpdateName, DeleteRow, At
  <2>3. steady \in SUBSET browse.steady /\ \A u \in steady : browse.sort = "username" => job[r].user # u
    OBVIOUS
  <2>. HIDE DEF steady
  <2>. QED  BY <1>4, <2>1, <2>2, <2>3
<1>7. CASE DeleteRow(r)
  <2>. DEFINE steady == browse.steady \ {job[r].user}
  <2>1. browse' = [browse EXCEPT !.steady = steady]
    BY <1>7 DEF DeleteRow
  <2>2. \A u \in steady : job[r].user # u
    OBVIOUS
  <2>. QED  BY <1>4, <2>1, <2>2
<1>8. CASE browse' = browse /\ ~DeleteRow(r)
  <2>1. CASE UpdateName(r) /\ row' = row
    BY <1>1, <1>5, <1>8, <2>1
  <2>2. CASE ~UpdateName(r)
    BY <1>4, <1>5, <1>8, <2>2
  <2>3. CASE UpdateName(r) /\ row' # row
    <3>. DEFINE steady == IF browse.sort = "username" THEN browse.steady \ {job[r].user} ELSE browse.steady
    <3>1. browse' = [browse EXCEPT !.steady = steady]
      BY <2>3 DEF UpdateName
    <3>2. steady \in SUBSET browse.steady /\ \A u \in steady : browse.sort = "username" => job[r].user # u
      OBVIOUS
    <3>. HIDE DEF steady
    <3>. QED  BY <1>4, <1>8, <3>1, <3>2
  <2>. QED  BY <2>1, <2>2, <2>3
<1>. QED  BY <1>2, <1>6, <1>7, <1>8

LEMMA ListedServed ==
    ASSUME Base, ListedOK, NEW r \in Requests, Arrive(r) \/ Serve(r)
    PROVE  ListedOK'
<1>1. PICK steady \in SUBSET browse.steady :
              /\ browse' = [browse EXCEPT !.steady = steady]
              /\ \A u \in steady : row'[u] # None /\ (browse.sort = "username" => row'[u].name = row[u].name)
  BY SteadyRows
<1>2. browse \in Listing
  BY DEF ListedOK
<1>3. /\ browse' \in Listing /\ browse'.steady = steady /\ browse'.state = browse.state
      /\ browse'.sort = browse.sort /\ browse'.cursor = browse.cursor /\ browse'.seen = browse.seen
  BY <1>1, <1>2 DEF Listing
<1>4. \A u \in steady : SortKey(row', browse.sort, u) = SortKey(row, browse.sort, u)
  BY <1>1 DEF SortKey
<1>5. \A u \in browse'.steady : row'[u] # None
  BY <1>1, <1>3
<1>6. browse'.state = "none" => browse'.steady = {}
  BY <1>3 DEF ListedOK
<1>7. ASSUME Cardinality(Malformed) <= PageLimit, NEW u \in browse'.steady
      PROVE  /\ browse'.state = "open" =>
                    browse'.seen[u] = IF After(browse'.sort, browse'.cursor, <<SortKey(row', browse'.sort, u), u>>)
                                      THEN 0 ELSE 1
             /\ browse'.state = "read" => browse'.seen[u] = 1
  <2>1. u \in browse.steady /\ u \in steady
    BY <1>3
  <2>. QED  BY <1>3, <1>4, <1>7, <2>1 DEF ListedOK
<1>. QED  BY <1>3, <1>5, <1>6, <1>7 DEF ListedOK

LEMMA ListedBegins ==
    ASSUME Base, ListedOK, StartBrowse
    PROVE  ListedOK'
<1>1. PICK sort \in Sorts :
          browse' = [NoBrowse EXCEPT !.state = "open", !.sort = sort,
                                     !.steady = {u \in Users \ Malformed : Exists(u)}]
  BY DEF StartBrowse
<1>2. /\ browse'.state = "open" /\ browse'.sort = sort /\ browse'.cursor = <<>>
      /\ browse'.seen = [u \in Users |-> 0] /\ browse'.steady = {u \in Users \ Malformed : Exists(u)}
  BY <1>1 DEF NoBrowse
<1>3. browse' \in Listing
  BY <1>1 DEF NoBrowse, Listing
<1>4. row' = row
  BY DEF StartBrowse
<1>. QED  BY <1>2, <1>3, <1>4 DEF ListedOK, After, Exists

LEMMA ListedPage ==
    ASSUME Base, ListedOK, list_users_page
    PROVE  ListedOK'
<1>. DEFINE rows == {u \in Users : Exists(u)}
            key == [u \in rows |-> IF browse.sort = "username" THEN row[u].name ELSE Created[u]]
            page == Page(rows, Malformed, key, browse.sort, PageLimit, browse.cursor)
            next == NextCursor(rows, Malformed, key, browse.sort, PageLimit, browse.cursor)
            rest == {u \in rows : After(browse.sort, browse.cursor, Place(key, u))}
<1>1. /\ browse.state = "open" /\ row' = row
      /\ browse' = [browse EXCEPT !.cursor = next,
                        !.seen = [u \in Users |-> IF u \in page THEN @[u] + 1 ELSE @[u]],
                        !.state = IF next = <<>> THEN "read" ELSE "open"]
  BY DEF list_users_page
<1>2. rows \in SUBSET Nat /\ IsFiniteSet(rows) /\ IsFiniteSet(Malformed) /\ PageLimit \in Nat \ {0}
  <2>1. rows \subseteq Users /\ Malformed \subseteq Users /\ Users \subseteq Nat /\ IsFiniteSet(Users)
    BY DataAssumption
  <2>. QED  BY <2>1, FS_Subset, DataAssumption
<1>3. key \in [rows -> Nat] /\ \A u \in rows : key[u] = SortKey(row, browse.sort, u)
  <2>1. \A u \in rows : row[u] \in Row /\ row[u].name \in Names
    BY DEF Base, DataOK, Exists, Row
  <2>. QED  BY <2>1, DataAssumption DEF SortKey
<1>4. browse \in Listing /\ browse.steady \subseteq rows \ Malformed
  BY DEF ListedOK, Listing, Exists
<1>. HIDE DEF rows, key, page, next, rest
<1>5. /\ page \subseteq rest /\ rest \subseteq rows
      /\ \/ next = <<>> /\ (Cardinality(Malformed) <= PageLimit => rest \ Malformed \subseteq page)
         \/ \E last \in page :
               /\ next = Place(key, last) /\ next # <<>>
               /\ \A u \in page : ~Ahead(browse.sort, key, last, u)
               /\ \A u \in (rest \ Malformed) \ page : Ahead(browse.sort, key, last, u)
  <2>1. \A u : Place(key, u) # <<>>
    <3>1. ASSUME NEW u, Place(key, u) = <<>> PROVE FALSE
      <4>1. Len(Place(key, u)) = 2 /\ Len(<<>>) = 0
        BY DEF Place
      <4>. QED  BY <3>1, <4>1
    <3>. QED  BY <3>1
  <2>2. page \subseteq rest /\ rest \subseteq rows
    BY <1>2, <1>3, PageCuts DEF page, rest
  <2>3. \/ next = <<>> /\ (Cardinality(Malformed) <= PageLimit => rest \ Malformed \subseteq page)
        \/ \E last \in page :
               /\ next = Place(key, last)
               /\ \A u \in page : ~Ahead(browse.sort, key, last, u)
               /\ \A u \in (rest \ Malformed) \ page : Ahead(browse.sort, key, last, u)
    BY <1>2, <1>3, PageCuts DEF page, next, rest
  <2>. QED  BY <2>1, <2>2, <2>3
<1>6. next \in {<<>>} \cup (Nat \X Nat)
  <2>1. \A u \in rows : Place(key, u) \in Nat \X Nat
    BY <1>2, <1>3 DEF Place
  <2>. QED  BY <1>5, <2>1
<1>7. /\ browse' \in Listing /\ browse'.steady = browse.steady /\ browse'.sort = browse.sort
      /\ browse'.cursor = next /\ browse'.state = IF next = <<>> THEN "read" ELSE "open"
      /\ \A u \in Users : browse'.seen[u] = IF u \in page THEN browse.seen[u] + 1 ELSE browse.seen[u]
  <2>. DEFINE shown == [u \in Users |-> IF u \in page THEN browse.seen[u] + 1 ELSE browse.seen[u]]
              state == IF next = <<>> THEN "read" ELSE "open"
  <2>1. shown \in [Users -> Nat]
    BY <1>4 DEF Listing
  <2>2. state \in {"none", "open", "read"}
    OBVIOUS
  <2>3. browse' = [browse EXCEPT !.cursor = next, !.seen = shown, !.state = state]
    BY <1>1
  <2>4. \A u \in Users : shown[u] = IF u \in page THEN browse.seen[u] + 1 ELSE browse.seen[u]
    OBVIOUS
  <2>. HIDE DEF shown, state
  <2>5. /\ browse' \in Listing /\ browse'.steady = browse.steady /\ browse'.sort = browse.sort
        /\ browse'.cursor = next /\ browse'.state = state /\ browse'.seen = shown
    BY <1>4, <1>6, <2>1, <2>2, <2>3 DEF Listing
  <2>. QED  BY <2>4, <2>5 DEF state
<1>8. ASSUME Cardinality(Malformed) <= PageLimit, NEW u \in browse.steady
      PROVE  browse'.seen[u] = IF next # <<>> /\ After(browse.sort, next, Place(key, u)) THEN 0 ELSE 1
  <2>1. u \in rows /\ u \in Users /\ u \notin Malformed
    BY <1>4, DataAssumption DEF rows
  <2>2. /\ u \in rest => browse.seen[u] = 0
        /\ u \notin rest => browse.seen[u] = 1
    <3>1. Place(key, u) = <<SortKey(row, browse.sort, u), u>>
      BY <1>3, <2>1 DEF Place
    <3>2. browse.seen[u] = IF After(browse.sort, browse.cursor, Place(key, u)) THEN 0 ELSE 1
      BY <1>1, <1>8, <3>1 DEF ListedOK
    <3>. QED  BY <2>1, <3>2 DEF rest
  <2>3. CASE next = <<>>
    <3>1. u \in page <=> u \in rest
      BY <1>5, <1>8, <2>1, <2>3
    <3>. QED  BY <1>7, <2>1, <2>2, <2>3, <3>1
  <2>4. CASE next # <<>>
    <3>1. PICK last \in page :
               /\ next = Place(key, last)
               /\ \A v \in page : ~Ahead(browse.sort, key, last, v)
               /\ \A v \in (rest \ Malformed) \ page : Ahead(browse.sort, key, last, v)
      BY <1>5, <2>4
    <3>2. After(browse.sort, next, Place(key, u)) <=> Ahead(browse.sort, key, last, u)
      BY <2>4, <3>1 DEF After, Ahead
    <3>3. CASE u \in page
      BY <1>5, <1>7, <2>1, <2>2, <3>1, <3>2, <3>3
    <3>4. CASE u \in rest \ page
      BY <1>7, <2>1, <2>2, <2>4, <3>1, <3>2, <3>4
    <3>5. CASE u \notin rest
      <4>1. browse.cursor # <<>> /\ browse.cursor \in Nat \X Nat
        BY <1>4, <2>1, <3>5 DEF rest, After, Listing
      <4>2. ~Precedes(browse.sort, browse.cursor, Place(key, u))
        BY <2>1, <3>5, <4>1 DEF rest, After
      <4>3. Precedes(browse.sort, browse.cursor, Place(key, last))
        BY <1>5, <3>1, <4>1 DEF rest, After
      <4>4. Place(key, u) \in Nat \X Nat /\ Place(key, last) \in Nat \X Nat
        BY <1>2, <1>3, <1>5, <2>1 DEF Place
      <4>5. ~Ahead(browse.sort, key, last, u)
        BY <4>1, <4>2, <4>3, <4>4, Ordered DEF Ahead
      <4>. QED  BY <1>5, <1>7, <2>1, <2>2, <3>2, <3>5, <4>5
    <3>. QED  BY <3>3, <3>4, <3>5
  <2>. QED  BY <2>3, <2>4
<1>9. \A u \in browse.steady : Place(key, u) = <<SortKey(row, browse.sort, u), u>>
  BY <1>3, <1>4 DEF Place
<1>10. \A u \in browse.steady : row[u] # None
  BY DEF ListedOK
<1>. QED  BY <1>1, <1>7, <1>8, <1>9, <1>10 DEF ListedOK

\* An account that is there throughout a browse is on exactly one page,
\* whatever accounts come, go and are renamed between the pages (list_users_page).
THEOREM EachListedOnce == Spec => []ListedOnce
<1>1. Init => Base /\ ListedOK
  <2>. SUFFICES ASSUME Init PROVE ListedOK
    BY BaseInit
  <2>1. browse = NoBrowse
    BY DEF Init
  <2>2. NoBrowse \in Listing /\ NoBrowse.steady = {}
    BY DEF NoBrowse, Listing, Sorts
  <2>. QED  BY <2>1, <2>2 DEF ListedOK
<1>2. Base /\ ListedOK /\ [Next]_vars => Base' /\ ListedOK'
  <2>. SUFFICES ASSUME Base, ListedOK, [Next]_vars PROVE ListedOK'
    BY BaseKept
  <2>1. CASE UNCHANGED <<row, browse>>
    BY <2>1 DEF ListedOK
  <2>2. CASE Tick \/ UNCHANGED vars
    BY <2>1, <2>2 DEF Tick, vars
  <2>. QED  BY <2>2, ListedServed, ListedBegins, ListedPage DEF Next
<1>3. ListedOK => ListedOnce
  <2>. SUFFICES ASSUME ListedOK, Cardinality(Malformed) <= PageLimit, NEW u \in browse.steady
                PROVE  browse.seen[u] <= 1 /\ (browse.state = "read" => browse.seen[u] = 1)
    BY DEF ListedOnce
  <2>1. browse.state \in {"open", "read"}
    BY DEF ListedOK, Listing
  <2>2. browse.state = "open" => browse.seen[u] \in {0, 1}
    BY DEF ListedOK
  <2>3. browse.state = "read" => browse.seen[u] = 1
    BY DEF ListedOK
  <2>. QED  BY <2>1, <2>2, <2>3
<1>. QED  BY <1>1, <1>2, <1>3, PTL DEF Spec
=============================================================================
