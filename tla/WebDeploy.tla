----------------------------- MODULE WebDeploy -----------------------------
(***************************************************************************)
(* The preparation of the web client before the server listens             *)
(* (web/repository.rs, startup.rs): a checkout of the client's repository  *)
(* is brought to the wanted revision and built, each command may fail, the *)
(* process may die in the middle of any of them, and a supervisor starts   *)
(* it again (docker-compose.yml).                                          *)
(*                                                                         *)
(* A revision is a number, larger for later ones; 0 stands for none.       *)
(* Damage to the checkout is known by the stage at which git trips over it *)
(* (a lock file left behind, a broken config, missing objects), "lock" is  *)
(* the damage that git fetch reports with one of the texts of              *)
(* is_stale_git_lock.  The code looks at the exit status and the text of   *)
(* a command only: it cannot tell damage from other failures of a stage,   *)
(* nor the checkout from a repository that encloses its path.              *)
(***************************************************************************)
EXTENDS Naturals

CONSTANTS
    Damages,        \* damage: the stage at which git trips over it, or a lock
    MaxRevision,    \* bound: revisions the remote publishes
    MaxFaults       \* bound: failures and crashes in one behaviour

\* Stages whose failure prepare_once takes for a corrupt checkout.
LocalStages == {"InspectCheckout", "SetOrigin", "Checkout", "Reset", "Clean"}

ASSUME WebDeployAssumption ==
    /\ Damages \subseteq LocalStages \cup {"lock", "Fetch", "ResolveRevision"}
    /\ MaxRevision \in Nat \ {0} /\ MaxFaults \in Nat

VARIABLES
    disk,           \* what is at the checkout's path
    remote,         \* the revision that origin/HEAD or the configured tag names
    fresh,          \* the configuration follows origin/HEAD, not a tag
    enclosed,       \* the path lies in another repository's work tree
    proc,           \* the process: its stage, its attempt, the revision resolved
    wanted,         \* history: remote when this start began
    cause,          \* history: the stage and reason of this start's last failure
    faults          \* failures and crashes left

deployVars == <<disk, remote, fresh, enclosed, proc, wanted, cause, faults>>

Revisions == 0..MaxRevision
Clones == [kind: {"repo"}, damage: Damages \cup {"none"}, known: Revisions,
           tree: Revisions, deps: Revisions, dist: Revisions]
\* A path with nothing, a file, a directory that is no repository of its own,
\* or a repository without anything in it.
Bare(kind) == [kind |-> kind, damage |-> "none", known |-> 0, tree |-> 0, deps |-> 0, dist |-> 0]
Stages == LocalStages \cup
          {"ToolGit", "ToolBun", "Clone", "Fetch", "ValidateTag", "ResolveRevision",
           "DependencyCleanup", "BunInstall", "BunBuild", "VerifyOutput"}

Start == [stage |-> "ToolGit", attempt |-> 1, revision |-> 0]
NoFailure == [stage |-> "none", why |-> "none"]
-----------------------------------------------------------------------------
\* prepare_once begins with the checkout that is there, or clones.
FirstStage(d) == IF d.kind = "absent" THEN "Clone" ELSE "InspectCheckout"

\* The stage after a successful one.
After(stage) ==
    CASE stage = "ToolGit" -> "ToolBun"
      [] stage = "ToolBun" -> FirstStage(disk)
      [] stage \in {"Clone", "InspectCheckout"} -> "SetOrigin"
      [] stage = "SetOrigin" -> "Fetch"
      [] stage = "Fetch" -> IF fresh THEN "ResolveRevision" ELSE "ValidateTag"
      [] stage = "ValidateTag" -> "ResolveRevision"
      [] stage = "ResolveRevision" -> "Checkout"
      [] stage = "Checkout" -> "Reset"
      [] stage = "Reset" -> "Clean"
      [] stage = "Clean" -> "DependencyCleanup"
      [] stage = "DependencyCleanup" -> "BunInstall"
      [] stage = "BunInstall" -> "BunBuild"
      [] stage = "BunBuild" -> "VerifyOutput"

\* git trips over what is on the disk.  In a directory without a repository of
\* its own it takes the one that encloses it, if there is one.
Trips(stage) ==
    \/ stage = "InspectCheckout" /\ disk.kind # "repo" /\ ~(enclosed /\ disk.kind = "directory")
    \/ disk.kind = "repo" /\ stage = (IF disk.damage = "lock" THEN "Fetch" ELSE disk.damage)

\* Mutant: git clean leaves the ignored files, the last build among them.
Cleaned_KeepsIgnored(d) == d

\* git clean -fdx removes the build, which is not tracked.
Cleaned(d) == [d EXCEPT !.dist = 0]

\* What a command does to the checkout.  In a directory that is no repository
\* git works on the enclosing one, whose contents are not in the model, and
\* leaves no build in the directory.
Effect(stage) ==
    IF stage = "Clone" THEN [Bare("repo") EXCEPT !.known = remote]
    ELSE IF disk.kind # "repo" THEN disk
    ELSE
    CASE stage = "Fetch" -> [disk EXCEPT !.known = remote]
      [] stage \in {"Checkout", "Reset"} -> [disk EXCEPT !.tree = proc.revision]
      [] stage = "Clean" -> Cleaned(disk)
      [] stage = "DependencyCleanup" -> [disk EXCEPT !.deps = 0]
      [] stage = "BunInstall" -> [disk EXCEPT !.deps = disk.tree]
      [] stage = "BunBuild" -> [disk EXCEPT !.dist = disk.tree]
      [] OTHER -> disk

\* Reasons of failures that need no damage: the tool cannot be started, the
\* three storage texts, and any other nonzero exit ("other": git killed, a
\* quota, an I/O error, an owner that git refuses).  Removals by this process
\* fail as "storage"; another git at work can hold a lock that git fetch wants.
Causes(stage) ==
    {"storage"} \cup
    (IF stage \in {"DependencyCleanup", "recover"} THEN {} ELSE {"tool", "other"}) \cup
    (IF stage = "Fetch" THEN {"lock"} ELSE {}) \cup
    (IF stage \in {"Clone", "Fetch", "ResolveRevision", "BunInstall"} THEN {"network"} ELSE {}) \cup
    (IF stage \in {"BunInstall", "BunBuild"} THEN {"sources"} ELSE {})

\* Mutant: what the command says about permissions and storage is ignored.
Kind_NoStorage(stage, why) ==
    IF why = "tool" THEN "System"
    ELSE IF stage = "Fetch" /\ why = "lock" THEN "LocalCheckout"
    ELSE IF stage \in LocalStages THEN "LocalCheckout" ELSE "Other"

\* Mutant: a lock that git fetch finds is taken for a network failure.
Kind_NoLock(stage, why) ==
    IF why \in {"tool", "storage"} THEN "System"
    ELSE IF stage \in LocalStages THEN "LocalCheckout" ELSE "Other"

\* run: the kind of failure, from the stage and from what the command prints.
\* The kinds that are not "LocalCheckout" all end the start.
Kind(stage, why) ==
    IF why \in {"tool", "storage"} THEN "System"
    ELSE IF stage = "Fetch" /\ why = "lock" THEN "LocalCheckout"
    ELSE IF stage \in LocalStages THEN "LocalCheckout" ELSE "Other"

\* Mutant: the second prepare_once is recovered like the first.
Recovers_Again(why) == Kind(proc.stage, why) = "LocalCheckout"

\* What is taken for a corrupt checkout is recreated on the first attempt.
Recovers(why) == Kind(proc.stage, why) = "LocalCheckout" /\ proc.attempt = 1

\* Any other failure, and a second one, ends the start.
Fail(why) ==
    /\ cause' = [stage |-> proc.stage, why |-> why]
    /\ proc' = [proc EXCEPT !.stage = IF Recovers(why) THEN "recover" ELSE "stopped"]
-----------------------------------------------------------------------------
\* A command or a check of prepare that succeeds.
Succeed ==
    /\ proc.stage \in Stages \ {"ResolveRevision", "VerifyOutput"}
    /\ ~Trips(proc.stage)
    /\ disk' = Effect(proc.stage)
    /\ proc' = [proc EXCEPT !.stage = After(proc.stage)]
    /\ UNCHANGED <<remote, fresh, enclosed, wanted, cause, faults>>

\* rev-parse of origin/HEAD, which set-head has asked the remote for, or of the
\* tag: what was fetched, into the checkout or into the enclosing repository.
ResolveRevision ==
    /\ proc.stage = "ResolveRevision" /\ ~Trips(proc.stage)
    /\ \E revision \in (IF disk.kind = "repo" THEN {disk.known} ELSE wanted..remote) :
          IF revision # 0
          THEN proc' = [proc EXCEPT !.stage = After(proc.stage), !.revision = revision]
               /\ UNCHANGED cause
          ELSE Fail("missing")
    /\ UNCHANGED <<disk, remote, fresh, enclosed, wanted, faults>>

\* prepare looks for the built index, and the server begins to listen.
VerifyOutput ==
    /\ proc.stage = "VerifyOutput"
    /\ IF disk.dist # 0
       THEN proc' = [proc EXCEPT !.stage = "serving"] /\ UNCHANGED cause
       ELSE Fail("output")
    /\ UNCHANGED <<disk, remote, fresh, enclosed, wanted, faults>>

\* A command that fails on a damaged checkout.
Trip ==
    /\ proc.stage \in Stages /\ Trips(proc.stage)
    /\ Fail(IF disk.damage = "lock" THEN "lock" ELSE "damage")
    /\ UNCHANGED <<disk, remote, fresh, enclosed, wanted, faults>>

\* A build that ends well and leaves no index.
BuildsNothing ==
    /\ proc.stage = "BunBuild" /\ faults > 0
    /\ proc' = [proc EXCEPT !.stage = After(proc.stage)]
    /\ faults' = faults - 1
    /\ UNCHANGED <<disk, remote, fresh, enclosed, wanted, cause>>

\* A command, or the removal of the checkout, that fails for a reason of its
\* own.
FailAnyway ==
    /\ proc.stage \in (Stages \ {"VerifyOutput"}) \cup {"recover"} /\ faults > 0
    /\ \E why \in Causes(proc.stage) : Fail(why)
    /\ faults' = faults - 1
    /\ UNCHANGED <<disk, remote, fresh, enclosed, wanted>>

\* Another prepare_once, on an empty path.
Recovered(p) == [p EXCEPT !.stage = "Clone", !.attempt = p.attempt + 1]

\* remove_checkout, for a directory and for a file, then prepare_once again.
remove_checkout ==
    /\ proc.stage = "recover"
    /\ disk' = Bare("absent")
    /\ proc' = Recovered(proc)
    /\ UNCHANGED <<remote, fresh, enclosed, wanted, cause, faults>>

\* What the death of the process can leave of a step half done.
Torn ==
    IF proc.stage = "Clone"
    THEN {Bare("absent"), Bare("directory")} \cup
         {[Bare("repo") EXCEPT !.damage = d] : d \in Damages \cup {"none"}}
    ELSE {disk} \cup
         (IF disk.kind = "repo" THEN {[disk EXCEPT !.damage = d] : d \in Damages} ELSE {}) \cup
         (IF proc.stage = "recover" THEN {Bare("absent")} ELSE {}) \cup
         (IF proc.stage = "recover" /\ disk.kind # "file" THEN {Bare("directory")} ELSE {})

\* The process dies at any time, also while the server runs.
Crash ==
    /\ proc.stage # "stopped" /\ faults > 0
    /\ disk' \in Torn
    /\ proc' = [Start EXCEPT !.stage = "stopped"]
    /\ faults' = faults - 1
    /\ UNCHANGED <<remote, fresh, enclosed, wanted, cause>>

\* The supervisor starts the server again.
Restart ==
    /\ proc.stage = "stopped"
    /\ proc' = Start /\ wanted' = remote /\ cause' = NoFailure
    /\ UNCHANGED <<disk, remote, fresh, enclosed, faults>>

\* A new revision is published.
Publish ==
    /\ remote < MaxRevision
    /\ remote' = remote + 1
    /\ UNCHANGED <<disk, fresh, enclosed, proc, wanted, cause, faults>>

\* Any state of the path, with the remains of earlier starts.
DeployInit ==
    /\ remote = 1
    /\ disk \in {Bare(kind) : kind \in {"absent", "file", "directory"}} \cup
                {c \in Clones : {c.known, c.tree, c.deps, c.dist} \subseteq 0..remote}
    /\ fresh \in BOOLEAN /\ enclosed \in BOOLEAN
    /\ proc = Start /\ wanted = remote /\ cause = NoFailure
    /\ faults = MaxFaults

\* The steps of the process itself.
Work == Succeed \/ ResolveRevision \/ VerifyOutput \/ Trip \/ remove_checkout

DeployNext == Work \/ FailAnyway \/ BuildsNothing \/ Crash \/ Restart \/ Publish

\* The process does not stop in the middle of itself, and the supervisor starts
\* it again (docker-compose.yml: restart: unless-stopped).
DeploySpec == DeployInit /\ [][DeployNext]_deployVars /\ WF_deployVars(Work) /\ WF_deployVars(Restart)
-----------------------------------------------------------------------------
(***************************************************************************)
(* Properties.                                                             *)
(***************************************************************************)
\* Type invariant; only a repository has contents, and a start has at most two
\* attempts.
DeployTypeOK ==
    /\ disk \in Clones \cup {Bare(kind) : kind \in {"absent", "file", "directory"}}
    /\ remote \in 1..MaxRevision /\ wanted \in 1..remote
    /\ fresh \in BOOLEAN /\ enclosed \in BOOLEAN
    /\ proc \in [stage: Stages \cup {"recover", "stopped", "serving"}, attempt: {1, 2},
                 revision: Revisions]
    /\ faults \in 0..MaxFaults

\* A server that listens serves a build of the revision it has reported, with
\* that revision's dependencies, and not one older than the remote had when
\* the start began; nothing of an earlier start or of one that was cut off is
\* left in it (prepare).
ServesItsRevision ==
    proc.stage = "serving" =>
        /\ disk.kind = "repo"
        /\ disk.tree = proc.revision /\ disk.deps = proc.revision /\ disk.dist = proc.revision
        /\ proc.revision >= wanted

\* A checkout is thrown away once in a start, after a command at a stage that
\* works on the checkout alone has failed, or a fetch that found a lock, and
\* never for a failure of the network, of the build, of a tool that cannot be
\* started or one that speaks of permissions or storage (run, prepare;
\* web/tests.rs: fetch_failure_preserves_existing_checkout,
\* permission_failure_preserves_existing_checkout).  That the checkout was
\* damaged does not follow: any other failure at such a stage, and the lock of
\* a git that is still at work, removes an undamaged one too.
OnlyLocalFailuresRemove ==
    [][disk.kind # "absent" /\ disk'.kind = "absent" =>
          /\ proc.attempt = 1
          /\ cause.why \notin {"tool", "storage", "network", "sources"}
          /\ cause.stage \in LocalStages \/ (cause.stage = "Fetch" /\ cause.why = "lock")]_deployVars

\* What no start gets over: damage that shows in git fetch without a lock's
\* text, or when the revision is resolved (a lock left by a killed git remote
\* set-head among it), since External and Source are never recovered; and a
\* directory without a repository inside another repository, which passes for
\* a checkout at every stage and has no build in the end.
Stuck ==
    \/ disk.kind = "repo" /\ disk.damage \in {"Fetch", "ResolveRevision"}
    \/ enclosed /\ disk.kind = "directory"

\* Whatever else is at the checkout's path and wherever earlier starts were cut
\* off, once failures end the server comes up and stays up (prepare).  The
\* remains that make every start end are Stuck; docs/docker-deployment.md:80
\* ("Local checkout corruption is recloned once") knows no such exception.
Heals == <>[](proc.stage = "serving") \/ <>[]Stuck
=============================================================================
