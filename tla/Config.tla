------------------------------- MODULE Config -------------------------------
(***************************************************************************)
(* internal/config/manager.go, cmd/notify-admin and the control database:  *)
(* revisions of the management configuration, and the snapshot, secrets    *)
(* and history cache a pod keeps of them.                                  *)
(*                                                                         *)
(* A revision is a complete document; documents that Build accepts are the *)
(* members of Docs.  Targets, retry policies and hooks of a document have  *)
(* revisions of their own, which notifications record.  The watcher of a pod is one goroutine: it reloads the *)
(* configuration and the secrets one after the other, while calls of       *)
(* Worker.Process read the active snapshot, the history and the secrets.   *)
(* The platform replaces the mounted secrets, kills and starts pods.       *)
(***************************************************************************)
EXTENDS Integers, FiniteSets

CONSTANTS
    Pods,
    Calls,          \* concurrent calls of Worker.Process on a pod
    Targets,
    Refs,           \* names of secrets
    Docs,           \* documents an operator may apply
    HistoryLimit,   \* 64: snapshots in the history cache
    MaxRev          \* bound: revisions applied

NoRef == "none"
NoTarget == "none"
Watcher == "watcher"
Readers == Calls \cup {Watcher}

(* The parts of a document whose entries have revisions.                   *)
Parts == {"targets", "retries", "hooks"}

(* What is told apart in a target: its own revision, whether it is         *)
(* enabled, and the secret its static_header needs, if any.                *)
Target == [revision : Nat \ {0}, enabled : BOOLEAN, ref : Refs \cup {NoRef}]

ASSUME ConfigAssumption ==
    /\ \A doc \in Docs :
         /\ DOMAIN doc = Parts /\ DOMAIN doc.targets \subseteq Targets
         /\ \A t \in DOMAIN doc.targets : doc.targets[t] \in Target
         /\ \A part \in Parts : \A x \in DOMAIN doc[part] : doc[part][x].revision \in Nat \ {0}
    /\ HistoryLimit \in Nat \ {0} /\ MaxRev \in Nat
    /\ Watcher \notin Calls /\ NoRef \notin Refs /\ NoTarget \notin Targets

VARIABLES
    revision,   \* config_revision: the newest revision, 0 before the first
    document,   \* config_snapshot: the document of every revision
    mounted,    \* secrets the platform mounts in each pod
    phase,      \* of a pod: down, starting or up
    current,    \* Manager.current: revision of the active snapshot, 0 is nil
    secrets,    \* Manager.secrets: the secrets in memory
    history,    \* Manager.history: revisions in the cache
    reader      \* where the watcher and the calls of a pod are

cvars == <<revision, document, mounted, phase, current, secrets, history, reader>>
pods == <<phase, current, secrets, history, reader>>

Idle == [pc |-> "idle", rev |-> 0, target |-> NoTarget, snap |-> 0]
At(p, g, pc) == phase[p] = "up" /\ reader[p][g].pc = pc
Goto(p, g, pc) == reader' = [reader EXCEPT ![p][g].pc = pc]
Stop(p, g) == reader' = [reader EXCEPT ![p][g] = Idle]

-----------------------------------------------------------------------------
(* The secrets that the enabled targets of a revision need.                *)
Needs(rev) ==
    IF rev = 0 THEN {}
    ELSE LET targets == document[rev].targets
         IN  {targets[t].ref : t \in {u \in DOMAIN targets : targets[u].enabled}} \ {NoRef}

(* Mutant: only a lower revision of an entry is refused.                   *)
monotonicUnlessLower(old, next) ==
    \A part \in Parts : \A x \in DOMAIN next[part] \cap DOMAIN old[part] :
        next[part][x].revision >= old[part][x].revision

(* A target, retry policy or hook in both documents keeps its revision or  *)
(* raises it, and raises it if anything else in it changed.                *)
monotonic(old, next) ==
    \A part \in Parts : \A x \in DOMAIN next[part] \cap DOMAIN old[part] :
        next[part][x].revision > old[part][x].revision \/ next[part][x] = old[part][x]

(* notify-admin -apply: one transaction under the lock of the row of       *)
(* config_revision.                                                        *)
Apply(doc) ==
    /\ revision < MaxRev
    /\ revision > 0 => monotonic(document[revision], doc)
    /\ revision' = revision + 1
    /\ document' = [r \in 1..(revision + 1) |-> IF r > revision THEN doc ELSE document[r]]
    /\ UNCHANGED <<mounted, pods>>

Mount(p, S) ==
    /\ S # mounted[p]
    /\ mounted' = [mounted EXCEPT ![p] = S]
    /\ UNCHANGED <<revision, document, pods>>

-----------------------------------------------------------------------------
(* History.  The active snapshot and the cache answer at once; otherwise   *)
(* the document is read without the lock of the cache and added under it.  *)
Cached(p, rev) == rev = current[p] \/ rev \in history[p]

(* What the cache holds after the insertion; evicted is any entry.         *)
Insert(p, rev, evicted) ==
    (IF Cardinality(history[p]) >= HistoryLimit THEN history[p] \ {evicted} ELSE history[p])
        \cup {rev}

Fetch(p, g) ==
    /\ At(p, g, "fetch")
    /\ Goto(p, g, "insert")
    /\ UNCHANGED <<revision, document, mounted, phase, current, secrets, history>>

(* The control database does not answer: the reload or the call ends.      *)
FetchFails(p, g) ==
    /\ At(p, g, "fetch")
    /\ Stop(p, g)
    /\ UNCHANGED <<revision, document, mounted, phase, current, secrets, history>>

Remember(p, g) ==
    /\ At(p, g, "insert")
    /\ \E evicted \in history[p] \cup {0} :
         /\ history[p] # {} => evicted # 0
         /\ history' = [history EXCEPT ![p] = Insert(p, reader[p][g].rev, evicted)]
    /\ Goto(p, g, "loaded")
    /\ UNCHANGED <<revision, document, mounted, phase, current, secrets>>

-----------------------------------------------------------------------------
(* Reload: read the revision; load its snapshot; activate it if every      *)
(* secret it needs is in memory.  The active snapshot stays otherwise.     *)
ReadRevision(p) ==
    /\ At(p, Watcher, "idle")
    /\ revision > current[p]
    /\ reader' = [reader EXCEPT ![p][Watcher] =
         [Idle EXCEPT !.rev = revision,
                      !.pc = IF Cached(p, revision) THEN "loaded" ELSE "fetch"]]
    /\ UNCHANGED <<revision, document, mounted, phase, current, secrets, history>>

(* Mutant: an error of Reload ends the loop of Watch.                      *)
AfterReloadReturns(p) ==
    IF Needs(reader[p][Watcher].rev) \subseteq secrets[p] THEN Stop(p, Watcher)
    ELSE Goto(p, Watcher, "returned")

AfterReload(p) == Stop(p, Watcher)

Activate(p) ==
    /\ At(p, Watcher, "loaded")
    /\ current' = [current EXCEPT ![p] =
         IF Needs(reader[p][Watcher].rev) \subseteq secrets[p] THEN reader[p][Watcher].rev ELSE @]
    /\ AfterReload(p)
    /\ UNCHANGED <<revision, document, mounted, phase, secrets, history>>

(* Mutant: the secrets of the active snapshot are not looked for.          *)
CompleteUnchecked(p) == TRUE

Complete(p) == Needs(current[p]) \subseteq mounted[p]

(* LoadSecrets: the mounted secrets replace those in memory, unless one    *)
(* the active snapshot needs is missing.                                   *)
LoadSecrets(p) ==
    /\ At(p, Watcher, "idle")
    /\ secrets[p] # mounted[p]
    /\ Complete(p)
    /\ secrets' = [secrets EXCEPT ![p] = mounted[p]]
    /\ UNCHANGED <<revision, document, mounted, phase, current, history, reader>>

-----------------------------------------------------------------------------
(* Worker.Process for a notification accepted under revision rev: the      *)
(* historical snapshot, the active one, and later the secret, which is     *)
(* looked up in the secrets of that moment.                                *)
Begin(p, c, rev, t) ==
    /\ At(p, c, "idle")
    /\ t \in DOMAIN document[rev].targets
    /\ reader' = [reader EXCEPT ![p][c] =
         [Idle EXCEPT !.rev = rev, !.target = t,
                      !.pc = IF Cached(p, rev) THEN "loaded" ELSE "fetch"]]
    /\ UNCHANGED <<revision, document, mounted, phase, current, secrets, history>>

Allowed(rev, t) ==
    t \in DOMAIN document[rev].targets /\ document[rev].targets[t].enabled

(* application.Allowed on Current().  A blocked call asks for no secret.   *)
Capture(p, c) ==
    /\ At(p, c, "loaded")
    /\ IF Allowed(current[p], reader[p][c].target)
       THEN reader' = [reader EXCEPT ![p][c].pc = "captured", ![p][c].snap = current[p]]
       ELSE Stop(p, c)
    /\ UNCHANGED <<revision, document, mounted, phase, current, secrets, history>>

Ref(p, c) == document[reader[p][c].snap].targets[reader[p][c].target].ref

ResolveSecret(p, c) ==
    /\ At(p, c, "captured")
    /\ Goto(p, c, IF Ref(p, c) \in secrets[p] \cup {NoRef} THEN "send" ELSE "secret_unavailable")
    /\ UNCHANGED <<revision, document, mounted, phase, current, secrets, history>>

Finish(p, c) ==
    /\ At(p, c, "send") \/ At(p, c, "secret_unavailable")
    /\ Stop(p, c)
    /\ UNCHANGED <<revision, document, mounted, phase, current, secrets, history>>

-----------------------------------------------------------------------------
(* run of cmd/notifier: LoadSecrets, then Reload; either error ends the    *)
(* process.                                                                *)
Start(p) ==
    /\ phase[p] = "down"
    /\ phase' = [phase EXCEPT ![p] = "starting"]
    /\ secrets' = [secrets EXCEPT ![p] = mounted[p]]
    /\ UNCHANGED <<revision, document, mounted, current, history, reader>>

Started(p) ==
    /\ phase[p] = "starting"
    /\ revision > 0
    /\ Needs(revision) \subseteq secrets[p]
    /\ phase' = [phase EXCEPT ![p] = "up"]
    /\ current' = [current EXCEPT ![p] = revision]
    /\ history' = [history EXCEPT ![p] = {revision}]
    /\ UNCHANGED <<revision, document, mounted, secrets, reader>>

(* The process ends: one of the errors above, the end of its drain, or     *)
(* killed.  What it kept in memory is gone; the next one begins with the   *)
(* empty manager of NewManager.                                            *)
Exit(p) ==
    /\ phase[p] # "down"
    /\ phase' = [phase EXCEPT ![p] = "down"]
    /\ current' = [current EXCEPT ![p] = 0]
    /\ secrets' = [secrets EXCEPT ![p] = {}]
    /\ history' = [history EXCEPT ![p] = {}]
    /\ reader' = [reader EXCEPT ![p] = [g \in Readers |-> Idle]]
    /\ UNCHANGED <<revision, document, mounted>>

Init ==
    /\ revision = 0
    /\ document = <<>>
    /\ mounted = [p \in Pods |-> {}]
    /\ phase = [p \in Pods |-> "down"]
    /\ current = [p \in Pods |-> 0]
    /\ secrets = [p \in Pods |-> {}]
    /\ history = [p \in Pods |-> {}]
    /\ reader = [p \in Pods |-> [g \in Readers |-> Idle]]

Call(p, c) ==
    \/ \E rev \in 1..revision : \E t \in DOMAIN document[rev].targets : Begin(p, c, rev, t)
    \/ Fetch(p, c) \/ FetchFails(p, c) \/ Remember(p, c)
    \/ Capture(p, c) \/ ResolveSecret(p, c) \/ Finish(p, c)

Watch(p) ==
    \/ ReadRevision(p)
    \/ Fetch(p, Watcher) \/ FetchFails(p, Watcher) \/ Remember(p, Watcher)
    \/ Activate(p)
    \/ LoadSecrets(p)

Next ==
    \/ \E doc \in Docs : Apply(doc)
    \/ \E p \in Pods :
         \/ \E S \in SUBSET Refs : Mount(p, S)
         \/ Start(p) \/ Started(p) \/ Exit(p)
         \/ Watch(p)
         \/ \E c \in Calls : Call(p, c)

(* The tickers of Watch never stop while the pod is up.  The select of its *)
(* loop takes each ready case in the end, so LoadSecrets is not overtaken  *)
(* for ever by reloads that fail; and the control database is not away for *)
(* ever.                                                                   *)
Fairness ==
    \A p \in Pods :
        /\ WF_cvars(ReadRevision(p) \/ Remember(p, Watcher) \/ Activate(p))
        /\ SF_cvars(Fetch(p, Watcher))
        /\ SF_cvars(LoadSecrets(p))

Spec == Init /\ [][Next]_cvars /\ Fairness

-----------------------------------------------------------------------------
(* manager.go:60-66,125-131, worker.go:62,99: a call finds the secret of   *)
(* the target it was allowed to use, however revisions and secrets are     *)
(* replaced, unless its pod activated a newer revision meanwhile: the      *)
(* snapshot is captured, the secret is not.                                *)
SecretLostOnlyByReload ==
    \A p \in Pods, c \in Calls :
        At(p, c, "secret_unavailable") => current[p] > reader[p][c].snap

(* main.go:71,88-119 of notify-admin: as long as a target, retry policy or *)
(* hook stays in the configuration its revision identifies its contents,   *)
(* across any number of documents.  (One that is removed and comes back    *)
(* may reuse a revision: only neighbouring documents are compared.)        *)
RevisionIdentifies ==
    \A r, s \in 1..revision : \A part \in Parts : \A x \in DOMAIN document[r][part] :
        /\ r < s
        /\ \A q \in r..s : x \in DOMAIN document[q][part]
        => \/ document[r][part][x].revision < document[s][part][x].revision
           \/ document[r][part][x] = document[s][part][x]

(* design.md:1348 says that pods refresh by themselves and need no         *)
(* restart: a pod whose mounted secrets satisfy the newest revision ends   *)
(* up with it.                                                             *)
RefreshesWithoutRestart ==
    \A p \in Pods : []<>(\/ phase[p] # "up"
                         \/ current[p] = revision
                         \/ ~(Needs(revision) \subseteq mounted[p]))

(* manager.go:202-231: a pod ends up with the newest revision if the       *)
(* secrets mounted in it satisfy both that revision and the one it has.    *)
(* With a mount that satisfies only the newest one it may stay behind: the *)
(* reload waits for the new secret and the secrets for the reload.         *)
CatchesUp ==
    \A p \in Pods : []<>(\/ phase[p] # "up"
                         \/ current[p] = revision
                         \/ ~(Needs(revision) \cup Needs(current[p]) \subseteq mounted[p]))
=============================================================================
