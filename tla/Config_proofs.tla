--------------------------- MODULE Config_proofs ---------------------------
(* Revisions identify contents across any number of documents, and a call  *)
(* loses its secret only to a newer revision, for any number of pods,      *)
(* calls, documents and secrets.                                           *)
EXTENDS Config, TLAPS

(* The revisions and documents of the control database.                    *)
StoreOK ==
    /\ revision \in Nat
    /\ document \in [1..revision -> Docs]

LEMMA StoreStep ==
    ASSUME StoreOK, [Next]_cvars
    PROVE  /\ StoreOK' /\ revision' >= revision
           /\ \A r \in 1..revision : document'[r] = document[r]
           /\ \/ revision' = revision /\ document' = document
              \/ \E doc \in Docs : Apply(doc)
  <1>1. ASSUME NEW doc \in Docs, Apply(doc)
        PROVE  /\ StoreOK' /\ revision' >= revision
               /\ \A r \in 1..revision : document'[r] = document[r]
    BY <1>1 DEF Apply, StoreOK
  <1>2. ASSUME NEW p \in Pods,
               \/ \E S \in SUBSET Refs : Mount(p, S)
               \/ Start(p) \/ Started(p) \/ Exit(p)
               \/ Watch(p)
               \/ \E c \in Calls : Call(p, c)
        PROVE  UNCHANGED <<revision, document>>
    BY <1>2, Zenon DEF Mount, Start, Started, Exit, Watch, Call, ReadRevision, Fetch,
         FetchFails, Remember, Activate, LoadSecrets, Begin, Capture, ResolveSecret, Finish
  <1>3. CASE UNCHANGED <<revision, document>>
    BY <1>3 DEF StoreOK
  <1>4. CASE UNCHANGED cvars
    BY <1>3, <1>4 DEF cvars
  <1>. QED
    BY <1>1, <1>2, <1>3, <1>4 DEF Next

LEMMA DocType ==
    ASSUME StoreOK, NEW r \in 1..revision, NEW part \in Parts,
           NEW x \in DOMAIN document[r][part]
    PROVE  document[r][part][x].revision \in Nat
  BY ConfigAssumption DEF StoreOK

LEMMA IdentifiesStep ==
    ASSUME StoreOK, RevisionIdentifies, NEW doc \in Docs, Apply(doc)
    PROVE  RevisionIdentifies'
  <1>1. /\ revision \in Nat /\ revision' = revision + 1
        /\ \A r \in 1..revision : document'[r] = document[r]
        /\ document'[revision + 1] = doc
        /\ revision > 0 => monotonic(document[revision], doc)
    BY DEF Apply, StoreOK
  <1> SUFFICES ASSUME NEW r \in 1..revision', NEW s \in 1..revision',
                      NEW part \in Parts, NEW x \in DOMAIN document'[r][part], r < s,
                      \A q \in r..s : x \in DOMAIN document'[q][part]
               PROVE  \/ document'[r][part][x].revision < document'[s][part][x].revision
                      \/ document'[r][part][x] = document'[s][part][x]
    BY DEF RevisionIdentifies
  <1>2. CASE s <= revision
    <2>1. r \in 1..revision /\ s \in 1..revision
      BY <1>1, <1>2
    <2>2. \A q \in r..s : q \in 1..revision
      BY <1>1, <1>2
    <2>3. x \in DOMAIN document[r][part] /\ \A q \in r..s : x \in DOMAIN document[q][part]
      BY <1>1, <2>1, <2>2
    <2>. QED
      BY <1>1, <2>1, <2>3 DEF RevisionIdentifies
  <1>3. CASE s = revision + 1
    <2>1. r \in 1..revision /\ revision \in 1..revision /\ revision > 0
      BY <1>1, <1>3
    <2>2. \A q \in r..revision : q \in 1..revision /\ q \in r..s
      BY <1>1, <1>3
    <2>3. /\ x \in DOMAIN document[r][part] /\ x \in DOMAIN document[revision][part]
          /\ x \in DOMAIN doc[part]
          /\ \A q \in r..revision : x \in DOMAIN document[q][part]
      BY <1>1, <1>3, <2>1, <2>2
    <2>4. \/ doc[part][x].revision > document[revision][part][x].revision
          \/ doc[part][x] = document[revision][part][x]
      BY <1>1, <2>1, <2>3 DEF monotonic
    <2>5. \/ r = revision
          \/ document[r][part][x].revision < document[revision][part][x].revision
          \/ document[r][part][x] = document[revision][part][x]
      BY <1>1, <2>1, <2>3 DEF RevisionIdentifies
    <2>6. /\ document[r][part][x].revision \in Nat
          /\ document[revision][part][x].revision \in Nat
          /\ doc[part][x].revision \in Nat
      BY <2>1, <2>3, DocType, ConfigAssumption
    <2>7. document'[r] = document[r] /\ document'[s] = doc
      BY <1>1, <1>3, <2>1
    <2>. QED
      BY <2>4, <2>5, <2>6, <2>7
  <1>. QED
    BY <1>1, <1>2, <1>3

(* main.go:71,88-119 of notify-admin: as long as a target, retry policy or *)
(* hook stays in the configuration its revision identifies its contents,   *)
(* across any number of documents, although each is only compared with the *)
(* one before it.                                                          *)
THEOREM RevisionsIdentify == Spec => []RevisionIdentifies
  <1>1. Init => StoreOK /\ RevisionIdentifies
    BY DEF Init, StoreOK, RevisionIdentifies
  <1>2. StoreOK /\ RevisionIdentifies /\ [Next]_cvars => StoreOK' /\ RevisionIdentifies'
    <2> SUFFICES ASSUME StoreOK, RevisionIdentifies, [Next]_cvars
                 PROVE  StoreOK' /\ RevisionIdentifies'
      OBVIOUS
    <2>1. CASE revision' = revision /\ document' = document
      BY <2>1, StoreStep DEF RevisionIdentifies
    <2>2. CASE \E doc \in Docs : Apply(doc)
      BY <2>2, StoreStep, IdentifiesStep
    <2>. QED
      BY <2>1, <2>2, StoreStep
  <1>. QED
    BY <1>1, <1>2, PTL DEF Spec
-----------------------------------------------------------------------------
(* Secrets *)

Pcs == {"idle", "fetch", "insert", "loaded", "captured", "send", "secret_unavailable"}
Reader == [pc : Pcs, rev : Nat, target : Targets \cup {NoTarget}, snap : Nat]

TypeOK ==
    /\ StoreOK
    /\ phase \in [Pods -> {"down", "starting", "up"}]
    /\ current \in [Pods -> Nat]
    /\ secrets \in [Pods -> SUBSET Refs] /\ mounted \in [Pods -> SUBSET Refs]
    /\ reader \in [Pods -> [Readers -> Reader]]

(* The watcher is about to activate a newer revision than the active one.  *)
WatcherOK(p) ==
    reader[p][Watcher].pc \in {"fetch", "insert", "loaded"} =>
        reader[p][Watcher].rev \in (current[p] + 1)..revision

(* A call past Allowed holds an active snapshot of this pod, the newest    *)
(* one unless it has been replaced; there the target is enabled.           *)
CallOK(p, c) ==
    /\ reader[p][c].pc \in {"captured", "send", "secret_unavailable"} =>
         /\ reader[p][c].snap \in 1..current[p]
         /\ Allowed(reader[p][c].snap, reader[p][c].target)
    /\ reader[p][c].pc = "secret_unavailable" => current[p] > reader[p][c].snap

(* The active snapshot of a pod has its secrets.                           *)
Equipped(p) ==
    \A t \in DOMAIN document[current[p]].targets :
        document[current[p]].targets[t].enabled =>
            document[current[p]].targets[t].ref \in secrets[p] \cup {NoRef}

(* A pod that is up has an active snapshot and its secrets; one that is    *)
(* not has no calls.                                                       *)
PodOK(p) ==
    /\ phase[p] = "up" => current[p] \in 1..revision /\ Equipped(p)
    /\ phase[p] # "up" => \A g \in Readers : reader[p][g] = Idle
    /\ WatcherOK(p)
    /\ \A c \in Calls : CallOK(p, c)

SecretInv == TypeOK /\ \A p \in Pods : PodOK(p)

LEMMA NeedsMeaning ==
    ASSUME NEW rev \in Nat \ {0}, NEW S, Needs(rev) \subseteq S,
           NEW t \in DOMAIN document[rev].targets, document[rev].targets[t].enabled
    PROVE  document[rev].targets[t].ref \in S \cup {NoRef}
  BY DEF Needs

LEMMA IdleType == Idle \in Reader /\ Idle.pc = "idle"
  BY DEF Idle, Reader, Pcs

(* Whoever does not touch a pod preserves what holds of it.                *)
LEMMA PodFrame ==
    ASSUME SecretInv, NEW p \in Pods, revision' \in Nat, revision' >= revision,
           \A r \in 1..revision : document'[r] = document[r],
           phase'[p] = phase[p], current'[p] = current[p], secrets'[p] = secrets[p],
           reader'[p] = reader[p]
    PROVE  PodOK(p)'
  <1>0. PodOK(p) /\ current[p] \in Nat /\ revision \in Nat /\ phase[p] \in {"down", "starting", "up"}
    BY DEF SecretInv, TypeOK, StoreOK
  <1>1. CASE phase[p] = "up"
    <2>1. current[p] \in 1..revision /\ document'[current[p]] = document[current[p]]
      BY <1>0, <1>1 DEF PodOK
    <2>2. Equipped(p)'
      BY <1>0, <1>1, <2>1 DEF PodOK, Equipped
    <2>3. WatcherOK(p)'
      BY <1>0 DEF PodOK, WatcherOK
    <2>4. ASSUME NEW c \in Calls PROVE CallOK(p, c)'
      <3>1. CallOK(p, c)
        BY <1>0 DEF PodOK
      <3>2. \A r \in 1..current[p] : document'[r] = document[r]
        BY <1>0, <2>1
      <3>. QED
        BY <3>1, <3>2 DEF CallOK, Allowed
    <2>. QED
      BY <1>0, <1>1, <2>1, <2>2, <2>3, <2>4 DEF PodOK
  <1>2. CASE phase[p] # "up"
    <2>1. \A g \in Readers : reader'[p][g] = Idle
      BY <1>0, <1>2 DEF PodOK
    <2>2. \A g \in Readers : reader'[p][g].pc = "idle"
      BY <2>1, IdleType
    <2>3. WatcherOK(p)' /\ \A c \in Calls : CallOK(p, c)'
      BY <2>2 DEF Readers, WatcherOK, CallOK
    <2>. QED
      BY <1>2, <2>1, <2>3 DEF PodOK
  <1>. QED
    BY <1>1, <1>2

(* A step of one reader, to a record that is in order.                     *)
LEMMA ReaderInv ==
    ASSUME SecretInv, NEW p \in Pods, NEW g \in Readers, NEW new \in Reader,
           phase[p] = "up",
           reader' = [reader EXCEPT ![p][g] = new],
           UNCHANGED <<revision, document, mounted, phase, current, secrets>>,
           g = Watcher => (new.pc \in {"fetch", "insert", "loaded"} =>
                             new.rev \in (current[p] + 1)..revision),
           g # Watcher =>
             /\ new.pc \in {"captured", "send", "secret_unavailable"} =>
                  new.snap \in 1..current[p] /\ Allowed(new.snap, new.target)
             /\ new.pc = "secret_unavailable" => current[p] > new.snap
    PROVE  SecretInv'
  <1>1. TypeOK'
    BY DEF SecretInv, TypeOK, StoreOK
  <1>2. /\ reader'[p][g] = new /\ \A f \in Readers \ {g} : reader'[p][f] = reader[p][f]
        /\ \A q \in Pods \ {p} : reader'[q] = reader[q]
    BY DEF SecretInv, TypeOK
  <1>3. ASSUME NEW q \in Pods \ {p} PROVE PodOK(q)'
    BY <1>2, PodFrame DEF SecretInv, TypeOK, StoreOK
  <1>4. PodOK(p)'
    <2>0. PodOK(p)
      BY DEF SecretInv
    <2>1. WatcherOK(p)'
      BY <1>2, <2>0 DEF PodOK, WatcherOK, Readers
    <2>2. ASSUME NEW c \in Calls PROVE CallOK(p, c)'
      <3>1. CallOK(p, c) /\ c \in Readers /\ c # Watcher
        BY <2>0, ConfigAssumption DEF PodOK, Readers
      <3>2. CASE c = g
        BY <1>2, <3>1, <3>2 DEF CallOK, Allowed
      <3>3. CASE c # g
        BY <1>2, <3>1, <3>3 DEF CallOK, Allowed
      <3>. QED
        BY <3>2, <3>3
    <2>3. Equipped(p)'
      BY <2>0 DEF PodOK, Equipped
    <2>. QED
      BY <2>0, <2>1, <2>2, <2>3 DEF PodOK
  <1>. QED
    BY <1>1, <1>3, <1>4 DEF SecretInv

LEMMA GotoIs ==
    ASSUME TypeOK, NEW p \in Pods, NEW g \in Readers, NEW pc \in Pcs, Goto(p, g, pc)
    PROVE  /\ reader' = [reader EXCEPT ![p][g] = [reader[p][g] EXCEPT !.pc = pc]]
           /\ [reader[p][g] EXCEPT !.pc = pc] \in Reader
           /\ [reader[p][g] EXCEPT !.pc = pc].pc = pc
           /\ [reader[p][g] EXCEPT !.pc = pc].rev = reader[p][g].rev
           /\ [reader[p][g] EXCEPT !.pc = pc].snap = reader[p][g].snap
           /\ [reader[p][g] EXCEPT !.pc = pc].target = reader[p][g].target
  <1>1. reader[p][g] \in Reader
    BY DEF TypeOK
  <1>2. ASSUME NEW r \in Reader
        PROVE  /\ [r EXCEPT !.pc = pc] \in Reader
               /\ [r EXCEPT !.pc = pc].pc = pc /\ [r EXCEPT !.pc = pc].rev = r.rev
               /\ [r EXCEPT !.pc = pc].snap = r.snap
               /\ [r EXCEPT !.pc = pc].target = r.target
    BY DEF Reader
  <1>3. reader' = [reader EXCEPT ![p][g] = [reader[p][g] EXCEPT !.pc = pc]]
    BY DEF Goto, TypeOK
  <1>. QED
    BY <1>1, <1>2, <1>3

LEMMA StopInv ==
    ASSUME SecretInv, NEW p \in Pods, NEW g \in Readers, phase[p] = "up", Stop(p, g),
           UNCHANGED <<revision, document, mounted, phase, current, secrets>>
    PROVE  SecretInv'
  BY ReaderInv, IdleType DEF Stop

(* History, for the watcher and for calls.                                 *)
LEMMA FetchInv ==
    ASSUME SecretInv, NEW p \in Pods, NEW g \in Readers,
           Fetch(p, g) \/ FetchFails(p, g) \/ Remember(p, g)
    PROVE  SecretInv'
  <1>0. TypeOK /\ PodOK(p) /\ phase[p] = "up"
    BY DEF SecretInv, Fetch, FetchFails, Remember, At
  <1>1. CASE FetchFails(p, g)
    BY <1>0, <1>1, StopInv DEF FetchFails
  <1>2. ASSUME NEW pc \in {"insert", "loaded"}, Goto(p, g, pc),
               reader[p][g].pc \in {"fetch", "insert"},
               UNCHANGED <<revision, document, mounted, phase, current, secrets>>
        PROVE  SecretInv'
    <2>. DEFINE new == [reader[p][g] EXCEPT !.pc = pc]
    <2>1. /\ reader' = [reader EXCEPT ![p][g] = new] /\ new \in Reader /\ new.pc = pc
          /\ new.rev = reader[p][g].rev
      <3>1. pc \in Pcs
        BY <1>2 DEF Pcs
      <3>. QED
        BY <1>0, <1>2, <3>1, GotoIs
    <2>2. g = Watcher => new.rev \in (current[p] + 1)..revision
      BY <1>0, <1>2, <2>1 DEF PodOK, WatcherOK
    <2>. HIDE DEF new
    <2>. QED
      BY <1>0, <1>2, <2>1, <2>2, ReaderInv
  <1>. QED
    BY <1>1, <1>2 DEF Fetch, Remember, At

LEMMA WatchInv == ASSUME SecretInv, NEW p \in Pods, Watch(p) PROVE SecretInv'
  <1>0. TypeOK /\ PodOK(p) /\ Watcher \in Readers /\ revision \in Nat /\ current[p] \in Nat
    BY DEF SecretInv, Readers, TypeOK, StoreOK
  <1>1. CASE ReadRevision(p)
    <2>. DEFINE pc == IF Cached(p, revision) THEN "loaded" ELSE "fetch"
                new == [Idle EXCEPT !.rev = revision, !.pc = pc]
    <2>1. /\ reader' = [reader EXCEPT ![p][Watcher] = new] /\ phase[p] = "up"
          /\ revision > current[p]
          /\ UNCHANGED <<revision, document, mounted, phase, current, secrets>>
      BY <1>1 DEF ReadRevision, At
    <2>2. pc \in Pcs
      BY DEF Pcs
    <2>. HIDE DEF pc
    <2>3. new \in Reader /\ new.rev = revision
      BY <1>0, <2>2 DEF Idle, Reader
    <2>. HIDE DEF new
    <2>4. new.rev \in (current[p] + 1)..revision
      BY <1>0, <2>1, <2>3
    <2>. QED
      BY <1>0, <2>1, <2>3, <2>4, ReaderInv
  <1>2. CASE Fetch(p, Watcher) \/ FetchFails(p, Watcher) \/ Remember(p, Watcher)
    BY <1>0, <1>2, FetchInv
  <1>3. CASE Activate(p)
    <2>. DEFINE rev == reader[p][Watcher].rev
    <2>1. /\ phase[p] = "up" /\ reader[p][Watcher].pc = "loaded"
          /\ Stop(p, Watcher)
          /\ UNCHANGED <<revision, document, mounted, phase, secrets, history>>
          /\ current' = [current EXCEPT ![p] =
                IF Needs(rev) \subseteq secrets[p] THEN rev ELSE current[p]]
      BY <1>3 DEF Activate, At, AfterReload
    <2>2. CASE ~(Needs(rev) \subseteq secrets[p])
      <3>1. current' = current
        BY <2>1, <2>2 DEF SecretInv, TypeOK
      <3>. QED
        BY <1>0, <2>1, <3>1, StopInv
    <2>3. CASE Needs(rev) \subseteq secrets[p]
      <3>1. rev \in (current[p] + 1)..revision /\ rev \in Nat \ {0}
        BY <1>0, <2>1 DEF PodOK, WatcherOK
      <3>2. current' = [current EXCEPT ![p] = rev]
        BY <2>1, <2>3
      <3>3. reader' = [reader EXCEPT ![p][Watcher] = Idle]
        BY <2>1 DEF Stop
      <3>4. TypeOK'
        BY <1>0, <2>1, <3>1, <3>2, <3>3, IdleType DEF TypeOK, StoreOK
      <3>5. ASSUME NEW q \in Pods \ {p} PROVE PodOK(q)'
        BY <1>0, <2>1, <3>2, <3>3, PodFrame DEF SecretInv, TypeOK
      <3>6. current'[p] = rev
        BY <1>0, <3>2 DEF TypeOK
      <3>7. /\ reader'[p][Watcher] = Idle
            /\ \A c \in Calls : reader'[p][c] = reader[p][c]
        BY <1>0, <3>3, ConfigAssumption DEF TypeOK, Readers
      <3>8. Equipped(p)'
        BY <2>1, <2>3, <3>1, <3>6, NeedsMeaning DEF Equipped
      <3>9. ASSUME NEW c \in Calls PROVE CallOK(p, c)'
        BY <1>0, <2>1, <3>1, <3>6, <3>7 DEF PodOK, CallOK, Allowed
      <3>10. WatcherOK(p)'
        BY <3>7, IdleType DEF WatcherOK
      <3>11. PodOK(p)'
        BY <2>1, <3>1, <3>6, <3>8, <3>9, <3>10 DEF PodOK
      <3>. QED
        BY <3>4, <3>5, <3>11 DEF SecretInv
    <2>. QED
      BY <2>2, <2>3
  <1>4. CASE LoadSecrets(p)
    <2>1. /\ phase[p] = "up" /\ Needs(current[p]) \subseteq mounted[p]
          /\ secrets' = [secrets EXCEPT ![p] = mounted[p]]
          /\ UNCHANGED <<revision, document, mounted, phase, current, history, reader>>
      BY <1>4 DEF LoadSecrets, At, Complete
    <2>2. TypeOK'
      BY <1>0, <2>1 DEF TypeOK, StoreOK
    <2>3. ASSUME NEW q \in Pods \ {p} PROVE PodOK(q)'
      BY <1>0, <2>1, PodFrame DEF SecretInv, TypeOK
    <2>4. secrets'[p] = mounted[p] /\ current[p] \in 1..revision
      BY <1>0, <2>1 DEF TypeOK, PodOK
    <2>5. Equipped(p)'
      BY <2>1, <2>4, NeedsMeaning DEF Equipped
    <2>6. PodOK(p)'
      BY <1>0, <2>1, <2>5 DEF PodOK, WatcherOK, CallOK, Allowed
    <2>. QED
      BY <2>2, <2>3, <2>6 DEF SecretInv
  <1>. QED
    BY <1>1, <1>2, <1>3, <1>4 DEF Watch

LEMMA CallInv ==
    ASSUME SecretInv, NEW p \in Pods, NEW c \in Calls, Call(p, c) PROVE SecretInv'
  <1>0. /\ TypeOK /\ PodOK(p) /\ c \in Readers /\ c # Watcher
        /\ reader[p][c] \in Reader /\ current[p] \in Nat /\ CallOK(p, c) /\ revision \in Nat
    <2>1. TypeOK /\ PodOK(p) /\ c \in Readers /\ c # Watcher
      BY ConfigAssumption DEF SecretInv, Readers
    <2>2. CallOK(p, c)
      BY <2>1 DEF PodOK
    <2>. QED
      BY <2>1, <2>2 DEF TypeOK, StoreOK
  <1>1. ASSUME NEW rev \in 1..revision, NEW t \in DOMAIN document[rev].targets,
               Begin(p, c, rev, t)
        PROVE  SecretInv'
    <2>. DEFINE pc == IF Cached(p, rev) THEN "loaded" ELSE "fetch"
                new == [Idle EXCEPT !.rev = rev, !.target = t, !.pc = pc]
    <2>1. /\ reader' = [reader EXCEPT ![p][c] = new] /\ phase[p] = "up"
          /\ UNCHANGED <<revision, document, mounted, phase, current, secrets>>
      BY <1>1 DEF Begin, At
    <2>2. pc \in {"loaded", "fetch"} /\ pc \in Pcs
      BY DEF Pcs
    <2>. HIDE DEF pc
    <2>3. rev \in Nat /\ t \in Targets
      BY <1>0, ConfigAssumption DEF TypeOK, StoreOK
    <2>4. new \in Reader /\ new.pc = pc
      BY <2>2, <2>3 DEF Idle, Reader
    <2>. HIDE DEF new
    <2>. QED
      BY <1>0, <2>1, <2>2, <2>4, ReaderInv
  <1>2. CASE Fetch(p, c) \/ FetchFails(p, c) \/ Remember(p, c)
    BY <1>0, <1>2, FetchInv
  <1>3. CASE Capture(p, c)
    <2>1. /\ phase[p] = "up"
          /\ UNCHANGED <<revision, document, mounted, phase, current, secrets>>
      BY <1>3 DEF Capture, At
    <2>2. CASE Stop(p, c)
      BY <1>0, <2>1, <2>2, StopInv
    <2>3. CASE ~Stop(p, c)
      <3>. DEFINE new == [reader[p][c] EXCEPT !.pc = "captured", !.snap = current[p]]
      <3>1. /\ Allowed(current[p], reader[p][c].target)
            /\ reader' = [reader EXCEPT ![p][c].pc = "captured", ![p][c].snap = current[p]]
        BY <1>3, <2>3 DEF Capture
      <3>2. reader' = [reader EXCEPT ![p][c] = new]
        BY <1>0, <3>1 DEF TypeOK, Reader
      <3>3. /\ new \in Reader /\ new.pc = "captured" /\ new.snap = current[p]
            /\ new.target = reader[p][c].target
        BY <1>0 DEF Reader, Pcs
      <3>4. current[p] \in 1..current[p]
        BY <1>0, <2>1 DEF PodOK
      <3>. HIDE DEF new
      <3>. QED
        BY <1>0, <2>1, <3>1, <3>2, <3>3, <3>4, ReaderInv
    <2>. QED
      BY <2>2, <2>3
  <1>4. CASE ResolveSecret(p, c)
    <2>. DEFINE pc == IF Ref(p, c) \in secrets[p] \cup {NoRef} THEN "send" ELSE "secret_unavailable"
                new == [reader[p][c] EXCEPT !.pc = pc]
    <2>1. /\ phase[p] = "up" /\ reader[p][c].pc = "captured" /\ Goto(p, c, pc)
          /\ UNCHANGED <<revision, document, mounted, phase, current, secrets>>
      BY <1>4 DEF ResolveSecret, At
    <2>2. /\ pc \in {"send", "secret_unavailable"} /\ pc \in Pcs
          /\ pc = "secret_unavailable" => Ref(p, c) \notin secrets[p] \cup {NoRef}
      BY DEF Pcs
    <2>3. /\ reader[p][c].snap \in 1..current[p]
          /\ Allowed(reader[p][c].snap, reader[p][c].target)
      BY <1>0, <2>1 DEF CallOK
    <2>4. reader[p][c].snap = current[p] => Ref(p, c) \in secrets[p] \cup {NoRef}
      BY <1>0, <2>1, <2>3 DEF PodOK, Equipped, Ref, Allowed
    <2>. HIDE DEF pc
    <2>5. pc = "secret_unavailable" => current[p] > reader[p][c].snap
      BY <1>0, <2>2, <2>3, <2>4
    <2>6. /\ reader' = [reader EXCEPT ![p][c] = new] /\ new \in Reader /\ new.pc = pc
          /\ new.snap = reader[p][c].snap /\ new.target = reader[p][c].target
      BY <1>0, <2>1, <2>2, GotoIs
    <2>. HIDE DEF new
    <2>. QED
      BY <1>0, <2>1, <2>3, <2>5, <2>6, ReaderInv
  <1>5. CASE Finish(p, c)
    BY <1>0, <1>5, StopInv DEF Finish, At
  <1>. QED
    BY <1>1, <1>2, <1>3, <1>4, <1>5 DEF Call

LEMMA PhaseInv ==
    ASSUME SecretInv, NEW p \in Pods, Start(p) \/ Started(p) \/ Exit(p) PROVE SecretInv'
  <1>0. TypeOK /\ PodOK(p) /\ revision \in Nat
    BY DEF SecretInv, TypeOK, StoreOK
  <1>1. CASE Start(p)
    <2>1. TypeOK'
      BY <1>0, <1>1 DEF Start, TypeOK, StoreOK
    <2>2. ASSUME NEW q \in Pods \ {p} PROVE PodOK(q)'
      BY <1>0, <1>1, PodFrame DEF Start, TypeOK, SecretInv
    <2>3. phase'[p] = "starting" /\ phase[p] # "up" /\ reader' = reader /\ current' = current
          /\ revision' = revision /\ document' = document
      BY <1>0, <1>1 DEF Start, TypeOK
    <2>4. PodOK(p)'
      BY <1>0, <2>3 DEF PodOK, WatcherOK, CallOK, Allowed
    <2>. QED
      BY <2>1, <2>2, <2>4 DEF SecretInv
  <1>2. CASE Started(p)
    <2>1. /\ phase[p] = "starting" /\ revision > 0 /\ Needs(revision) \subseteq secrets[p]
          /\ phase' = [phase EXCEPT ![p] = "up"] /\ current' = [current EXCEPT ![p] = revision]
          /\ UNCHANGED <<revision, document, mounted, secrets, reader>>
      BY <1>2 DEF Started
    <2>2. TypeOK'
      BY <1>0, <2>1 DEF TypeOK, StoreOK
    <2>3. ASSUME NEW q \in Pods \ {p} PROVE PodOK(q)'
      BY <1>0, <2>1, PodFrame DEF TypeOK, SecretInv
    <2>4. phase'[p] = "up" /\ current'[p] = revision /\ \A g \in Readers : reader'[p][g].pc = "idle"
      BY <1>0, <2>1, IdleType DEF TypeOK, PodOK
    <2>5. Equipped(p)'
      BY <1>0, <2>1, <2>4, NeedsMeaning DEF Equipped
    <2>6. WatcherOK(p)' /\ \A c \in Calls : CallOK(p, c)'
      BY <2>4 DEF Readers, WatcherOK, CallOK
    <2>7. PodOK(p)'
      BY <1>0, <2>1, <2>4, <2>5, <2>6 DEF PodOK
    <2>. QED
      BY <2>2, <2>3, <2>7 DEF SecretInv
  <1>3. CASE Exit(p)
    <2>1. /\ phase' = [phase EXCEPT ![p] = "down"] /\ current' = [current EXCEPT ![p] = 0]
          /\ secrets' = [secrets EXCEPT ![p] = {}]
          /\ reader' = [reader EXCEPT ![p] = [g \in Readers |-> Idle]]
          /\ UNCHANGED <<revision, document, mounted>>
      BY <1>3 DEF Exit
    <2>2. TypeOK'
      BY <1>0, <2>1, IdleType DEF TypeOK, StoreOK
    <2>3. ASSUME NEW q \in Pods \ {p} PROVE PodOK(q)'
      BY <1>0, <2>1, PodFrame DEF TypeOK, SecretInv
    <2>4. /\ phase'[p] = "down"
          /\ \A g \in Readers : reader'[p][g] = Idle
          /\ \A g \in Readers : reader'[p][g].pc = "idle"
      BY <1>0, <2>1, IdleType DEF TypeOK
    <2>5. WatcherOK(p)' /\ \A c \in Calls : CallOK(p, c)'
      BY <2>4 DEF Readers, WatcherOK, CallOK
    <2>6. PodOK(p)'
      BY <2>4, <2>5 DEF PodOK
    <2>. QED
      BY <2>2, <2>3, <2>6 DEF SecretInv
  <1>. QED
    BY <1>1, <1>2, <1>3

LEMMA SecretStep == SecretInv /\ [Next]_cvars => SecretInv'
  <1> SUFFICES ASSUME SecretInv, [Next]_cvars PROVE SecretInv'
    OBVIOUS
  <1>0. TypeOK /\ StoreOK /\ revision \in Nat
    BY DEF SecretInv, TypeOK, StoreOK
  <1>1. ASSUME NEW doc \in Docs, Apply(doc) PROVE SecretInv'
    <2>1. /\ StoreOK' /\ revision' >= revision
          /\ \A r \in 1..revision : document'[r] = document[r]
      BY <1>0, StoreStep
    <2>2. UNCHANGED <<mounted, phase, current, secrets, reader>>
      BY <1>1 DEF Apply, pods
    <2>3. TypeOK'
      BY <1>0, <2>1, <2>2 DEF TypeOK
    <2>. QED
      BY <2>1, <2>2, <2>3, PodFrame DEF SecretInv, StoreOK
  <1>2. ASSUME NEW p \in Pods, NEW S \in SUBSET Refs, Mount(p, S) PROVE SecretInv'
    <2>1. UNCHANGED <<revision, document, phase, current, secrets, reader>>
      BY <1>2 DEF Mount, pods
    <2>2. TypeOK'
      BY <1>0, <1>2, <2>1 DEF Mount, TypeOK, StoreOK
    <2>. QED
      BY <1>0, <2>1, <2>2, PodFrame DEF SecretInv
  <1>3. CASE UNCHANGED cvars
    <2>1. UNCHANGED <<revision, document, mounted, phase, current, secrets, reader>>
      BY <1>3 DEF cvars
    <2>2. TypeOK'
      BY <1>0, <2>1 DEF TypeOK, StoreOK
    <2>. QED
      BY <1>0, <2>1, <2>2, PodFrame DEF SecretInv
  <1>. QED
    BY <1>1, <1>2, <1>3, PhaseInv, WatchInv, CallInv DEF Next

(* manager.go:60-66,125-131, worker.go:62,99: for any number of pods,      *)
(* calls, revisions and secrets, a call that was allowed to use a target   *)
(* misses its secret only if its pod activated a newer revision meanwhile. *)
THEOREM SecretsStay == Spec => []SecretLostOnlyByReload
  <1>1. Init => SecretInv
    <2> SUFFICES ASSUME Init PROVE SecretInv
      OBVIOUS
    <2>1. TypeOK
      BY IdleType DEF Init, TypeOK, StoreOK
    <2>2. ASSUME NEW p \in Pods PROVE PodOK(p)
      <3>1. /\ phase[p] = "down" /\ \A g \in Readers : reader[p][g] = Idle
            /\ \A g \in Readers : reader[p][g].pc = "idle"
        BY IdleType DEF Init
      <3>. QED
        BY <3>1 DEF PodOK, WatcherOK, CallOK, Readers
    <2>. QED
      BY <2>1, <2>2 DEF SecretInv
  <1>2. SecretInv => SecretLostOnlyByReload
    BY DEF SecretInv, PodOK, CallOK, SecretLostOnlyByReload, At
  <1>. QED
    BY <1>1, <1>2, SecretStep, PTL DEF Spec
=============================================================================
