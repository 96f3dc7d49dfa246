-------------------------- MODULE Submission_proofs --------------------------
(* Idempotent submission and fenced retries for any number of requests,    *)
(* batches of any length, any bodies and any succession of configurations. *)
EXTENDS Submission, SequenceTheorems, TLAPS

SubmitPcs == {"lookup", "quota", "insert", "reread", "proxy"}
RetryPcs == {"load", "retryQuota", "retry", "fresh"}
Codes ==
    {"accepted", "conflict", "invalid", "refused", "quota", "unavailable", "notFound", "state"}
ResultRecord == [code : Codes, id : Ids \cup {NoKey}]
Request ==
    [pc : {"new", "envelope", "done"} \cup SubmitPcs \cup RetryPcs,
     body : Bodies \cup {NoBody}, snap : Nat, item : Nat, id : Ids \cup {NoKey},
     gen : Nat, results : Seq(ResultRecord)]

Exists(id) == task[id].status # "absent"

(* A row of notification_task has its columns; a key is in one row.        *)
Columns(row) ==
    [status : {row.status}, key : {row.key}, hash : {row.hash}, attempts : {row.attempts},
     cycle : {row.cycle}, gen : {row.gen}, next : {row.next}, deadline : {row.deadline},
     lease : {row.lease}, until : {row.until}]

RowsOK ==
    /\ task = [id \in Ids |-> task[id]]
    /\ origin = [id \in Ids |-> origin[id]]
    /\ \A id \in Ids :
         /\ task[id].gen \in Nat /\ (Exists(id) \/ task[id].gen = 0)
         /\ task[id] \in Columns(task[id])
    /\ \A id, jd \in Ids :
         Exists(id) /\ Exists(jd) /\ task[id].key = task[jd].key => id = jd
    /\ \A n \in held : n.id \in Ids

(* The hash of a submission the client meant, and the rows it may find.    *)
HashOf(s) == [target |-> s.target, mode |-> s.mode, content |-> Normal[s.content]]
Made(id, s) ==
    id \in Ids /\ Exists(id) /\ task[id].key = s.key /\ task[id].hash = HashOf(s)
Clashes(id, s) ==
    id \in Ids /\ Exists(id) /\ task[id].key = s.key /\ task[id].hash # HashOf(s)

Submits(r) == req[r].body.kind \in {"single", "batch"}

(* A request answers its items in order.                                   *)
Progress(r) ==
    /\ req[r] \in Request
    /\ req[r].pc = "new" => req[r].body = NoBody /\ req[r].item = 1
    /\ req[r].pc # "new" => req[r].body \in Bodies
    /\ req[r].pc = "envelope" => req[r].body.kind = "batch" /\ req[r].item = 1
    /\ req[r].pc \in SubmitPcs => Submits(r) /\ Len(req[r].results) = req[r].item - 1
    /\ req[r].pc \in RetryPcs => req[r].body.kind = "retry"
    /\ req[r].pc \in {"new", "envelope"} \cup RetryPcs => req[r].results = <<>>
    /\ req[r].body.kind = "retry" => req[r].id \in Ids
    /\ Submits(r) => /\ req[r].item \in 1..Len(req[r].body.items)
                     /\ Len(req[r].results) <= req[r].item

(* What an item was told is so.                                            *)
AnswerOK(r) ==
    Submits(r) => \A i \in 1..Len(req[r].results) :
        /\ req[r].results[i].code = "accepted" => Made(req[r].results[i].id, Meant(<<r, i>>))
        /\ req[r].results[i].code = "conflict" => \E id \in Ids : Clashes(id, Meant(<<r, i>>))

ProxyOK(r) == req[r].pc = "proxy" => Made(req[r].id, Meant(<<r, req[r].item>>))

(* A notification was made by an item, which is told so or is being told.  *)
OriginOK(id) ==
    Exists(id) =>
        \E r \in Requests : \E i \in 1..req[r].item :
            /\ origin[id].by = <<r, i>>
            /\ Submits(r)
            /\ Made(id, Meant(<<r, i>>))
            /\ i <= Len(req[r].results) =>
                 req[r].results[i] \in {Result("accepted", id), Failed("unavailable")}
            /\ i > Len(req[r].results) => req[r].pc = "proxy" /\ req[r].id = id

(* A retry that went through has moved the generation it saw.              *)
Retried(r) ==
    /\ req[r].body.kind = "retry"
    /\ \/ req[r].pc = "fresh"
       \/ req[r].results # <<>> /\ req[r].results[1].code = "accepted"

RetryOK ==
    /\ \A r \in Requests : Retried(r) => task[req[r].id].gen > req[r].gen
    /\ \A r, q \in Requests :
         Retried(r) /\ Retried(q) /\ r # q /\ req[r].id = req[q].id => req[r].gen # req[q].gen

SubmissionInv ==
    /\ RowsOK
    /\ conf \in Nat
    /\ req = [r \in Requests |-> req[r]]
    /\ \A r \in Requests : Progress(r) /\ AnswerOK(r) /\ ProxyOK(r)
    /\ \A id \in Ids : OriginOK(id)
    /\ RetryOK
-----------------------------------------------------------------------------
LEMMA SubmissionParts ==
    ASSUME SubmissionInv
    PROVE  /\ RowsOK /\ RetryOK /\ conf \in Nat
           /\ req = [r \in Requests |-> req[r]]
           /\ \A r \in Requests :
                req[r] \in Request /\ Progress(r) /\ AnswerOK(r) /\ ProxyOK(r)
           /\ \A id \in Ids : OriginOK(id) /\ task[id].gen \in Nat
  <1>1. RowsOK /\ RetryOK /\ conf \in Nat /\ req = [r \in Requests |-> req[r]]
    BY DEF SubmissionInv
  <1>2. \A id \in Ids : OriginOK(id) /\ task[id].gen \in Nat
    BY <1>1 DEF SubmissionInv, RowsOK
  <1>3. \A r \in Requests : Progress(r) /\ AnswerOK(r) /\ ProxyOK(r)
    BY DEF SubmissionInv
  <1>4. \A r \in Requests : req[r] \in Request
    BY <1>3 DEF Progress
  <1> QED
    BY <1>1, <1>2, <1>3, <1>4

(* The item being handled is what the client meant by it.                  *)
LEMMA ItemIsMeant ==
    ASSUME NEW r
    PROVE  Item(r) = Meant(<<r, req[r].item>>) /\ Hash(r) = HashOf(Item(r))
  BY DEF Item, Meant, Hash, HashOf, normalize

-----------------------------------------------------------------------------
(* The rows *)

(* Rows stay, with their key, hash and origin; generations grow.           *)
RowsKept ==
    \A id \in Ids :
        /\ task'[id].gen >= task[id].gen
        /\ Exists(id) => /\ task'[id].status # "absent"
                         /\ task'[id].key = task[id].key /\ task'[id].hash = task[id].hash
                         /\ origin'[id] = origin[id]

LEMMA RowsSame ==
    ASSUME SubmissionInv, UNCHANGED <<vars, origin>>
    PROVE  RowsOK' /\ RowsKept /\ \A id \in Ids : Exists(id)' => Exists(id)
  <1>1. task' = task /\ origin' = origin /\ held' = held
    BY DEF vars
  <1>2. RowsOK'
    BY <1>1, SubmissionParts DEF RowsOK, Exists
  <1>3. RowsKept
    <2>1. \A id \in Ids : task[id].gen >= task[id].gen
      BY SubmissionParts
    <2> QED
      BY <2>1, <1>1 DEF RowsKept, Exists
  <1> QED
    BY <1>1, <1>2, <1>3 DEF Exists

LEMMA RowChange ==
    ASSUME SubmissionInv, NEW id \in Ids, Exists(id), NEW row,
           task' = [task EXCEPT ![id] = row], origin' = origin,
           \A n \in held' : n.id \in Ids,
           row.status # "absent", row.key = task[id].key, row.hash = task[id].hash,
           row.gen \in Nat, row.gen >= task[id].gen,
           row \in Columns(row)
    PROVE  RowsOK' /\ RowsKept /\ \A jd \in Ids : Exists(jd)' => Exists(jd)
  <1>1. RowsOK /\ task = [jd \in Ids |-> task[jd]]
    BY SubmissionParts DEF RowsOK
  <1>2. task'[id] = row /\ \A jd \in Ids \ {id} : task'[jd] = task[jd]
    BY <1>1
  <1>3. \A jd \in Ids : /\ task'[jd].gen \in Nat /\ task'[jd].gen >= task[jd].gen
                        /\ task'[jd].key = task[jd].key /\ task'[jd].hash = task[jd].hash
                        /\ Exists(jd)' <=> Exists(jd)
    <2> SUFFICES ASSUME NEW jd \in Ids
                 PROVE  /\ task'[jd].gen \in Nat /\ task'[jd].gen >= task[jd].gen
                        /\ task'[jd].key = task[jd].key /\ task'[jd].hash = task[jd].hash
                        /\ Exists(jd)' <=> Exists(jd)
      OBVIOUS
    <2>1. CASE jd = id
      BY <2>1, <1>2 DEF Exists
    <2>2. CASE jd # id
      BY <2>2, <1>2, SubmissionParts DEF Exists
    <2> QED
      BY <2>1, <2>2
  <1>4. \A jd \in Ids : task'[jd] \in Columns(task'[jd])
    BY <1>1, <1>2, Zenon DEF RowsOK
  <1>5. task' = [jd \in Ids |-> task'[jd]]
    BY <1>1
  <1>6. \A jd, kd \in Ids :
            Exists(jd)' /\ Exists(kd)' /\ task'[jd].key = task'[kd].key => jd = kd
    BY <1>1, <1>3 DEF RowsOK
  <1>7. origin' = [jd \in Ids |-> origin'[jd]]
    BY <1>1 DEF RowsOK
  <1>8. RowsOK'
    <2>1. \A jd \in Ids : Exists(jd)' \/ task'[jd].gen = 0
      BY <1>1, <1>2, <1>3 DEF RowsOK
    <2> QED
      BY <2>1, <1>3, <1>4, <1>5, <1>6, <1>7 DEF RowsOK
  <1>9. RowsKept
    BY <1>3 DEF RowsKept, Exists
  <1> QED
    BY <1>3, <1>8, <1>9

(* The INSERT, under the unique key.                                       *)
LEMMA AcceptRows ==
    ASSUME SubmissionInv, NEW id \in Ids, NEW key, NEW hash, NEW t, NEW duration,
           Accept(id, key, hash, t, duration),
           NEW o, origin' = [origin EXCEPT ![id] = o]
    PROVE  /\ RowsOK' /\ RowsKept
           /\ ~Exists(id) /\ Exists(id)' /\ origin'[id] = o
           /\ task'[id].key = key /\ task'[id].hash = hash
           /\ \A jd \in Ids : Exists(jd)' => jd = id \/ Exists(jd)
  <1> DEFINE row == [status |-> "pending", key |-> key, hash |-> hash, attempts |-> 0,
                     cycle |-> 0, gen |-> 1, next |-> t, deadline |-> t + duration,
                     lease |-> NoToken, until |-> NoTime]
  <1>1. /\ RowsOK /\ task = [jd \in Ids |-> task[jd]]
        /\ origin = [jd \in Ids |-> origin[jd]]
        /\ \A jd \in Ids : task[jd].gen \in Nat
    BY SubmissionParts DEF RowsOK
  <1>2. /\ task' = [task EXCEPT ![id] = row] /\ ~Exists(id) /\ held' = held
        /\ \A jd \in Ids : Exists(jd) => task[jd].key # key
    BY DEF Accept, Exists
  <1>3. /\ row.status = "pending" /\ row.key = key /\ row.hash = hash /\ row.gen = 1
        /\ row \in Columns(row)
    BY DEF Columns
  <1> HIDE DEF row
  <1>4. task'[id] = row /\ \A jd \in Ids \ {id} : task'[jd] = task[jd]
    BY <1>1, <1>2
  <1>5. \A jd \in Ids : Exists(jd)' <=> jd = id \/ Exists(jd)
    BY <1>3, <1>4 DEF Exists
  <1>6. \A jd, kd \in Ids :
            Exists(jd)' /\ Exists(kd)' /\ task'[jd].key = task'[kd].key => jd = kd
    BY <1>1, <1>2, <1>3, <1>4, <1>5 DEF RowsOK
  <1>7. task' = [jd \in Ids |-> task'[jd]] /\ origin' = [jd \in Ids |-> origin'[jd]]
    BY <1>1, <1>2
  <1>8. \A jd \in Ids : task'[jd] \in Columns(task'[jd])
    BY <1>1, <1>3, <1>4, Zenon DEF RowsOK
  <1>9. \A jd \in Ids : task'[jd].gen \in Nat /\ (Exists(jd)' \/ task'[jd].gen = 0)
    BY <1>1, <1>3, <1>4, <1>5 DEF RowsOK
  <1>10. RowsOK'
    BY <1>1, <1>2, <1>6, <1>7, <1>8, <1>9 DEF RowsOK
  <1>11. RowsKept
    <2>1. task[id].gen <= 1
      BY <1>1, <1>2 DEF RowsOK
    <2>2. \A jd \in Ids : task'[jd].gen >= task[jd].gen
      BY <2>1, <1>1, <1>3, <1>4
    <2>3. \A jd \in Ids : Exists(jd) => jd # id
      BY <1>2
    <2> QED
      BY <2>2, <2>3, <1>1, <1>4 DEF RowsKept, Exists
  <1> QED
    BY <1>1, <1>2, <1>3, <1>4, <1>5, <1>10, <1>11

(* Manual retries, claims and final results change a row in place.         *)
LEMMA ManualRetryRows ==
    ASSUME SubmissionInv, NEW id \in Ids, NEW gen, NEW t, NEW duration,
           ManualRetry(id, gen, t, duration), origin' = origin
    PROVE  /\ RowsOK' /\ RowsKept /\ \A jd \in Ids : Exists(jd)' => Exists(jd)
           /\ gen = task[id].gen /\ task'[id].gen = gen + 1
  <1> DEFINE old == task[id]
             row == [old EXCEPT !.status = "pending", !.gen = gen + 1, !.cycle = 0,
                                !.next = t, !.deadline = t + duration]
  <1>1. /\ old.status = "failed" /\ old.gen = gen /\ gen \in Nat
        /\ task' = [task EXCEPT ![id] = row] /\ held' = held
        /\ task = [jd \in Ids |-> task[jd]] /\ RowsOK /\ old \in Columns(old)
    BY SubmissionParts DEF ManualRetry, Retriable, RowsOK
  <1>2. /\ row.status # "absent" /\ row.key = old.key /\ row.hash = old.hash
        /\ row.gen = gen + 1 /\ row \in Columns(row)
    BY <1>1 DEF Columns
  <1>3. Exists(id) /\ \A n \in held' : n.id \in Ids
    BY <1>1 DEF Exists, RowsOK
  <1> HIDE DEF row
  <1>4. row.gen \in Nat /\ row.gen >= task[id].gen
    BY <1>1, <1>2
  <1>5. RowsOK' /\ RowsKept /\ \A jd \in Ids : Exists(jd)' => Exists(jd)
    BY <1>1, <1>2, <1>3, <1>4, RowChange
  <1>6. task'[id] = row
    BY <1>1
  <1> QED
    BY <1>1, <1>2, <1>5, <1>6

LEMMA ClaimRows ==
    ASSUME SubmissionInv, NEW id \in Ids, Claim(id, task[id].gen), origin' = origin
    PROVE  RowsOK' /\ RowsKept /\ \A jd \in Ids : Exists(jd)' => Exists(jd)
  <1> DEFINE old == task[id]
             row == Leased(id, tokens + 1)
  <1>1. /\ old.status = "pending" /\ old.gen \in Nat
        /\ task' = [task EXCEPT ![id] = row] /\ held' = held \cup {CopyOf(id, row)}
        /\ RowsOK /\ old \in Columns(old)
    BY SubmissionParts DEF Claim, Claimable, RowsOK
  <1>2. /\ row.status # "absent" /\ row.key = old.key /\ row.hash = old.hash
        /\ row.gen = old.gen /\ row \in Columns(row)
    BY <1>1 DEF Columns, Leased
  <1>3. Exists(id)
    BY <1>1 DEF Exists
  <1> HIDE DEF row
  <1>4. row.gen \in Nat /\ row.gen >= task[id].gen
    BY <1>1, <1>2
  <1>5. \A n \in held' : n.id \in Ids
    BY <1>1 DEF RowsOK, CopyOf
  <1> QED
    BY <1>1, <1>2, <1>3, <1>4, <1>5, RowChange

LEMMA FinishRows ==
    ASSUME SubmissionInv, NEW n \in held, NEW action, FinishFinal(n, action),
           origin' = origin
    PROVE  RowsOK' /\ RowsKept /\ \A jd \in Ids : Exists(jd)' => Exists(jd)
  <1> DEFINE old == task[n.id]
             status == IF action = "success" THEN "delivered" ELSE "failed"
             row == Ended(n, status, n.gen, n.next)
  <1>1. /\ n.id \in Ids /\ old.status = "in_flight" /\ old.gen = n.gen /\ old.gen \in Nat
        /\ task' = [task EXCEPT ![n.id] = row] /\ held' = held
        /\ RowsOK /\ old \in Columns(old)
    BY SubmissionParts DEF FinishFinal, Finishable, Fenced, RowsOK
  <1>2. /\ row.status = status /\ row.key = old.key /\ row.hash = old.hash
        /\ row.gen = n.gen /\ row \in Columns(row)
    BY <1>1 DEF Columns, Ended
  <1>3. Exists(n.id) /\ row.status # "absent"
    BY <1>1, <1>2 DEF Exists
  <1> HIDE DEF row, status
  <1>4. row.gen \in Nat /\ row.gen >= task[n.id].gen
    BY <1>1, <1>2
  <1>5. \A m \in held' : m.id \in Ids
    BY <1>1 DEF RowsOK
  <1> QED
    BY <1>1, <1>2, <1>3, <1>4, <1>5, RowChange
-----------------------------------------------------------------------------
(* Steps of a request that answer an item *)

LEMMA ConcludeFields ==
    ASSUME SubmissionInv, NEW r \in Requests, NEW res \in ResultRecord, Conclude(r, res),
           req[r].pc \in SubmitPcs \cup RetryPcs
    PROVE  /\ req' = [q \in Requests |-> req'[q]]
           /\ \A q \in Requests \ {r} : req'[q] = req[q]
           /\ req'[r].body = req[r].body /\ req'[r].id = req[r].id
           /\ req'[r].gen = req[r].gen
           /\ req'[r].results = Append(req[r].results, res)
           /\ req'[r].pc \in {"done", "lookup"} /\ req'[r].item >= req[r].item
           /\ Progress(r)'
  <1> DEFINE q == req[r]
             last == q.item = Len(q.body.items) \/ q.body.kind = "retry"
             results == Append(q.results, res)
             item == IF last THEN q.item ELSE q.item + 1
             pc == IF last THEN "done" ELSE "lookup"
             n == [q EXCEPT !.results = results, !.item = item, !.pc = pc]
  <1>1. /\ q \in Request /\ Progress(r) /\ req = [p \in Requests |-> req[p]]
    BY SubmissionParts
  <1>2. req' = [req EXCEPT ![r] = n]
    BY DEF Conclude
  <1>3. /\ q.results \in Seq(ResultRecord) /\ q.item \in Nat /\ q.id \in Ids \cup {NoKey}
        /\ q.body \in Bodies \cup {NoBody} /\ q.gen \in Nat /\ q.snap \in Nat
    BY <1>1 DEF Request
  <1>4. /\ results \in Seq(ResultRecord) /\ Len(results) = Len(q.results) + 1
        /\ Len(q.results) \in Nat
    BY <1>3
  <1>5. /\ n.body = q.body /\ n.id = q.id /\ n.gen = q.gen /\ n.snap = q.snap
        /\ n.results = results /\ n.item = item /\ n.pc = pc
        /\ n \in Request
    <2>1. item \in Nat /\ pc \in {"done", "lookup"}
      BY <1>3
    <2> HIDE DEF item, pc, results
    <2> QED
      BY <2>1, <1>1, <1>4 DEF Request, SubmitPcs, RetryPcs
  <1> HIDE DEF n
  <1>6. req'[r] = n /\ \A p \in Requests \ {r} : req'[p] = req[p]
    BY <1>1, <1>2
  <1>7. req' = [p \in Requests |-> req'[p]]
    BY <1>1, <1>2
  <1>8. n.item >= q.item
    BY <1>3, <1>5
  <1>9. q.body \in Bodies /\ (q.body.kind = "retry" => q.id \in Ids)
    BY <1>1 DEF Progress, SubmitPcs, RetryPcs
  <1>10. q.body.kind # "retry" =>
            /\ q.body.kind \in {"single", "batch"} /\ Len(q.results) = q.item - 1
            /\ q.item \in 1..Len(q.body.items) /\ Len(q.body.items) \in Nat
    BY <1>1, <1>9, SubmissionAssumption DEF Progress, Submits
  <1>11. q.body.kind = "retry" => last
    OBVIOUS
  <1>12. ASSUME q.body.kind # "retry"
         PROVE  /\ item \in 1..Len(q.body.items) /\ Len(results) <= item
                /\ pc = "lookup" => Len(results) = item - 1
    <2>1. CASE last
      BY <2>1, <1>4, <1>10, <1>12
    <2>2. CASE ~last
      <3>1. item = q.item + 1 /\ q.item # Len(q.body.items)
        BY <2>2
      <3> QED
        BY <3>1, <1>4, <1>10, <1>12
    <2> QED
      BY <2>1, <2>2
  <1> HIDE DEF last, results
  <1>13. Progress(r)'
    <2>1. req'[r].pc \in {"done", "lookup"} /\ (req'[r].pc = "lookup" => ~last)
      BY <1>5, <1>6
    <2>2. Submits(r)' <=> q.body.kind \in {"single", "batch"}
      BY <1>5, <1>6 DEF Submits
    <2>3. Submits(r)' => /\ req'[r].item \in 1..Len(req'[r].body.items)
                         /\ Len(req'[r].results) <= req'[r].item
      BY <2>2, <1>5, <1>6, <1>12
    <2>4. req'[r].pc = "lookup" => Submits(r)' /\ Len(req'[r].results) = req'[r].item - 1
      BY <2>1, <2>2, <1>5, <1>6, <1>10, <1>11, <1>12
    <2>5. req'[r] \in Request /\ req'[r].body \in Bodies
          /\ (req'[r].body.kind = "retry" => req'[r].id \in Ids)
      BY <1>5, <1>6, <1>9
    <2>6. req'[r].pc \notin {"new", "envelope"} \cup RetryPcs
      BY <2>1 DEF RetryPcs
    <2>7. req'[r].pc \in SubmitPcs => req'[r].pc = "lookup"
      BY <2>1 DEF SubmitPcs
    <2> QED
      BY <2>3, <2>4, <2>5, <2>6, <2>7, Zenon DEF Progress
  <1> QED
    BY <1>5, <1>6, <1>7, <1>8, <1>13 DEF results

LEMMA OtherProgress ==
    ASSUME SubmissionInv, NEW q \in Requests, req'[q] = req[q]
    PROVE  Progress(q)'
  BY SubmissionParts DEF Progress, Submits

LEMMA ConcludeStep ==
    ASSUME SubmissionInv, NEW r \in Requests, NEW res \in ResultRecord, Conclude(r, res),
           req[r].pc \in SubmitPcs \cup RetryPcs,
           RowsOK', RowsKept, conf' \in Nat,
           \A id \in Ids : Exists(id)' =>
               \/ Exists(id)
               \/ /\ req[r].pc \in SubmitPcs
                  /\ origin'[id].by = <<r, req[r].item>>
                  /\ task'[id].key = Item(r).key /\ task'[id].hash = Hash(r)
                  /\ res \in {Result("accepted", id), Failed("unavailable")},
           req[r].pc \in SubmitPcs /\ res.code = "accepted" =>
               /\ res.id \in Ids /\ task'[res.id].status # "absent"
               /\ task'[res.id].key = Item(r).key /\ task'[res.id].hash = Hash(r),
           req[r].pc \in SubmitPcs /\ res.code = "conflict" =>
               \E id \in Ids : /\ task'[id].status # "absent"
                               /\ task'[id].key = Item(r).key /\ task'[id].hash # Hash(r),
           req[r].pc = "proxy" => res = Result("accepted", req[r].id),
           req[r].pc \in RetryPcs /\ res.code = "accepted" => req[r].pc = "fresh"
    PROVE  SubmissionInv'
  <1>1. /\ req' = [q \in Requests |-> req'[q]]
        /\ \A q \in Requests \ {r} : req'[q] = req[q]
        /\ req'[r].body = req[r].body /\ req'[r].id = req[r].id
        /\ req'[r].gen = req[r].gen
        /\ req'[r].results = Append(req[r].results, res)
        /\ req'[r].pc \in {"done", "lookup"} /\ req'[r].item >= req[r].item
        /\ Progress(r)'
    BY ConcludeFields
  <1>2. /\ RetryOK
        /\ \A q \in Requests : req[q] \in Request /\ Progress(q) /\ AnswerOK(q) /\ ProxyOK(q)
        /\ \A id \in Ids : OriginOK(id) /\ task[id].gen \in Nat
    BY SubmissionParts
  <1>3. \A q \in Requests : \A i : Meant(<<q, i>>)' = Meant(<<q, i>>)
    BY <1>1 DEF Meant
  <1>4. \A q \in Requests : Submits(q)' <=> Submits(q)
    BY <1>1 DEF Submits
  <1>5. Item(r) = Meant(<<r, req[r].item>>) /\ Hash(r) = HashOf(Item(r))
    BY ItemIsMeant
  <1>6. /\ req[r].results \in Seq(ResultRecord) /\ Len(req[r].results) \in Nat
        /\ req[r].item \in Nat /\ req'[r].item \in Nat
    <2>1. req'[r] \in Request
      BY <1>1 DEF Progress
    <2>2. req[r].results \in Seq(ResultRecord) /\ req[r].item \in Nat /\ req'[r].item \in Nat
      BY <2>1, <1>2 DEF Request
    <2> QED
      BY <2>2
  <1>7. /\ Len(req'[r].results) = Len(req[r].results) + 1
        /\ \A i \in 1..Len(req[r].results) : req'[r].results[i] = req[r].results[i]
        /\ req'[r].results[Len(req[r].results) + 1] = res
    BY <1>1, <1>6
  <1>8. Submits(r) => Len(req[r].results) + 1 = req[r].item /\ req[r].pc \in SubmitPcs
    BY <1>2, <1>6 DEF Progress, Submits
  <1>9. \A q \in Requests : Progress(q)'
    BY <1>1, OtherProgress
  <1>10. ASSUME NEW q \in Requests
         PROVE  AnswerOK(q)'
    <2> SUFFICES ASSUME Submits(q), NEW i \in 1..Len(req'[q].results)
                 PROVE  /\ req'[q].results[i].code = "accepted" =>
                             Made(req[q].results[i].id, Meant(<<q, i>>))'
                        /\ req'[q].results[i].code = "conflict" =>
                             \E id \in Ids : Clashes(id, Meant(<<q, i>>))'
      BY <1>4 DEF AnswerOK
    <2>1. CASE req'[q].results[i] = req[q].results[i] /\ i \in 1..Len(req[q].results)
      <3>1. /\ req[q].results[i].code = "accepted" =>
                 Made(req[q].results[i].id, Meant(<<q, i>>))
            /\ req[q].results[i].code = "conflict" =>
                 \E id \in Ids : Clashes(id, Meant(<<q, i>>))
        BY <2>1, <1>2 DEF AnswerOK
      <3>2. req'[q].results[i].code = "accepted" =>
                Made(req[q].results[i].id, Meant(<<q, i>>))'
        BY <3>1, <2>1, <1>3 DEF Made, RowsKept, Exists
      <3>3. req'[q].results[i].code = "conflict" =>
                \E id \in Ids : Clashes(id, Meant(<<q, i>>))'
        BY <3>1, <2>1, <1>3 DEF Clashes, RowsKept, Exists
      <3> QED
        BY <3>2, <3>3
    <2>2. CASE q = r /\ i = Len(req[r].results) + 1
      <3>1. req'[q].results[i] = res /\ i = req[r].item /\ req[r].pc \in SubmitPcs
        BY <2>2, <1>7, <1>8
      <3>2. Meant(<<q, i>>)' = Item(r)
        BY <3>1, <2>2, <1>3, <1>5
      <3> QED
        BY <3>1, <3>2, <1>5 DEF Made, Clashes, Exists
    <2>3. CASE q # r
      BY <2>1, <2>3, <1>1
    <2>4. CASE q = r
      <3>1. i \in 1..(Len(req[r].results) + 1)
        BY <2>4, <1>7
      <3>2. i \in 1..Len(req[r].results) \/ i = Len(req[r].results) + 1
        BY <3>1, <1>6
      <3> QED
        BY <3>2, <2>1, <2>2, <2>4, <1>7
    <2> QED
      BY <2>3, <2>4
  <1>11. ASSUME NEW q \in Requests
         PROVE  ProxyOK(q)'
    <2>1. CASE q = r
      BY <2>1, <1>1 DEF ProxyOK
    <2>2. CASE q # r
      BY <2>2, <1>1, <1>2, <1>3 DEF ProxyOK, Made, RowsKept, Exists
    <2> QED
      BY <2>1, <2>2
  <1>12. ASSUME NEW id \in Ids
         PROVE  OriginOK(id)'
    <2> SUFFICES ASSUME Exists(id)'
                 PROVE  \E q \in Requests : \E i \in 1..req'[q].item :
                          /\ origin'[id].by = <<q, i>>
                          /\ Submits(q)'
                          /\ Made(id, Meant(<<q, i>>))'
                          /\ i <= Len(req'[q].results) =>
                               req'[q].results[i] \in {Result("accepted", id),
                                                       Failed("unavailable")}
                          /\ i > Len(req'[q].results) => req'[q].pc = "proxy" /\ req'[q].id = id
      BY DEF OriginOK, Result, Failed
    <2>1. CASE Exists(id)
      <3>1. PICK q \in Requests : \E i \in 1..req[q].item :
              /\ origin[id].by = <<q, i>>
              /\ Submits(q)
              /\ Made(id, Meant(<<q, i>>))
              /\ i <= Len(req[q].results) =>
                   req[q].results[i] \in {Result("accepted", id), Failed("unavailable")}
              /\ i > Len(req[q].results) => req[q].pc = "proxy" /\ req[q].id = id
        BY <2>1, <1>2 DEF OriginOK
      <3>2. PICK i \in 1..req[q].item :
              /\ origin[id].by = <<q, i>>
              /\ Submits(q)
              /\ Made(id, Meant(<<q, i>>))
              /\ i <= Len(req[q].results) =>
                   req[q].results[i] \in {Result("accepted", id), Failed("unavailable")}
              /\ i > Len(req[q].results) => req[q].pc = "proxy" /\ req[q].id = id
        BY <3>1
      <3>3. /\ origin'[id].by = <<q, i>> /\ Submits(q)' /\ Made(id, Meant(<<q, i>>))'
        BY <3>2, <2>1, <1>3, <1>4 DEF Made, RowsKept, Exists
      <3>4. CASE q # r
        <4>1. req'[q] = req[q]
          BY <3>4, <1>1
        <4> QED
          BY <4>1, <3>2, <3>3
      <3>5. CASE q = r
        <4>1. i \in 1..req'[q].item
          BY <3>2, <3>5, <1>1, <1>6
        <4>2. i \in 1..(Len(req[r].results) + 1) /\ Len(req[r].results) + 1 = req[r].item
              /\ req[r].pc \in SubmitPcs
          BY <3>2, <3>5, <1>8
        <4>3. i <= Len(req'[q].results)
          BY <4>2, <3>5, <1>6, <1>7
        <4>4. req'[q].results[i] \in {Result("accepted", id), Failed("unavailable")}
          <5>1. CASE i <= Len(req[r].results)
            BY <5>1, <4>2, <3>2, <3>5, <1>6, <1>7
          <5>2. CASE i > Len(req[r].results)
            <6>1. i = Len(req[r].results) + 1
              BY <5>2, <4>2, <1>6
            <6>2. req[r].pc = "proxy" /\ req[r].id = id
              BY <5>2, <3>2, <3>5
            <6> QED
              BY <6>1, <6>2, <3>5, <1>7
          <5> QED
            BY <5>1, <5>2, <4>2, <1>6
        <4>5. ~(i > Len(req'[q].results))
          BY <4>2, <4>3, <3>5, <1>6, <1>7
        <4> QED
          BY <4>1, <4>4, <4>5, <3>3
      <3> QED
        BY <3>4, <3>5
    <2>2. CASE ~Exists(id)
      <3>1. /\ req[r].pc \in SubmitPcs /\ origin'[id].by = <<r, req[r].item>>
            /\ task'[id].key = Item(r).key /\ task'[id].hash = Hash(r)
            /\ res \in {Result("accepted", id), Failed("unavailable")}
        BY <2>2
      <3>2. Submits(r) /\ Submits(r)' /\ Len(req[r].results) + 1 = req[r].item
        BY <3>1, <1>2, <1>4, <1>8 DEF Progress
      <3>3. PICK i \in Nat : i = req[r].item
        BY <1>6
      <3>4. Made(id, Meant(<<r, i>>))'
        <4>1. Meant(<<r, i>>)' = Item(r)
          BY <3>3, <1>3, <1>5
        <4> QED
          BY <4>1, <3>1, <1>5 DEF Made, Exists
      <3>5. i \in 1..req'[r].item /\ i <= Len(req'[r].results)
            /\ ~(i > Len(req'[r].results))
        BY <3>2, <3>3, <1>1, <1>6, <1>7
      <3>6. req'[r].results[i] = res
        BY <3>2, <3>3, <1>7
      <3> QED
        BY <3>1, <3>2, <3>3, <3>4, <3>5, <3>6
    <2> QED
      BY <2>1, <2>2
  <1>13. ASSUME NEW q \in Requests, Retried(q)'
         PROVE  /\ Retried(q) /\ req'[q].id = req[q].id /\ req'[q].gen = req[q].gen
    <2>1. CASE q # r
      BY <2>1, <1>1, <1>13 DEF Retried
    <2>2. CASE q = r
      <3>1. req[r].body.kind = "retry" /\ req'[r].results[1].code = "accepted"
        BY <2>2, <1>1, <1>13 DEF Retried
      <3>2. req[r].pc \in RetryPcs /\ req[r].results = <<>>
        BY <3>1, <1>2 DEF Progress, Submits
      <3>3. req'[r].results[1] = res
        BY <3>2, <1>7
      <3>4. req[r].pc = "fresh"
        BY <3>1, <3>2, <3>3
      <3> QED
        BY <3>1, <3>4, <2>2, <1>1 DEF Retried
    <2> QED
      BY <2>1, <2>2
  <1>14. RetryOK'
    <2>1. ASSUME NEW q \in Requests, Retried(q)'
          PROVE  task'[req'[q].id].gen > req'[q].gen
      <3>1. task[req[q].id].gen > req[q].gen
        BY <2>1, <1>2, <1>13 DEF RetryOK
      <3>2. req[q].id \in Ids /\ req[q].gen \in Nat
        BY <2>1, <1>2, <1>13 DEF Retried, Progress, Request
      <3>3. task'[req[q].id].gen >= task[req[q].id].gen /\ task'[req[q].id].gen \in Nat
        BY <3>2 DEF RowsKept, RowsOK
      <3> QED
        BY <3>1, <3>2, <3>3, <2>1, <1>2, <1>13
    <2>2. \A q, p \in Requests :
            Retried(q)' /\ Retried(p)' /\ q # p /\ req'[q].id = req'[p].id
            => req'[q].gen # req'[p].gen
      BY <1>2, <1>13 DEF RetryOK
    <2> QED
      BY <2>1, <2>2 DEF RetryOK
  <1> QED
    BY <1>1, <1>9, <1>10, <1>11, <1>12, <1>14 DEF SubmissionInv
-----------------------------------------------------------------------------
(* Steps that answer nothing *)

LEMMA MoveStep ==
    ASSUME SubmissionInv, NEW r \in Requests,
           req' = [q \in Requests |-> req'[q]],
           \A q \in Requests \ {r} : req'[q] = req[q],
           req'[r].body = req[r].body, req'[r].item = req[r].item,
           req'[r].results = req[r].results,
           Progress(r)',
           req[r].pc \notin {"new", "done", "proxy", "fresh"},
           RowsOK', RowsKept, conf' \in Nat,
           \A id \in Ids : Exists(id)' =>
               \/ Exists(id)
               \/ /\ req[r].pc \in SubmitPcs
                  /\ origin'[id].by = <<r, req[r].item>>
                  /\ task'[id].key = Item(r).key /\ task'[id].hash = Hash(r)
                  /\ req'[r].pc = "proxy" /\ req'[r].id = id,
           req'[r].pc = "proxy" =>
               /\ req'[r].id \in Ids /\ task'[req'[r].id].status # "absent"
               /\ task'[req'[r].id].key = Item(r).key
               /\ task'[req'[r].id].hash = Hash(r),
           req'[r].pc = "fresh" =>
               /\ task'[req'[r].id].gen > req'[r].gen
               /\ \A q \in Requests \ {r} :
                    Retried(q) /\ req[q].id = req'[r].id => req[q].gen # req'[r].gen
    PROVE  SubmissionInv'
  <1>1. /\ RetryOK
        /\ \A q \in Requests : req[q] \in Request /\ Progress(q) /\ AnswerOK(q) /\ ProxyOK(q)
        /\ \A id \in Ids : OriginOK(id) /\ task[id].gen \in Nat
    BY SubmissionParts
  <1>2. \A q \in Requests : \A i : Meant(<<q, i>>)' = Meant(<<q, i>>)
    BY DEF Meant
  <1>3. \A q \in Requests : /\ Submits(q)' <=> Submits(q)
                            /\ req'[q].results = req[q].results
                            /\ req'[q].item = req[q].item
    BY DEF Submits
  <1>4. Item(r) = Meant(<<r, req[r].item>>) /\ Hash(r) = HashOf(Item(r))
    BY ItemIsMeant
  <1>5. \A q \in Requests : Progress(q)'
    BY OtherProgress
  <1>6. ASSUME NEW q \in Requests
        PROVE  AnswerOK(q)'
    <2> SUFFICES ASSUME Submits(q), NEW i \in 1..Len(req[q].results)
                 PROVE  /\ req[q].results[i].code = "accepted" =>
                             Made(req[q].results[i].id, Meant(<<q, i>>))'
                        /\ req[q].results[i].code = "conflict" =>
                             \E id \in Ids : Clashes(id, Meant(<<q, i>>))'
      BY <1>3 DEF AnswerOK
    <2>1. /\ req[q].results[i].code = "accepted" =>
               Made(req[q].results[i].id, Meant(<<q, i>>))
          /\ req[q].results[i].code = "conflict" =>
               \E id \in Ids : Clashes(id, Meant(<<q, i>>))
      BY <1>1 DEF AnswerOK
    <2>2. req[q].results[i].code = "accepted" =>
              Made(req[q].results[i].id, Meant(<<q, i>>))'
      BY <2>1, <1>2, <1>3 DEF Made, RowsKept, Exists
    <2>3. req[q].results[i].code = "conflict" =>
              \E id \in Ids : Clashes(id, Meant(<<q, i>>))'
      BY <2>1, <1>2 DEF Clashes, RowsKept, Exists
    <2> QED
      BY <2>2, <2>3
  <1>7. ASSUME NEW q \in Requests
        PROVE  ProxyOK(q)'
    <2>1. CASE q = r
      BY <2>1, <1>2, <1>4 DEF ProxyOK, Made, Exists
    <2>2. CASE q # r
      BY <2>2, <1>1, <1>2 DEF ProxyOK, Made, RowsKept, Exists
    <2> QED
      BY <2>1, <2>2
  <1>8. ASSUME NEW id \in Ids
        PROVE  OriginOK(id)'
    <2> SUFFICES ASSUME Exists(id)'
                 PROVE  \E q \in Requests : \E i \in 1..req[q].item :
                          /\ origin'[id].by = <<q, i>>
                          /\ Submits(q)
                          /\ Made(id, Meant(<<q, i>>))'
                          /\ i <= Len(req[q].results) =>
                               req[q].results[i] \in {Result("accepted", id),
                                                      Failed("unavailable")}
                          /\ i > Len(req[q].results) => req'[q].pc = "proxy" /\ req'[q].id = id
      BY <1>3 DEF OriginOK, Result, Failed
    <2>1. CASE Exists(id)
      <3>1. PICK q \in Requests : \E i \in 1..req[q].item :
              /\ origin[id].by = <<q, i>>
              /\ Submits(q)
              /\ Made(id, Meant(<<q, i>>))
              /\ i <= Len(req[q].results) =>
                   req[q].results[i] \in {Result("accepted", id), Failed("unavailable")}
              /\ i > Len(req[q].results) => req[q].pc = "proxy" /\ req[q].id = id
        BY <2>1, <1>1 DEF OriginOK
      <3>2. PICK i \in 1..req[q].item :
              /\ origin[id].by = <<q, i>>
              /\ Submits(q)
              /\ Made(id, Meant(<<q, i>>))
              /\ i <= Len(req[q].results) =>
                   req[q].results[i] \in {Result("accepted", id), Failed("unavailable")}
              /\ i > Len(req[q].results) => req[q].pc = "proxy" /\ req[q].id = id
        BY <3>1
      <3>3. origin'[id].by = <<q, i>> /\ Made(id, Meant(<<q, i>>))'
        BY <3>2, <2>1, <1>2 DEF Made, RowsKept, Exists
      <3>4. i > Len(req[q].results) => req'[q].pc = "proxy" /\ req'[q].id = id
        BY <3>2
      <3> QED
        BY <3>2, <3>3, <3>4
    <2>2. CASE ~Exists(id)
      <3>1. /\ req[r].pc \in SubmitPcs /\ origin'[id].by = <<r, req[r].item>>
            /\ task'[id].key = Item(r).key /\ task'[id].hash = Hash(r)
            /\ req'[r].pc = "proxy" /\ req'[r].id = id
        BY <2>2
      <3>2. Submits(r) /\ Len(req[r].results) = req[r].item - 1
        BY <3>1, <1>1 DEF Progress
      <3>3. req[r].item \in 1..Len(req[r].body.items)
        BY <3>2, <1>1 DEF Progress
      <3>4. PICK i \in 1..Len(req[r].body.items) : i = req[r].item
        BY <3>3
      <3>5. Made(id, Meant(<<r, i>>))'
        <4>1. Meant(<<r, i>>)' = Item(r)
          BY <3>4, <1>2, <1>4
        <4> QED
          BY <4>1, <3>1, <1>4 DEF Made, Exists
      <3>6. i \in 1..req[r].item /\ ~(i <= Len(req[r].results))
        BY <3>2, <3>4
      <3> QED
        BY <3>1, <3>2, <3>4, <3>5, <3>6
    <2> QED
      BY <2>1, <2>2
  <1>9. ASSUME NEW q \in Requests, Retried(q)'
        PROVE  IF q = r THEN req'[r].pc = "fresh"
               ELSE Retried(q) /\ req'[q].id = req[q].id /\ req'[q].gen = req[q].gen
    <2>1. CASE q # r
      BY <2>1, <1>9 DEF Retried
    <2>2. CASE q = r
      <3>1. req[r].body.kind = "retry" =>
               req[r].pc \in {"load", "retryQuota", "retry", "fresh"}
        BY <1>1 DEF Progress, Submits, Request, SubmitPcs, RetryPcs
      <3>2. req[r].body.kind = "retry" => req[r].results = <<>>
        BY <3>1, <1>1 DEF Progress, RetryPcs
      <3> QED
        BY <3>2, <2>2, <1>9 DEF Retried
    <2> QED
      BY <2>1, <2>2
  <1>10. RetryOK'
    <2>1. ASSUME NEW q \in Requests, Retried(q)'
          PROVE  task'[req'[q].id].gen > req'[q].gen
      <3>1. CASE q = r
        BY <3>1, <2>1, <1>9
      <3>2. CASE q # r
        <4>1. Retried(q) /\ req'[q].id = req[q].id /\ req'[q].gen = req[q].gen
          BY <3>2, <2>1, <1>9
        <4>2. task[req[q].id].gen > req[q].gen
          BY <4>1, <1>1 DEF RetryOK
        <4>3. req[q].id \in Ids /\ req[q].gen \in Nat
          BY <4>1, <1>1 DEF Retried, Progress, Request
        <4>4. task'[req[q].id].gen >= task[req[q].id].gen /\ task'[req[q].id].gen \in Nat
          BY <4>3 DEF RowsKept, RowsOK
        <4> QED
          BY <4>1, <4>2, <4>3, <4>4, <1>1
      <3> QED
        BY <3>1, <3>2
    <2>2. ASSUME NEW q \in Requests, NEW p \in Requests, Retried(q)', Retried(p)', q # p,
                 req'[q].id = req'[p].id
          PROVE  req'[q].gen # req'[p].gen
      <3>1. CASE q # r /\ p # r
        BY <3>1, <2>2, <1>1, <1>9 DEF RetryOK
      <3>2. CASE q = r
        BY <3>2, <2>2, <1>9
      <3>3. CASE p = r
        BY <3>3, <2>2, <1>9
      <3> QED
        BY <3>1, <3>2, <3>3
    <2> QED
      BY <2>1, <2>2 DEF RetryOK
  <1> QED
    BY <1>5, <1>6, <1>7, <1>8, <1>10 DEF SubmissionInv

(* Workers and reloads.                                                    *)
LEMMA RequestsSame ==
    ASSUME SubmissionInv, req' = req, RowsOK', RowsKept, conf' \in Nat,
           \A id \in Ids : Exists(id)' => Exists(id)
    PROVE  SubmissionInv'
  <1>1. /\ RetryOK /\ req = [q \in Requests |-> req[q]]
        /\ \A q \in Requests : req[q] \in Request /\ Progress(q) /\ AnswerOK(q) /\ ProxyOK(q)
        /\ \A id \in Ids : OriginOK(id) /\ task[id].gen \in Nat
    BY SubmissionParts
  <1>2. \A x : Meant(x)' = Meant(x)
    BY DEF Meant
  <1>3. ASSUME NEW q \in Requests
        PROVE  Progress(q)' /\ AnswerOK(q)' /\ ProxyOK(q)'
    <2>1. Progress(q)'
      BY OtherProgress
    <2>2. AnswerOK(q)'
      BY <1>1, <1>2 DEF AnswerOK, Submits, Made, Clashes, RowsKept, Exists
    <2>3. ProxyOK(q)'
      BY <1>1, <1>2 DEF ProxyOK, Made, RowsKept, Exists
    <2> QED
      BY <2>1, <2>2, <2>3
  <1>4. ASSUME NEW id \in Ids
        PROVE  OriginOK(id)'
    <2>1. \A q, i : Exists(id) /\ Made(id, Meant(<<q, i>>)) => Made(id, Meant(<<q, i>>))'
      BY <1>2 DEF Made, RowsKept, Exists
    <2>2. Exists(id)' => Exists(id) /\ origin'[id] = origin[id]
      BY DEF RowsKept
    <2>3. Exists(id) => OriginOK(id)'
      <3> SUFFICES ASSUME Exists(id)
                   PROVE  OriginOK(id)'
        OBVIOUS
      <3>1. PICK q \in Requests : \E i \in 1..req[q].item :
              /\ origin[id].by = <<q, i>>
              /\ Submits(q)
              /\ Made(id, Meant(<<q, i>>))
              /\ i <= Len(req[q].results) =>
                   req[q].results[i] \in {Result("accepted", id), Failed("unavailable")}
              /\ i > Len(req[q].results) => req[q].pc = "proxy" /\ req[q].id = id
        BY <1>1 DEF OriginOK
      <3>2. Submits(q)' <=> Submits(q)
        BY DEF Submits
      <3>3. origin'[id] = origin[id]
        BY DEF RowsKept
      <3> QED
        BY <3>1, <3>2, <3>3, <2>1 DEF OriginOK, Result, Failed
    <2> QED
      BY <2>2, <2>3 DEF OriginOK
  <1>5. RetryOK'
    <2>1. \A q \in Requests : Retried(q)' <=> Retried(q)
      BY DEF Retried
    <2>2. ASSUME NEW q \in Requests, Retried(q)
          PROVE  task'[req[q].id].gen > req[q].gen
      <3>1. task[req[q].id].gen > req[q].gen
        BY <2>2, <1>1 DEF RetryOK
      <3>2. req[q].id \in Ids /\ req[q].gen \in Nat
        BY <2>2, <1>1 DEF Retried, Progress, Request
      <3>3. task'[req[q].id].gen >= task[req[q].id].gen /\ task'[req[q].id].gen \in Nat
        BY <3>2 DEF RowsKept, RowsOK
      <3> QED
        BY <3>1, <3>2, <3>3, <1>1
    <2> QED
      BY <2>1, <2>2, <1>1 DEF RetryOK
  <1> QED
    BY <1>1, <1>3, <1>4, <1>5 DEF SubmissionInv

(* A request that changes its pc.                                          *)
LEMMA GotoFields ==
    ASSUME SubmissionInv, NEW r \in Requests, NEW pc, Goto(r, pc),
           pc \in {"new", "envelope", "done"} \cup SubmitPcs \cup RetryPcs
    PROVE  /\ req' = [q \in Requests |-> req'[q]]
           /\ \A q \in Requests \ {r} : req'[q] = req[q]
           /\ req'[r].body = req[r].body /\ req'[r].item = req[r].item
           /\ req'[r].results = req[r].results
           /\ req'[r].id = req[r].id /\ req'[r].gen = req[r].gen /\ req'[r].pc = pc
           /\ req'[r] \in Request
  <1> DEFINE n == [req[r] EXCEPT !.pc = pc]
  <1>1. req[r] \in Request /\ req = [q \in Requests |-> req[q]]
    BY SubmissionParts
  <1>2. /\ n.body = req[r].body /\ n.item = req[r].item /\ n.results = req[r].results
        /\ n.id = req[r].id /\ n.gen = req[r].gen /\ n.pc = pc /\ n \in Request
    BY <1>1 DEF Request
  <1>3. req' = [req EXCEPT ![r] = n]
    BY DEF Goto
  <1> HIDE DEF n
  <1> QED
    BY <1>1, <1>2, <1>3

LEMMA GotoStep ==
    ASSUME SubmissionInv, NEW r \in Requests, NEW pc, Goto(r, pc),
           \/ req[r].pc \in SubmitPcs \ {"proxy"} /\ pc \in SubmitPcs \ {"proxy"}
           \/ req[r].pc = "envelope" /\ pc \in {"lookup", "done"}
           \/ req[r].pc \in RetryPcs \ {"fresh"} /\ pc \in RetryPcs,
           RowsOK', RowsKept, conf' \in Nat, \A id \in Ids : Exists(id)' => Exists(id),
           pc = "fresh" =>
               /\ task'[req[r].id].gen > req[r].gen
               /\ \A q \in Requests \ {r} :
                    Retried(q) /\ req[q].id = req[r].id => req[q].gen # req[r].gen
    PROVE  SubmissionInv'
  <1>1. Progress(r) /\ req[r] \in Request
    BY SubmissionParts
  <1>2. pc \in {"new", "envelope", "done"} \cup SubmitPcs \cup RetryPcs
    BY DEF SubmitPcs
  <1>3. /\ req' = [q \in Requests |-> req'[q]]
        /\ \A q \in Requests \ {r} : req'[q] = req[q]
        /\ req'[r].body = req[r].body /\ req'[r].item = req[r].item
        /\ req'[r].results = req[r].results
        /\ req'[r].id = req[r].id /\ req'[r].gen = req[r].gen /\ req'[r].pc = pc
        /\ req'[r] \in Request
    BY <1>2, GotoFields
  <1>4. Submits(r)' <=> Submits(r)
    BY <1>3 DEF Submits
  <1>5. req[r].pc \notin {"new", "done", "proxy", "fresh"} /\ pc \notin {"new", "envelope", "proxy"}
    BY DEF SubmitPcs, RetryPcs
  <1>6. Progress(r)'
    <2>1. CASE req[r].pc \in SubmitPcs \ {"proxy"} /\ pc \in SubmitPcs \ {"proxy"}
      <3>1. pc \notin RetryPcs /\ pc \notin {"new", "envelope"}
        BY <2>1 DEF SubmitPcs, RetryPcs
      <3> QED
        BY <3>1, <2>1, <1>1, <1>3, <1>4, <1>5 DEF Progress
    <2>2. CASE req[r].pc = "envelope" /\ pc \in {"lookup", "done"}
      <3>1. /\ req[r].body.kind = "batch" /\ req[r].item = 1 /\ req[r].results = <<>>
            /\ Submits(r)
        BY <2>2, <1>1 DEF Progress, Submits
      <3>2. Len(req[r].results) = req[r].item - 1
        BY <3>1
      <3>3. pc \notin RetryPcs
        BY <2>2 DEF RetryPcs
      <3> QED
        BY <3>1, <3>2, <3>3, <2>2, <1>1, <1>3, <1>4, <1>5 DEF Progress
    <2>3. CASE req[r].pc \in RetryPcs \ {"fresh"} /\ pc \in RetryPcs
      <3>1. pc \notin SubmitPcs /\ pc \notin {"new", "envelope"}
        BY <2>3 DEF SubmitPcs, RetryPcs
      <3> QED
        BY <3>1, <2>3, <1>1, <1>3, <1>4, <1>5 DEF Progress
    <2> QED
      BY <2>1, <2>2, <2>3
  <1>7. \A id \in Ids : Exists(id)' =>
            \/ Exists(id)
            \/ /\ req[r].pc \in SubmitPcs
               /\ origin'[id].by = <<r, req[r].item>>
               /\ task'[id].key = Item(r).key /\ task'[id].hash = Hash(r)
               /\ req'[r].pc = "proxy" /\ req'[r].id = id
    OBVIOUS
  <1>8. req'[r].pc # "proxy"
    BY <1>3, <1>5
  <1>9. req'[r].pc = "fresh" =>
            /\ task'[req'[r].id].gen > req'[r].gen
            /\ \A q \in Requests \ {r} :
                 Retried(q) /\ req[q].id = req'[r].id => req[q].gen # req'[r].gen
    BY <1>3
  <1> QED
    BY <1>3, <1>5, <1>6, <1>7, <1>8, <1>9, MoveStep

(* An item or a retry fails, whatever became of the row.                   *)
LEMMA FailStep ==
    ASSUME SubmissionInv, NEW r \in Requests, NEW code \in Codes \ {"accepted", "conflict"},
           Conclude(r, Failed(code)), req[r].pc \in (SubmitPcs \ {"proxy"}) \cup RetryPcs,
           RowsOK', RowsKept, conf' \in Nat, \A id \in Ids : Exists(id)' => Exists(id)
    PROVE  SubmissionInv'
  <1> DEFINE res == Failed(code)
  <1>1. res \in ResultRecord /\ res.code # "accepted" /\ res.code # "conflict"
    BY DEF Failed, Result, ResultRecord
  <1>2. Conclude(r, res) /\ req[r].pc # "proxy"
    BY DEF RetryPcs
  <1> HIDE DEF res
  <1> QED
    BY <1>1, <1>2, ConcludeStep

(* The key is there: the original, or a conflict.                          *)
LEMMA ReplayStep ==
    ASSUME SubmissionInv, NEW r \in Requests, NEW id \in ByKey(Item(r).key),
           Conclude(r, Replay(r, id)), req[r].pc \in SubmitPcs \ {"proxy"},
           UNCHANGED <<vars, origin, conf>>
    PROVE  SubmissionInv'
  <1> DEFINE res == Replay(r, id)
  <1>1. id \in Ids /\ task[id].status # "absent" /\ task[id].key = Item(r).key
    BY DEF ByKey, HasKey
  <1>2. /\ res \in ResultRecord
        /\ res.code = "accepted" => res.id = id /\ task[id].hash = Hash(r)
        /\ res.code = "conflict" => task[id].hash # Hash(r)
    BY <1>1 DEF Replay, Failed, Result, ResultRecord, Codes
  <1>3. /\ RowsOK' /\ RowsKept /\ task' = task /\ conf' \in Nat
        /\ \A jd \in Ids : Exists(jd)' => Exists(jd)
    BY RowsSame, SubmissionParts DEF vars
  <1>4. req[r].pc \notin RetryPcs /\ Conclude(r, res)
    BY DEF SubmitPcs, RetryPcs
  <1> HIDE DEF res
  <1> QED
    BY <1>1, <1>2, <1>3, <1>4, ConcludeStep
-----------------------------------------------------------------------------
(* The actions *)

LEMMA InsertStep ==
    ASSUME SubmissionInv, NEW r \in Requests, Insert(r)
    PROVE  SubmissionInv'
  <1>1. PICK id \in Ids :
          /\ Insertion(r, id)
          /\ \/ IF ModeOf(r) = "proxy"
                THEN req' = [req EXCEPT ![r].pc = "proxy", ![r].id = id]
                ELSE Conclude(r, Result("accepted", id))
             \/ Conclude(r, Failed("unavailable"))
    BY DEF Insert
  <1>2. /\ req[r].pc = "insert" /\ conf' \in Nat /\ req[r] \in Request /\ Progress(r)
        /\ req = [q \in Requests |-> req[q]]
    BY SubmissionParts DEF Insert, At
  <1> DEFINE o == [target |-> Item(r).target, mode |-> ModeOf(r),
                   batch |-> IF req[r].body.kind = "batch" THEN r ELSE 0,
                   by |-> <<r, req[r].item>>]
  <1>3. /\ origin' = [origin EXCEPT ![id] = o] /\ o.by = <<r, req[r].item>>
        /\ \E t \in AppNow, duration \in Durations :
             Accept(id, Item(r).key, Hash(r), t, duration)
    BY <1>1 DEF Insertion
  <1> HIDE DEF o
  <1>4. /\ RowsOK' /\ RowsKept
        /\ ~Exists(id) /\ Exists(id)' /\ origin'[id] = o
        /\ task'[id].key = Item(r).key /\ task'[id].hash = Hash(r)
        /\ \A jd \in Ids : Exists(jd)' => jd = id \/ Exists(jd)
    <2>1. PICK t \in AppNow : \E duration \in Durations :
             Accept(id, Item(r).key, Hash(r), t, duration)
      BY <1>3
    <2>2. PICK duration \in Durations : Accept(id, Item(r).key, Hash(r), t, duration)
      BY <2>1
    <2> QED
      BY <2>2, <1>3, AcceptRows
  <1>5. task'[id].status # "absent"
    BY <1>4 DEF Exists
  <1>6. req[r].pc \in SubmitPcs /\ req[r].pc \notin RetryPcs /\ req[r].pc # "proxy"
    BY <1>2 DEF SubmitPcs, RetryPcs
  <1>7. CASE req' = [req EXCEPT ![r].pc = "proxy", ![r].id = id]
    <2> DEFINE n == [req[r] EXCEPT !.pc = "proxy", !.id = id]
    <2>1. /\ n.body = req[r].body /\ n.item = req[r].item /\ n.results = req[r].results
          /\ n.id = id /\ n.pc = "proxy" /\ n \in Request
      BY <1>2 DEF Request, SubmitPcs
    <2>2. req' = [req EXCEPT ![r] = n]
      BY <1>2, <1>7
    <2> HIDE DEF n
    <2>3. /\ req' = [q \in Requests |-> req'[q]] /\ req'[r] = n
          /\ \A q \in Requests \ {r} : req'[q] = req[q]
      BY <2>2, <1>2
    <2>4. Progress(r)'
      <3>1. Submits(r) /\ Submits(r)'
        BY <2>1, <2>3, <1>2, <1>6 DEF Progress, Submits
      <3>2. "proxy" \in SubmitPcs /\ "proxy" \notin {"new", "envelope"} \cup RetryPcs
        BY DEF SubmitPcs, RetryPcs
      <3> QED
        BY <3>1, <3>2, <2>1, <2>3, <1>2, <1>6 DEF Progress
    <2>5. \A jd \in Ids : Exists(jd)' =>
            \/ Exists(jd)
            \/ /\ req[r].pc \in SubmitPcs
               /\ origin'[jd].by = <<r, req[r].item>>
               /\ task'[jd].key = Item(r).key /\ task'[jd].hash = Hash(r)
               /\ req'[r].pc = "proxy" /\ req'[r].id = jd
      BY <2>1, <2>3, <1>3, <1>4, <1>6
    <2>6. req[r].pc \notin {"new", "done", "proxy", "fresh"} /\ req'[r].pc # "fresh"
      BY <2>1, <2>3, <1>2
    <2> QED
      BY <2>1, <2>3, <2>4, <2>5, <2>6, <1>2, <1>4, <1>5, MoveStep
  <1>8. ASSUME NEW res \in {Result("accepted", id), Failed("unavailable")}, Conclude(r, res)
        PROVE  SubmissionInv'
    <2>1. /\ res \in ResultRecord /\ (res.code = "accepted" => res.id = id)
          /\ res.code # "conflict"
      BY <1>8 DEF Result, Failed, ResultRecord, Codes
    <2>2. \A jd \in Ids : Exists(jd)' =>
            \/ Exists(jd)
            \/ /\ req[r].pc \in SubmitPcs
               /\ origin'[jd].by = <<r, req[r].item>>
               /\ task'[jd].key = Item(r).key /\ task'[jd].hash = Hash(r)
               /\ res \in {Result("accepted", jd), Failed("unavailable")}
      BY <1>3, <1>4, <1>6, <1>8
    <2> QED
      BY <2>1, <2>2, <1>2, <1>4, <1>5, <1>6, <1>8, ConcludeStep
  <1> QED
    BY <1>1, <1>7, <1>8

LEMMA RetryLoadStep ==
    ASSUME SubmissionInv, NEW r \in Requests, RetryLoad(r)
    PROVE  SubmissionInv'
  <1>1. /\ req[r].pc = "load" /\ req[r] \in Request /\ Progress(r)
        /\ req = [q \in Requests |-> req[q]]
        /\ UNCHANGED <<vars, origin>> /\ conf' \in Nat
    BY SubmissionParts DEF RetryLoad, At
  <1>2. RowsOK' /\ RowsKept /\ \A id \in Ids : Exists(id)' => Exists(id)
    BY <1>1, RowsSame
  <1>3. req[r].id \in Ids /\ req[r].body.kind = "retry" /\ ~Submits(r)
    BY <1>1 DEF Progress, RetryPcs, Submits
  <1>4. task[req[r].id].gen \in Nat
    BY <1>3, SubmissionParts
  <1>5. CASE LoadVerdict(r) = "ok"
    <2> DEFINE n == [req[r] EXCEPT !.pc = "retryQuota", !.gen = task[req[r].id].gen]
    <2>1. req' = [req EXCEPT ![r] = n]
      BY <1>1, <1>5 DEF RetryLoad
    <2>2. /\ n.body = req[r].body /\ n.item = req[r].item /\ n.results = req[r].results
          /\ n.id = req[r].id /\ n.pc = "retryQuota" /\ n \in Request
      BY <1>1, <1>4 DEF Request, RetryPcs
    <2> HIDE DEF n
    <2>3. /\ req' = [q \in Requests |-> req'[q]] /\ req'[r] = n
          /\ \A q \in Requests \ {r} : req'[q] = req[q]
      BY <2>1, <1>1
    <2>4. Progress(r)'
      <3>1. ~Submits(r)'
        BY <2>2, <2>3, <1>3 DEF Submits
      <3>2. "retryQuota" \in RetryPcs /\ "retryQuota" \notin SubmitPcs
        BY DEF SubmitPcs, RetryPcs
      <3>3. req[r].results = <<>> /\ req[r].body \in Bodies
        BY <1>1 DEF Progress, RetryPcs
      <3> QED
        BY <3>1, <3>2, <3>3, <2>2, <2>3, <1>3 DEF Progress
    <2>5. \A id \in Ids : Exists(id)' =>
            \/ Exists(id)
            \/ /\ req[r].pc \in SubmitPcs
               /\ origin'[id].by = <<r, req[r].item>>
               /\ task'[id].key = Item(r).key /\ task'[id].hash = Hash(r)
               /\ req'[r].pc = "proxy" /\ req'[r].id = id
      BY <1>2
    <2>6. req'[r].pc \notin {"proxy", "fresh"}
      BY <2>2, <2>3
    <2> QED
      BY <2>2, <2>3, <2>4, <2>5, <2>6, <1>1, <1>2, MoveStep
  <1>6. CASE LoadVerdict(r) # "ok"
    <2>1. LoadVerdict(r) \in {"refused", "notFound", "state"}
      BY <1>6 DEF LoadVerdict
    <2>2. LoadVerdict(r) \in Codes \ {"accepted", "conflict"}
      BY <2>1 DEF Codes
    <2>3. Conclude(r, Failed(LoadVerdict(r)))
      BY <1>6 DEF RetryLoad
    <2> QED
      BY <2>2, <2>3, <1>1, <1>2, FailStep DEF RetryPcs
  <1> QED
    BY <1>5, <1>6

LEMMA RetryStep ==
    ASSUME SubmissionInv, NEW r \in Requests, Retry(r)
    PROVE  SubmissionInv'
  <1>1. /\ req[r].pc = "retry" /\ req[r] \in Request /\ Progress(r) /\ RetryOK
        /\ origin' = origin /\ conf' \in Nat
    BY SubmissionParts DEF Retry, At
  <1>2. req[r].id \in Ids /\ req[r].gen \in Nat
    BY <1>1 DEF Progress, RetryPcs, Request
  <1>3. PICK t \in AppNow : \E duration \in Durations :
            ManualRetry(req[r].id, req[r].gen, t, duration)
    BY DEF Retry
  <1>4. PICK duration \in Durations : ManualRetry(req[r].id, req[r].gen, t, duration)
    BY <1>3
  <1>5. /\ RowsOK' /\ RowsKept /\ \A jd \in Ids : Exists(jd)' => Exists(jd)
        /\ req[r].gen = task[req[r].id].gen /\ task'[req[r].id].gen = req[r].gen + 1
    BY <1>1, <1>2, <1>4, ManualRetryRows
  <1>6. CASE Goto(r, "fresh")
    <2>1. task'[req[r].id].gen > req[r].gen
      BY <1>2, <1>5
    <2>2. ASSUME NEW q \in Requests \ {r}, Retried(q), req[q].id = req[r].id
          PROVE  req[q].gen # req[r].gen
      <3>1. task[req[q].id].gen > req[q].gen
        BY <2>2, <1>1 DEF RetryOK
      <3> QED
        BY <3>1, <2>2, <1>2, <1>5
    <2>3. req[r].pc \in RetryPcs \ {"fresh"} /\ "fresh" \in RetryPcs
      BY <1>1 DEF RetryPcs
    <2> QED
      BY <2>1, <2>2, <2>3, <1>1, <1>5, <1>6, GotoStep
  <1>7. CASE Conclude(r, Failed("unavailable"))
    <2>1. "unavailable" \in Codes \ {"accepted", "conflict"} /\ req[r].pc \in RetryPcs
      BY <1>1 DEF Codes, RetryPcs
    <2> QED
      BY <2>1, <1>1, <1>5, <1>7, FailStep
  <1> QED
    BY <1>6, <1>7 DEF Retry

LEMMA ReceiveStep ==
    ASSUME SubmissionInv, NEW r \in Requests, Receive(r)
    PROVE  SubmissionInv'
  <1>1. /\ RetryOK /\ req = [q \in Requests |-> req[q]] /\ conf \in Nat
        /\ \A q \in Requests : req[q] \in Request /\ Progress(q) /\ AnswerOK(q) /\ ProxyOK(q)
        /\ \A id \in Ids : OriginOK(id) /\ task[id].gen \in Nat
    BY SubmissionParts
  <1>2. /\ req[r].pc = "new" /\ UNCHANGED <<vars, origin>> /\ conf' = conf /\ task' = task
        /\ origin' = origin
    BY DEF Receive, At, vars
  <1>3. RowsOK'
    BY <1>2, RowsSame
  <1>4. req[r].body = NoBody /\ req[r].item = 1 /\ req[r].results = <<>>
    BY <1>1, <1>2 DEF Progress
  <1>5. PICK b \in Bodies :
          LET pc == CASE b.kind = "single" -> "lookup"
                      [] b.kind = "batch" -> "envelope"
                      [] b.kind = "retry" -> "load"
          IN  req' = [req EXCEPT ![r] = [@ EXCEPT
                  !.pc = pc, !.body = b, !.snap = conf, !.id = b.id]]
    BY DEF Receive
  <1> DEFINE pc == CASE b.kind = "single" -> "lookup"
                     [] b.kind = "batch" -> "envelope"
                     [] b.kind = "retry" -> "load"
             n == [req[r] EXCEPT !.pc = pc, !.body = b, !.snap = conf, !.id = b.id]
  <1>6. /\ b.kind \in {"single", "batch", "retry"} /\ b.id \in Ids \cup {NoKey}
        /\ b.kind = "retry" => b.id \in Ids
        /\ Len(b.items) \in Nat
        /\ b.kind # "retry" => 1 \in 1..Len(b.items)
    BY SubmissionAssumption
  <1>7. /\ b.kind = "single" => pc = "lookup"
        /\ b.kind = "batch" => pc = "envelope"
        /\ b.kind = "retry" => pc = "load"
        /\ pc \in {"lookup", "envelope", "load"}
    BY <1>6
  <1>8. req' = [req EXCEPT ![r] = n]
    BY <1>5
  <1> HIDE DEF pc
  <1>9. /\ n.body = b /\ n.item = req[r].item /\ n.results = req[r].results
        /\ n.pc = pc /\ n.id = b.id /\ n \in Request
    BY <1>1, <1>6, <1>7 DEF Request, SubmitPcs, RetryPcs
  <1> HIDE DEF n
  <1>10. /\ req' = [q \in Requests |-> req'[q]] /\ req'[r] = n
         /\ \A q \in Requests \ {r} : req'[q] = req[q]
    BY <1>1, <1>8
  <1>11. Progress(r)'
    <2>1. Submits(r)' <=> b.kind \in {"single", "batch"}
      BY <1>9, <1>10 DEF Submits
    <2>2. Submits(r)' => /\ req'[r].item \in 1..Len(req'[r].body.items)
                         /\ Len(req'[r].results) <= req'[r].item
      BY <2>1, <1>4, <1>6, <1>9, <1>10
    <2>3. req'[r].pc \in SubmitPcs => Submits(r)' /\ Len(req'[r].results) = req'[r].item - 1
      BY <2>1, <1>4, <1>6, <1>7, <1>9, <1>10 DEF SubmitPcs
    <2>4. req'[r].pc \in RetryPcs => req'[r].body.kind = "retry"
      BY <1>6, <1>7, <1>9, <1>10 DEF RetryPcs
    <2>5. /\ req'[r] \in Request /\ req'[r].body \in Bodies /\ req'[r].pc # "new"
          /\ req'[r].pc = "envelope" => req'[r].body.kind = "batch" /\ req'[r].item = 1
          /\ req'[r].results = <<>>
          /\ req'[r].body.kind = "retry" => req'[r].id \in Ids
      BY <1>4, <1>6, <1>7, <1>9, <1>10
    <2> QED
      BY <2>2, <2>3, <2>4, <2>5, Zenon DEF Progress
  <1>12. ~Submits(r) /\ ~Retried(r) /\ ~Retried(r)' /\ req'[r].pc # "proxy"
         /\ Len(req'[r].results) = 0
    BY <1>4, <1>7, <1>9, <1>10 DEF Submits, Retried, NoBody
  <1>13. \A q \in Requests \ {r} : \A i : Meant(<<q, i>>)' = Meant(<<q, i>>)
    BY <1>10 DEF Meant
  <1>14. ASSUME NEW q \in Requests
         PROVE  Progress(q)' /\ AnswerOK(q)' /\ ProxyOK(q)'
    <2>1. CASE q = r
      <3>1. AnswerOK(r)'
        BY <1>12 DEF AnswerOK
      <3> QED
        BY <3>1, <2>1, <1>11, <1>12 DEF ProxyOK
    <2>2. CASE q # r
      <3>1. req'[q] = req[q]
        BY <2>2, <1>10
      <3>2. AnswerOK(q)'
        BY <3>1, <2>2, <1>1, <1>2, <1>13 DEF AnswerOK, Submits, Made, Clashes, Exists
      <3>3. ProxyOK(q)'
        BY <3>1, <2>2, <1>1, <1>2, <1>13 DEF ProxyOK, Made, Exists
      <3> QED
        BY <3>1, <3>2, <3>3, OtherProgress
    <2> QED
      BY <2>1, <2>2
  <1>15. ASSUME NEW id \in Ids
         PROVE  OriginOK(id)'
    <2> SUFFICES ASSUME Exists(id)
                 PROVE  OriginOK(id)'
      BY <1>2 DEF OriginOK, Exists
    <2>1. PICK q \in Requests : \E i \in 1..req[q].item :
            /\ origin[id].by = <<q, i>>
            /\ Submits(q)
            /\ Made(id, Meant(<<q, i>>))
            /\ i <= Len(req[q].results) =>
                 req[q].results[i] \in {Result("accepted", id), Failed("unavailable")}
            /\ i > Len(req[q].results) => req[q].pc = "proxy" /\ req[q].id = id
      BY <1>1 DEF OriginOK
    <2>2. q # r /\ req'[q] = req[q]
      BY <2>1, <1>10, <1>12
    <2>3. Submits(q)' <=> Submits(q)
      BY <2>2 DEF Submits
    <2>4. \A i : Made(id, Meant(<<q, i>>)) => Made(id, Meant(<<q, i>>))'
      BY <2>2, <1>2, <1>13 DEF Made, Exists
    <2> QED
      BY <2>1, <2>2, <2>3, <2>4, <1>2 DEF OriginOK, Result, Failed
  <1>16. RetryOK'
    <2>1. \A q \in Requests : Retried(q)' => Retried(q) /\ req'[q] = req[q]
      BY <1>10, <1>12 DEF Retried
    <2> QED
      BY <2>1, <1>1, <1>2 DEF RetryOK
  <1> QED
    BY <1>1, <1>2, <1>3, <1>10, <1>14, <1>15, <1>16 DEF SubmissionInv

(* The steps that leave the tables alone.                                  *)
LEMMA QuietStep ==
    ASSUME SubmissionInv, NEW r \in Requests,
           \/ OpenBatch(r) \/ BatchRefused(r) \/ RejectInvalid(r) \/ LookupMiss(r)
           \/ Admitted(r) \/ QuotaRefused(r) \/ Duplicate(r) \/ ProxyReturns(r)
           \/ RetryAdmitted(r) \/ RetryStale(r) \/ RetryFresh(r) \/ Unavailable(r)
    PROVE  SubmissionInv'
  <1>1. UNCHANGED <<vars, origin>> /\ conf' = conf
    BY Zenon DEF OpenBatch, BatchRefused, RejectInvalid, LookupMiss, Admitted, QuotaRefused,
       Duplicate, ProxyReturns, RetryAdmitted, RetryStale, RetryFresh, Unavailable
  <1>2. /\ RowsOK' /\ RowsKept /\ conf' \in Nat /\ task' = task
        /\ \A id \in Ids : Exists(id)' => Exists(id)
    BY <1>1, RowsSame, SubmissionParts DEF vars
  <1>3. /\ {"lookup", "quota", "insert", "reread"} \subseteq SubmitPcs \ {"proxy"}
        /\ {"load", "retryQuota", "retry", "fresh"} \subseteq RetryPcs
        /\ {"load", "retryQuota", "retry"} \subseteq RetryPcs \ {"fresh"}
        /\ {"invalid", "refused", "quota", "unavailable", "state"}
             \subseteq Codes \ {"accepted", "conflict"}
    BY DEF SubmitPcs, RetryPcs, Codes
  <1>4. CASE OpenBatch(r) \/ BatchRefused(r)
    BY <1>2, <1>4, GotoStep DEF OpenBatch, BatchRefused, At
  <1>5. CASE RejectInvalid(r)
    BY <1>2, <1>3, <1>5, FailStep DEF RejectInvalid, At
  <1>6. CASE LookupMiss(r)
    <2>1. req[r].pc = "lookup" /\ (Goto(r, "quota") \/ Conclude(r, Failed("refused")))
      BY <1>6 DEF LookupMiss, At
    <2> QED
      BY <2>1, <1>2, <1>3, GotoStep, FailStep
  <1>7. CASE Admitted(r)
    BY <1>2, <1>3, <1>7, GotoStep DEF Admitted, At
  <1>8. CASE QuotaRefused(r)
    BY <1>2, <1>3, <1>8, FailStep DEF QuotaRefused
  <1>9. CASE Duplicate(r)
    BY <1>2, <1>3, <1>9, GotoStep DEF Duplicate, At
  <1>10. CASE ProxyReturns(r)
    <2> DEFINE res == Result("accepted", req[r].id)
    <2>1. req[r].pc = "proxy" /\ Conclude(r, res)
      BY <1>10 DEF ProxyReturns, At
    <2>2. Made(req[r].id, Meant(<<r, req[r].item>>))
      BY <2>1, SubmissionParts DEF ProxyOK
    <2>3. /\ req[r].id \in Ids /\ task[req[r].id].status # "absent"
          /\ task[req[r].id].key = Item(r).key /\ task[req[r].id].hash = Hash(r)
      BY <2>2, ItemIsMeant DEF Made, Exists
    <2>4. res \in ResultRecord /\ res.code = "accepted" /\ res.id = req[r].id
      BY <2>3 DEF Result, ResultRecord, Codes
    <2>5. req[r].pc \in SubmitPcs /\ req[r].pc \notin RetryPcs
      BY <2>1 DEF SubmitPcs, RetryPcs
    <2>6. res = Result("accepted", req[r].id)
      OBVIOUS
    <2> HIDE DEF res
    <2> QED
      BY <2>1, <2>3, <2>4, <2>5, <2>6, <1>2, ConcludeStep
  <1>11. CASE RetryAdmitted(r)
    BY <1>2, <1>3, <1>11, GotoStep DEF RetryAdmitted, At
  <1>12. CASE RetryStale(r)
    BY <1>2, <1>3, <1>12, FailStep DEF RetryStale, At
  <1>13. CASE RetryFresh(r)
    <2> DEFINE res == Result("accepted", req[r].id)
    <2>1. req[r].pc = "fresh" /\ Conclude(r, res)
      BY <1>13 DEF RetryFresh, At
    <2>2. req[r].id \in Ids \cup {NoKey}
      BY SubmissionParts DEF Request
    <2>3. res \in ResultRecord
      BY <2>2 DEF Result, ResultRecord, Codes
    <2>4. req[r].pc \in RetryPcs /\ req[r].pc \notin SubmitPcs
      BY <2>1 DEF SubmitPcs, RetryPcs
    <2> HIDE DEF res
    <2> QED
      BY <2>1, <2>3, <2>4, <1>2, ConcludeStep
  <1>14. CASE Unavailable(r)
    <2>1. /\ req[r].pc \in {"lookup", "quota", "insert", "reread"}
                            \cup {"load", "retryQuota", "retry", "fresh"}
          /\ Conclude(r, Failed("unavailable"))
      BY <1>14 DEF Unavailable, At
    <2> QED
      BY <2>1, <1>2, <1>3, FailStep
  <1> QED
    BY <1>4, <1>5, <1>6, <1>7, <1>8, <1>9, <1>10, <1>11, <1>12, <1>13, <1>14

LEMMA SubmissionStep == SubmissionInv /\ [SNext]_svars => SubmissionInv'
  <1> SUFFICES ASSUME SubmissionInv, [SNext]_svars
               PROVE  SubmissionInv'
    OBVIOUS
  <1>1. CASE UNCHANGED svars
    <2>1. UNCHANGED <<vars, origin>> /\ req' = req /\ conf' \in Nat
      BY <1>1, SubmissionParts DEF svars
    <2> QED
      BY <2>1, RowsSame, RequestsSame
  <1>2. CASE Reload
    <2>1. UNCHANGED <<vars, origin>> /\ req' = req
      BY <1>2 DEF Reload
    <2>2. conf' \in Nat
      BY <1>2, SubmissionParts, SubmissionAssumption DEF Reload
    <2> QED
      BY <2>1, <2>2, RowsSame, RequestsSame
  <1>3. CASE Deliveries
    <2>1. req' = req /\ origin' = origin /\ conf' \in Nat
      BY <1>3, SubmissionParts DEF Deliveries
    <2>2. ASSUME NEW id \in Ids, Claim(id, task[id].gen)
          PROVE  SubmissionInv'
      BY <2>1, <2>2, ClaimRows, RequestsSame
    <2>3. ASSUME NEW n \in held, NEW action, FinishFinal(n, action)
          PROVE  SubmissionInv'
      BY <2>1, <2>3, FinishRows, RequestsSame
    <2> QED
      BY <2>2, <2>3, <1>3 DEF Deliveries
  <1>4. ASSUME NEW r \in Requests, RequestStep(r)
        PROVE  SubmissionInv'
    <2>1. CASE LookupHit(r)
      <3>1. PICK id \in ByKey(Item(r).key) : Conclude(r, Replay(r, id))
        BY <2>1 DEF LookupHit
      <3>2. req[r].pc = "lookup" /\ UNCHANGED <<vars, origin, conf>>
        BY <2>1 DEF LookupHit, At
      <3>3. req[r].pc \in SubmitPcs \ {"proxy"}
        BY <3>2 DEF SubmitPcs
      <3> QED
        BY <3>1, <3>2, <3>3, ReplayStep
    <2>2. CASE Reread(r)
      <3>1. PICK id \in ByKey(Item(r).key) : Conclude(r, Replay(r, id))
        BY <2>2 DEF Reread
      <3>2. req[r].pc = "reread" /\ UNCHANGED <<vars, origin, conf>>
        BY <2>2 DEF Reread, At
      <3>3. req[r].pc \in SubmitPcs \ {"proxy"}
        BY <3>2 DEF SubmitPcs
      <3> QED
        BY <3>1, <3>2, <3>3, ReplayStep
    <2>3. CASE Receive(r) \/ Insert(r) \/ RetryLoad(r) \/ Retry(r)
      BY <2>3, ReceiveStep, InsertStep, RetryLoadStep, RetryStep
    <2> QED
      BY <2>1, <2>2, <2>3, <1>4, QuietStep DEF RequestStep
  <1> QED
    BY <1>1, <1>2, <1>3, <1>4 DEF SNext

LEMMA SubmissionInit == SInit => SubmissionInv
  <1> SUFFICES ASSUME SInit
               PROVE  SubmissionInv
    OBVIOUS
  <1>1. /\ task = [id \in Ids |-> Absent] /\ held = {} /\ conf = 1
        /\ origin = [id \in Ids |-> NoOrigin] /\ req = [r \in Requests |-> NewRequest]
    BY DEF SInit, Init
  <1>2. /\ Absent.status = "absent" /\ Absent.gen = 0 /\ Absent \in Columns(Absent)
    BY DEF Absent, Columns
  <1>3. \A id \in Ids : ~Exists(id)
    BY <1>1, <1>2 DEF Exists
  <1>4. RowsOK
    BY <1>1, <1>2, <1>3 DEF RowsOK
  <1>5. /\ NewRequest.pc = "new" /\ NewRequest.body = NoBody /\ NewRequest.item = 1
        /\ NewRequest.results = <<>> /\ NewRequest.id = NoKey
        /\ NewRequest.snap = 0 /\ NewRequest.gen = 0
    BY DEF NewRequest
  <1>6. NewRequest \in Request
    <2>1. <<>> \in Seq(ResultRecord)
      OBVIOUS
    <2> QED
      BY <2>1 DEF NewRequest, Request
  <1>7. NoBody.kind = "none"
    BY DEF NoBody
  <1>8. ASSUME NEW r \in Requests
        PROVE  Progress(r) /\ AnswerOK(r) /\ ProxyOK(r) /\ ~Retried(r)
    <2>1. req[r] = NewRequest
      BY <1>1
    <2>2. "new" \notin SubmitPcs \cup RetryPcs
      BY DEF SubmitPcs, RetryPcs
    <2> QED
      BY <2>1, <2>2, <1>5, <1>6, <1>7 DEF Progress, AnswerOK, ProxyOK, Retried, Submits
  <1>9. \A id \in Ids : OriginOK(id)
    BY <1>3 DEF OriginOK
  <1>10. RetryOK
    BY <1>8 DEF RetryOK
  <1> QED
    BY <1>1, <1>4, <1>8, <1>9, <1>10 DEF SubmissionInv
-----------------------------------------------------------------------------
(* service.go, store.go: the rows, what requests remember of them and what *)
(* they have been told keep the inductive invariant.                       *)
THEOREM SubmissionInvariant == SSpec => []SubmissionInv
  BY SubmissionInit, SubmissionStep, PTL DEF SSpec

(* An answer is the answer to an item of a submission.                     *)
LEMMA AnsweredItem ==
    ASSUME SubmissionInv, NEW code, NEW x \in Answered(code)
    PROVE  \E r \in Requests : \E i \in 1..Len(req[r].results) :
             x = <<r, i>> /\ Submits(r) /\ req[r].results[i].code = code
  <1>1. PICK r \in Requests :
          /\ req[r].body.kind # "retry"
          /\ \E i \in DOMAIN req[r].results : x = <<r, i>> /\ req[r].results[i].code = code
    BY DEF Answered
  <1>2. req[r] \in Request /\ Progress(r)
    BY SubmissionParts
  <1>3. req[r].results \in Seq(ResultRecord)
    BY <1>2 DEF Request
  <1>4. DOMAIN req[r].results = 1..Len(req[r].results) /\ req[r].results # <<>>
    BY <1>1, <1>3
  <1>5. Submits(r)
    BY <1>1, <1>2, <1>4, SubmissionAssumption DEF Progress, Submits
  <1> QED
    BY <1>1, <1>4, <1>5

LEMMA AcceptedIsMade ==
    ASSUME SubmissionInv, NEW x \in Answered("accepted")
    PROVE  Made(ResultOf(x).id, Meant(x))
  <1>1. PICK r \in Requests : \E i \in 1..Len(req[r].results) :
          x = <<r, i>> /\ Submits(r) /\ req[r].results[i].code = "accepted"
    BY AnsweredItem
  <1>2. PICK i \in 1..Len(req[r].results) :
          x = <<r, i>> /\ Submits(r) /\ req[r].results[i].code = "accepted"
    BY <1>1
  <1>3. AnswerOK(r)
    BY SubmissionParts
  <1>4. ResultOf(x) = req[r].results[i]
    BY <1>2 DEF ResultOf
  <1> QED
    BY <1>2, <1>3, <1>4 DEF AnswerOK

(* The row was made from the item that its origin names.                   *)
LEMMA MadeByOrigin ==
    ASSUME SubmissionInv, NEW id \in Ids, Exists(id)
    PROVE  Made(id, Meant(origin[id].by))
  BY SubmissionParts DEF OriginOK

(* service.go:62, store.go:78: all accepted submissions of a key name one  *)
(* notification, made from the same request, whichever insert won.         *)
THEOREM ReplaysAgreed == SSpec => []ReplaysAgree
  <1>1. SubmissionInv => ReplaysAgree
    <2> SUFFICES ASSUME SubmissionInv, NEW x \in Answered("accepted")
                 PROVE  LET id == ResultOf(x).id IN
                        /\ task[id].key = Meant(x).key
                        /\ SameRequest(Meant(x), Meant(origin[id].by))
                        /\ \A y \in Answered("accepted") :
                             Meant(y).key = Meant(x).key => ResultOf(y).id = id
      BY DEF ReplaysAgree
    <2> DEFINE id == ResultOf(x).id
    <2>1. Made(id, Meant(x))
      BY AcceptedIsMade
    <2>2. Made(id, Meant(origin[id].by))
      BY <2>1, MadeByOrigin DEF Made
    <2>3. HashOf(Meant(x)) = HashOf(Meant(origin[id].by))
      BY <2>1, <2>2 DEF Made
    <2>4. \A s, t : HashOf(s) = HashOf(t) => SameRequest(s, t)
      BY DEF HashOf, SameRequest
    <2>5. ASSUME NEW y \in Answered("accepted"), Meant(y).key = Meant(x).key
          PROVE  ResultOf(y).id = id
      <3>1. Made(ResultOf(y).id, Meant(y))
        BY AcceptedIsMade
      <3> QED
        BY <3>1, <2>1, <2>5, SubmissionParts DEF Made, RowsOK
    <2> QED
      BY <2>1, <2>3, <2>4, <2>5 DEF Made
  <1> QED
    BY <1>1, SubmissionInvariant, PTL

(* service.go:53: a conflict means that the key stands for another         *)
(* request, whatever the configuration made of the mode in between.        *)
THEOREM ConflictsAreReal == SSpec => []NoSpuriousConflict
  <1>1. SubmissionInv => NoSpuriousConflict
    <2> SUFFICES ASSUME SubmissionInv, NEW x \in Answered("conflict")
                 PROVE  \E id \in ByKey(Meant(x).key) :
                          ~SameRequest(Meant(x), Meant(origin[id].by))
      BY DEF NoSpuriousConflict
    <2>1. PICK r \in Requests : \E i \in 1..Len(req[r].results) :
            x = <<r, i>> /\ Submits(r) /\ req[r].results[i].code = "conflict"
      BY AnsweredItem
    <2>2. PICK id \in Ids : Clashes(id, Meant(x))
      BY <2>1, SubmissionParts DEF AnswerOK
    <2>3. Made(id, Meant(origin[id].by))
      BY <2>2, MadeByOrigin DEF Clashes
    <2>4. HashOf(Meant(x)) # HashOf(Meant(origin[id].by))
      BY <2>2, <2>3 DEF Clashes, Made
    <2>5. \A s, t : SameRequest(s, t) => HashOf(s) = HashOf(t)
      BY DEF HashOf, SameRequest
    <2>6. id \in ByKey(Meant(x).key)
      BY <2>2 DEF Clashes, ByKey, HasKey, Exists
    <2> QED
      BY <2>4, <2>5, <2>6
  <1> QED
    BY <1>1, SubmissionInvariant, PTL

(* service.go:90-105, server.go:184: the item that created a notification  *)
(* is told so, or that a dependency failed, in its own place.              *)
THEOREM CreationsReported == SSpec => []CreationIsReported
  <1>1. SubmissionInv => CreationIsReported
    <2> SUFFICES ASSUME SubmissionInv, NEW id \in Ids, Exists(id),
                        origin[id].by[2] \in DOMAIN req[origin[id].by[1]].results
                 PROVE  req[origin[id].by[1]].results[origin[id].by[2]]
                          \in {Result("accepted", id), Failed("unavailable")}
      BY DEF CreationIsReported, Exists
    <2>1. PICK r \in Requests : \E i \in 1..req[r].item :
            /\ origin[id].by = <<r, i>>
            /\ i <= Len(req[r].results) =>
                 req[r].results[i] \in {Result("accepted", id), Failed("unavailable")}
      BY SubmissionParts DEF OriginOK
    <2>2. PICK i \in 1..req[r].item :
            /\ origin[id].by = <<r, i>>
            /\ i <= Len(req[r].results) =>
                 req[r].results[i] \in {Result("accepted", id), Failed("unavailable")}
      BY <2>1
    <2>3. req[r].results \in Seq(ResultRecord)
      BY SubmissionParts DEF Request
    <2>4. DOMAIN req[r].results = 1..Len(req[r].results)
      BY <2>3
    <2>5. origin[id].by[1] = r /\ origin[id].by[2] = i
      BY <2>2
    <2>6. i <= Len(req[r].results)
      BY <2>4, <2>5
    <2> QED
      BY <2>2, <2>5, <2>6
  <1> QED
    BY <1>1, SubmissionInvariant, PTL

(* recovery.go:121: of the manual retries that saw the same failed         *)
(* generation at most one is accepted, and it has advanced the task.       *)
THEOREM RetriesAreFenced == SSpec => []RetriesFenced
  <1>1. SubmissionInv => RetriesFenced
    BY SubmissionParts DEF RetriesFenced, RetryOK, Retried
  <1> QED
    BY <1>1, SubmissionInvariant, PTL
=============================================================================
