------------------------ MODULE JobQueueStatusProofs ------------------------
(***************************************************************************)
(* Proofs about the status hash, which the API, a worker and PUT requests  *)
(* write without a lock: what a shown status means, that it only moves     *)
(* forward, and that it expires. A theorem names the failures it excludes; *)
(* everything else may happen, for every set of requests, workers, PUTs.   *)
(***************************************************************************)
EXTENDS JobQueueHandoverProofs

-----------------------------------------------------------------------------
(* HSET of an update: the status is replaced, the other fields only added. *)

LEMMA WithUpdateFields ==
  ASSUME NEW h \in Hash, NEW s, NEW e \in BOOLEAN, NEW x \in BOOLEAN
  PROVE  /\ WithUpdate(h, s, e, x).status = s
         /\ WithUpdate(h, s, e, x).error <=> (h.error \/ e)
         /\ WithUpdate(h, s, e, x).result <=> (h.result \/ x)
         /\ WithUpdate(h, s, e, x).completedAt <=> (h.completedAt \/ s \in Terminal)
         /\ WithUpdate(h, s, e, x).ttl = h.ttl
         /\ WithUpdate(h, s, e, x).named = h.named
BY DEF WithUpdate, Hash

LEMMA WithPendingFields ==
  ASSUME NEW h \in Hash
  PROVE  /\ WithPending(h).status = "pending" /\ WithPending(h).named
         /\ WithPending(h).error = h.error /\ WithPending(h).ttl = h.ttl
BY DEF WithPending, Hash

LEMMA VerdictFieldsFields ==
  ASSUME NEW h \in Hash, NEW j
  PROVE  /\ ProcessingFields(h).status = "processing"
         /\ ProcessingFields(h).error <=> h.error
         /\ outcome[j] = "ok" => /\ VerdictFields(h, j).status = "completed"
                                 /\ VerdictFields(h, j).error <=> h.error
                                 /\ VerdictFields(h, j).result
                                 /\ VerdictFields(h, j).completedAt
         /\ outcome[j] # "ok" => VerdictFields(h, j).status = "failed"
         /\ VerdictFields(h, j).named = h.named /\ VerdictFields(h, j).ttl = h.ttl
         /\ ProcessingFields(h).named = h.named /\ ProcessingFields(h).ttl = h.ttl
<1> DEFINE a == WithUpdate(h, "processing", FALSE, FALSE)
           b == WithUpdate(h, "completed", FALSE, TRUE)
           c == WithUpdate(h, "failed", TRUE, TRUE)
<1>1. /\ a.status = "processing" /\ (a.error <=> h.error)
      /\ a.named = h.named /\ a.ttl = h.ttl
  BY WithUpdateFields
<1>2. /\ b.status = "completed" /\ (b.error <=> h.error)
      /\ b.result <=> (h.result \/ TRUE)
      /\ b.completedAt <=> (h.completedAt \/ "completed" \in Terminal)
      /\ b.named = h.named /\ b.ttl = h.ttl
  BY ZenonT(60), WithUpdateFields
<1>3. c.status = "failed" /\ c.named = h.named /\ c.ttl = h.ttl
  BY ZenonT(60), WithUpdateFields
<1>4. b.result /\ b.completedAt
  BY <1>2 DEF Terminal
<1> HIDE DEF a, b, c
<1>5. ProcessingFields(h) = a
  BY DEF ProcessingFields, a
<1>6. CASE outcome[j] = "ok"
  <2>1. VerdictFields(h, j) = b
    BY <1>6 DEF VerdictFields, b
  <2> QED BY <1>1, <1>2, <1>4, <1>5, <1>6, <2>1
<1>7. CASE outcome[j] # "ok"
  <2>1. VerdictFields(h, j) = c
    BY <1>7 DEF VerdictFields, c
  <2> QED BY <1>1, <1>3, <1>5, <1>7, <2>1
<1> QED BY <1>6, <1>7

(* The body of a PUT that writes.                                          *)
LEMMA PutBody ==
  ASSUME TypeOK, NEW p \in Putters
  PROVE  /\ put[p].body.status \in Statuses
         /\ put[p].body.error \in BOOLEAN /\ put[p].body.result \in BOOLEAN
         /\ put[p].body \in Bodies \/ put[p].body.status = "pending"
<1>1. put[p].body \in Bodies \cup {NoBody}
  BY DEF TypeOK, PutType
<1>2. CASE put[p].body \in Bodies
  BY <1>2, Assumption
<1>3. CASE put[p].body = NoBody
  BY <1>3 DEF NoBody, Statuses
<1> QED BY <1>1, <1>2, <1>3

(* What a write of somebody else does to the status.                       *)
LEMMA StatusWritten ==
  ASSUME TypeOK, NEW j \in Jobs
  PROVE  /\ WithPending(hash[j]).status = "pending"
         /\ WithUpdate(hash[j], "failed", TRUE, FALSE).status = "failed"
         /\ ProcessingFields(hash[j]).status = "processing"
         /\ VerdictFields(hash[j], j).status \in Terminal
         /\ \A p \in Putters :
              WithUpdate(hash[j], put[p].body.status,
                         put[p].body.error, put[p].body.result).status
                = put[p].body.status
<1>1. hash[j] \in Hash
  BY DEF TypeOK
<1>2. ASSUME NEW p \in Putters
      PROVE  WithUpdate(hash[j], put[p].body.status,
                        put[p].body.error, put[p].body.result).status
               = put[p].body.status
  BY <1>1, PutBody, WithUpdateFields
<1>3. WithUpdate(hash[j], "failed", TRUE, FALSE).status = "failed"
  BY <1>1, WithUpdateFields
<1> QED
  BY ZenonT(60), <1>1, <1>2, <1>3, WithPendingFields, VerdictFieldsFields DEF Terminal

SameMarks(g, h) == g.ttl = h.ttl /\ g.named = h.named

LEMMA MarksStay ==
  ASSUME TypeOK, NEW j \in Jobs
  PROVE  /\ WithPending(hash[j]).ttl = hash[j].ttl
         /\ SameMarks(WithUpdate(hash[j], "failed", TRUE, FALSE), hash[j])
         /\ SameMarks(ProcessingFields(hash[j]), hash[j])
         /\ SameMarks(VerdictFields(hash[j], j), hash[j])
         /\ \A p \in Putters :
              SameMarks(WithUpdate(hash[j], put[p].body.status,
                                   put[p].body.error, put[p].body.result), hash[j])
<1>1. hash[j] \in Hash
  BY DEF TypeOK
<1>a. ASSUME NEW s, NEW e, NEW x
      PROVE  SameMarks(WithUpdate(hash[j], s, e, x), hash[j])
  BY <1>1 DEF SameMarks, WithUpdate, Hash
<1>2. ASSUME NEW p \in Putters
      PROVE  SameMarks(WithUpdate(hash[j], put[p].body.status,
                                  put[p].body.error, put[p].body.result), hash[j])
  BY <1>a
<1>3. SameMarks(WithUpdate(hash[j], "failed", TRUE, FALSE), hash[j])
  BY <1>a
<1>4. WithPending(hash[j]).ttl = hash[j].ttl
  BY <1>1, WithPendingFields
<1>5. /\ SameMarks(ProcessingFields(hash[j]), hash[j])
      /\ SameMarks(VerdictFields(hash[j], j), hash[j])
  BY <1>1, VerdictFieldsFields DEF SameMarks
<1> QED BY <1>2, <1>3, <1>4, <1>5

(* The job a request is at is one of its own.                              *)
LEMMA CurrentOf ==
  ASSUME TypeOK, NEW r \in Requests, NEW s \in Requests,
         NEW n \in DOMAIN TypesOf(r), Current(s) = <<r, TypesOf(r)[n]>>
  PROVE  s = r /\ req[r].i = n
<1>1. s = r /\ TypesOf(r)[req[r].i] = TypesOf(r)[n]
  BY DEF Current
<1>2. req[r].i \in DOMAIN TypesOf(r)
  BY DEF TypeOK, ReqType
<1> QED BY <1>1, <1>2, JobOf

-----------------------------------------------------------------------------
(* A job shown as completed was.                                           *)

LEMMA CompletedNext ==
  ASSUME HolderInv, CompletedIsTrue, [Next]_vars
  PROVE  CompletedIsTrue'
<1> SUFFICES ASSUME NEW j \in Jobs, hash'[j].status = "completed"
             PROVE  \/ outcome'[j] = "ok" /\ hash'[j].result /\ hash'[j].completedAt
                    \/ \E p \in Putters :
                         put'[p].job = <<j>> /\ put'[p].body.status = "completed"
  BY DEF CompletedIsTrue
<1>1. TypeOK /\ hash[j] \in Hash
  BY DEF HolderInv, OnceInv, TypeOK
<1>2. outcome[j] = "ok" => outcome'[j] = "ok"
  <2>1. ASSUME NEW w \in Workers, ProcessJob(w), Holds(w, j)
        PROVE  outcome[j] = "none"
    BY <2>1 DEF ProcessJob, HolderInv, VerdictByPc, BeforeWork
  <2> QED BY <1>1, <2>1, OutcomeMoves
<1>3. ASSUME NEW p \in Putters, put[p].job = <<j>>
      PROVE  put'[p].job = <<j>> /\ put'[p].body = put[p].body
  <2>1. <<j>> # <<>>
    OBVIOUS
  <2> QED BY <1>1, <1>3, <2>1, PutMoves
<1>4. CASE hash'[j] = hash[j]
  BY <1>2, <1>3, <1>4 DEF CompletedIsTrue
<1>5. CASE hash'[j] = [hash[j] EXCEPT !.ttl = TRUE]
  <2>1. /\ hash'[j].status = hash[j].status /\ hash'[j].result = hash[j].result
        /\ hash'[j].completedAt = hash[j].completedAt
    BY <1>1, <1>5 DEF Hash
  <2> QED BY <1>2, <1>3, <2>1 DEF CompletedIsTrue
<1>6. CASE hash'[j] \in {WithPending(hash[j]), ProcessingFields(hash[j]), Absent,
                         WithUpdate(hash[j], "failed", TRUE, FALSE)}
  <2>1. /\ WithPending(hash[j]).status = "pending"
        /\ ProcessingFields(hash[j]).status = "processing"
        /\ WithUpdate(hash[j], "failed", TRUE, FALSE).status = "failed"
    BY <1>1, StatusWritten
  <2>2. Absent.status = "absent"
    BY DEF Absent
  <2>3. hash'[j].status # "completed"
    BY <1>6, <2>1, <2>2
  <2> QED BY <2>3
<1>7. ASSUME NEW w \in Workers, UpdateHSet(w),
             hash'[j] = VerdictFields(hash[j], j)
      PROVE  outcome'[j] = "ok" /\ hash'[j].result /\ hash'[j].completedAt
  <2>1. outcome[j] = "ok"
    BY <1>1, <1>7, VerdictFieldsFields
  <2> QED BY <1>1, <1>2, <1>7, <2>1, VerdictFieldsFields
<1>8. ASSUME NEW p \in Putters, put[p].job = <<j>>,
             hash'[j] = WithUpdate(hash[j], put[p].body.status,
                                   put[p].body.error, put[p].body.result)
      PROVE  put'[p].job = <<j>> /\ put'[p].body.status = "completed"
  <2>1. put[p].body.status = "completed"
    BY <1>1, <1>8, StatusWritten
  <2> QED BY <1>3, <1>8, <2>1
<1> QED BY <1>1, <1>4, <1>5, <1>6, <1>7, <1>8, HashMoves

(* Whatever fails, a job shown as completed was processed with success and *)
(* its result and completion time are in the record, or a PUT said so.     *)
THEOREM CompletedWasDone == Spec => []CompletedIsTrue
<1>1. Init => HolderInv /\ CompletedIsTrue
  BY HolderInit DEF Init, CompletedIsTrue, Absent
<1>2. HolderInv /\ CompletedIsTrue /\ [Next]_vars => (HolderInv /\ CompletedIsTrue)'
  BY HolderNext, CompletedNext
<1> QED BY <1>1, <1>2, PTL DEF Spec

-----------------------------------------------------------------------------
(* The two jobs of "all".                                                  *)

NoExpiry == "expiry" \notin Faults

(* EXPIRE finds the record that HSET has made.                             *)
ExpireExists == \A r \in Requests : req[r].pc = "expire" => Exists(Current(r))

ZipExpires ==
  \A r \in Requests :
    /\ Kind[r] = "all"
    /\ req[r].pc \in {"lpush", "hset", "expire"} /\ req[r].i = 2
    => hash[<<r, "zip">>].ttl

ReportInv ==
  /\ VisibleInv
  /\ ExpireExists
  /\ ZipExpires
  /\ ReportAfterZip

LEMMA RecordStays ==
  ASSUME NoExpiry, TypeOK, [Next]_vars, NEW j \in Jobs
  PROVE  /\ hash[j].ttl => hash'[j].ttl
         /\ Exists(j) => Exists(j)'
<1>1. hash[j] \in Hash
  BY DEF TypeOK
<1>2. CASE hash'[j] = hash[j] \/ hash'[j] = [hash[j] EXCEPT !.ttl = TRUE]
  BY <1>1, <1>2 DEF Exists, Hash
<1>3. CASE hash'[j] \in {WithPending(hash[j]), ProcessingFields(hash[j]),
                         VerdictFields(hash[j], j),
                         WithUpdate(hash[j], "failed", TRUE, FALSE)}
  BY <1>1, <1>3, StatusWritten, MarksStay DEF SameMarks, Exists, Terminal
<1>4. ASSUME NEW p \in Putters,
             hash'[j] = WithUpdate(hash[j], put[p].body.status,
                                   put[p].body.error, put[p].body.result)
      PROVE  /\ hash[j].ttl => hash'[j].ttl
             /\ Exists(j)'
  BY <1>1, <1>4, PutBody, StatusWritten, MarksStay DEF SameMarks, Exists, Statuses
<1> QED BY <1>2, <1>3, <1>4, HashMoves DEF NoExpiry

LEMMA QueuedIsPushed ==
  ASSUME OnceInv, [Next]_vars, NEW j \in Jobs, Queued(j)', ~Queued(j)
  PROVE  \E r \in Requests : lPush(r) /\ Current(r) = j
<1>1. TypeOK
  BY DEF OnceInv
<1>2. ASSUME NEW w \in Workers, Remove(w) PROVE FALSE
  BY <1>2, RemoveMoves DEF Queued
<1>3. ASSUME NEW r \in Requests, lPush(r) PROVE Current(r) = j
  BY <1>1, <1>3, PushMoves DEF Queued, InQueue
<1>4. CASE UNCHANGED <<queue, taken>>
  BY <1>4 DEF Queued, InQueue
<1> QED BY <1>2, <1>3, <1>4, ListMoves

LEMMA AllTypes ==
  ASSUME NEW r \in Requests, Kind[r] = "all"
  PROVE  /\ DOMAIN TypesOf(r) = {1, 2} /\ Len(TypesOf(r)) = 2
         /\ TypesOf(r)[1] = "zip" /\ TypesOf(r)[2] = "report"
         /\ <<r, "zip">> \in Jobs /\ <<r, "report">> \in Jobs
BY DEF TypesOf, Jobs, Types

LEMMA ReportInit == Init => ReportInv
<1> SUFFICES ASSUME Init PROVE ReportInv
  OBVIOUS
<1>1. VisibleInv /\ LaterIsNowhere
  BY VisibleInit DEF VisibleInv, HolderInv, OnceInv
<1>2. \A r \in Requests : req[r].pc = "idle"
  BY DEF Init, NewRequest
<1>3. ReportAfterZip
  BY <1>1, <1>2, AllTypes DEF ReportAfterZip, LaterIsNowhere, PushedLater
<1> QED BY <1>1, <1>2, <1>3 DEF ReportInv, ExpireExists, ZipExpires

LEMMA ReportNext == NoExpiry /\ ReportInv /\ [Next]_vars => ReportInv'
<1> SUFFICES ASSUME NoExpiry, ReportInv, [Next]_vars PROVE ReportInv'
  OBVIOUS
<1>1. /\ VisibleInv /\ VisibleInv' /\ OnceInv /\ TypeOK
      /\ hash \in [Jobs -> Hash]
      /\ req \in [Requests -> [pc : RequestPc, i : 1..2]]
  BY VisibleNext DEF ReportInv, VisibleInv, HolderInv, OnceInv, TypeOK, ReqType
<1>2. ExpireExists'
  <2> SUFFICES ASSUME NEW r \in Requests, req'[r].pc = "expire"
               PROVE  Exists(Current(r))'
    BY DEF ExpireExists
  <2>1. PICK j \in Jobs : j = Current(r)
    BY <1>1, CurrentType
  <2>2. CASE req'[r] = req[r]
    <3>1. Exists(j)'
      BY <1>1, <2>1, <2>2, RecordStays DEF ReportInv, ExpireExists
    <3> QED BY <2>1, <2>2, <3>1 DEF Current, Exists
  <2>3. CASE /\ ReqGoes(r, "hset", "expire")
             /\ hash' = [hash EXCEPT ![Current(r)] = WithPending(@)]
    <3>1. hash'[j] = WithPending(hash[j]) /\ req'[r].i = req[r].i
      BY <1>1, <2>1, <2>3 DEF ReqGoes
    <3>2. hash'[j].status = "pending"
      BY <1>1, <3>1, WithPendingFields
    <3> QED BY <2>1, <3>1, <3>2 DEF Current, Exists
  <2>4. NextJob(r, "lpush", "accepted").pc # "expire"
    BY <1>1 DEF NextJob
  <2> QED BY <1>1, <2>2, <2>3, <2>4, RequestMoves DEF ReqGoes, Caught
<1>3. ZipExpires'
  <2> SUFFICES ASSUME NEW r \in Requests, Kind[r] = "all", req'[r].i = 2,
                      req'[r].pc \in {"lpush", "hset", "expire"}
               PROVE  hash'[<<r, "zip">>].ttl
    BY DEF ZipExpires
  <2>1. <<r, "zip">> \in Jobs
    BY AllTypes
  <2>2. CASE req[r].pc \in {"lpush", "hset", "expire"} /\ req[r].i = 2
    BY <1>1, <2>1, <2>2, RecordStays DEF ReportInv, ZipExpires
  <2>3. CASE ReqGoes(r, "idle", "lpush")
    BY <1>1, <2>3 DEF ReqGoes, VisibleInv, IdleIsFirst
  <2>4. CASE /\ req[r].pc = "expire" /\ req[r].i # 2
             /\ Exists(Current(r)) => hash' = [hash EXCEPT ![Current(r)].ttl = TRUE]
    <3>a. req[r].i = 1
      BY <1>1, <2>4
    <3>1. Current(r) = <<r, "zip">>
      BY <3>a, AllTypes DEF Current
    <3>2. hash' = [hash EXCEPT ![<<r, "zip">>].ttl = TRUE]
      BY <2>4, <3>1 DEF ReportInv, ExpireExists
    <3> QED BY <1>1, <2>1, <3>2 DEF Hash
  <2> QED BY <1>1, <2>2, <2>3, <2>4, RequestMoves DEF ReqGoes, Caught
<1>4. ReportAfterZip'
  <2> SUFFICES ASSUME NEW r \in Requests, Kind[r] = "all", Queued(<<r, "report">>)'
               PROVE  Queued(<<r, "zip">>)' /\ hash'[<<r, "zip">>].ttl
    BY DEF ReportAfterZip
  <2>1. <<r, "zip">> \in Jobs /\ <<r, "report">> \in Jobs
    BY AllTypes
  <2>2. Queued(<<r, "zip">>) /\ hash[<<r, "zip">>].ttl
    <3>1. CASE Queued(<<r, "report">>)
      BY <3>1 DEF ReportInv, ReportAfterZip
    <3>2. CASE ~Queued(<<r, "report">>)
      <4>1. PICK s \in Requests : lPush(s) /\ Current(s) = <<r, "report">>
        BY <1>1, <2>1, <3>2, QueuedIsPushed
      <4>2. s = r /\ req[r].i = 2 /\ req[r].pc = "lpush"
        BY ZenonT(60), <1>1, <4>1, AllTypes, CurrentOf DEF lPush
      <4>3. PushedBefore(r, 1)
        BY <4>2 DEF PushedBefore
      <4>4. Queued(<<r, "zip">>)
        BY <1>1, <4>3, AllTypes DEF VisibleInv, EarlierIsQueued
      <4> QED BY <4>2, <4>4 DEF ReportInv, ZipExpires
    <3> QED BY <3>1, <3>2
  <2> QED BY <1>1, <2>1, <2>2, QueuedStays, RecordStays
<1> QED BY <1>1, <1>2, <1>3, <1>4 DEF ReportInv

(* Whatever fails, within the seven days of a record: a report job of an   *)
(* "all" request is pushed only once its zip job is in its list and has a  *)
(* record that will expire.                                                *)
THEOREM ReportIsSecond ==
  ASSUME NoExpiry PROVE Spec => []ReportAfterZip
<1>1. ReportInv => ReportAfterZip
  BY DEF ReportInv
<1> QED BY <1>1, ReportInit, ReportNext, PTL DEF Spec

-----------------------------------------------------------------------------
(* A record that can be shown expires.                                     *)

ReliableApi == {"api_redis", "api_crash"} \cap Faults = {}

NamedExists == \A j \in Jobs : hash[j].named => Exists(j)

ExpiresInv ==
  /\ TypeOK
  /\ NamedExists
  /\ VisibleExpires

LEMMA NamedNext ==
  ASSUME TypeOK, NamedExists, [Next]_vars
  PROVE  NamedExists'
<1> SUFFICES ASSUME NEW j \in Jobs, hash'[j].named PROVE hash'[j].status # "absent"
  BY DEF NamedExists, Exists
<1>1. hash[j] \in Hash
  BY DEF TypeOK
<1>2. CASE hash'[j] = hash[j] \/ hash'[j] = [hash[j] EXCEPT !.ttl = TRUE]
  BY <1>1, <1>2 DEF NamedExists, Exists, Hash
<1>3. CASE \/ hash'[j] = WithPending(hash[j])
           \/ hash'[j] = WithUpdate(hash[j], "failed", TRUE, FALSE)
           \/ hash'[j] = ProcessingFields(hash[j])
           \/ hash'[j] = VerdictFields(hash[j], j)
  BY <1>3, StatusWritten DEF Terminal
<1>4. ASSUME NEW p \in Putters,
             hash'[j] = WithUpdate(hash[j], put[p].body.status,
                                   put[p].body.error, put[p].body.result)
      PROVE  hash'[j].status # "absent"
  BY <1>4, PutBody, StatusWritten DEF Statuses
<1>5. CASE hash'[j] = Absent
  BY <1>5 DEF Absent
<1> QED BY <1>2, <1>3, <1>4, <1>5, HashMoves

LEMMA ExpiresNext == ReliableApi /\ ExpiresInv /\ [Next]_vars => ExpiresInv'
<1> SUFFICES ASSUME ReliableApi, ExpiresInv, [Next]_vars PROVE ExpiresInv'
  OBVIOUS
<1>1. /\ TypeOK /\ TypeOK' /\ hash \in [Jobs -> Hash]
      /\ req \in [Requests -> [pc : RequestPc, i : 1..2]]
  BY TypeNext DEF ExpiresInv, TypeOK, ReqType
<1>2. NamedExists'
  BY NamedNext DEF ExpiresInv
<1>3. VisibleExpires'
  <2> SUFFICES ASSUME NEW r \in Requests, NEW t \in Types,
                      hash'[<<r, t>>].named, ~hash'[<<r, t>>].ttl
               PROVE  /\ req'[r].pc = "expire"
                      /\ <<r, TypesOf(r)[req'[r].i]>> = <<r, t>>
    BY DEF VisibleExpires, Current
  <2> DEFINE j == <<r, t>>
  <2>1. j \in Jobs
    BY DEF Jobs
  <2>2. CASE hash[j].named /\ ~hash[j].ttl
    <3>1. req[r].pc = "expire" /\ Current(r) = j /\ Exists(j)
      BY <2>1, <2>2 DEF ExpiresInv, VisibleExpires, NamedExists
    <3>2. CASE req'[r] = req[r]
      BY <3>1, <3>2 DEF Current
    <3>3. CASE Exists(Current(r)) => hash' = [hash EXCEPT ![Current(r)].ttl = TRUE]
      <4>1. hash'[j] = [hash[j] EXCEPT !.ttl = TRUE]
        BY <1>1, <2>1, <3>1, <3>3
      <4> QED BY <1>1, <2>1, <4>1 DEF Hash
    <3> QED BY <1>1, <3>1, <3>2, <3>3, RequestMoves DEF ReqGoes, ReliableApi
  <2>3. ASSUME NEW s \in Requests, hSet(s), Current(s) = j
        PROVE  /\ req'[r].pc = "expire"
               /\ <<r, TypesOf(r)[req'[r].i]>> = j
    <3>1. s = r
      BY <2>3 DEF Current
    <3>2. req'[r] = [req[r] EXCEPT !.pc = "expire"]
      BY <1>1, <2>3, <3>1, PushReplyMoves DEF hSet, ReliableApi
    <3>3. req'[r].pc = "expire" /\ req'[r].i = req[r].i
      BY <1>1, <3>2
    <3> QED BY <2>3, <3>1, <3>3 DEF Current
  <2>4. CASE hash'[j] = hash[j] \/ SameMarks(hash'[j], hash[j])
    BY <2>2, <2>4 DEF SameMarks
  <2>5. hash'[j] # [hash[j] EXCEPT !.ttl = TRUE] /\ hash'[j] # Absent
    BY <1>1, <2>1 DEF Hash, Absent
  <2> QED BY <1>1, <2>1, <2>3, <2>4, <2>5, HashMoves, MarksStay
<1> QED BY <1>1, <1>2, <1>3 DEF ExpiresInv

(* While the API is not interrupted, and whatever workers and PUTs do, a   *)
(* record that GET can show has its seven days, or gets them next.         *)
THEOREM RecordsExpire ==
  ASSUME ReliableApi PROVE Spec => []VisibleExpires
<1>1. Init => ExpiresInv
  BY TypeInit DEF Init, ExpiresInv, NamedExists, VisibleExpires, Absent, Jobs
<1>2. ExpiresInv => VisibleExpires
  BY DEF ExpiresInv
<1> QED BY <1>1, <1>2, ExpiresNext, PTL DEF Spec

-----------------------------------------------------------------------------
(* A job shown as processing is being processed.                           *)

NoProcessingBody == \A b \in Bodies : b.status # "processing"

(* The worker lets go of a job with its record gone or with the verdict in *)
(* it.                                                                     *)
LEMMA DropsWithVerdict ==
  ASSUME ReliableWorkers, TypeOK, [Next]_vars, NEW w \in Workers, NEW j \in Jobs,
         Holds(w, j), ~Holds(w, j)'
  PROVE  hash'[j].status # "processing"
<1>1. worker \in [Workers -> WorkerState] /\ hash \in [Jobs -> Hash]
  BY DEF TypeOK, WorkerType, WorkerState
<1>2. worker[w].pc \in HoldingPc
  BY HoldsPc
<1>3. CASE UpdateExists(w)
  <2>1. PICK k \in Jobs :
          /\ Holds(w, k)
          /\ \/ worker' = [worker EXCEPT ![w].pc =
                             IF @ = "check" THEN "mark" ELSE "finish"]
             \/ ~CanUpdate(k) \/ "worker_redis" \in Faults
    BY <1>3 DEF UpdateExists
  <2>2. k = j
    BY <2>1 DEF Holds
  <2>3. hash'[j] = hash[j] /\ hash[j].status = "absent"
    BY <1>1, <1>3, <2>1, <2>2
    DEF UpdateExists, ReliableWorkers, CanUpdate, Exists, Holds, WorkerState
  <2> QED BY <2>3
<1>4. CASE UpdateHSet(w)
  <2>1. PICK k \in Jobs :
          /\ Holds(w, k)
          /\ \/ hash' = [hash EXCEPT ![k] = IF worker[w].pc = "mark"
                                            THEN ProcessingFields(@)
                                            ELSE VerdictFields(@, k)]
             \/ "worker_redis" \in Faults /\ UNCHANGED hash
    BY <1>4 DEF UpdateHSet
  <2>2. k = j
    BY <2>1 DEF Holds
  <2>3. worker[w].pc # "mark"
    <3>1. \/ Keeps(w)
          \/ worker[w].pc \in AfterWork
      BY <1>4, AfterUpdateMoves DEF UpdateHSet
    <3> QED BY <3>1 DEF Keeps, Holds, AfterWork
  <2>4. hash'[j] = VerdictFields(hash[j], j)
    BY <1>1, <2>1, <2>2, <2>3 DEF ReliableWorkers
  <2>5. VerdictFields(hash[j], j).status \in Terminal
    BY StatusWritten
  <2> QED BY <2>4, <2>5 DEF Terminal
<1>5. ASSUME NEW v \in Workers, v # w,
             Work(v) \/ PopError(v) \/ Signal(v) \/ WorkerCrash(v) \/ Restart(v)
      PROVE  UNCHANGED worker[w]
  BY <1>1, <1>5
  DEF Work, Pop, PopTimeout, Resume, UpdateExists, ProcessJob, UpdateHSet,
      PopError, Signal, WorkerCrash, Restart
<1>6. worker'[w].job # worker[w].job
  BY DEF Holds
<1>7. ~(PopError(w) \/ WorkerCrash(w) \/ Pop(w) \/ PopTimeout(w) \/ Resume(w)
        \/ Restart(w))
  BY <1>2
  DEF PopError, WorkerCrash, Restart, Pop, PopTimeout, Resume, HoldingPc,
      ReliableWorkers
<1>8. ~(ProcessJob(w) \/ Signal(w))
  BY <1>1, <1>6 DEF ProcessJob, Signal, WorkerState
<1>9. worker' # worker
  BY <1>6
<1> QED
  BY <1>3, <1>4, <1>5, <1>6, <1>7, <1>8, <1>9
  DEF Next, vars, Request, createJob, lPush, hSet, expire, CheckFailed,
      MarkFailed, ApiCrash, Work, Put, PutExists, PutHSet, PutRead,
      PutReadError, Expiry

LEMMA ProcessingNext ==
  ASSUME ReliableWorkers, NoProcessingBody, TypeOK, ProcessingIsHeld, [Next]_vars
  PROVE  ProcessingIsHeld'
<1> SUFFICES ASSUME NEW j \in Jobs, hash'[j].status = "processing"
             PROVE  \E w \in Workers : Holds(w, j)' /\ worker'[w].pc # "check"
  BY DEF ProcessingIsHeld
<1>1. hash[j] \in Hash
  BY DEF TypeOK
<1>2. ASSUME NEW w \in Workers, Holds(w, j), worker[w].pc # "check"
      PROVE  Holds(w, j)' /\ worker'[w].pc # "check"
  <2>1. Holds(w, j)'
    BY <1>2, DropsWithVerdict
  <2>2. worker[w].pc \in HoldingPc /\ worker'[w].job # <<>>
    <3>1. <<j>> # <<>>
      OBVIOUS
    <3> QED BY <1>2, <2>1, <3>1, HoldsPc DEF Holds
  <2>3. Keeps(w)
    <3>1. ~Pop(w)
      BY <2>2 DEF Pop, HoldingPc
    <3> QED BY <2>2, <3>1, WorkerMoves DEF Drops
  <2> QED BY <1>2, <2>1, <2>2, <2>3 DEF Keeps, Forward
<1>3. CASE hash[j].status = "processing"
  BY <1>2, <1>3 DEF ProcessingIsHeld
<1>4. CASE hash'[j] = hash[j] \/ hash'[j] = [hash[j] EXCEPT !.ttl = TRUE]
  <2>1. hash[j].status = "processing"
    BY <1>1, <1>4 DEF Hash
  <2> QED BY <1>3, <2>1
<1>5. ASSUME NEW p \in Putters,
             hash'[j] = WithUpdate(hash[j], put[p].body.status,
                                   put[p].body.error, put[p].body.result)
      PROVE  FALSE
  BY <1>5, PutBody, StatusWritten DEF NoProcessingBody
<1>6. /\ hash'[j] # WithPending(hash[j])
      /\ hash'[j] # WithUpdate(hash[j], "failed", TRUE, FALSE)
      /\ hash'[j] # VerdictFields(hash[j], j)
      /\ hash'[j] # Absent
  <2>1. Absent.status = "absent"
    BY DEF Absent
  <2>2. /\ WithPending(hash[j]).status = "pending"
        /\ WithUpdate(hash[j], "failed", TRUE, FALSE).status = "failed"
        /\ VerdictFields(hash[j], j).status \in {"completed", "failed"}
    BY StatusWritten DEF Terminal
  <2> QED BY <2>1, <2>2
<1> QED BY <1>2, <1>4, <1>5, <1>6, HashMoves

(* With workers that are not killed and whose commands are answered,       *)
(* whatever the API does and whenever SIGTERM comes, a job shown as        *)
(* processing is in the hands of a worker that has yet to write its        *)
(* verdict, unless a PUT may say "processing".                             *)
THEOREM ProcessingIsTrue ==
  ASSUME ReliableWorkers, NoProcessingBody PROVE Spec => []ProcessingIsHeld
<1>1. Init => ProcessingIsHeld
  BY DEF Init, ProcessingIsHeld, Absent
<1>2. TypeOK /\ ProcessingIsHeld /\ [Next]_vars => (TypeOK /\ ProcessingIsHeld)'
  BY TypeNext, ProcessingNext
<1> QED BY <1>1, <1>2, TypeInit, PTL DEF Spec

-----------------------------------------------------------------------------
(* createJob's HSET makes the record: before it there is none, and nobody  *)
(* is about to write one.                                                  *)

WrittenLater(r, n) ==
  \/ req[r].pc = "idle"
  \/ req[r].pc \in {"lpush", "hset"} /\ n >= req[r].i
  \/ req[r].pc = "expire" /\ n > req[r].i

Unseen(j) ==
  /\ ~Exists(j)
  /\ \A w \in Workers : Holds(w, j) => worker[w].pc \notin {"mark", "finish"}
  /\ \A p \in Putters : put[p].job = <<j>> => put[p].pc # "hset"

LaterIsUnseen ==
  \A r \in Requests : \A n \in DOMAIN TypesOf(r) :
    WrittenLater(r, n) => Unseen(<<r, TypesOf(r)[n]>>)

(* What a request has yet to write after a step it had yet to write before *)
(* it, and the step was not the HSET of that job.                          *)
LEMMA WrittenLaterShrinks ==
  ASSUME TypeOK, [Next]_vars, NEW r \in Requests,
         NEW n \in DOMAIN TypesOf(r), WrittenLater(r, n)'
  PROVE  WrittenLater(r, n) /\ ~(hSet(r) /\ req[r].i = n)
<1> USE DEF WrittenLater
<1>1. /\ req[r] \in [pc : RequestPc, i : 1..2]
      /\ n \in 1..2 /\ req[r].i \in 1..2
  BY RequestNumbers DEF TypeOK, ReqType
<1>2. ASSUME hSet(r)
      PROVE  WrittenLater(r, n) /\ req[r].i # n
  <2>1. req[r].pc = "hset"
    BY <1>2 DEF hSet
  <2>2. req'[r] = [req[r] EXCEPT !.pc = "expire"] \/ req'[r] = Caught(r)
    BY <1>2, PushReplyMoves DEF hSet
  <2>3. req'[r].pc = "expire" /\ req'[r].i = req[r].i
    BY <1>1, <2>2 DEF Caught
  <2> QED BY <1>1, <2>1, <2>3
<1>3. ASSUME ~hSet(r) PROVE WrittenLater(r, n)
  <2>1. CASE req'[r] = req[r]
    BY <2>1
  <2>2. CASE ReqGoes(r, "idle", "lpush") \/ ReqGoes(r, "lpush", "hset")
    BY <2>2 DEF ReqGoes
  <2>3. CASE req[r].pc = "expire" /\ req'[r] = NextJob(r, "lpush", "accepted")
    <3>1. req'[r].pc = "lpush" /\ req'[r].i = req[r].i + 1
      BY <1>1, <2>3 DEF NextJob
    <3> QED BY <1>1, <2>3, <3>1
  <2> QED BY <1>3, <2>1, <2>2, <2>3, RequestMoves DEF ReqGoes, Caught
<1> QED BY <1>2, <1>3

(* Who is at an update's HSET has come there by finding the record.        *)
LEMMA MarkerHasSeen ==
  ASSUME TypeOK, [Next]_vars, NEW w \in Workers, NEW j \in Jobs,
         Holds(w, j)', worker'[w].pc \in {"mark", "finish"}
  PROVE  Exists(j) \/ (Holds(w, j) /\ worker[w].pc \in {"mark", "finish"})
<1>1. worker \in [Workers -> WorkerState]
  BY DEF TypeOK, WorkerType, WorkerState
<1>2. CASE UNCHANGED worker[w]
  BY <1>2 DEF Holds
<1>3. CASE UpdateExists(w)
  <2>1. PICK k \in Jobs :
          /\ Holds(w, k)
          /\ \/ /\ CanUpdate(k)
                /\ worker' = [worker EXCEPT ![w].pc =
                                IF @ = "check" THEN "mark" ELSE "finish"]
             \/ worker' = [worker EXCEPT ![w] = AfterUpdate(w)]
    BY <1>3 DEF UpdateExists
  <2>2. CASE worker' = [worker EXCEPT ![w] = AfterUpdate(w)]
    <3>1. worker'[w].pc = AfterUpdate(w).pc
      BY <1>1, <2>2
    <3>2. AfterUpdate(w).pc \in {"run", "brpop", "stopped"}
      BY <1>1 DEF AfterUpdate, LoopHead, WorkerState
    <3> QED BY <3>1, <3>2
  <2>3. CASE CanUpdate(k) /\ worker' = [worker EXCEPT ![w].pc =
                                IF @ = "check" THEN "mark" ELSE "finish"]
    <3>1. worker'[w].job = <<k>>
      BY <1>1, <2>1, <2>3 DEF Holds, WorkerState
    <3>2. k = j
      BY <3>1 DEF Holds
    <3> QED BY <2>3, <3>2 DEF CanUpdate
  <2> QED BY <2>1, <2>2, <2>3
<1>4. CASE UpdateHSet(w)
  <2>1. worker'[w].pc = AfterUpdate(w).pc
    BY <1>1, <1>4 DEF UpdateHSet
  <2>2. AfterUpdate(w).pc \in {"run", "brpop", "stopped"}
    BY <1>1 DEF AfterUpdate, LoopHead, WorkerState
  <2> QED BY <2>1, <2>2
<1>5. ASSUME NEW v \in Workers, v # w,
             Work(v) \/ PopError(v) \/ Signal(v) \/ WorkerCrash(v) \/ Restart(v)
      PROVE  UNCHANGED worker[w]
  BY <1>1, <1>5
  DEF Work, Pop, PopTimeout, Resume, UpdateExists, ProcessJob, UpdateHSet,
      PopError, Signal, WorkerCrash, Restart
<1>6. CASE Signal(w)
  BY <1>1, <1>6 DEF Signal, Holds, WorkerState
<1>7. ~(PopTimeout(w) \/ Resume(w) \/ ProcessJob(w) \/ WorkerCrash(w))
  BY <1>1
  DEF PopTimeout, Resume, ProcessJob, WorkerCrash, LoopHead, WorkerState
<1>8. ~(Pop(w) \/ PopError(w) \/ Restart(w))
  BY <1>1 DEF Pop, PopError, Restart, NewWorker, WorkerState
<1>9. CASE UNCHANGED worker
  BY <1>2, <1>9
<1> QED
  BY <1>2, <1>3, <1>4, <1>5, <1>6, <1>7, <1>8, <1>9
  DEF Next, vars, Request, createJob, lPush, hSet, expire, CheckFailed,
      MarkFailed, ApiCrash, Work, Put, PutExists, PutHSet, PutRead,
      PutReadError, Expiry

LEMMA UnseenNext ==
  ASSUME TypeOK, LaterIsUnseen, [Next]_vars
  PROVE  LaterIsUnseen'
<1> SUFFICES ASSUME NEW r \in Requests, NEW n \in DOMAIN TypesOf(r),
                    WrittenLater(r, n)'
             PROVE  Unseen(<<r, TypesOf(r)[n]>>)'
  BY DEF LaterIsUnseen
<1> DEFINE j == <<r, TypesOf(r)[n]>>
<1>1. j \in Jobs
  BY JobOf
<1>2. WrittenLater(r, n) /\ ~(hSet(r) /\ req[r].i = n)
  BY WrittenLaterShrinks
<1>3. Unseen(j)
  BY <1>2 DEF LaterIsUnseen
<1>4. hash'[j] = hash[j] \/ hash'[j] = Absent
  <2>1. ASSUME NEW s \in Requests, Current(s) = j PROVE s = r /\ req[r].i = n
    BY <2>1, CurrentOf
  <2>2. ~\E s \in Requests : hSet(s) /\ Current(s) = j
    BY <1>2, <2>1
  <2>3. ~\E s \in Requests : req[s].pc = "mark" /\ Current(s) = j
    BY <1>2, <2>1 DEF WrittenLater
  <2> QED BY <1>1, <1>3, <2>2, <2>3, HashMoves DEF Unseen
<1>5. ~Exists(j)'
  BY <1>3, <1>4 DEF Unseen, Exists, Absent
<1>6. ASSUME NEW w \in Workers, Holds(w, j)'
      PROVE  worker'[w].pc \notin {"mark", "finish"}
  BY <1>1, <1>3, <1>6, MarkerHasSeen DEF Unseen
<1>7. ASSUME NEW p \in Putters, put'[p].job = <<j>>
      PROVE  put'[p].pc # "hset"
  <2>1. CASE put'[p] = put[p]
    BY <1>3, <1>7, <2>1 DEF Unseen
  <2>2. ~\E k \in Jobs : put'[p].job = <<k>> /\ Exists(k)
    BY <1>3, <1>7 DEF Unseen
  <2> QED BY <2>1, <2>2, PutMoves
<1> QED BY <1>5, <1>6, <1>7 DEF Unseen, Holds

-----------------------------------------------------------------------------
(* The status only moves forward.                                          *)

(* No command of the API fails, so that createJob never gets to its catch, *)
(* and no PUT interferes: the API and one worker write the record.         *)
OnlyQueueWrites == "api_redis" \notin Faults /\ Putters = {}

NothingCaught == \A r \in Requests : req[r].pc \notin {"check", "mark"}

FinalIsFree == \A j \in Jobs : hash[j].status \in Terminal => Free(j) /\ outcome[j] # "none"

StatusInv ==
  /\ HolderInv
  /\ LaterIsUnseen
  /\ NothingCaught
  /\ FinalIsFree
  /\ ErrorMeansFailed

LEMMA StatusInit == Init => StatusInv
<1> SUFFICES ASSUME Init PROVE StatusInv
  OBVIOUS
<1>1. HolderInv
  BY HolderInit
<1>2. \A j \in Jobs : hash[j] = Absent
  BY DEF Init
<1>3. LaterIsUnseen
  <2> SUFFICES ASSUME NEW r \in Requests, NEW n \in DOMAIN TypesOf(r)
               PROVE  Unseen(<<r, TypesOf(r)[n]>>)
    BY DEF LaterIsUnseen
  <2>1. <<r, TypesOf(r)[n]>> \in Jobs
    BY JobOf
  <2> QED BY <1>2, <2>1 DEF Init, Unseen, Exists, Absent, NewWorker, NewPut
<1>4. NothingCaught
  BY DEF Init, NewRequest, NothingCaught
<1>5. FinalIsFree /\ ErrorMeansFailed
  BY <1>2 DEF FinalIsFree, ErrorMeansFailed, Absent, Terminal
<1> QED BY <1>1, <1>3, <1>4, <1>5 DEF StatusInv

(* Who writes the record of a job holds it, and it has no final status.    *)
LEMMA WriterIsFirst ==
  ASSUME OnlyQueueWrites, StatusInv, [Next]_vars, NEW j \in Jobs
  PROVE  \/ hash'[j] = hash[j]
         \/ hash'[j] = [hash[j] EXCEPT !.ttl = TRUE]
         \/ hash'[j] = Absent
         \/ ~Exists(j) /\ hash'[j] = WithPending(hash[j])
         \/ /\ hash[j].status \notin Terminal
            /\ hash'[j] = ProcessingFields(hash[j])
         \/ /\ hash[j].status \notin Terminal
            /\ hash'[j] = VerdictFields(hash[j], j)
            /\ \E w \in Workers : UpdateHSet(w) /\ Holds(w, j) /\ worker[w].pc = "finish"
<1>1. TypeOK
  BY DEF StatusInv, HolderInv, OnceInv
<1>2. ASSUME NEW r \in Requests, req[r].pc = "hset", Current(r) = j
      PROVE  ~Exists(j)
  <2>1. req[r].i \in 1..2 /\ req[r].i \in DOMAIN TypesOf(r)
    BY <1>1 DEF TypeOK, ReqType
  <2>2. WrittenLater(r, req[r].i)
    BY <1>2, <2>1 DEF WrittenLater
  <2> QED BY <1>2, <2>1, <2>2 DEF StatusInv, LaterIsUnseen, Unseen, Current
<1>3. ASSUME NEW w \in Workers, Holds(w, j)
      PROVE  hash[j].status \notin Terminal
  BY <1>3 DEF StatusInv, FinalIsFree, Free
<1> QED
  BY <1>1, <1>2, <1>3, HashMoves
  DEF StatusInv, NothingCaught, OnlyQueueWrites

LEMMA StatusNext == OnlyQueueWrites /\ StatusInv /\ [Next]_vars => StatusInv'
<1> SUFFICES ASSUME OnlyQueueWrites, StatusInv, [Next]_vars PROVE StatusInv'
  OBVIOUS
<1>1. HolderInv /\ HolderInv' /\ TypeOK /\ OnceInv /\ hash \in [Jobs -> Hash]
  BY HolderNext DEF StatusInv, HolderInv, OnceInv, TypeOK
<1>2. LaterIsUnseen'
  BY <1>1, UnseenNext DEF StatusInv
<1>3. NothingCaught'
  <2> SUFFICES ASSUME NEW r \in Requests PROVE req'[r].pc \notin {"check", "mark"}
    BY DEF NothingCaught
  <2>1. req[r].pc \notin {"check", "mark"}
    BY DEF StatusInv, NothingCaught
  <2>2. NextJob(r, "lpush", "accepted").pc \in {"lpush", "accepted"}
    BY <1>1 DEF NextJob, TypeOK, ReqType
  <2> QED BY <1>1, <2>1, <2>2, RequestMoves DEF ReqGoes, OnlyQueueWrites
<1>4. FinalIsFree'
  <2> SUFFICES ASSUME NEW j \in Jobs, hash'[j].status \in Terminal
               PROVE  Free(j)' /\ outcome'[j] # "none"
    BY DEF FinalIsFree
  <2>1. ASSUME outcome[j] # "none" PROVE outcome'[j] # "none"
    BY <1>1, <2>1, OutcomeMoves
  <2>2. ASSUME outcome[j] # "none", NEW w \in Workers, ~Holds(w, j)
        PROVE  ~Holds(w, j)'
    <3>1. <<j>> # <<>>
      OBVIOUS
    <3>2. CASE Pop(w)
      BY <1>1, <2>2, <3>2, PopMoves DEF Holds
    <3> QED BY <1>1, <2>2, <3>1, <3>2, WorkerMoves DEF Keeps, Drops, Holds
  <2>3. CASE hash[j].status \in Terminal
    <3>1. outcome[j] # "none" /\ \A w \in Workers : ~Holds(w, j)
      BY <2>3 DEF StatusInv, FinalIsFree, Free
    <3> QED BY <2>1, <2>2, <3>1 DEF Free
  <2>4. ASSUME NEW w \in Workers, UpdateHSet(w), Holds(w, j), worker[w].pc = "finish"
        PROVE  Free(j)' /\ outcome'[j] # "none"
    <3>1. outcome[j] # "none"
      BY <1>1, <2>4 DEF HolderInv, VerdictByPc, AfterWork
    <3>2. ~Holds(w, j)'
      <4>1. <<j>> # <<>>
        OBVIOUS
      <4>2. Drops(w)
        BY <1>1, <2>4, AfterUpdateMoves DEF UpdateHSet
      <4> QED BY <4>1, <4>2 DEF Drops, Holds
    <3>3. \A v \in Workers \ {w} : ~Holds(v, j)
      BY <1>1, <2>4 DEF HolderInv, OneHolder
    <3> QED BY <2>1, <2>2, <3>1, <3>2, <3>3 DEF Free
  <2>5. CASE hash'[j] = hash[j] \/ hash'[j] = [hash[j] EXCEPT !.ttl = TRUE]
    <3>1. hash'[j].status = hash[j].status
      BY <1>1, <2>5 DEF Hash
    <3> QED BY <2>3, <3>1
  <2>6. /\ hash'[j] # WithPending(hash[j]) /\ hash'[j] # ProcessingFields(hash[j])
        /\ hash'[j] # Absent
    <3>1. Absent.status = "absent"
      BY DEF Absent
    <3>2. /\ WithPending(hash[j]).status = "pending"
          /\ ProcessingFields(hash[j]).status = "processing"
      BY <1>1, StatusWritten
    <3> QED BY <3>1, <3>2 DEF Terminal
  <2> QED BY <2>4, <2>5, <2>6, WriterIsFirst
<1>5. ErrorMeansFailed'
  <2> SUFFICES ASSUME NEW j \in Jobs, hash'[j].error PROVE hash'[j].status = "failed"
    BY DEF ErrorMeansFailed
  <2>1. hash[j] \in Hash /\ (hash[j].error => hash[j].status = "failed")
    BY <1>1 DEF StatusInv, ErrorMeansFailed
  <2>2. CASE hash'[j] = hash[j] \/ hash'[j] = [hash[j] EXCEPT !.ttl = TRUE]
    BY <2>1, <2>2 DEF Hash
  <2>3. CASE hash'[j] = Absent
    BY <2>3 DEF Absent
  <2>4. CASE ~Exists(j) /\ hash'[j] = WithPending(hash[j])
    BY <2>1, <2>4, WithPendingFields DEF Exists
  <2>5. CASE hash[j].status \notin Terminal /\ hash'[j] = ProcessingFields(hash[j])
    BY <2>1, <2>5, VerdictFieldsFields DEF Terminal
  <2>6. CASE hash[j].status \notin Terminal /\ hash'[j] = VerdictFields(hash[j], j)
    <3>1. ~hash[j].error
      BY <2>1, <2>6 DEF Terminal
    <3> QED BY <2>1, <2>6, <3>1, VerdictFieldsFields
  <2> QED BY <2>2, <2>3, <2>4, <2>5, <2>6, WriterIsFirst
<1> QED BY <1>1, <1>2, <1>3, <1>4, <1>5 DEF StatusInv

(* With an API whose commands are answered and no PUT, whatever crashes    *)
(* and whatever fails in a worker, only a failed job has an error message. *)
THEOREM ErrorsAreFailures ==
  ASSUME OnlyQueueWrites PROVE Spec => []ErrorMeansFailed
<1>1. StatusInv => ErrorMeansFailed
  BY DEF StatusInv
<1> QED BY <1>1, StatusInit, StatusNext, PTL DEF Spec

LEMMA StatusFollows ==
  ASSUME OnlyQueueWrites, StatusInv, [Next]_vars,
         NEW j \in Jobs, Exists(j), Exists(j)'
  PROVE  Follows(hash[j].status, hash'[j].status)
<1>1. TypeOK /\ hash[j] \in Hash
  BY DEF StatusInv, HolderInv, OnceInv, TypeOK
<1>2. CASE hash'[j] = hash[j] \/ hash'[j] = [hash[j] EXCEPT !.ttl = TRUE]
  BY <1>1, <1>2 DEF Follows, Hash
<1>3. hash'[j] # Absent
  BY DEF Exists, Absent
<1>4. CASE \/ hash[j].status \notin Terminal /\ hash'[j] = ProcessingFields(hash[j])
           \/ hash[j].status \notin Terminal /\ hash'[j] = VerdictFields(hash[j], j)
  <2>1. hash[j].status \in {"pending", "processing"}
    BY <1>1, <1>4 DEF Exists, Hash, Statuses, Terminal
  <2>2. hash'[j].status = "processing" \/ hash'[j].status \in Terminal
    BY <1>1, <1>4, StatusWritten
  <2> QED BY <2>1, <2>2 DEF Follows
<1> QED BY <1>2, <1>3, <1>4, WriterIsFirst

(* Under the same hypotheses no step takes a status back: pending, then    *)
(* processing, then one verdict, although the HSET of the API comes after  *)
(* its LPUSH and races with the worker.                                    *)
THEOREM StatusOnlyAdvances ==
  ASSUME OnlyQueueWrites PROVE Spec => StatusNeverRegresses
<1>1. StatusInv /\ [Next]_vars =>
        [\A j \in Jobs : Exists(j) /\ Exists(j)' =>
                           Follows(hash[j].status, hash'[j].status)]_hash
  BY StatusFollows
<1> QED BY <1>1, StatusInit, StatusNext, PTL DEF Spec, StatusNeverRegresses

=============================================================================
