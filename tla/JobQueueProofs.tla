--------------------------- MODULE JobQueueProofs ---------------------------
(***************************************************************************)
(* Proofs about JobQueue, for every set of requests, workers and PUTs and  *)
(* for every set of faults.                                                *)
(***************************************************************************)
EXTENDS JobQueue, SequenceTheorems, TLAPS

-----------------------------------------------------------------------------
(* Types of the operators the actions are built from.                      *)

LEMMA TypesOfType ==
  ASSUME NEW r \in Requests
  PROVE  /\ TypesOf(r) \in Seq(Types)
         /\ Len(TypesOf(r)) \in {1, 2}
         /\ DOMAIN TypesOf(r) = 1 .. Len(TypesOf(r))
         /\ \A n \in DOMAIN TypesOf(r) : TypesOf(r)[n] \in Types
<1>1. Kind[r] \in Kinds
  BY Assumption
<1>2. CASE Kind[r] = "all"
  BY <1>2 DEF TypesOf, Types
<1>3. CASE Kind[r] # "all"
  BY <1>1, <1>3 DEF TypesOf, Types, Kinds
<1> QED BY <1>2, <1>3

LEMMA CurrentType ==
  ASSUME NEW r \in Requests, TypeOK
  PROVE  Current(r) \in Jobs
BY TypesOfType DEF TypeOK, ReqType, Current, Jobs

LEMMA getQueueKeyType ==
  ASSUME NEW t
  PROVE  getQueueKey(t) \in QueueNames
BY DEF getQueueKey, QueueNames

LEMMA queue_nameType ==
  ASSUME NEW w
  PROVE  queue_name(w) \in QueueNames
BY DEF queue_name, QueueNames

LEMMA WithPendingType ==
  ASSUME NEW h \in Hash
  PROVE  WithPending(h) \in Hash
BY DEF WithPending, Hash, Statuses

LEMMA WithUpdateType ==
  ASSUME NEW h \in Hash, NEW s \in Statuses, NEW e \in BOOLEAN, NEW x \in BOOLEAN
  PROVE  WithUpdate(h, s, e, x) \in Hash
BY DEF WithUpdate, Hash

LEMMA VerdictFieldsType ==
  ASSUME NEW h \in Hash, NEW j
  PROVE  VerdictFields(h, j) \in Hash /\ ProcessingFields(h) \in Hash
BY WithUpdateType DEF VerdictFields, ProcessingFields, Statuses

LEMMA NextJobType ==
  ASSUME NEW r \in Requests, TypeOK, NEW pc \in RequestPc, NEW a \in RequestPc
  PROVE  /\ NextJob(r, pc, a) \in [pc : RequestPc, i : 1..2]
         /\ NextJob(r, pc, a).i \in DOMAIN TypesOf(r)
<1>1. /\ req[r] \in [pc : RequestPc, i : 1..2]
      /\ req[r].i \in DOMAIN TypesOf(r)
      /\ DOMAIN TypesOf(r) = 1 .. Len(TypesOf(r))
      /\ Len(TypesOf(r)) \in {1, 2}
  BY TypesOfType DEF TypeOK, ReqType
<1>2. CASE req[r].i < Len(TypesOf(r))
  <2> DEFINE n == Len(TypesOf(r))
             i == req[r].i
  <2>a. i \in 1..2 /\ i \in 1..n /\ n \in {1, 2} /\ i < n
    BY <1>1, <1>2
  <2>b. i + 1 \in 1..2 /\ i + 1 \in 1..n
    <3> HIDE DEF n, i
    <3> QED BY <2>a
  <2>1. req[r].i + 1 \in 1..2 /\ req[r].i + 1 \in DOMAIN TypesOf(r)
    BY <1>1, <2>b
  <2> QED BY <1>1, <1>2, <2>1 DEF NextJob
<1>3. CASE ~(req[r].i < Len(TypesOf(r)))
  BY <1>1, <1>3 DEF NextJob
<1> QED BY <1>2, <1>3

LEMMA CaughtType ==
  ASSUME NEW r \in Requests
  PROVE  /\ Caught(r) \in [pc : RequestPc, i : 1..2]
         /\ Caught(r).i \in DOMAIN TypesOf(r)
BY TypesOfType DEF Caught, RequestPc

-----------------------------------------------------------------------------
(* What one assignment does to the type of a variable.                     *)

LEMMA ReqStep ==
  ASSUME ReqType, NEW r \in Requests, NEW x \in [pc : RequestPc, i : 1..2],
         x.i \in DOMAIN TypesOf(r),
         req' = [req EXCEPT ![r] = x]
  PROVE  ReqType'
BY DEF ReqType

LEMMA ReqPcStep ==
  ASSUME ReqType, NEW r \in Requests, NEW pc \in RequestPc,
         req' = [req EXCEPT ![r].pc = pc]
  PROVE  ReqType'
<1>1. /\ [req[r] EXCEPT !.pc = pc] \in [pc : RequestPc, i : 1..2]
      /\ [req[r] EXCEPT !.pc = pc].i \in DOMAIN TypesOf(r)
  BY DEF ReqType
<1>2. req' = [req EXCEPT ![r] = [req[r] EXCEPT !.pc = pc]]
  BY DEF ReqType
<1> QED BY <1>1, <1>2, ReqStep

WorkerState == [pc : WorkerPc, job : MaybeJob,
                errors : 0..MaxConsecutiveErrors, stop : BOOLEAN]

LEMMA WorkerStep ==
  ASSUME WorkerType, NEW w \in Workers, NEW x \in WorkerState,
         x.job # <<>> <=> x.pc \in HoldingPc,
         x.errors < MaxConsecutiveErrors \/ x.pc = "stopped",
         worker' = [worker EXCEPT ![w] = x]
  PROVE  WorkerType'
BY Assumption DEF WorkerType, WorkerState

(* A step inside one of the two halves of the loop, with or without a job. *)
LEMMA WorkerPcStep ==
  ASSUME WorkerType, NEW w \in Workers, NEW pc \in WorkerPc,
         worker[w].pc \in HoldingPc <=> pc \in HoldingPc,
         worker[w].pc # "stopped",
         worker' = [worker EXCEPT ![w].pc = pc]
  PROVE  WorkerType'
<1>1. /\ [worker[w] EXCEPT !.pc = pc] \in WorkerState
      /\ [worker[w] EXCEPT !.pc = pc].job # <<>> <=> pc \in HoldingPc
      /\ [worker[w] EXCEPT !.pc = pc].pc = pc
      /\ [worker[w] EXCEPT !.pc = pc].errors < MaxConsecutiveErrors
  BY Assumption DEF WorkerType, WorkerState
<1>2. worker' = [worker EXCEPT ![w] = [worker[w] EXCEPT !.pc = pc]]
  BY DEF WorkerType
<1> QED BY <1>1, <1>2, WorkerStep

(* The assignments of worker_loop that also touch the error counter.       *)
LEMMA WorkerStateStep ==
  ASSUME NEW s \in WorkerState, NEW pc \in WorkerPc, NEW job \in MaybeJob,
         NEW e \in 0..MaxConsecutiveErrors
  PROVE  [s EXCEPT !.pc = pc, !.job = job, !.errors = e] \in WorkerState
<1> DEFINE E == 0..MaxConsecutiveErrors
<1>1. e \in E
  OBVIOUS
<1>2. s \in [pc : WorkerPc, job : MaybeJob, errors : E, stop : BOOLEAN]
  BY DEF WorkerState
<1> HIDE DEF E
<1>3. [s EXCEPT !.pc = pc, !.job = job, !.errors = e]
           \in [pc : WorkerPc, job : MaybeJob, errors : E, stop : BOOLEAN]
  BY <1>1, <1>2
<1> QED BY <1>3 DEF WorkerState, E

LEMMA WorkerErrorsStep ==
  ASSUME NEW s \in WorkerState, NEW pc \in WorkerPc,
         NEW e \in 0..MaxConsecutiveErrors
  PROVE  /\ [s EXCEPT !.pc = pc, !.errors = e] \in WorkerState
         /\ [s EXCEPT !.errors = e, !.pc = pc] \in WorkerState
<1> DEFINE E == 0..MaxConsecutiveErrors
<1>1. e \in E
  OBVIOUS
<1>2. s \in [pc : WorkerPc, job : MaybeJob, errors : E, stop : BOOLEAN]
  BY DEF WorkerState
<1> HIDE DEF E
<1>3. /\ [s EXCEPT !.pc = pc, !.errors = e]
           \in [pc : WorkerPc, job : MaybeJob, errors : E, stop : BOOLEAN]
      /\ [s EXCEPT !.errors = e, !.pc = pc]
           \in [pc : WorkerPc, job : MaybeJob, errors : E, stop : BOOLEAN]
  BY <1>1, <1>2
<1> QED BY <1>3 DEF WorkerState, E

LEMMA ErrorsCleared == 0 \in 0..MaxConsecutiveErrors /\ 0 < MaxConsecutiveErrors
BY Assumption

LEMMA AfterUpdateType ==
  ASSUME WorkerType, NEW w \in Workers, worker[w].pc \in HoldingPc
  PROVE  /\ AfterUpdate(w) \in WorkerState
         /\ AfterUpdate(w).job # <<>> <=> AfterUpdate(w).pc \in HoldingPc
         /\ AfterUpdate(w).errors < MaxConsecutiveErrors
<1>1. /\ worker[w] \in WorkerState /\ worker[w].job # <<>>
      /\ worker[w].errors < MaxConsecutiveErrors
      /\ <<>> \in MaybeJob
  BY Assumption DEF WorkerType, WorkerState, HoldingPc, MaybeJob
<1>2. CASE worker[w].pc \in {"check", "mark"}
  BY <1>1, <1>2 DEF AfterUpdate, WorkerState, WorkerPc, HoldingPc
<1>3. CASE worker[w].pc \notin {"check", "mark"}
  BY <1>1, <1>3 DEF AfterUpdate, LoopHead, WorkerState, WorkerPc, HoldingPc
<1> QED BY <1>2, <1>3

LEMMA PutStep ==
  ASSUME PutType, NEW p \in Putters,
         NEW x \in [pc : PutPc, job : MaybeJob, ours : BOOLEAN,
                    body : Bodies \cup {NoBody}],
         x.job = <<>> <=> x.pc = "idle",
         put' = [put EXCEPT ![p] = x]
  PROVE  PutType'
BY DEF PutType

LEMMA PutPcStep ==
  ASSUME PutType, NEW p \in Putters, NEW pc \in PutPc \ {"idle"},
         put[p].pc # "idle",
         put' = [put EXCEPT ![p].pc = pc]
  PROVE  PutType'
<1>1. /\ [put[p] EXCEPT !.pc = pc] \in [pc : PutPc, job : MaybeJob,
                              ours : BOOLEAN, body : Bodies \cup {NoBody}]
      /\ [put[p] EXCEPT !.pc = pc].job # <<>>
      /\ [put[p] EXCEPT !.pc = pc].pc = pc
  BY DEF PutType
<1>2. put' = [put EXCEPT ![p] = [put[p] EXCEPT !.pc = pc]]
  BY DEF PutType
<1> QED BY <1>1, <1>2, PutStep

LEMMA HashStep ==
  ASSUME hash \in [Jobs -> Hash], NEW j \in Jobs, NEW h \in Hash,
         hash' = [hash EXCEPT ![j] = h]
  PROVE  hash' \in [Jobs -> Hash]
OBVIOUS

LEMMA RemoveType ==
  ASSUME TypeOK, NEW w \in Workers, Remove(w)
  PROVE  /\ queue' \in [QueueNames -> Seq(Jobs)]
         /\ taken' \in [Jobs -> Nat]
         /\ Head(queue[queue_name(w)]) \in Jobs
<1> DEFINE q == queue_name(w)
<1>1. q \in QueueNames /\ queue[q] \in Seq(Jobs) /\ queue[q] # <<>>
  BY queue_nameType DEF TypeOK, Remove
<1>2. Head(queue[q]) \in Jobs /\ Tail(queue[q]) \in Seq(Jobs)
  BY <1>1, HeadTailProperties
<1> QED BY <1>1, <1>2 DEF TypeOK, Remove

-----------------------------------------------------------------------------
(* Type correctness.                                                       *)

LEMMA TypeInit == Init => TypeOK
<1> SUFFICES ASSUME Init PROVE TypeOK
  OBVIOUS
<1>1. queue \in [QueueNames -> Seq(Jobs)] /\ hash \in [Jobs -> Hash]
  BY DEF Init, Absent, Hash
<1>2. ReqType
  BY TypesOfType DEF Init, ReqType, NewRequest, RequestPc
<1>3. WorkerType
  BY Assumption DEF Init, WorkerType, NewWorker, WorkerPc, MaybeJob, HoldingPc
<1>4. PutType
  BY DEF Init, PutType, NewPut, PutPc, MaybeJob
<1>5. /\ taken \in [Jobs -> Nat]
      /\ outcome \in [Jobs -> {"none", "ok", "bad"}]
  BY DEF Init
<1> QED BY <1>1, <1>2, <1>3, <1>4, <1>5 DEF TypeOK

LEMMA TypeNext == TypeOK /\ [Next]_vars => TypeOK'
<1> SUFFICES ASSUME TypeOK, [Next]_vars PROVE TypeOK'
  OBVIOUS
<1> USE DEF TypeOK
<1>1. ASSUME NEW r \in Requests, createJob(r) PROVE TypeOK'
  <2>1. ReqType'
    BY <1>1, ReqPcStep DEF createJob, RequestPc
  <2> QED BY <1>1, <2>1 DEF createJob, WorkerType, PutType
<1>2. ASSUME NEW r \in Requests, lPush(r) PROVE TypeOK'
  <2> DEFINE k == getQueueKey(Current(r)[2])
  <2>1. Current(r) \in Jobs /\ k \in QueueNames
    BY CurrentType, getQueueKeyType
  <2>2. Append(queue[k], Current(r)) \in Seq(Jobs)
    BY <2>1
  <2>3. queue' \in [QueueNames -> Seq(Jobs)]
    BY <1>2, <2>1, <2>2 DEF lPush
  <2>4. ReqType'
    <3>1. CASE req' = [req EXCEPT ![r] = Caught(r)]
      BY <3>1, CaughtType, ReqStep
    <3>2. CASE req' = [req EXCEPT ![r] = [req[r] EXCEPT !.pc = "hset"]]
      BY <3>2, ReqPcStep DEF RequestPc
    <3> QED BY <1>2, <3>1, <3>2 DEF lPush, PushReply
  <2> QED BY <1>2, <2>3, <2>4 DEF lPush, WorkerType, PutType
<1>3. ASSUME NEW r \in Requests, hSet(r) PROVE TypeOK'
  <2>1. Current(r) \in Jobs
    BY CurrentType
  <2>2. hash' \in [Jobs -> Hash]
    <3>1. WithPending(hash[Current(r)]) \in Hash
      BY <2>1, WithPendingType
    <3> QED BY <1>3, <2>1, <3>1 DEF hSet
  <2>3. ReqType'
    <3>1. CASE req' = [req EXCEPT ![r] = Caught(r)]
      BY <3>1, CaughtType, ReqStep
    <3>2. CASE req' = [req EXCEPT ![r] = [req[r] EXCEPT !.pc = "expire"]]
      BY <3>2, ReqPcStep DEF RequestPc
    <3> QED BY <1>3, <3>1, <3>2 DEF hSet, PushReply
  <2> QED BY <1>3, <2>2, <2>3 DEF hSet, WorkerType, PutType
<1>4. ASSUME NEW r \in Requests, expire(r) PROVE TypeOK'
  <2>1. Current(r) \in Jobs
    BY CurrentType
  <2>2. hash' \in [Jobs -> Hash]
    <3>1. [hash[Current(r)] EXCEPT !.ttl = TRUE] \in Hash
      BY <2>1 DEF Hash
    <3>2. \/ UNCHANGED hash
          \/ hash' = [hash EXCEPT ![Current(r)] =
                         [hash[Current(r)] EXCEPT !.ttl = TRUE]]
      BY <1>4, <2>1 DEF expire
    <3> QED BY <2>1, <3>1, <3>2
  <2>3. ReqType'
    <3>1. CASE req' = [req EXCEPT ![r] = Caught(r)]
      BY <3>1, CaughtType, ReqStep
    <3>2. CASE req' = [req EXCEPT ![r] = NextJob(r, "lpush", "accepted")]
      BY <3>2, NextJobType, ReqStep DEF RequestPc
    <3> QED BY <1>4, <3>1, <3>2 DEF expire, PushReply
  <2> QED BY <1>4, <2>2, <2>3 DEF expire, WorkerType, PutType
<1>5. ASSUME NEW r \in Requests, CheckFailed(r) PROVE TypeOK'
  <2>1. ReqType'
    BY <1>5, ReqPcStep DEF CheckFailed, RequestPc
  <2> QED BY <1>5, <2>1 DEF CheckFailed, WorkerType, PutType
<1>6. ASSUME NEW r \in Requests, MarkFailed(r) PROVE TypeOK'
  <2>1. Current(r) \in Jobs
    BY CurrentType
  <2>2. hash' \in [Jobs -> Hash]
    <3>1. WithUpdate(hash[Current(r)], "failed", TRUE, FALSE) \in Hash
      BY <2>1, WithUpdateType DEF Statuses
    <3> QED BY <1>6, <2>1, <3>1 DEF MarkFailed
  <2>3. ReqType'
    <3>1. CASE req' = [req EXCEPT ![r] = NextJob(r, "check", "rejected")]
      BY <3>1, NextJobType, ReqStep DEF RequestPc
    <3>2. CASE req' = [req EXCEPT ![r].pc = "rejected"]
      BY <3>2, ReqPcStep DEF RequestPc
    <3> QED BY <1>6, <3>1, <3>2 DEF MarkFailed
  <2> QED BY <1>6, <2>2, <2>3 DEF MarkFailed, WorkerType, PutType
<1>7. ASSUME NEW r \in Requests, ApiCrash(r) PROVE TypeOK'
  <2>1. ReqType'
    BY <1>7, ReqPcStep DEF ApiCrash, RequestPc
  <2> QED BY <1>7, <2>1 DEF ApiCrash, WorkerType, PutType
<1>8. ASSUME NEW w \in Workers, Pop(w) PROVE TypeOK'
  <2> DEFINE j == Head(queue[queue_name(w)])
             x == [worker[w] EXCEPT !.pc = "check", !.job = <<j>>, !.errors = 0]
  <2>1. /\ queue' \in [QueueNames -> Seq(Jobs)]
        /\ taken' \in [Jobs -> Nat]
        /\ j \in Jobs
    BY <1>8, RemoveType DEF Pop
  <2>2. <<j>> \in MaybeJob /\ <<j>> # <<>>
    BY <2>1 DEF MaybeJob
  <2>3. /\ x \in WorkerState /\ x.job = <<j>> /\ x.pc = "check"
        /\ x.errors < MaxConsecutiveErrors
    <3>1. worker[w] \in WorkerState
      BY DEF WorkerType, WorkerState
    <3>2. x \in WorkerState
      BY <2>2, <3>1, ErrorsCleared, WorkerStateStep DEF WorkerPc
    <3>3. x.job = <<j>> /\ x.pc = "check" /\ x.errors = 0
      BY <3>1 DEF WorkerState
    <3> QED BY <3>2, <3>3, ErrorsCleared
  <2>4. worker' = [worker EXCEPT ![w] = x]
    BY <1>8 DEF Pop, WorkerType
  <2>5. WorkerType'
    BY <2>2, <2>3, <2>4, WorkerStep DEF HoldingPc
  <2> QED BY <1>8, <2>1, <2>5 DEF Pop, ReqType, PutType
<1>9. ASSUME NEW w \in Workers, PopTimeout(w) PROVE TypeOK'
  <2>1. WorkerType'
    BY <1>9, WorkerPcStep DEF PopTimeout, LoopHead, WorkerPc, HoldingPc
  <2> QED BY <1>9, <2>1 DEF PopTimeout, ReqType, PutType
<1>10. ASSUME NEW w \in Workers, Resume(w) PROVE TypeOK'
  <2>1. ASSUME NEW pc \in {"brpop", "stopped"}, worker[w].pc \notin HoldingPc,
               worker' = [worker EXCEPT ![w].pc = pc, ![w].errors = 0]
        PROVE  WorkerType'
    <3> DEFINE x == [worker[w] EXCEPT !.pc = pc, !.errors = 0]
    <3>1. /\ x \in WorkerState /\ x.job = worker[w].job /\ x.pc = pc
          /\ x.errors < MaxConsecutiveErrors
      <4>1. worker[w] \in WorkerState
        BY DEF WorkerType, WorkerState
      <4>2. x \in WorkerState
        BY <4>1, ErrorsCleared, WorkerErrorsStep DEF WorkerPc
      <4>3. x.job = worker[w].job /\ x.pc = pc /\ x.errors = 0
        BY <4>1 DEF WorkerState
      <4> QED BY <4>2, <4>3, ErrorsCleared
    <3>2. worker' = [worker EXCEPT ![w] = x]
      BY <2>1 DEF WorkerType
    <3>3. x.job # <<>> <=> x.pc \in HoldingPc
      BY <2>1, <3>1 DEF WorkerType, HoldingPc
    <3> HIDE DEF x
    <3> QED BY <3>1, <3>2, <3>3, WorkerStep
  <2>2. WorkerType'
    BY <1>10, <2>1, WorkerPcStep DEF Resume, LoopHead, WorkerPc, HoldingPc
  <2> QED BY <1>10, <2>2 DEF Resume, ReqType, PutType
<1>11. ASSUME NEW w \in Workers, PopError(w) PROVE TypeOK'
  <2>1. /\ queue' \in [QueueNames -> Seq(Jobs)]
        /\ taken' \in [Jobs -> Nat]
    BY <1>11, RemoveType DEF PopError
  <2>2. PICK next \in {"reconnect", "pause"} :
          worker' = [worker EXCEPT
                       ![w].errors = @ + 1,
                       ![w].pc = IF TooMany(worker[w].errors + 1)
                                 THEN "stopped" ELSE next]
    BY <1>11 DEF PopError
  <2> DEFINE e == worker[w].errors + 1
             x == [worker[w] EXCEPT !.errors = e,
                                    !.pc = IF TooMany(e) THEN "stopped" ELSE next]
  <2>3. worker[w] \in WorkerState /\ worker[w].job = <<>>
    BY <1>11 DEF PopError, WorkerType, WorkerState, HoldingPc
  <2>4. e \in 0..MaxConsecutiveErrors
    BY <1>11, Assumption DEF PopError, WorkerType
  <2>5. /\ x \in WorkerState /\ x.job = <<>> /\ x.pc \notin HoldingPc
        /\ x.errors < MaxConsecutiveErrors \/ x.pc = "stopped"
    <3> DEFINE pc == IF TooMany(e) THEN "stopped" ELSE next
    <3>1. pc \in WorkerPc /\ pc \notin HoldingPc
      BY DEF WorkerPc, HoldingPc
    <3>2. e < MaxConsecutiveErrors \/ pc = "stopped"
      BY <2>4, Assumption DEF TooMany
    <3> HIDE DEF pc, e
    <3>3. x \in WorkerState
      BY <2>3, <2>4, <3>1, WorkerErrorsStep DEF pc
    <3>4. x.job = <<>> /\ x.pc = pc /\ x.errors = e
      BY <2>3 DEF WorkerState, pc
    <3> QED BY <3>1, <3>2, <3>3, <3>4
  <2>6. worker' = [worker EXCEPT ![w] = x]
    BY <2>2 DEF WorkerType
  <2>7. WorkerType'
    BY <2>5, <2>6, WorkerStep
  <2> QED BY <1>11, <2>1, <2>7 DEF PopError, ReqType, PutType
<1>12. ASSUME NEW w \in Workers, UpdateExists(w) PROVE TypeOK'
  <2>1. worker[w].pc \in {"check", "recheck"}
    BY <1>12 DEF UpdateExists
  <2> DEFINE next == IF worker[w].pc = "check" THEN "mark" ELSE "finish"
  <2>2. WorkerType'
    <3>1. CASE worker' = [worker EXCEPT ![w].pc = next]
      BY <2>1, <3>1, WorkerPcStep DEF WorkerPc, HoldingPc
    <3>2. CASE worker' = [worker EXCEPT ![w] = AfterUpdate(w)]
      <4>1. worker[w].pc \in HoldingPc
        BY <2>1 DEF HoldingPc
      <4> HIDE DEF TypeOK
      <4>2. WorkerType
        BY DEF TypeOK
      <4> QED BY <3>2, <4>1, <4>2, AfterUpdateType, WorkerStep
    <3> QED BY <1>12, <3>1, <3>2 DEF UpdateExists, WorkerType
  <2> QED BY <1>12, <2>2 DEF UpdateExists, ReqType, PutType
<1>13. ASSUME NEW w \in Workers, UpdateHSet(w) PROVE TypeOK'
  <2>1. hash' \in [Jobs -> Hash]
    <3>1. CASE UNCHANGED hash
      BY <3>1
    <3>2. ASSUME NEW j \in Jobs, NEW h \in Hash, hash' = [hash EXCEPT ![j] = h]
          PROVE  hash' \in [Jobs -> Hash]
      BY <3>2
    <3> QED BY <1>13, <3>1, <3>2, VerdictFieldsType DEF UpdateHSet
  <2>2. worker[w].pc \in HoldingPc
    BY <1>13 DEF UpdateHSet, HoldingPc
  <2>3. WorkerType /\ worker' = [worker EXCEPT ![w] = AfterUpdate(w)]
    BY <1>13 DEF UpdateHSet
  <2>4. WorkerType'
    BY <2>2, <2>3, AfterUpdateType, WorkerStep
  <2> QED BY <1>13, <2>1, <2>4 DEF UpdateHSet, ReqType, PutType
<1>14. ASSUME NEW w \in Workers, ProcessJob(w) PROVE TypeOK'
  <2>1. outcome' \in [Jobs -> {"none", "ok", "bad"}]
    BY <1>14 DEF ProcessJob
  <2>2. WorkerType'
    BY <1>14, WorkerPcStep DEF ProcessJob, WorkerPc, HoldingPc
  <2> QED BY <1>14, <2>1, <2>2 DEF ProcessJob, ReqType, PutType
<1>15. ASSUME NEW w \in Workers, Signal(w) PROVE TypeOK'
  <2>1. WorkerType'
    BY <1>15 DEF Signal, WorkerType
  <2> QED BY <1>15, <2>1 DEF Signal, ReqType, PutType
<1>16. ASSUME NEW w \in Workers, WorkerCrash(w) PROVE TypeOK'
  <2> DEFINE x == [worker[w] EXCEPT !.pc = "killed", !.job = <<>>]
  <2>1. /\ x \in WorkerState /\ x.job = <<>> /\ x.pc = "killed"
        /\ x.errors < MaxConsecutiveErrors
    <3>1. /\ worker[w] \in WorkerState /\ <<>> \in MaybeJob
          /\ worker[w].errors < MaxConsecutiveErrors
      BY <1>16, Assumption DEF WorkerCrash, WorkerType, WorkerState, MaybeJob
    <3> QED BY <3>1 DEF WorkerState, WorkerPc
  <2>2. worker' = [worker EXCEPT ![w] = x]
    BY <1>16 DEF WorkerCrash, WorkerType
  <2>3. WorkerType'
    BY <2>1, <2>2, WorkerStep DEF HoldingPc
  <2> QED BY <1>16, <2>3 DEF WorkerCrash, ReqType, PutType
<1>17. ASSUME NEW w \in Workers, Restart(w) PROVE TypeOK'
  <2>1. /\ NewWorker \in WorkerState /\ NewWorker.job = <<>>
        /\ NewWorker.pc = "brpop" /\ NewWorker.errors < MaxConsecutiveErrors
    BY Assumption DEF NewWorker, WorkerState, WorkerPc, MaybeJob
  <2>2. WorkerType'
    BY <1>17, <2>1, WorkerStep DEF Restart, HoldingPc
  <2> QED BY <1>17, <2>2 DEF Restart, ReqType, PutType
<1>18. ASSUME NEW p \in Putters, PutExists(p) PROVE TypeOK'
  <2>1. PICK j \in Jobs, ours \in BOOLEAN, body \in Bodies,
             pc \in {"hset", "500"} :
          put' = [put EXCEPT ![p] =
                    [pc |-> pc, job |-> <<j>>, ours |-> ours, body |-> body]]
    BY <1>18 DEF PutExists
  <2>2. PutType'
    BY <2>1, PutStep DEF MaybeJob, PutPc
  <2> QED BY <1>18, <2>2 DEF PutExists, ReqType, WorkerType
<1>19. ASSUME NEW p \in Putters, PutHSet(p) PROVE TypeOK'
  <2>a. put[p].body \in Bodies \cup {NoBody}
    BY DEF PutType
  <2>1. put[p].body \in [status : Statuses, error : BOOLEAN, result : BOOLEAN]
    <3>1. CASE put[p].body \in Bodies
      BY <3>1, Assumption
    <3>2. CASE put[p].body = NoBody
      BY <3>2 DEF NoBody, Statuses
    <3> QED BY <2>a, <3>1, <3>2
  <2>2. hash' \in [Jobs -> Hash]
    BY <1>19, <2>1, WithUpdateType DEF PutHSet
  <2>3. PutType'
    BY <1>19, PutPcStep DEF PutHSet, PutPc
  <2> QED BY <1>19, <2>2, <2>3 DEF PutHSet, ReqType, WorkerType
<1>20. ASSUME NEW p \in Putters, PutRead(p) \/ PutReadError(p) PROVE TypeOK'
  <2>1. PutType'
    BY <1>20, PutPcStep DEF PutRead, PutReadError, PutPc
  <2> QED BY <1>20, <2>1 DEF PutRead, PutReadError, ReqType, WorkerType
<1>21. ASSUME NEW j \in Jobs, Expiry(j) PROVE TypeOK'
  <2>1. hash' \in [Jobs -> Hash]
    BY <1>21 DEF Expiry, Absent, Hash
  <2> QED BY <1>21, <2>1 DEF Expiry, ReqType, WorkerType, PutType
<1>22. CASE UNCHANGED vars
  BY <1>22 DEF vars, ReqType, WorkerType, PutType
<1> QED
  BY <1>1, <1>2, <1>3, <1>4, <1>5, <1>6, <1>7, <1>8, <1>9, <1>10, <1>11,
     <1>12, <1>13, <1>14, <1>15, <1>16, <1>17, <1>18, <1>19, <1>20, <1>21,
     <1>22
  DEF Next, Request, Work, Put

(* In every behaviour of the queue every variable has its type: whatever   *)
(* fails, no worker runs past its error limit and no request, worker or    *)
(* PUT points at anything but a job.                                       *)
THEOREM TypeCorrect == Spec => []TypeOK
<1>1. Init => TypeOK
  BY TypeInit
<1>2. TypeOK /\ [Next]_vars => TypeOK'
  BY TypeNext
<1> QED BY <1>1, <1>2, PTL DEF Spec

-----------------------------------------------------------------------------
(* A job is handed out at most once.                                       *)

LEMMA JobOf ==
  ASSUME NEW r \in Requests, NEW n \in DOMAIN TypesOf(r)
  PROVE  /\ <<r, TypesOf(r)[n]>> \in Jobs
         /\ \A m \in DOMAIN TypesOf(r) :
              TypesOf(r)[m] = TypesOf(r)[n] => m = n
<1>1. <<r, TypesOf(r)[n]>> \in Jobs
  BY TypesOfType DEF Jobs
<1>2. CASE Kind[r] = "all"
  BY <1>1, <1>2 DEF TypesOf
<1>3. CASE Kind[r] # "all"
  BY <1>1, <1>3 DEF TypesOf
<1> QED BY <1>2, <1>3

LEMMA OnceInit == Init => OnceInv
<1> SUFFICES ASSUME Init PROVE OnceInv
  OBVIOUS
<1>1. TypeOK
  BY TypeInit
<1>2. /\ \A j \in Jobs : taken[j] = 0
      /\ \A q \in QueueNames : queue[q] = <<>>
  BY DEF Init
<1>3. \A j \in Jobs : ~InQueue(j)
  BY <1>2 DEF InQueue
<1>4. LaterIsNowhere
  BY <1>2, <1>3, JobOf DEF LaterIsNowhere, Queued
<1>5. ListedOnce /\ ListedByType /\ ListedIsUntaken /\ RunsAtMostOnce
  BY <1>2, <1>3 DEF ListedOnce, ListedByType, ListedIsUntaken, RunsAtMostOnce
<1> QED BY <1>1, <1>4, <1>5 DEF OnceInv

(* A request never comes back to a job it has left behind: what it is to   *)
(* push after a step it was to push before.                                *)
LEMMA LaterShrinks ==
  ASSUME TypeOK, [Next]_vars, NEW r \in Requests,
         NEW n \in DOMAIN TypesOf(r), PushedLater(r, n)'
  PROVE  PushedLater(r, n)
<1> USE DEF PushedLater
<1>1. /\ req[r] \in [pc : RequestPc, i : 1..2]
      /\ n \in 1..2 /\ req[r].i \in 1..2
  <2>1. DOMAIN TypesOf(r) = 1 .. Len(TypesOf(r)) /\ Len(TypesOf(r)) \in {1, 2}
    BY TypesOfType
  <2> QED BY <2>1 DEF TypeOK, ReqType
<1>2. CASE UNCHANGED req[r]
  BY <1>2
<1>3. ASSUME NEW s \in Requests, Request(s) \/ ApiCrash(s)
      PROVE  PushedLater(r, n)
  <2>1. CASE s # r
    <3>1. UNCHANGED req[r]
      BY <1>3, <2>1
         DEF Request, createJob, lPush, hSet, expire, CheckFailed, MarkFailed,
             ApiCrash, PushReply, TypeOK, ReqType
    <3> QED BY <1>2, <3>1
  <2>2. CASE s = r
    <3> DEFINE x == req'[r]
    <3>1. req \in [Requests -> [pc : RequestPc, i : 1..2]]
      BY DEF TypeOK, ReqType
    <3>2. CASE x = Caught(r) \/ x.pc \in {"check", "mark", "rejected", "dead", "accepted"}
      BY <3>2 DEF Caught
    <3>3. CASE createJob(r)
      BY <3>1, <3>3 DEF createJob
    <3>4. CASE lPush(r)
      <4>1. x = [req[r] EXCEPT !.pc = "hset"] \/ x = Caught(r)
        BY <3>1, <3>4 DEF lPush, PushReply
      <4> QED BY <1>1, <3>2, <3>4, <4>1 DEF lPush
    <3>5. CASE hSet(r)
      <4>1. x = [req[r] EXCEPT !.pc = "expire"] \/ x = Caught(r)
        BY <3>1, <3>5 DEF hSet, PushReply
      <4> QED BY <1>1, <3>2, <3>5, <4>1 DEF hSet
    <3>6. CASE expire(r)
      <4>1. x = NextJob(r, "lpush", "accepted") \/ x = Caught(r)
        BY <3>1, <3>6 DEF expire, PushReply
      <4>2. CASE x = NextJob(r, "lpush", "accepted")
        <5>1. \/ x.pc = "accepted"
              \/ x.pc = "lpush" /\ x.i = req[r].i + 1
          BY <1>1, <4>2 DEF NextJob
        <5> QED BY <1>1, <3>2, <3>6, <5>1 DEF expire
      <4> QED BY <3>2, <4>1, <4>2
    <3>7. CASE CheckFailed(r)
      BY <1>1, <3>1, <3>2, <3>7 DEF CheckFailed
    <3>8. CASE MarkFailed(r)
      BY <1>1, <3>1, <3>2, <3>8 DEF MarkFailed, NextJob
    <3>9. CASE ApiCrash(r)
      BY <1>1, <3>1, <3>2, <3>9 DEF ApiCrash
    <3> QED BY <1>3, <2>2, <3>3, <3>4, <3>5, <3>6, <3>7, <3>8, <3>9 DEF Request
  <2> QED BY <2>1, <2>2
<1>4. CASE UNCHANGED req
  BY <1>2, <1>4
<1> QED
  BY <1>3, <1>4
  DEF Next, vars, Work, Put, PopError, Signal, WorkerCrash, Restart, Expiry,
      Pop, PopTimeout, Resume, UpdateExists, ProcessJob, UpdateHSet,
      PutExists, PutHSet, PutRead, PutReadError

(* Every step but a push and a removal leaves the lists alone.             *)
LEMMA OnceQuietStep ==
  ASSUME OnceInv, [Next]_vars, UNCHANGED <<queue, taken>>
  PROVE  OnceInv'
<1>1. TypeOK'
  BY TypeNext DEF OnceInv
<1>2. LaterIsNowhere'
  BY LaterShrinks DEF OnceInv, LaterIsNowhere, Queued, InQueue
<1>3. ListedOnce' /\ ListedByType' /\ ListedIsUntaken' /\ RunsAtMostOnce'
  BY DEF OnceInv, ListedOnce, ListedByType, ListedIsUntaken, RunsAtMostOnce,
         InQueue
<1> QED BY <1>1, <1>2, <1>3 DEF OnceInv

(* LPUSH: the job was nowhere, so that it is now in one place only.        *)
LEMMA OncePushStep ==
  ASSUME OnceInv, [Next]_vars, NEW r \in Requests, lPush(r)
  PROVE  OnceInv'
<1> DEFINE c == Current(r)
           k == getQueueKey(c[2])
<1> USE DEF OnceInv
<1>1. CASE UNCHANGED queue
  BY <1>1, OnceQuietStep DEF lPush
<1>2. CASE queue' = [queue EXCEPT ![k] = Append(@, c)]
  <2>1. /\ TypeOK' /\ UNCHANGED taken
        /\ queue \in [QueueNames -> Seq(Jobs)]
        /\ taken \in [Jobs -> Nat]
    BY TypeNext DEF lPush, TypeOK
  <2>2. /\ req[r].i \in DOMAIN TypesOf(r)
        /\ req[r].i \in 1..2
        /\ req[r].pc = "lpush"
    BY DEF TypeOK, ReqType, lPush
  <2>3. c \in Jobs /\ k \in QueueNames /\ queue[k] \in Seq(Jobs)
    BY <2>1, CurrentType, getQueueKeyType
  <2>4. ~InQueue(c) /\ taken[c] = 0
    <3>1. PushedLater(r, req[r].i)
      BY <2>2 DEF PushedLater
    <3>2. ~Queued(c)
      BY <2>2, <3>1 DEF LaterIsNowhere, Current
    <3> QED BY <2>1, <2>3, <3>2 DEF Queued
  <2>5. /\ queue'[k] = Append(queue[k], c)
        /\ \A q \in QueueNames \ {k} : queue'[q] = queue[q]
    BY <1>2, <2>1, <2>3
  <2>6. /\ Len(queue[k]) \in Nat
        /\ DOMAIN queue[k] = 1 .. Len(queue[k])
        /\ DOMAIN queue'[k] = 1 .. Len(queue[k]) + 1
        /\ \A n \in 1 .. Len(queue[k]) : queue'[k][n] = queue[k][n]
        /\ queue'[k][Len(queue[k]) + 1] = c
    BY <2>3, <2>5, AppendProperties
  <2>7. \A q \in QueueNames : \A n \in DOMAIN queue'[q] :
          \/ n \in DOMAIN queue[q] /\ queue'[q][n] = queue[q][n]
          \/ q = k /\ n = Len(queue[k]) + 1 /\ queue'[q][n] = c
    BY <2>5, <2>6
  <2>8. \A j \in Jobs : InQueue(j)' => InQueue(j) \/ j = c
    BY <2>7 DEF InQueue
  <2>9. LaterIsNowhere'
    <3> SUFFICES ASSUME NEW s \in Requests, NEW n \in DOMAIN TypesOf(s),
                        PushedLater(s, n)'
                 PROVE  ~Queued(<<s, TypesOf(s)[n]>>)'
      BY DEF LaterIsNowhere
    <3> DEFINE j == <<s, TypesOf(s)[n]>>
    <3>1. j \in Jobs /\ ~Queued(j)
      BY JobOf, LaterShrinks DEF LaterIsNowhere
    <3>2. j # c
      <4>1. CASE s # r
        BY <4>1 DEF Current
      <4>2. CASE s = r
        <5>1. req'[r] = [req[r] EXCEPT !.pc = "hset"] \/ req'[r] = Caught(r)
          BY DEF lPush, PushReply, TypeOK, ReqType
        <5>2. CASE req'[r] = Caught(r)
          BY <4>2, <5>2 DEF Caught, PushedLater
        <5>3. CASE req'[r] = [req[r] EXCEPT !.pc = "hset"]
          <6>1. req'[r].pc = "hset" /\ req'[r].i = req[r].i
            BY <5>3 DEF TypeOK, ReqType
          <6>2. n # req[r].i
            BY <2>2, <4>2, <6>1 DEF PushedLater
          <6> QED BY <2>2, <4>2, <6>2, JobOf DEF Current
        <5> QED BY <5>1, <5>2, <5>3
      <4> QED BY <4>1, <4>2
    <3> QED BY <2>1, <2>8, <3>1, <3>2 DEF Queued
  <2>10. ListedOnce'
    <3> SUFFICES ASSUME NEW q \in QueueNames, NEW m \in DOMAIN queue'[q],
                        NEW n \in DOMAIN queue'[q], queue'[q][m] = queue'[q][n]
                 PROVE  m = n
      BY DEF ListedOnce
    <3>1. \A l \in DOMAIN queue[q] : queue[q][l] # c
      BY <2>4 DEF InQueue
    <3> QED BY <2>7, <3>1 DEF ListedOnce
  <2>11. ListedByType'
    BY <2>7 DEF ListedByType
  <2>12. ListedIsUntaken'
    BY <2>1, <2>4, <2>8 DEF ListedIsUntaken
  <2>13. RunsAtMostOnce'
    BY <2>1 DEF RunsAtMostOnce
  <2> QED BY <2>1, <2>9, <2>10, <2>11, <2>12, <2>13
<1> QED BY <1>1, <1>2 DEF lPush

(* BRPOP: the entry it removes was listed once, and is listed no more.     *)
LEMMA OnceRemoveStep ==
  ASSUME OnceInv, [Next]_vars, NEW w \in Workers, Remove(w)
  PROVE  OnceInv'
<1> DEFINE k == queue_name(w)
           c == Head(queue[k])
<1> USE DEF OnceInv
<1>1. /\ TypeOK'
      /\ queue \in [QueueNames -> Seq(Jobs)]
      /\ taken \in [Jobs -> Nat]
      /\ c \in Jobs
      /\ k \in QueueNames
      /\ queue[k] \in Seq(Jobs) /\ queue[k] # <<>>
  BY TypeNext, RemoveType, queue_nameType DEF TypeOK, Remove
<1>2. /\ queue'[k] = Tail(queue[k])
      /\ \A q \in QueueNames \ {k} : queue'[q] = queue[q]
      /\ taken' = [taken EXCEPT ![c] = @ + 1]
  BY <1>1 DEF Remove
<1>3. /\ Len(queue[k]) \in Nat
      /\ DOMAIN queue[k] = 1 .. Len(queue[k])
      /\ DOMAIN queue'[k] = 1 .. Len(queue[k]) - 1
      /\ \A n \in DOMAIN queue'[k] : queue'[k][n] = queue[k][n + 1]
      /\ 1 \in DOMAIN queue[k] /\ c = queue[k][1]
  <2>1. Tail(queue[k]) \in Seq(Jobs)
    BY <1>1, HeadTailProperties
  <2> QED BY <1>1, <1>2, <2>1, HeadTailProperties
<1>4. ASSUME NEW q \in QueueNames, NEW n \in DOMAIN queue'[q]
      PROVE  \E m \in DOMAIN queue[q] :
               /\ m = IF q = k THEN n + 1 ELSE n
               /\ queue'[q][n] = queue[q][m]
               /\ queue[q][m] # c
  <2>1. CASE q # k
    <3>1. n \in DOMAIN queue[q] /\ queue'[q][n] = queue[q][n]
      BY <1>2, <2>1
    <3>2. queue[q][n] # c
      BY <1>1, <1>3, <2>1, <3>1 DEF ListedByType
    <3> QED BY <2>1, <3>1, <3>2
  <2>2. CASE q = k
    <3>1. n + 1 \in DOMAIN queue[k] /\ n + 1 # 1 /\ n \in DOMAIN queue'[k]
      BY <1>3, <2>2
    <3>2. queue[k][n + 1] # c
      BY <1>1, <1>3, <3>1 DEF ListedOnce
    <3> QED BY <1>3, <2>2, <3>1, <3>2
  <2> QED BY <2>1, <2>2
<1>5. ASSUME NEW j \in Jobs, InQueue(j)'
      PROVE  InQueue(j) /\ j # c
  BY <1>4, <1>5 DEF InQueue
<1>6. InQueue(c) /\ taken[c] = 0
  BY <1>1, <1>3 DEF InQueue, ListedIsUntaken
<1>7. LaterIsNowhere'
  <2> SUFFICES ASSUME NEW s \in Requests, NEW n \in DOMAIN TypesOf(s),
                      PushedLater(s, n)'
               PROVE  ~Queued(<<s, TypesOf(s)[n]>>)'
    BY DEF LaterIsNowhere
  <2>1. /\ <<s, TypesOf(s)[n]>> \in Jobs
        /\ ~Queued(<<s, TypesOf(s)[n]>>)
    BY JobOf, LaterShrinks DEF LaterIsNowhere
  <2> QED BY <1>1, <1>2, <1>5, <1>6, <2>1 DEF Queued
<1>8. ListedOnce'
  <2> SUFFICES ASSUME NEW q \in QueueNames, NEW m \in DOMAIN queue'[q],
                      NEW n \in DOMAIN queue'[q], queue'[q][m] = queue'[q][n]
               PROVE  m = n
    BY DEF ListedOnce
  <2>1. CASE q # k
    BY <1>2, <2>1 DEF ListedOnce
  <2>2. CASE q = k
    <3>1. m + 1 = n + 1
      BY <1>4, <2>2 DEF ListedOnce
    <3>2. m \in Int /\ n \in Int
      BY <1>3, <2>2
    <3> QED BY <3>1, <3>2
  <2> QED BY <2>1, <2>2
<1>9. ListedByType'
  BY <1>4 DEF ListedByType
<1>10. ListedIsUntaken'
  BY <1>1, <1>2, <1>5 DEF ListedIsUntaken
<1>11. RunsAtMostOnce'
  BY <1>1, <1>2, <1>6 DEF RunsAtMostOnce
<1> QED BY <1>1, <1>7, <1>8, <1>9, <1>10, <1>11

LEMMA OnceNext == OnceInv /\ [Next]_vars => OnceInv'
<1> SUFFICES ASSUME OnceInv, [Next]_vars PROVE OnceInv'
  OBVIOUS
<1>1. ASSUME NEW r \in Requests, lPush(r) PROVE OnceInv'
  BY <1>1, OncePushStep
<1>2. ASSUME NEW w \in Workers, Remove(w) PROVE OnceInv'
  BY <1>2, OnceRemoveStep
<1>3. CASE UNCHANGED <<queue, taken>>
  BY <1>3, OnceQuietStep
<1> QED
  BY <1>1, <1>2, <1>3
  DEF Next, vars, Request, createJob, hSet, expire, CheckFailed, MarkFailed,
      ApiCrash, Work, Pop, PopTimeout, Resume, UpdateExists, ProcessJob,
      UpdateHSet, PopError, Signal, WorkerCrash, Restart, Put, PutExists,
      PutHSet, PutRead, PutReadError, Expiry

(* Whatever fails, in the API, in Redis or in a worker, an entry of a job  *)
(* leaves its list at most once, so that no job is ever processed twice.   *)
THEOREM OneDelivery == Spec => []RunsAtMostOnce
<1>1. Init => OnceInv
  BY OnceInit
<1>2. OnceInv /\ [Next]_vars => OnceInv'
  BY OnceNext
<1>3. OnceInv => RunsAtMostOnce
  BY DEF OnceInv
<1> QED BY <1>1, <1>2, <1>3, PTL DEF Spec

=============================================================================
