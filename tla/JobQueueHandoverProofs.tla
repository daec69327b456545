----------------------- MODULE JobQueueHandoverProofs -----------------------
(***************************************************************************)
(* Proofs about how a job gets from a request to a worker, for every set   *)
(* of requests, workers and PUTs: who holds a job, what is in a list or    *)
(* has been through one, and that the queue implements JobLifecycle.       *)
(***************************************************************************)
EXTENDS JobQueueProofs

-----------------------------------------------------------------------------
(* The inductive invariants.                                               *)

(* Before the work the job has no verdict, after it the job has one.       *)
BeforeWork == {"check", "mark", "run"}
AfterWork == {"recheck", "finish"}

HeldIsTaken == \A w \in Workers, j \in Jobs : Holds(w, j) => taken[j] > 0

OneHolder ==
  \A v, w \in Workers, j \in Jobs : Holds(v, j) /\ Holds(w, j) => v = w

UntakenIsUndone == \A j \in Jobs : taken[j] = 0 => outcome[j] = "none"

VerdictByPc ==
  \A w \in Workers, j \in Jobs :
    Holds(w, j) =>
      /\ worker[w].pc \in BeforeWork => outcome[j] = "none"
      /\ worker[w].pc \in AfterWork => outcome[j] # "none"

(* A job in the hands of a worker has left its list, is in no other hands, *)
(* and has its verdict exactly from the end of the work on.                *)
HolderInv ==
  /\ OnceInv
  /\ HeldIsTaken
  /\ OneHolder
  /\ UntakenIsUndone
  /\ VerdictByPc

(* The counterpart of PushedLater while the request goes well.             *)
PushedBefore(r, n) ==
  \/ req[r].pc = "accepted"
  \/ req[r].pc = "lpush" /\ n < req[r].i
  \/ req[r].pc \in {"hset", "expire"} /\ n <= req[r].i

IdleIsFirst == \A r \in Requests : req[r].pc = "idle" => req[r].i = 1

EarlierIsQueued ==
  \A r \in Requests : \A n \in DOMAIN TypesOf(r) :
    PushedBefore(r, n) => Queued(<<r, TypesOf(r)[n]>>)

(* Who is past the EXISTS of an update has seen a record.                  *)
MarkedIsQueued ==
  \A r \in Requests : req[r].pc = "mark" => Queued(Current(r))

PutIsQueued ==
  \A p \in Putters, j \in Jobs :
    put[p].pc = "hset" /\ put[p].job = <<j>> => Queued(j)

VisibleInv ==
  /\ HolderInv
  /\ IdleIsFirst
  /\ EarlierIsQueued
  /\ MarkedIsQueued
  /\ PutIsQueued
  /\ VisibleIsQueued

-----------------------------------------------------------------------------
(* What one step may do to a worker, to the verdicts and to the lists.     *)

LEMMA HeldType ==
  ASSUME TypeOK, NEW w \in Workers
  PROVE  /\ worker[w].job # <<>> <=> worker[w].pc \in HoldingPc
         /\ worker[w].pc \in HoldingPc => \E j \in Jobs : Holds(w, j)
BY DEF TypeOK, WorkerType, MaybeJob, Holds

LEMMA HoldsPc ==
  ASSUME TypeOK, NEW w \in Workers, NEW j, Holds(w, j)
  PROVE  worker[w].pc \in HoldingPc /\ worker[w].job # <<>>
<1>1. <<j>> # <<>>
  OBVIOUS
<1> QED BY <1>1, HeldType DEF Holds

(* The worker goes on with the job it has, if any.                         *)
Forward == {<<"check", "mark">>, <<"check", "run">>, <<"mark", "run">>,
            <<"run", "recheck">>, <<"recheck", "finish">>}

Keeps(w) ==
  /\ worker'[w].job = worker[w].job
  /\ \/ worker'[w].pc = worker[w].pc
     \/ worker[w].pc \notin HoldingPc /\ worker'[w].pc \notin HoldingPc
     \/ <<worker[w].pc, worker'[w].pc>> \in Forward

(* It lets go of it: after the last update, or because it is killed.       *)
Drops(w) ==
  /\ worker'[w].job = <<>>
  /\ worker'[w].pc \notin HoldingPc
  /\ worker[w].pc \in AfterWork \/ WorkerCrash(w)

LEMMA AfterUpdateMoves ==
  ASSUME TypeOK, NEW w \in Workers, worker[w].pc \in {"check", "mark", "recheck", "finish"},
         worker' = [worker EXCEPT ![w] = AfterUpdate(w)]
  PROVE  \/ Keeps(w) /\ worker[w].pc \in {"check", "mark"}
         \/ Drops(w) /\ worker[w].pc \in AfterWork
<1>1. worker'[w] = AfterUpdate(w)
  BY DEF TypeOK, WorkerType
<1>2. worker[w] \in WorkerState
  BY DEF TypeOK, WorkerType, WorkerState
<1>3. CASE worker[w].pc \in {"check", "mark"}
  BY <1>1, <1>2, <1>3 DEF AfterUpdate, WorkerState, Keeps, Forward
<1>4. CASE worker[w].pc \in AfterWork
  <2>1. worker'[w] = [worker[w] EXCEPT !.pc = LoopHead(w), !.job = <<>>]
    BY <1>1, <1>4 DEF AfterUpdate, AfterWork
  <2>2. worker'[w].job = <<>> /\ worker'[w].pc = LoopHead(w)
    BY <1>2, <2>1 DEF WorkerState
  <2>3. LoopHead(w) \notin HoldingPc
    BY DEF LoopHead, HoldingPc
  <2> QED BY <1>4, <2>2, <2>3 DEF Drops
<1> QED BY <1>3, <1>4 DEF AfterWork

LEMMA WorkerMoves ==
  ASSUME TypeOK, [Next]_vars, NEW w \in Workers
  PROVE  Pop(w) \/ Keeps(w) \/ Drops(w)
<1>1. worker \in [Workers -> WorkerState]
  BY DEF TypeOK, WorkerType, WorkerState
<1>2. CASE UNCHANGED worker[w]
  BY <1>2 DEF Keeps
<1>3. ASSUME NEW v \in Workers, v # w,
             Work(v) \/ PopError(v) \/ Signal(v) \/ WorkerCrash(v) \/ Restart(v)
      PROVE  UNCHANGED worker[w]
  BY <1>1, <1>3
  DEF Work, Pop, PopTimeout, Resume, UpdateExists, ProcessJob, UpdateHSet,
      PopError, Signal, WorkerCrash, Restart
<1>4. CASE PopTimeout(w)
  BY <1>1, <1>4 DEF PopTimeout, LoopHead, Keeps, HoldingPc, WorkerState
<1>5. CASE Resume(w)
  BY <1>1, <1>5 DEF Resume, LoopHead, Keeps, HoldingPc, WorkerState
<1>6. CASE PopError(w)
  BY <1>1, <1>6 DEF PopError, Keeps, HoldingPc, WorkerState
<1>7. CASE UpdateExists(w)
  <2>1. worker[w].pc \in {"check", "recheck"}
    BY <1>7 DEF UpdateExists
  <2>2. CASE worker' = [worker EXCEPT ![w].pc =
                           IF @ = "check" THEN "mark" ELSE "finish"]
    BY <1>1, <2>1, <2>2 DEF Keeps, Forward, WorkerState
  <2>3. CASE worker' = [worker EXCEPT ![w] = AfterUpdate(w)]
    BY <2>1, <2>3, AfterUpdateMoves
  <2> QED BY <1>7, <2>2, <2>3 DEF UpdateExists
<1>8. CASE UpdateHSet(w)
  BY <1>8, AfterUpdateMoves DEF UpdateHSet
<1>9. CASE ProcessJob(w)
  BY <1>1, <1>9 DEF ProcessJob, Keeps, Forward, WorkerState
<1>10. CASE Signal(w)
  BY <1>1, <1>10 DEF Signal, Keeps, WorkerState
<1>11. CASE WorkerCrash(w)
  BY <1>1, <1>11 DEF WorkerCrash, Drops, HoldingPc, WorkerState
<1>12. CASE Restart(w)
  <2>1. worker[w].job = <<>> /\ worker'[w] = NewWorker
    BY <1>1, <1>12, HeldType DEF Restart, HoldingPc
  <2> QED BY <1>12, <2>1 DEF Restart, NewWorker, Keeps, HoldingPc
<1>13. CASE UNCHANGED worker
  BY <1>2, <1>13
<1> QED
  BY <1>2, <1>3, <1>4, <1>5, <1>6, <1>7, <1>8, <1>9, <1>10, <1>11, <1>12, <1>13
  DEF Next, vars, Request, createJob, lPush, hSet, expire, CheckFailed,
      MarkFailed, ApiCrash, Work, Put, PutExists, PutHSet, PutRead,
      PutReadError, Expiry

(* Only the end of the work gives a job its verdict.                       *)
LEMMA OutcomeMoves ==
  ASSUME TypeOK, [Next]_vars, NEW j \in Jobs
  PROVE  \/ outcome'[j] = outcome[j]
         \/ \E w \in Workers :
              /\ ProcessJob(w) /\ Holds(w, j)
              /\ outcome'[j] \in {"ok", "bad"}
<1>1. ASSUME NEW w \in Workers, ProcessJob(w)
      PROVE  \/ outcome'[j] = outcome[j]
             \/ Holds(w, j) /\ outcome'[j] \in {"ok", "bad"}
  <2>1. PICK k \in Jobs, verdict \in {"ok", "bad"} :
          Holds(w, k) /\ outcome' = [outcome EXCEPT ![k] = verdict]
    BY <1>1 DEF ProcessJob
  <2> QED BY <2>1 DEF TypeOK
<1>2. CASE UNCHANGED outcome
  BY <1>2
<1> QED
  BY <1>1, <1>2
  DEF Next, vars, Request, createJob, lPush, hSet, expire, CheckFailed,
      MarkFailed, ApiCrash, Work, Pop, PopTimeout, Resume, UpdateExists,
      UpdateHSet, PopError, Signal, WorkerCrash, Restart, Put, PutExists,
      PutHSet, PutRead, PutReadError, Expiry

LEMMA ProcessJobMoves ==
  ASSUME TypeOK, NEW w \in Workers, ProcessJob(w)
  PROVE  /\ worker[w].pc = "run" /\ worker'[w].pc = "recheck"
         /\ worker'[w].job = worker[w].job
         /\ \A v \in Workers \ {w} : worker'[v] = worker[v]
         /\ \A j \in Jobs : Holds(w, j) => outcome'[j] \in {"ok", "bad"}
<1>1. worker \in [Workers -> WorkerState]
  BY DEF TypeOK, WorkerType, WorkerState
<1>2. PICK k \in Jobs, verdict \in {"ok", "bad"} :
        Holds(w, k) /\ outcome' = [outcome EXCEPT ![k] = verdict]
  BY DEF ProcessJob
<1>3. \A j \in Jobs : Holds(w, j) => outcome'[j] \in {"ok", "bad"}
  BY <1>2 DEF Holds, TypeOK
<1> QED BY <1>1, <1>3 DEF ProcessJob, WorkerState

(* The way from the work to the final update is through the verdict.       *)
LEMMA RecheckIsProcessed ==
  ASSUME TypeOK, [Next]_vars, NEW w \in Workers,
         worker[w].pc = "run", worker'[w].pc = "recheck"
  PROVE  ProcessJob(w)
<1>1. worker \in [Workers -> WorkerState]
  BY DEF TypeOK, WorkerType, WorkerState
<1>2. ASSUME NEW v \in Workers,
             Work(v) \/ PopError(v) \/ Signal(v) \/ WorkerCrash(v) \/ Restart(v)
      PROVE  v = w
  BY <1>1, <1>2
  DEF Work, Pop, PopTimeout, Resume, UpdateExists, ProcessJob, UpdateHSet,
      PopError, Signal, WorkerCrash, Restart
<1>3. ~(PopError(w) \/ WorkerCrash(w) \/ Restart(w) \/ Pop(w) \/ PopTimeout(w)
        \/ Resume(w) \/ UpdateExists(w) \/ UpdateHSet(w))
  BY <1>1
  DEF PopError, WorkerCrash, Restart, Pop, PopTimeout, Resume, UpdateExists,
      UpdateHSet, WorkerState
<1>4. ~Signal(w)
  BY <1>1 DEF Signal, WorkerState
<1> QED
  BY <1>2, <1>3, <1>4
  DEF Next, vars, Request, createJob, lPush, hSet, expire, CheckFailed,
      MarkFailed, ApiCrash, Work, Put, PutExists, PutHSet, PutRead,
      PutReadError, Expiry

(* The lists change by a push and by a removal only.                       *)
LEMMA ListMoves ==
  ASSUME [Next]_vars
  PROVE  \/ \E r \in Requests : lPush(r)
         \/ \E w \in Workers : Remove(w) /\ (Pop(w) \/ PopError(w))
         \/ UNCHANGED <<queue, taken>>
BY DEF Next, vars, Request, createJob, lPush, hSet, expire, CheckFailed,
       MarkFailed, ApiCrash, Work, Pop, PopTimeout, Resume, UpdateExists,
       ProcessJob, UpdateHSet, PopError, Signal, WorkerCrash, Restart, Put,
       PutExists, PutHSet, PutRead, PutReadError, Expiry

(* A push adds its job to what is listed, and nothing else.                *)
LEMMA PushMoves ==
  ASSUME TypeOK, NEW r \in Requests, lPush(r)
  PROVE  /\ UNCHANGED <<taken, worker, outcome, hash, put>>
         /\ \/ UNCHANGED queue /\ req' = [req EXCEPT ![r] = Caught(r)]
            \/ \A j \in Jobs : InQueue(j)' <=> (InQueue(j) \/ j = Current(r))
<1> DEFINE c == Current(r)
           k == getQueueKey(c[2])
<1>1. CASE queue' = [queue EXCEPT ![k] = Append(@, c)]
  <2>1. c \in Jobs /\ k \in QueueNames /\ queue[k] \in Seq(Jobs)
    BY CurrentType, getQueueKeyType DEF TypeOK
  <2>2. /\ queue'[k] = Append(queue[k], c)
        /\ \A q \in QueueNames \ {k} : queue'[q] = queue[q]
    BY <1>1, <2>1 DEF TypeOK
  <2>3. /\ Len(queue[k]) \in Nat
        /\ DOMAIN queue[k] = 1 .. Len(queue[k])
        /\ DOMAIN queue'[k] = 1 .. Len(queue[k]) + 1
        /\ \A n \in 1 .. Len(queue[k]) : queue'[k][n] = queue[k][n]
        /\ queue'[k][Len(queue[k]) + 1] = c
    BY <2>1, <2>2, AppendProperties
  <2>4. ASSUME NEW j \in Jobs, InQueue(j)' PROVE InQueue(j) \/ j = c
    BY SMTT(30), <2>2, <2>3, <2>4 DEF InQueue
  <2>5. ASSUME NEW j \in Jobs, InQueue(j) PROVE InQueue(j)'
    <3>a. PICK q \in QueueNames : \E n \in DOMAIN queue[q] : queue[q][n] = j
      BY <2>5 DEF InQueue
    <3>1. PICK n \in DOMAIN queue[q] : queue[q][n] = j
      BY <3>a
    <3>2. n \in DOMAIN queue'[q] /\ queue'[q][n] = j
      BY <2>2, <2>3, <3>1
    <3> QED BY <3>2 DEF InQueue
  <2>6. ASSUME NEW j \in Jobs, j = c PROVE InQueue(j)'
    <3>1. Len(queue[k]) + 1 \in DOMAIN queue'[k]
      BY <2>3
    <3> QED BY <2>1, <2>3, <2>6, <3>1 DEF InQueue
  <2> QED BY <2>4, <2>5, <2>6 DEF lPush
<1>2. CASE UNCHANGED queue /\ req' = [req EXCEPT ![r] = Caught(r)]
  BY <1>2 DEF lPush
<1> QED BY <1>1, <1>2 DEF lPush, PushReply

(* A removal takes out one listed job and counts it as taken.              *)
LEMMA RemoveMoves ==
  ASSUME OnceInv, NEW w \in Workers, Remove(w)
  PROVE  LET c == Head(queue[queue_name(w)])
         IN  /\ c \in Jobs /\ InQueue(c) /\ taken[c] = 0
             /\ taken'[c] = 1
             /\ \A j \in Jobs \ {c} : taken'[j] = taken[j]
             /\ \A j \in Jobs : InQueue(j)' <=> (InQueue(j) /\ j # c)
<1> DEFINE k == queue_name(w)
           c == Head(queue[k])
<1> USE DEF OnceInv
<1>1. /\ queue \in [QueueNames -> Seq(Jobs)]
      /\ taken \in [Jobs -> Nat]
      /\ c \in Jobs
      /\ k \in QueueNames
      /\ queue[k] \in Seq(Jobs) /\ queue[k] # <<>>
  BY RemoveType, queue_nameType DEF TypeOK, Remove
<1>2. /\ queue'[k] = Tail(queue[k])
      /\ \A q \in QueueNames \ {k} : queue'[q] = queue[q]
      /\ taken' = [taken EXCEPT ![c] = @ + 1]
  BY <1>1 DEF Remove
<1>3. /\ Len(queue[k]) \in Nat
      /\ DOMAIN queue[k] = 1 .. Len(queue[k])
      /\ DOMAIN queue'[k] = 1 .. Len(queue[k]) - 1
      /\ \A n \in DOMAIN queue'[k] : queue'[k][n] = queue[k][n + 1]
      /\ 1 \in DOMAIN queue[k] /\ c = queue[k][1]
  <2>1. Tail(queue[k]) \in Seq(Jobs)
    BY <1>1, HeadTailProperties
  <2> QED BY <1>1, <1>2, <2>1, HeadTailProperties
<1>4. InQueue(c) /\ taken[c] = 0 /\ taken'[c] = 1
  BY <1>1, <1>2, <1>3 DEF InQueue, ListedIsUntaken
<1>5. ASSUME NEW j \in Jobs, InQueue(j)' PROVE InQueue(j) /\ j # c
  <2>a. PICK q \in QueueNames : \E n \in DOMAIN queue'[q] : queue'[q][n] = j
    BY <1>5 DEF InQueue
  <2>1. PICK n \in DOMAIN queue'[q] : queue'[q][n] = j
    BY <2>a
  <2>2. CASE q # k
    <3>1. n \in DOMAIN queue[q] /\ queue[q][n] = j
      BY <1>2, <2>1, <2>2
    <3>2. q = getQueueKey(j[2]) /\ k = getQueueKey(c[2])
      BY <1>1, <1>3, <3>1 DEF ListedByType
    <3>3. j # c
      BY <2>2, <3>2
    <3> QED BY <3>1, <3>3 DEF InQueue
  <2>3. CASE q = k
    <3>1. n + 1 \in DOMAIN queue[k] /\ n + 1 # 1 /\ queue[k][n + 1] = j
      BY <1>3, <2>1, <2>3
    <3>2. j # c
      BY <1>1, <1>3, <3>1 DEF ListedOnce
    <3> QED BY <1>1, <3>1, <3>2 DEF InQueue
  <2> QED BY <2>2, <2>3
<1>6. ASSUME NEW j \in Jobs, InQueue(j), j # c PROVE InQueue(j)'
  <2>a. PICK q \in QueueNames : \E n \in DOMAIN queue[q] : queue[q][n] = j
    BY <1>6 DEF InQueue
  <2>1. PICK n \in DOMAIN queue[q] : queue[q][n] = j
    BY <2>a
  <2>2. CASE q # k
    BY <1>2, <2>1, <2>2 DEF InQueue
  <2>3. CASE q = k
    <3>1. n # 1
      BY <1>3, <1>6, <2>1, <2>3
    <3>2. n - 1 \in DOMAIN queue'[k] /\ (n - 1) + 1 = n
      BY <1>3, <2>1, <2>3, <3>1
    <3>3. queue'[k][n - 1] = j
      BY <1>3, <2>1, <2>3, <3>2
    <3> QED BY <1>1, <3>2, <3>3 DEF InQueue
  <2> QED BY <2>2, <2>3
<1> QED BY <1>1, <1>2, <1>4, <1>5, <1>6

(* What has been queued stays queued or taken.                             *)
LEMMA QueuedStays ==
  ASSUME OnceInv, [Next]_vars, NEW j \in Jobs
  PROVE  /\ taken[j] > 0 => taken'[j] > 0
         /\ Queued(j) => Queued(j)'
<1>1. TypeOK /\ taken[j] \in Nat
  BY DEF OnceInv, TypeOK
<1>2. ASSUME NEW r \in Requests, lPush(r)
      PROVE  taken'[j] = taken[j] /\ (InQueue(j) => InQueue(j)')
  BY <1>1, <1>2, PushMoves DEF InQueue
<1>3. ASSUME NEW w \in Workers, Remove(w)
      PROVE  /\ taken'[j] = taken[j] \/ taken'[j] = 1
             /\ InQueue(j) => InQueue(j)' \/ taken'[j] = 1
  BY <1>3, RemoveMoves
<1>4. CASE UNCHANGED <<queue, taken>>
  BY <1>4 DEF Queued, InQueue
<1> QED BY <1>1, <1>2, <1>3, <1>4, ListMoves DEF Queued

-----------------------------------------------------------------------------
(* Who holds what.                                                         *)

LEMMA HolderInit == Init => HolderInv
<1> SUFFICES ASSUME Init PROVE HolderInv
  OBVIOUS
<1>1. OnceInv
  BY OnceInit
<1>2. \A w \in Workers, j \in Jobs : ~Holds(w, j)
  BY DEF Init, NewWorker, Holds
<1>3. UntakenIsUndone
  BY DEF Init, UntakenIsUndone
<1> QED
  BY <1>1, <1>2, <1>3
  DEF HolderInv, HeldIsTaken, OneHolder, VerdictByPc

(* The worker that has just popped a job is the first to hold it.          *)
LEMMA PopMoves ==
  ASSUME HolderInv, NEW w \in Workers, Pop(w)
  PROVE  LET c == Head(queue[queue_name(w)])
         IN  /\ c \in Jobs /\ InQueue(c) /\ taken[c] = 0 /\ taken'[c] = 1
             /\ worker'[w].job = <<c>> /\ worker'[w].pc = "check"
             /\ \A v \in Workers \ {w} : worker'[v] = worker[v]
             /\ \A v \in Workers : ~Holds(v, c)
             /\ outcome[c] = "none" /\ UNCHANGED outcome
             /\ \A j \in Jobs : ~Holds(w, j)
<1> DEFINE c == Head(queue[queue_name(w)])
<1>1. TypeOK /\ OnceInv /\ Remove(w)
  BY DEF HolderInv, OnceInv, Pop
<1>2. c \in Jobs /\ InQueue(c) /\ taken[c] = 0 /\ taken'[c] = 1
  BY <1>1, RemoveMoves
<1>3. \A v \in Workers : ~Holds(v, c)
  BY <1>2 DEF HolderInv, HeldIsTaken
<1>4. outcome[c] = "none" /\ UNCHANGED outcome
  BY <1>2 DEF HolderInv, UntakenIsUndone, Pop
<1>5. \A j \in Jobs : ~Holds(w, j)
  BY <1>1, HeldType DEF Pop, Holds, HoldingPc
<1>6. \A v \in Workers \ {w} : worker'[v] = worker[v]
  BY <1>1 DEF Pop, TypeOK, WorkerType
<1>7. worker'[w].job = <<c>> /\ worker'[w].pc = "check"
  <2> DEFINE b == <<c>>
  <2>1. worker \in [Workers -> WorkerState]
    BY <1>1 DEF TypeOK, WorkerType, WorkerState
  <2>2. worker' = [worker EXCEPT ![w].pc = "check", ![w].job = b, ![w].errors = 0]
    BY DEF Pop
  <2> HIDE DEF b
  <2>3. worker'[w].job = b /\ worker'[w].pc = "check"
    BY <2>1, <2>2 DEF WorkerState
  <2> QED BY <2>3 DEF b
<1> QED BY <1>2, <1>3, <1>4, <1>5, <1>6, <1>7

LEMMA HolderNext == HolderInv /\ [Next]_vars => HolderInv'
<1> SUFFICES ASSUME HolderInv, [Next]_vars PROVE HolderInv'
  OBVIOUS
<1>1. TypeOK /\ OnceInv /\ OnceInv'
  BY OnceNext DEF HolderInv, OnceInv
<1>2. ASSUME NEW w \in Workers, NEW j \in Jobs, Holds(w, j)'
      PROVE  \/ Pop(w) /\ j = Head(queue[queue_name(w)])
             \/ /\ Holds(w, j) /\ ~Pop(w)
                /\ worker[w].pc \in HoldingPc
                /\ \/ worker'[w].pc = worker[w].pc
                   \/ <<worker[w].pc, worker'[w].pc>> \in Forward
  <2>1. CASE Pop(w)
    BY <1>2, <2>1, PopMoves DEF Holds
  <2>2. CASE Keeps(w) /\ ~Pop(w)
    BY <1>1, <1>2, <2>2, HeldType DEF Keeps, Holds
  <2>3. CASE Drops(w)
    <3>1. <<j>> # <<>>
      OBVIOUS
    <3> QED BY <1>2, <2>3, <3>1 DEF Drops, Holds
  <2> QED BY <1>1, <2>1, <2>2, <2>3, WorkerMoves
<1>3. HeldIsTaken'
  <2> SUFFICES ASSUME NEW w \in Workers, NEW j \in Jobs, Holds(w, j)'
               PROVE  taken'[j] > 0
    BY DEF HeldIsTaken
  <2>1. CASE Pop(w) /\ j = Head(queue[queue_name(w)])
    <3>1. taken'[j] = 1
      BY <2>1, PopMoves
    <3> QED BY <3>1
  <2>2. CASE Holds(w, j)
    BY <1>1, <2>2, QueuedStays DEF HolderInv, HeldIsTaken
  <2> QED BY <1>2, <2>1, <2>2
<1>4. OneHolder'
  <2> SUFFICES ASSUME NEW v \in Workers, NEW w \in Workers, NEW j \in Jobs,
                      Holds(v, j)', Holds(w, j)', v # w
               PROVE  FALSE
    BY DEF OneHolder
  <2>1. ASSUME NEW x \in Workers, NEW y \in Workers, x # y, Pop(x),
               Holds(x, j)', Holds(y, j)'
        PROVE  FALSE
    BY <1>2, <2>1, PopMoves DEF Holds
  <2>2. CASE Holds(v, j) /\ Holds(w, j)
    BY <2>2 DEF HolderInv, OneHolder
  <2> QED BY <1>2, <2>1, <2>2
<1>5. UntakenIsUndone'
  <2> SUFFICES ASSUME NEW j \in Jobs, taken'[j] = 0
               PROVE  outcome'[j] = "none"
    BY DEF UntakenIsUndone
  <2>1. taken[j] = 0
    BY <1>1, QueuedStays DEF TypeOK
  <2>2. outcome[j] = "none" /\ \A w \in Workers : ~Holds(w, j)
    BY <2>1 DEF HolderInv, UntakenIsUndone, HeldIsTaken
  <2> QED BY <1>1, <2>2, OutcomeMoves
<1>6. VerdictByPc'
  <2> SUFFICES ASSUME NEW w \in Workers, NEW j \in Jobs, Holds(w, j)'
               PROVE  /\ worker'[w].pc \in BeforeWork => outcome'[j] = "none"
                      /\ worker'[w].pc \in AfterWork => outcome'[j] # "none"
    BY DEF VerdictByPc
  <2>1. CASE Pop(w) /\ j = Head(queue[queue_name(w)])
    BY <2>1, PopMoves DEF BeforeWork, AfterWork
  <2>2. CASE /\ Holds(w, j) /\ ~Pop(w)
             /\ worker[w].pc \in HoldingPc
             /\ \/ worker'[w].pc = worker[w].pc
                \/ <<worker[w].pc, worker'[w].pc>> \in Forward
    <3>1. CASE ProcessJob(w)
      BY <1>1, <2>2, <3>1, ProcessJobMoves DEF BeforeWork, AfterWork
    <3>2. CASE ~ProcessJob(w)
      <4>1. outcome'[j] = outcome[j]
        BY <1>1, <2>2, <3>2, OutcomeMoves DEF HolderInv, OneHolder
      <4>2. ~(worker[w].pc = "run" /\ worker'[w].pc = "recheck")
        BY <1>1, <2>2, <3>2, RecheckIsProcessed
      <4>3. /\ worker[w].pc \in BeforeWork <=> worker'[w].pc \in BeforeWork
            /\ worker[w].pc \in AfterWork <=> worker'[w].pc \in AfterWork
        BY <2>2, <4>2 DEF Forward, BeforeWork, AfterWork
      <4> QED BY <2>2, <4>1, <4>3 DEF HolderInv, VerdictByPc
    <3> QED BY <3>1, <3>2
  <2> QED BY <1>2, <2>1, <2>2
<1> QED BY <1>1, <1>3, <1>4, <1>5, <1>6 DEF HolderInv

-----------------------------------------------------------------------------
(* What one step may do to a request, to a status hash and to a PUT.       *)

ReqGoes(r, from, to) ==
  req[r].pc = from /\ req'[r].pc = to /\ req'[r].i = req[r].i

LEMMA PushReplyMoves ==
  ASSUME TypeOK, NEW r \in Requests, NEW applied \in BOOLEAN, NEW next,
         PushReply(r, applied, next)
  PROVE  \/ applied /\ req'[r] = next
         \/ req'[r] = Caught(r) /\ "api_redis" \in Faults
BY DEF PushReply, TypeOK, ReqType

LEMMA RequestMoves ==
  ASSUME TypeOK, [Next]_vars, NEW r \in Requests
  PROVE  \/ req'[r] = req[r]
         \/ ReqGoes(r, "idle", "lpush")
         \/ /\ ReqGoes(r, "lpush", "hset") /\ lPush(r)
            /\ \A j \in Jobs : j = Current(r) => Queued(j)'
         \/ /\ ReqGoes(r, "hset", "expire") /\ hSet(r)
            /\ hash' = [hash EXCEPT ![Current(r)] = WithPending(@)]
         \/ /\ req[r].pc = "expire" /\ expire(r)
            /\ Exists(Current(r)) =>
                 hash' = [hash EXCEPT ![Current(r)].ttl = TRUE]
            /\ req'[r] = NextJob(r, "lpush", "accepted")
         \/ /\ req[r].pc \in {"lpush", "hset", "expire"}
            /\ req'[r] = Caught(r) /\ "api_redis" \in Faults
         \/ ReqGoes(r, "check", "mark") /\ Exists(Current(r)) /\ CheckFailed(r)
         \/ req[r].pc \in {"check", "mark"} /\ req'[r].pc \in {"check", "rejected"}
         \/ req'[r].pc = "dead" /\ "api_crash" \in Faults
<1>1. req \in [Requests -> [pc : RequestPc, i : 1..2]]
  BY DEF TypeOK, ReqType
<1>2. CASE UNCHANGED req
  BY <1>2
<1>3. ASSUME NEW s \in Requests, s # r, Request(s) \/ ApiCrash(s)
      PROVE  req'[r] = req[r]
  BY <1>1, <1>3
  DEF Request, createJob, lPush, hSet, expire, CheckFailed, MarkFailed,
      ApiCrash, PushReply
<1>4. CASE createJob(r)
  BY <1>1, <1>4 DEF createJob, ReqGoes
<1>5. CASE lPush(r)
  <2>1. req[r].pc = "lpush"
    BY <1>5 DEF lPush
  <2>2. CASE req'[r] = [req[r] EXCEPT !.pc = "hset"]
    <3>1. ReqGoes(r, "lpush", "hset")
      BY <1>1, <2>1, <2>2 DEF ReqGoes
    <3>2. req' # [req EXCEPT ![r] = Caught(r)]
      BY <1>1, <3>1 DEF Caught, ReqGoes
    <3>3. \A j \in Jobs : j = Current(r) => Queued(j)'
      BY <1>5, <3>2, PushMoves DEF Queued
    <3> QED BY <1>5, <3>1, <3>3
  <2> QED BY <1>5, <2>1, <2>2, PushReplyMoves DEF lPush
<1>6. CASE hSet(r)
  <2>1. PICK applied \in BOOLEAN :
          /\ hash' = IF applied
                     THEN [hash EXCEPT ![Current(r)] = WithPending(@)]
                     ELSE hash
          /\ PushReply(r, applied, [req[r] EXCEPT !.pc = "expire"])
    BY <1>6 DEF hSet
  <2>2. req[r].pc = "hset"
    BY <1>6 DEF hSet
  <2>3. CASE applied /\ req'[r] = [req[r] EXCEPT !.pc = "expire"]
    BY <1>1, <1>6, <2>1, <2>2, <2>3 DEF ReqGoes
  <2> QED BY <2>1, <2>2, <2>3, PushReplyMoves
<1>7. CASE expire(r)
  <2>1. PICK applied \in BOOLEAN :
          /\ hash' = IF applied /\ Exists(Current(r))
                     THEN [hash EXCEPT ![Current(r)].ttl = TRUE]
                     ELSE hash
          /\ PushReply(r, applied, NextJob(r, "lpush", "accepted"))
    BY <1>7 DEF expire
  <2>2. req[r].pc = "expire"
    BY <1>7 DEF expire
  <2>3. CASE applied /\ req'[r] = NextJob(r, "lpush", "accepted")
    BY <1>7, <2>1, <2>2, <2>3
  <2> QED BY <2>1, <2>2, <2>3, PushReplyMoves
<1>8. CASE CheckFailed(r)
  BY <1>1, <1>8 DEF CheckFailed, JobExists, ReqGoes
<1>9. CASE MarkFailed(r)
  <2>1. req[r].pc = "mark"
    BY <1>9 DEF MarkFailed
  <2>2. NextJob(r, "check", "rejected").pc \in {"check", "rejected"}
    BY <1>1 DEF NextJob
  <2>3. req'[r].pc \in {"check", "rejected"}
    BY <1>1, <1>9, <2>2 DEF MarkFailed
  <2> QED BY <2>1, <2>3
<1>10. CASE ApiCrash(r)
  BY <1>1, <1>10 DEF ApiCrash
<1> QED
  BY <1>2, <1>3, <1>4, <1>5, <1>6, <1>7, <1>8, <1>9, <1>10
  DEF Next, vars, Request, Work, Put, PopError, Signal, WorkerCrash, Restart,
      Expiry, Pop, PopTimeout, Resume, UpdateExists, ProcessJob, UpdateHSet,
      PutExists, PutHSet, PutRead, PutReadError

(* The ways a status hash changes: two of the request that makes it, one   *)
(* of its catch, two of the worker, a PUT and the end of its seven days.   *)
LEMMA HashMoves ==
  ASSUME TypeOK, [Next]_vars, NEW j \in Jobs
  PROVE  \/ hash'[j] = hash[j]
         \/ \E r \in Requests :
              /\ hSet(r) /\ req[r].pc = "hset" /\ Current(r) = j
              /\ hash'[j] = WithPending(hash[j])
         \/ \E r \in Requests :
              /\ expire(r) /\ req[r].pc = "expire" /\ Current(r) = j
              /\ Exists(j) /\ hash'[j] = [hash[j] EXCEPT !.ttl = TRUE]
         \/ \E r \in Requests :
              /\ MarkFailed(r) /\ req[r].pc = "mark" /\ Current(r) = j
              /\ hash'[j] = WithUpdate(hash[j], "failed", TRUE, FALSE)
         \/ \E w \in Workers :
              /\ UpdateHSet(w) /\ Holds(w, j) /\ worker[w].pc = "mark"
              /\ hash'[j] = ProcessingFields(hash[j])
         \/ \E w \in Workers :
              /\ UpdateHSet(w) /\ Holds(w, j) /\ worker[w].pc = "finish"
              /\ hash'[j] = VerdictFields(hash[j], j)
         \/ \E p \in Putters :
              /\ PutHSet(p) /\ put[p].pc = "hset" /\ put[p].job = <<j>>
              /\ hash'[j] = WithUpdate(hash[j], put[p].body.status,
                                       put[p].body.error, put[p].body.result)
         \/ "expiry" \in Faults /\ Expiry(j) /\ hash[j].ttl /\ hash'[j] = Absent
<1>1. hash \in [Jobs -> Hash]
  BY DEF TypeOK
<1>2. CASE UNCHANGED hash
  BY <1>2
<1>3. ASSUME NEW r \in Requests, hSet(r)
      PROVE  \/ hash'[j] = hash[j]
             \/ /\ req[r].pc = "hset" /\ Current(r) = j
                /\ hash'[j] = WithPending(hash[j])
  BY <1>1, <1>3 DEF hSet
<1>4. ASSUME NEW r \in Requests, expire(r)
      PROVE  \/ hash'[j] = hash[j]
             \/ /\ req[r].pc = "expire" /\ Current(r) = j
                /\ Exists(j) /\ hash'[j] = [hash[j] EXCEPT !.ttl = TRUE]
  BY <1>1, <1>4 DEF expire
<1>5. ASSUME NEW r \in Requests, MarkFailed(r)
      PROVE  \/ hash'[j] = hash[j]
             \/ /\ req[r].pc = "mark" /\ Current(r) = j
                /\ hash'[j] = WithUpdate(hash[j], "failed", TRUE, FALSE)
  BY <1>1, <1>5 DEF MarkFailed
<1>6. ASSUME NEW w \in Workers, UpdateHSet(w)
      PROVE  \/ hash'[j] = hash[j]
             \/ /\ Holds(w, j) /\ worker[w].pc = "mark"
                /\ hash'[j] = ProcessingFields(hash[j])
             \/ /\ Holds(w, j) /\ worker[w].pc = "finish"
                /\ hash'[j] = VerdictFields(hash[j], j)
  BY <1>1, <1>6 DEF UpdateHSet
<1>7. ASSUME NEW p \in Putters, PutHSet(p)
      PROVE  \/ hash'[j] = hash[j]
             \/ /\ put[p].pc = "hset" /\ put[p].job = <<j>>
                /\ hash'[j] = WithUpdate(hash[j], put[p].body.status,
                                         put[p].body.error, put[p].body.result)
  BY <1>1, <1>7 DEF PutHSet
<1>8. ASSUME NEW k \in Jobs, Expiry(k)
      PROVE  \/ hash'[j] = hash[j]
             \/ "expiry" \in Faults /\ k = j /\ hash[j].ttl /\ hash'[j] = Absent
  BY <1>1, <1>8 DEF Expiry
<1>9. \/ UNCHANGED hash
      \/ \E r \in Requests : hSet(r) \/ expire(r) \/ MarkFailed(r)
      \/ \E w \in Workers : UpdateHSet(w)
      \/ \E p \in Putters : PutHSet(p)
      \/ \E k \in Jobs : Expiry(k)
  BY DEF Next, vars, Request, createJob, lPush, CheckFailed, ApiCrash, Work,
         Pop, PopTimeout, Resume, UpdateExists, ProcessJob, PopError, Signal,
         WorkerCrash, Restart, Put, PutExists, PutRead, PutReadError
<1> QED BY <1>2, <1>3, <1>4, <1>5, <1>6, <1>7, <1>8, <1>9

(* A PUT looks for the record before it writes, and keeps to its job.      *)
LEMMA PutMoves ==
  ASSUME TypeOK, [Next]_vars, NEW p \in Putters
  PROVE  /\ \/ put'[p] = put[p]
            \/ put'[p].pc # "hset"
            \/ \E j \in Jobs : put'[p].job = <<j>> /\ Exists(j)
         /\ put[p].job # <<>> =>
              (put'[p].job = put[p].job /\ put'[p].body = put[p].body)
<1>1. put \in [Putters -> [pc : PutPc, job : MaybeJob, ours : BOOLEAN,
                           body : Bodies \cup {NoBody}]]
  BY DEF TypeOK, PutType
<1>2. CASE UNCHANGED put
  BY <1>2
<1>3. ASSUME NEW q \in Putters, q # p, Put(q)
      PROVE  put'[p] = put[p]
  BY <1>1, <1>3 DEF Put, PutExists, PutHSet, PutRead, PutReadError
<1>4. CASE PutExists(p)
  <2>1. put[p].job = <<>>
    BY <1>4 DEF TypeOK, PutType, PutExists
  <2>2. PICK j \in Jobs, ours \in BOOLEAN, body \in Bodies, pc \in {"hset", "500"} :
          /\ put' = [put EXCEPT ![p] =
                       [pc |-> pc, job |-> <<j>>, ours |-> ours, body |-> body]]
          /\ pc = "hset" => JobExists(j)
    BY <1>4 DEF PutExists
  <2>3. put'[p] = [pc |-> pc, job |-> <<j>>, ours |-> ours, body |-> body]
    BY <1>1, <2>2
  <2> QED BY <2>1, <2>2, <2>3 DEF JobExists
<1>5. CASE PutHSet(p) \/ PutRead(p) \/ PutReadError(p)
  BY <1>1, <1>5 DEF PutHSet, PutRead, PutReadError
<1> QED
  BY <1>2, <1>3, <1>4, <1>5
  DEF Next, vars, Request, createJob, lPush, hSet, expire, CheckFailed,
      MarkFailed, ApiCrash, Work, Pop, PopTimeout, Resume, UpdateExists,
      ProcessJob, UpdateHSet, PopError, Signal, WorkerCrash, Restart, Put,
      Expiry

-----------------------------------------------------------------------------
(* What can be seen has been queued.                                       *)

LEMMA VisibleInit == Init => VisibleInv
<1> SUFFICES ASSUME Init PROVE VisibleInv
  OBVIOUS
<1>1. HolderInv /\ TypeOK
  BY HolderInit DEF HolderInv, OnceInv
<1>2. \A r \in Requests : req[r].pc = "idle" /\ req[r].i = 1
  BY DEF Init, NewRequest
<1>3. \A p \in Putters : put[p].pc = "idle"
  BY DEF Init, NewPut
<1>4. \A j \in Jobs : ~Exists(j)
  BY DEF Init, Absent, Exists
<1> QED
  BY <1>1, <1>2, <1>3, <1>4
  DEF VisibleInv, IdleIsFirst, EarlierIsQueued, PushedBefore, MarkedIsQueued,
      PutIsQueued, VisibleIsQueued

LEMMA RequestNumbers ==
  ASSUME TypeOK, NEW r \in Requests, NEW n \in DOMAIN TypesOf(r)
  PROVE  /\ req[r].i \in 1..2 /\ n \in 1..2
         /\ req[r].i \in DOMAIN TypesOf(r)
         /\ n <= Len(TypesOf(r)) /\ Len(TypesOf(r)) \in 1..2
<1>1. DOMAIN TypesOf(r) = 1 .. Len(TypesOf(r)) /\ Len(TypesOf(r)) \in {1, 2}
  BY TypesOfType
<1> QED BY <1>1 DEF TypeOK, ReqType

(* The request that goes on to its next job has queued the one before.     *)
LEMMA EarlierStep ==
  ASSUME VisibleInv, [Next]_vars, NEW r \in Requests,
         NEW n \in DOMAIN TypesOf(r), PushedBefore(r, n)'
  PROVE  Queued(<<r, TypesOf(r)[n]>>)'
<1> DEFINE j == <<r, TypesOf(r)[n]>>
<1>1. OnceInv /\ TypeOK /\ j \in Jobs
  BY JobOf DEF VisibleInv, HolderInv, OnceInv
<1>2. /\ req[r].i \in 1..2 /\ n \in 1..2
      /\ n <= Len(TypesOf(r)) /\ Len(TypesOf(r)) \in 1..2
  BY <1>1, RequestNumbers
<1>3. CASE PushedBefore(r, n)
  <2>1. Queued(j)
    BY <1>3 DEF VisibleInv, EarlierIsQueued
  <2> QED BY <1>1, <2>1, QueuedStays
<1>4. CASE req'[r] = req[r]
  BY <1>3, <1>4 DEF PushedBefore
<1>5. CASE ReqGoes(r, "idle", "lpush")
  BY <1>2, <1>5 DEF ReqGoes, PushedBefore, VisibleInv, IdleIsFirst
<1>6. CASE /\ ReqGoes(r, "lpush", "hset") /\ lPush(r)
           /\ \A k \in Jobs : k = Current(r) => Queued(k)'
  <2>1. CASE n = req[r].i
    BY <1>1, <1>6, <2>1 DEF Current
  <2>2. CASE n # req[r].i
    BY <1>2, <1>3, <1>6, <2>2 DEF ReqGoes, PushedBefore
  <2> QED BY <2>1, <2>2
<1>7. CASE ReqGoes(r, "hset", "expire")
  BY <1>3, <1>7 DEF ReqGoes, PushedBefore
<1>8. CASE req[r].pc = "expire" /\ req'[r] = NextJob(r, "lpush", "accepted")
  <2>1. req[r] \in [pc : RequestPc, i : 1..2]
    BY <1>1 DEF TypeOK, ReqType
  <2>2. \/ req'[r].pc = "accepted" /\ ~(req[r].i < Len(TypesOf(r)))
        \/ req'[r].pc = "lpush" /\ req'[r].i = req[r].i + 1
    BY <1>8, <2>1 DEF NextJob
  <2>3. n <= req[r].i
    BY <1>2, <2>2 DEF PushedBefore
  <2> QED BY <1>3, <1>8, <2>3 DEF PushedBefore
<1>9. CASE req'[r].pc \in {"check", "mark", "rejected", "dead"} \/ req'[r] = Caught(r)
  BY <1>9 DEF PushedBefore, Caught
<1> QED
  BY <1>1, <1>4, <1>5, <1>6, <1>7, <1>8, <1>9, RequestMoves DEF ReqGoes

LEMMA VisibleNext == VisibleInv /\ [Next]_vars => VisibleInv'
<1> SUFFICES ASSUME VisibleInv, [Next]_vars PROVE VisibleInv'
  OBVIOUS
<1>1. HolderInv /\ HolderInv' /\ OnceInv /\ TypeOK /\ TypeOK'
  BY HolderNext DEF VisibleInv, HolderInv, OnceInv
<1>2. IdleIsFirst'
  <2> SUFFICES ASSUME NEW r \in Requests, req'[r].pc = "idle"
               PROVE  req'[r].i = 1
    BY DEF IdleIsFirst
  <2>1. NextJob(r, "lpush", "accepted").pc # "idle"
    BY <1>1 DEF NextJob, TypeOK, ReqType
  <2> QED BY <1>1, <2>1, RequestMoves
          DEF ReqGoes, Caught, VisibleInv, IdleIsFirst
<1>3. EarlierIsQueued'
  BY EarlierStep DEF EarlierIsQueued
<1>4. MarkedIsQueued'
  <2> SUFFICES ASSUME NEW r \in Requests, req'[r].pc = "mark"
               PROVE  Queued(Current(r))'
    BY DEF MarkedIsQueued
  <2>1. Current(r) \in Jobs
    BY <1>1, CurrentType
  <2>2. /\ req'[r].i = req[r].i
        /\ req[r].pc = "mark" \/ Exists(Current(r))
    <3>1. NextJob(r, "lpush", "accepted").pc # "mark"
      BY <1>1 DEF NextJob, TypeOK, ReqType
    <3> QED BY <1>1, <3>1, RequestMoves DEF ReqGoes, Caught
  <2>3. Queued(Current(r))
    BY <2>1, <2>2 DEF VisibleInv, MarkedIsQueued, VisibleIsQueued
  <2>4. ASSUME NEW j \in Jobs, j = Current(r) PROVE Queued(j)'
    BY <1>1, <2>3, <2>4, QueuedStays
  <2>5. Current(r)' = Current(r)
    BY <2>2 DEF Current
  <2> QED BY <2>1, <2>4, <2>5 DEF Queued, InQueue
<1>5. PutIsQueued'
  <2> SUFFICES ASSUME NEW p \in Putters, NEW j \in Jobs,
                      put'[p].pc = "hset", put'[p].job = <<j>>
               PROVE  Queued(j)'
    BY DEF PutIsQueued
  <2>1. CASE put'[p] = put[p]
    BY <1>1, <2>1, QueuedStays DEF VisibleInv, PutIsQueued
  <2>2. CASE Exists(j)
    BY <1>1, <2>2, QueuedStays DEF VisibleInv, VisibleIsQueued
  <2> QED BY <1>1, <2>1, <2>2, PutMoves
<1>6. VisibleIsQueued'
  <2> SUFFICES ASSUME NEW j \in Jobs, Exists(j)'
               PROVE  Queued(j)
    BY <1>1, QueuedStays DEF VisibleIsQueued
  <2>1. CASE Exists(j)
    BY <2>1 DEF VisibleInv, VisibleIsQueued
  <2>2. ASSUME NEW r \in Requests, req[r].pc = "hset", Current(r) = j
        PROVE  Queued(j)
    <3>a. req[r].i \in 1..2 /\ req[r].i \in DOMAIN TypesOf(r)
      BY <1>1 DEF TypeOK, ReqType
    <3>1. PushedBefore(r, req[r].i)
      BY <3>a, <2>2 DEF PushedBefore
    <3> QED BY <2>2, <3>a, <3>1 DEF VisibleInv, EarlierIsQueued, Current
  <2>3. ASSUME NEW r \in Requests, req[r].pc = "mark", Current(r) = j
        PROVE  Queued(j)
    BY <2>3 DEF VisibleInv, MarkedIsQueued
  <2>4. ASSUME NEW w \in Workers, Holds(w, j)
        PROVE  Queued(j)
    BY <1>1, <2>4 DEF HolderInv, HeldIsTaken, Queued
  <2>5. ASSUME NEW p \in Putters, put[p].pc = "hset", put[p].job = <<j>>
        PROVE  Queued(j)
    BY <2>5 DEF VisibleInv, PutIsQueued
  <2>6. CASE hash'[j] = hash[j] \/ hash'[j] = Absent
    BY <2>1, <2>6 DEF Exists, Absent
  <2> QED BY <1>1, <2>1, <2>2, <2>3, <2>4, <2>5, <2>6, HashMoves
<1> QED BY <1>1, <1>2, <1>3, <1>4, <1>5, <1>6 DEF VisibleInv

(* Whatever fails, there is never a status record of a job that was not    *)
(* pushed: pushJob pushes first, and everybody else updates only a record  *)
(* that exists.                                                            *)
THEOREM NoOrphanRecord == Spec => []VisibleIsQueued
<1>1. VisibleInv => VisibleIsQueued
  BY DEF VisibleInv
<1> QED BY <1>1, VisibleInit, VisibleNext, PTL DEF Spec

(* Whatever fails, a request that was answered 202 has every one of its    *)
(* jobs in its list, or in the hands of a worker, or past it.              *)
THEOREM AcceptedIsPushed == Spec => []AcknowledgedIsQueued
<1>1. VisibleInv => AcknowledgedIsQueued
  BY DEF VisibleInv, EarlierIsQueued, PushedBefore, AcknowledgedIsQueued
<1> QED BY <1>1, VisibleInit, VisibleNext, PTL DEF Spec

-----------------------------------------------------------------------------
(* Without worker failures no job is lost.                                 *)

ReliableWorkers == {"worker_redis", "worker_crash"} \cap Faults = {}

LEMMA NoAbandonedNext ==
  ASSUME ReliableWorkers, HolderInv, NoAbandonedJob, [Next]_vars
  PROVE  NoAbandonedJob'
<1> SUFFICES ASSUME NEW j \in Jobs, taken'[j] > 0
             PROVE  outcome'[j] # "none" \/ \E w \in Workers : Holds(w, j)'
  BY DEF NoAbandonedJob
<1>1. TypeOK /\ OnceInv
  BY DEF HolderInv, OnceInv
<1>2. CASE taken[j] > 0 /\ outcome[j] # "none"
  BY <1>1, <1>2, OutcomeMoves
<1>3. ASSUME NEW w \in Workers, Holds(w, j)
      PROVE  outcome'[j] # "none" \/ Holds(w, j)'
  <2>1. CASE Pop(w)
    BY <1>3, <2>1, PopMoves
  <2>2. CASE Keeps(w)
    BY <1>3, <2>2 DEF Keeps, Holds
  <2>3. CASE Drops(w)
    <3>1. worker[w].pc \in AfterWork
      BY <2>3 DEF Drops, ReliableWorkers, WorkerCrash
    <3>2. outcome[j] # "none"
      BY <1>3, <3>1 DEF HolderInv, VerdictByPc
    <3> QED BY <1>1, <3>2, OutcomeMoves
  <2> QED BY <1>1, <2>1, <2>2, <2>3, WorkerMoves
<1>4. CASE ~(taken[j] > 0)
  <2>1. PICK w \in Workers : Remove(w) /\ (Pop(w) \/ PopError(w))
    BY <1>1, <1>4, ListMoves, PushMoves
  <2>2. Pop(w)
    BY <2>1 DEF PopError, ReliableWorkers
  <2>3. j = Head(queue[queue_name(w)])
    BY <1>1, <1>4, <2>1, RemoveMoves
  <2> QED BY <2>2, <2>3, PopMoves DEF Holds
<1> QED BY <1>2, <1>3, <1>4 DEF NoAbandonedJob

(* With SIGTERM, restarts after it and any failure of the API, but with    *)
(* workers that are not killed and whose commands are answered, a job that *)
(* left its list is processed or is being processed.                       *)
THEOREM NoJobIsAbandoned ==
  ASSUME ReliableWorkers PROVE Spec => []NoAbandonedJob
<1>1. Init => HolderInv /\ NoAbandonedJob
  BY HolderInit DEF Init, NoAbandonedJob
<1>2. HolderInv /\ NoAbandonedJob /\ [Next]_vars => (HolderInv /\ NoAbandonedJob)'
  BY HolderNext, NoAbandonedNext
<1> QED BY <1>1, <1>2, PTL DEF Spec

-----------------------------------------------------------------------------
(* The queue implements the life of a job.                                 *)

(* Where a job is seen from outside follows from its list, its count, its  *)
(* verdict and, while it has none, from whether somebody holds it.         *)
Held(j) == \E w \in Workers : Holds(w, j)

PhaseIs(j, p) ==
  \/ p = "queued" /\ InQueue(j)
  \/ p = "new" /\ ~InQueue(j) /\ taken[j] = 0
  \/ p = "succeeded" /\ ~InQueue(j) /\ taken[j] > 0 /\ outcome[j] = "ok"
  \/ p = "failed" /\ ~InQueue(j) /\ taken[j] > 0 /\ outcome[j] = "bad"
  \/ /\ ~InQueue(j) /\ taken[j] > 0 /\ outcome[j] = "none"
     /\ \/ p = "running" /\ Held(j)
        \/ p = "lost" /\ ~Held(j)

LEMMA PhaseOf ==
  ASSUME HolderInv, NEW j \in Jobs
  PROVE  \A p : PhaseIs(j, p) <=> jobPhase[j] = p
<1>1. taken[j] \in Nat /\ outcome[j] \in {"none", "ok", "bad"}
  BY DEF HolderInv, OnceInv, TypeOK
<1>2. (taken[j] = 0) # (taken[j] > 0)
  BY <1>1
<1> QED BY <1>1, <1>2 DEF jobPhase, Held, PhaseIs

LEMMA PhaseOfNext ==
  ASSUME HolderInv', NEW j \in Jobs
  PROVE  \A p : PhaseIs(j, p)' <=> jobPhase'[j] = p
<1>1. taken'[j] \in Nat /\ outcome'[j] \in {"none", "ok", "bad"}
  BY DEF HolderInv, OnceInv, TypeOK
<1>2. (taken'[j] = 0) # (taken'[j] > 0)
  BY <1>1
<1> QED BY <1>1, <1>2 DEF jobPhase, Held, PhaseIs

LEMMA PhaseMoves ==
  ASSUME NEW k \in Jobs, NEW to, jobPhase'[k] = to,
         \A j \in Jobs \ {k} : jobPhase'[j] = jobPhase[j]
  PROVE  jobPhase' = [jobPhase EXCEPT ![k] = to]
<1>1. /\ jobPhase = [j \in Jobs |-> jobPhase[j]]
      /\ jobPhase' = [j \in Jobs |-> jobPhase'[j]]
  BY DEF jobPhase
<1> QED BY <1>1

(* What nobody pushes, removes, decides, takes or loses keeps its phase.   *)
LEMMA PhaseStays ==
  ASSUME HolderInv, HolderInv', NEW j \in Jobs,
         InQueue(j)' <=> InQueue(j), taken'[j] = taken[j],
         outcome'[j] = outcome[j],
         outcome[j] = "none" => (Held(j)' <=> Held(j))
  PROVE  jobPhase'[j] = jobPhase[j]
<1>1. PhaseIs(j, jobPhase[j])
  BY PhaseOf
<1>2. ASSUME NEW p, PhaseIs(j, p) PROVE jobPhase'[j] = p
  <2>1. PhaseIs(j, p)'
    BY <1>2 DEF PhaseIs
  <2> QED BY <2>1, PhaseOfNext
<1> QED BY <1>1, <1>2

LEMMA Stutters ==
  ASSUME HolderInv, HolderInv', UNCHANGED <<queue, taken, outcome>>,
         \A j \in Jobs : outcome[j] = "none" => (Held(j)' <=> Held(j))
  PROVE  UNCHANGED jobPhase
<1>1. ASSUME NEW j \in Jobs PROVE jobPhase'[j] = jobPhase[j]
  BY PhaseStays DEF InQueue
<1>2. /\ jobPhase = [j \in Jobs |-> jobPhase[j]]
      /\ jobPhase' = [j \in Jobs |-> jobPhase'[j]]
  BY DEF jobPhase
<1> QED BY <1>1, <1>2

(* lPush is Submit, unless Redis did not execute it.                       *)
LEMMA PushIsSubmit ==
  ASSUME HolderInv, HolderInv', NEW r \in Requests, lPush(r)
  PROVE  (\E k \in Jobs : Lifecycle!Submit(k)) \/ UNCHANGED jobPhase
<1>1. TypeOK /\ UNCHANGED <<taken, worker, outcome>>
  BY PushMoves DEF HolderInv, OnceInv
<1>2. \A j \in Jobs : Held(j)' <=> Held(j)
  BY <1>1 DEF Held, Holds
<1>3. CASE UNCHANGED queue
  BY <1>1, <1>2, <1>3, Stutters
<1>4. CASE \A j \in Jobs : InQueue(j)' <=> (InQueue(j) \/ j = Current(r))
  <2>1. Current(r) \in Jobs
    BY <1>1, CurrentType
  <2>2. PICK k \in Jobs : k = Current(r)
    BY <2>1
  <2>3. /\ ~InQueue(k) /\ taken[k] = 0
        /\ InQueue(k)'
    <3>1. req[r].i \in 1..2 /\ req[r].i \in DOMAIN TypesOf(r) /\ req[r].pc = "lpush"
      BY <1>1 DEF TypeOK, ReqType, lPush
    <3>2. PushedLater(r, req[r].i)
      BY <3>1 DEF PushedLater
    <3>3. ~Queued(k)
      BY <2>2, <3>1, <3>2 DEF HolderInv, OnceInv, LaterIsNowhere, Current
    <3> QED BY <1>1, <1>4, <2>2, <3>3 DEF Queued, TypeOK
  <2>4. jobPhase[k] = "new"
    BY <2>3, PhaseOf DEF PhaseIs
  <2>5. jobPhase'[k] = "queued"
    BY <2>3, PhaseOfNext DEF PhaseIs
  <2>6. \A j \in Jobs \ {k} : jobPhase'[j] = jobPhase[j]
    BY <1>1, <1>2, <1>4, <2>2, PhaseStays
  <2>7. jobPhase' = [jobPhase EXCEPT ![k] = "queued"]
    BY <2>5, <2>6, PhaseMoves
  <2> QED BY <2>4, <2>7 DEF Lifecycle!Submit, Lifecycle!Moves
<1> QED BY <1>1, <1>3, <1>4, PushMoves

(* The answer of BRPOP is Start; when it is lost, so is the job.           *)
LEMMA PopIsStart ==
  ASSUME HolderInv, HolderInv', NEW w \in Workers, Pop(w)
  PROVE  \E k \in Jobs : Lifecycle!Start(k)
<1> DEFINE c == Head(queue[queue_name(w)])
<1>1. PICK k \in Jobs : k = c
  BY PopMoves
<1>2. /\ InQueue(k) /\ taken'[k] = 1 /\ ~InQueue(k)'
      /\ \A j \in Jobs \ {k} : taken'[j] = taken[j] /\ (InQueue(j)' <=> InQueue(j))
  BY <1>1, RemoveMoves DEF HolderInv, Pop
<1>3. /\ worker'[w].job = <<k>>
      /\ \A v \in Workers \ {w} : worker'[v] = worker[v]
      /\ \A j \in Jobs : ~Holds(w, j)
      /\ outcome[k] = "none" /\ UNCHANGED outcome
  BY <1>1, PopMoves
<1>4. jobPhase[k] = "queued"
  BY <1>2, PhaseOf DEF PhaseIs
<1>5. jobPhase'[k] = "running"
  <2>1. Held(k)'
    BY <1>3 DEF Held, Holds
  <2>2. taken'[k] > 0 /\ outcome'[k] = "none"
    BY <1>2, <1>3
  <2> QED BY <1>2, <2>1, <2>2, PhaseOfNext DEF PhaseIs
<1>6. ASSUME NEW j \in Jobs \ {k} PROVE Held(j)' <=> Held(j)
  BY <1>3 DEF Held, Holds
<1>7. \A j \in Jobs \ {k} : jobPhase'[j] = jobPhase[j]
  BY <1>2, <1>3, <1>6, PhaseStays
<1>8. jobPhase' = [jobPhase EXCEPT ![k] = "running"]
  BY <1>5, <1>7, PhaseMoves
<1> QED BY <1>4, <1>8 DEF Lifecycle!Start, Lifecycle!Moves

LEMMA LostReplyIsLose ==
  ASSUME HolderInv, HolderInv', [Next]_vars, NEW w \in Workers,
         Remove(w), PopError(w)
  PROVE  \E k \in Jobs : Lifecycle!Lose(k)
<1> DEFINE c == Head(queue[queue_name(w)])
<1>1. TypeOK /\ OnceInv
  BY DEF HolderInv, OnceInv
<1>2. PICK k \in Jobs :
        /\ InQueue(k) /\ taken[k] = 0 /\ taken'[k] = 1 /\ ~InQueue(k)'
        /\ \A j \in Jobs \ {k} : taken'[j] = taken[j] /\ (InQueue(j)' <=> InQueue(j))
  BY <1>1, RemoveMoves
<1>3. UNCHANGED outcome /\ outcome[k] = "none"
  BY <1>2 DEF PopError, HolderInv, UntakenIsUndone
<1>4. ASSUME NEW v \in Workers, NEW j \in Jobs PROVE Holds(v, j)' <=> Holds(v, j)
  BY <1>1 DEF PopError, Holds, TypeOK, WorkerType
<1>5. \A j \in Jobs : Held(j)' <=> Held(j)
  BY <1>4 DEF Held
<1>6. jobPhase[k] = "queued"
  BY <1>2, PhaseOf DEF PhaseIs
<1>7. jobPhase'[k] = "lost"
  <2>1. ~Held(k)'
    BY <1>2, <1>5 DEF Held, HolderInv, HeldIsTaken
  <2>2. taken'[k] > 0 /\ outcome'[k] = "none"
    BY <1>2, <1>3
  <2> QED BY <1>2, <2>1, <2>2, PhaseOfNext DEF PhaseIs
<1>8. \A j \in Jobs \ {k} : jobPhase'[j] = jobPhase[j]
  BY <1>2, <1>3, <1>5, PhaseStays
<1>9. jobPhase' = [jobPhase EXCEPT ![k] = "lost"]
  BY <1>7, <1>8, PhaseMoves
<1>10. MayLose
  BY DEF MayLose, PopError
<1> QED BY <1>6, <1>9, <1>10 DEF Lifecycle!Lose, Lifecycle!Moves

(* The end of the work is Succeed or Fail, once: the job had no verdict.   *)
LEMMA ProcessIsVerdict ==
  ASSUME HolderInv, HolderInv', NEW w \in Workers, ProcessJob(w)
  PROVE  \E k \in Jobs : Lifecycle!Succeed(k) \/ Lifecycle!Fail(k)
<1>1. TypeOK /\ OnceInv
  BY DEF HolderInv, OnceInv
<1>2. PICK k \in Jobs, verdict \in {"ok", "bad"} :
        Holds(w, k) /\ outcome' = [outcome EXCEPT ![k] = verdict]
  BY DEF ProcessJob
<1>3. UNCHANGED <<queue, taken>> /\ worker[w].pc = "run"
  BY DEF ProcessJob
<1>4. /\ taken[k] > 0 /\ ~InQueue(k) /\ outcome[k] = "none"
  <2>1. taken[k] > 0 /\ outcome[k] = "none"
    BY <1>2, <1>3 DEF HolderInv, HeldIsTaken, VerdictByPc, BeforeWork
  <2>2. ~InQueue(k)
    BY <1>1, <2>1 DEF OnceInv, ListedIsUntaken, TypeOK
  <2> QED BY <2>1, <2>2
<1>5. jobPhase[k] = "running"
  BY <1>2, <1>4, PhaseOf DEF PhaseIs, Held
<1>6. taken'[k] > 0 /\ ~InQueue(k)' /\ outcome'[k] = verdict
  BY <1>1, <1>2, <1>3, <1>4 DEF InQueue, TypeOK
<1>7. ASSUME NEW v \in Workers, NEW j \in Jobs PROVE Holds(v, j)' <=> Holds(v, j)
  BY <1>1, ProcessJobMoves DEF Holds
<1>8. \A j \in Jobs \ {k} : jobPhase'[j] = jobPhase[j]
  <2> SUFFICES ASSUME NEW j \in Jobs \ {k} PROVE jobPhase'[j] = jobPhase[j]
    OBVIOUS
  <2>1. Held(j)' <=> Held(j)
    BY <1>7 DEF Held
  <2>2. InQueue(j)' <=> InQueue(j)
    BY <1>3 DEF InQueue
  <2>3. taken'[j] = taken[j] /\ outcome'[j] = outcome[j]
    BY <1>1, <1>2, <1>3 DEF TypeOK
  <2> QED BY <2>1, <2>2, <2>3, PhaseStays
<1>9. CASE verdict = "ok"
  <2>1. jobPhase'[k] = "succeeded"
    BY <1>6, <1>9, PhaseOfNext DEF PhaseIs
  <2>2. jobPhase' = [jobPhase EXCEPT ![k] = "succeeded"]
    BY <1>8, <2>1, PhaseMoves
  <2> QED BY <1>5, <2>2 DEF Lifecycle!Succeed, Lifecycle!Moves
<1>10. CASE verdict = "bad"
  <2>1. jobPhase'[k] = "failed"
    BY <1>6, <1>10, PhaseOfNext DEF PhaseIs
  <2>2. jobPhase' = [jobPhase EXCEPT ![k] = "failed"]
    BY <1>8, <2>1, PhaseMoves
  <2> QED BY <1>5, <2>2 DEF Lifecycle!Fail, Lifecycle!Moves
<1> QED BY <1>9, <1>10

(* A worker killed at work loses its job, and no other.                    *)
LEMMA CrashIsLose ==
  ASSUME HolderInv, HolderInv', NEW w \in Workers, WorkerCrash(w)
  PROVE  (\E k \in Jobs : Lifecycle!Lose(k)) \/ UNCHANGED jobPhase
<1>1. TypeOK /\ OnceInv
  BY DEF HolderInv, OnceInv
<1>2. /\ UNCHANGED <<queue, taken, outcome>>
      /\ worker'[w].job = <<>>
      /\ \A v \in Workers \ {w} : worker'[v] = worker[v]
  BY <1>1 DEF WorkerCrash, TypeOK, WorkerType
<1>3. ASSUME NEW j \in Jobs, ~Holds(w, j) PROVE Held(j)' <=> Held(j)
  <2>1. <<j>> # <<>>
    OBVIOUS
  <2> QED BY <1>2, <1>3, <2>1 DEF Held, Holds
<1>4. CASE \E k \in Jobs : Holds(w, k) /\ outcome[k] = "none"
  <2>1. PICK k \in Jobs : Holds(w, k) /\ outcome[k] = "none"
    BY <1>4
  <2>2. \A j \in Jobs \ {k} : ~Holds(w, j)
    BY <2>1 DEF Holds
  <2>3. ~Held(k)'
    <3>1. <<k>> # <<>>
      OBVIOUS
    <3>2. \A v \in Workers \ {w} : ~Holds(v, k)
      BY <2>1 DEF HolderInv, OneHolder
    <3> QED BY <1>2, <3>1, <3>2 DEF Held, Holds
  <2>4. taken[k] > 0 /\ ~InQueue(k)
    BY <1>1, <2>1 DEF HolderInv, HeldIsTaken, OnceInv, ListedIsUntaken, TypeOK
  <2>5. jobPhase[k] = "running"
    BY <2>1, <2>4, PhaseOf DEF PhaseIs, Held
  <2>6. jobPhase'[k] = "lost"
    <3>1. taken'[k] > 0 /\ ~InQueue(k)' /\ outcome'[k] = "none"
      BY <1>2, <2>1, <2>4 DEF InQueue
    <3> QED BY <2>3, <3>1, PhaseOfNext DEF PhaseIs
  <2>7. \A j \in Jobs \ {k} : jobPhase'[j] = jobPhase[j]
    BY <1>2, <1>3, <2>2, PhaseStays DEF InQueue
  <2>8. jobPhase' = [jobPhase EXCEPT ![k] = "lost"]
    BY <2>6, <2>7, PhaseMoves
  <2>9. MayLose
    BY DEF MayLose, WorkerCrash
  <2> QED BY <2>5, <2>8, <2>9 DEF Lifecycle!Lose, Lifecycle!Moves
<1>5. CASE ~\E k \in Jobs : Holds(w, k) /\ outcome[k] = "none"
  BY <1>2, <1>3, <1>5, Stutters
<1> QED BY <1>4, <1>5

LEMMA LifecycleNext ==
  HolderInv /\ HolderInv' /\ [Next]_vars => [Lifecycle!Next]_jobPhase
<1> SUFFICES ASSUME HolderInv, HolderInv', [Next]_vars
             PROVE  Lifecycle!Next \/ UNCHANGED jobPhase
  OBVIOUS
<1> USE DEF Lifecycle!Next
<1>1. TypeOK /\ OnceInv
  BY DEF HolderInv, OnceInv
<1>2. ASSUME NEW r \in Requests, lPush(r)
      PROVE  Lifecycle!Next \/ UNCHANGED jobPhase
  BY <1>2, PushIsSubmit
<1>3. ASSUME NEW w \in Workers, Remove(w), Pop(w) \/ PopError(w)
      PROVE  Lifecycle!Next
  BY <1>3, PopIsStart, LostReplyIsLose
<1>4. ASSUME NEW w \in Workers, ProcessJob(w)
      PROVE  Lifecycle!Next
  BY <1>4, ProcessIsVerdict
<1>5. ASSUME NEW w \in Workers, WorkerCrash(w)
      PROVE  Lifecycle!Next \/ UNCHANGED jobPhase
  BY <1>5, CrashIsLose
<1>6. CASE /\ UNCHANGED <<queue, taken>>
           /\ \A w \in Workers : ~ProcessJob(w) /\ ~WorkerCrash(w)
  <2>1. UNCHANGED outcome
    <3>1. ASSUME NEW j \in Jobs PROVE outcome'[j] = outcome[j]
      BY <1>1, <1>6, OutcomeMoves
    <3>2. /\ outcome = [j \in Jobs |-> outcome[j]]
          /\ outcome' = [j \in Jobs |-> outcome'[j]]
      BY DEF HolderInv, OnceInv, TypeOK
    <3> QED BY <3>1, <3>2
  <2>2. ASSUME NEW w \in Workers
        PROVE  Keeps(w) \/ (Drops(w) /\ worker[w].pc \in AfterWork)
    <3>1. ~Pop(w)
      <4>1. ASSUME Pop(w) PROVE FALSE
        BY <1>6, <4>1, PopMoves
      <4> QED BY <4>1
    <3> QED BY <1>1, <1>6, <3>1, WorkerMoves DEF Drops
  <2>3. ASSUME NEW j \in Jobs, outcome[j] = "none", NEW w \in Workers
        PROVE  Holds(w, j)' <=> Holds(w, j)
    <3>1. CASE Keeps(w)
      BY <3>1 DEF Keeps, Holds
    <3>2. CASE Drops(w) /\ worker[w].pc \in AfterWork
      <4>1. <<j>> # <<>>
        OBVIOUS
      <4>2. ~Holds(w, j)
        BY <2>3, <3>2 DEF HolderInv, VerdictByPc
      <4> QED BY <3>2, <4>1, <4>2 DEF Drops, Holds
    <3> QED BY <2>2, <3>1, <3>2
  <2>4. \A j \in Jobs : outcome[j] = "none" => (Held(j)' <=> Held(j))
    BY <2>3 DEF Held
  <2> QED BY <1>6, <2>1, <2>4, Stutters
<1> QED BY <1>2, <1>3, <1>4, <1>5, <1>6, ListMoves

(* Whatever fails, a job goes from its request through its list, one       *)
(* worker and one verdict, in that order; it is lost only where workers    *)
(* can fail, and nothing ever puts it back.                                *)
THEOREM JobsHaveOneLife == Spec => ImplementsLifecycle
<1>1. Init => Lifecycle!Init
  <2> SUFFICES ASSUME Init PROVE Lifecycle!Init
    OBVIOUS
  <2>1. ASSUME NEW j \in Jobs PROVE ~InQueue(j) /\ taken[j] = 0
    BY DEF Init, InQueue
  <2>2. jobPhase = [j \in Jobs |-> "new"]
    BY <2>1 DEF jobPhase
  <2> QED BY <2>2 DEF Lifecycle!Init
<1> QED
  BY <1>1, HolderInit, HolderNext, LifecycleNext, PTL
  DEF Spec, ImplementsLifecycle, Lifecycle!Spec

=============================================================================
