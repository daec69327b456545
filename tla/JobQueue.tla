------------------------------ MODULE JobQueue ------------------------------
(***************************************************************************)
(* The Redis-backed processing queue of files-connect-api.                 *)
(*                                                                         *)
(* The API (src/src/services/processing-service.ts over                    *)
(* src/src/core/utils/job-queue.ts) turns POST /databanks/:id/process into *)
(* one or two jobs. A job lives in two places of Redis that are written by *)
(* separate commands: an entry of the list jobs:zip or jobs:report, and    *)
(* the status hash job:{jobId}. The Python workers pop the list            *)
(* destructively (BRPOP, no acknowledgement), process the job and write    *)
(* the hash; PUT .../status writes the same hash from outside.             *)
(*                                                                         *)
(* Every Redis command is one step, because every one is an await in the   *)
(* API or a blocking call in a worker, and other actors run in between. A  *)
(* command that fails either was executed and only its reply was lost, or  *)
(* was not executed; the caller cannot tell.                               *)
(***************************************************************************)
EXTENDS Naturals, Sequences

CONSTANTS
  Requests,               (* POST /process requests                          *)
  Kind,                   (* the "type" in the body of each of them          *)
  ZipWorkers,             (* processes running workers/zip-worker/worker.py  *)
  ReportWorkers,          (* ... and workers/report-worker/worker.py         *)
  Putters,                (* PUT /process/:jobId/status requests             *)
  Bodies,                 (* the bodies those PUT requests may carry         *)
  MaxConsecutiveErrors,   (* worker.py max_consecutive_errors                *)
  Faults                  (* which of AllFaults may happen                   *)

AllFaults == {"api_redis", "api_crash", "worker_redis", "worker_crash",
              "sigterm", "expiry"}

Statuses == {"pending", "processing", "completed", "failed"}
Terminal == {"completed", "failed"}

Workers == ZipWorkers \cup ReportWorkers

(* enum ProcessingJobType: what a request may ask for.                      *)
Kinds == {"zip", "report", "all"}

ASSUME Assumption ==
  /\ Kind \in [Requests -> Kinds]
  /\ ZipWorkers \cap ReportWorkers = {}
  /\ MaxConsecutiveErrors \in Nat \ {0}
  /\ Faults \subseteq AllFaults
  /\ Bodies \subseteq [status : Statuses, error : BOOLEAN, result : BOOLEAN]

VARIABLES
  queue,     (* the two Redis lists, oldest entry first                      *)
  hash,      (* the status hash of each job                                  *)
  req,       (* where each POST request is in createJob                      *)
  worker,    (* where each worker is in worker_loop                          *)
  put,       (* where each PUT request is in updateJobStatus                 *)
  taken,     (* history: how often an entry of the job left its list         *)
  outcome    (* history: what process_*_job returned for the job             *)

vars == <<queue, hash, req, worker, put, taken, outcome>>

-----------------------------------------------------------------------------
(* Jobs. uuidv4 gives every job of every request an id of its own, so a job *)
(* is identified by its request and its type.                               *)

Types == {"zip", "report"}
Jobs == Requests \X Types

(* "jobs:readiness" is the name workers/README.md gives the list of the     *)
(* report workers; nothing in the code pushes to it.                        *)
QueueNames == {"jobs:zip", "jobs:report", "jobs:readiness"}

MutantTypesOf(r) ==
  IF Kind[r] = "all" THEN <<"report", "zip">> ELSE <<Kind[r]>>

(* The types of the jobs createJob pushes, in the order it pushes them.     *)
TypesOf(r) == IF Kind[r] = "all" THEN <<"zip", "report">> ELSE <<Kind[r]>>

getQueueKey(type) == IF type = "zip" THEN "jobs:zip" ELSE "jobs:report"

MutantQueueName(w) == IF w \in ZipWorkers THEN "jobs:zip" ELSE "jobs:readiness"

(* The list a worker pops (the default of READINESS_QUEUE_NAME).            *)
queue_name(w) == IF w \in ZipWorkers THEN "jobs:zip" ELSE "jobs:report"

(* The job request r is pushing, or marking as failed.                      *)
Current(r) == <<r, TypesOf(r)[req[r].i]>>

InQueue(j) == \E q \in QueueNames : \E n \in DOMAIN queue[q] : queue[q][n] = j

(* The LPUSH of the job took effect: it is in its list, or it was.          *)
Queued(j) == InQueue(j) \/ taken[j] > 0

Holds(w, j) == worker[w].job = <<j>>

-----------------------------------------------------------------------------
(* The status hash. "named" says that the identifying fields are there     *)
(* (jobId, databankId, createdAt), "ttl" that EXPIRE has been applied.     *)

Hash == [status : Statuses \cup {"absent"}, named : BOOLEAN, error : BOOLEAN,
         result : BOOLEAN, completedAt : BOOLEAN, ttl : BOOLEAN]

Absent == [status |-> "absent", named |-> FALSE, error |-> FALSE,
           result |-> FALSE, completedAt |-> FALSE, ttl |-> FALSE]

Exists(j) == hash[j].status # "absent"

(* HSET merges fields into the key, and creates the key when it is gone.   *)
WithPending(h) == [h EXCEPT !.status = "pending", !.named = TRUE]

MutantWithUpdate(h, status, error, result) ==
  [Absent EXCEPT !.named = h.named,
                 !.status = status,
                 !.error = error,
                 !.result = result,
                 !.completedAt = status \in Terminal]

WithUpdate(h, status, error, result) ==
  [h EXCEPT !.status = status,
            !.error = @ \/ error,
            !.result = @ \/ result,
            !.completedAt = @ \/ status \in Terminal]

-----------------------------------------------------------------------------
NewRequest == [pc |-> "idle", i |-> 1]

NewWorker == [pc |-> "brpop", job |-> <<>>, errors |-> 0, stop |-> FALSE]

NoBody == [status |-> "pending", error |-> FALSE, result |-> FALSE]

NewPut == [pc |-> "idle", job |-> <<>>, ours |-> FALSE, body |-> NoBody]

Init ==
  /\ queue = [q \in QueueNames |-> <<>>]
  /\ hash = [j \in Jobs |-> Absent]
  /\ req = [r \in Requests |-> NewRequest]
  /\ worker = [w \in Workers |-> NewWorker]
  /\ put = [p \in Putters |-> NewPut]
  /\ taken = [j \in Jobs |-> 0]
  /\ outcome = [j \in Jobs |-> "none"]

-----------------------------------------------------------------------------
(* createJob. Both branches of the code, one job or two, are the same      *)
(* sequence of steps: push each job in turn; at the first error, mark each *)
(* job as failed in turn, and stop at the first error of that.             *)

createJob(r) ==
  /\ req[r].pc = "idle"
  /\ req' = [req EXCEPT ![r].pc = "lpush"]
  /\ UNCHANGED <<queue, hash, worker, put, taken, outcome>>

(* updateJobStatus of job-queue.ts: EXISTS on the hash.                    *)
MutantJobExists(j) == TRUE

JobExists(j) == Exists(j)

(* The next job of the request at step pc, or the answer.                  *)
NextJob(r, pc, answer) ==
  IF req[r].i < Len(TypesOf(r))
  THEN [req[r] EXCEPT !.pc = pc, !.i = @ + 1]
  ELSE [req[r] EXCEPT !.pc = answer]

MutantCaught(r) == NextJob(r, "lpush", "accepted")

(* The catch of createJob: both local jobs become FAILED, then their       *)
(* hashes are updated from the first one on.                               *)
Caught(r) == [pc |-> "check", i |-> 1]

MutantPushReply(r, applied, next) ==
  \/ applied /\ req' = [req EXCEPT ![r] = next]
  \/ "api_redis" \in Faults /\ UNCHANGED req

(* The outcome of one Redis command of pushJob: the awaited reply, or an   *)
(* exception whether or not the command was applied.                       *)
PushReply(r, applied, next) ==
  \/ applied /\ req' = [req EXCEPT ![r] = next]
  \/ "api_redis" \in Faults /\ req' = [req EXCEPT ![r] = Caught(r)]

lPush(r) ==
  /\ req[r].pc = "lpush"
  /\ \E applied \in BOOLEAN :
       /\ queue' = IF applied
                   THEN [queue EXCEPT ![getQueueKey(Current(r)[2])] =
                           Append(@, Current(r))]
                   ELSE queue
       /\ PushReply(r, applied, [req[r] EXCEPT !.pc = "hset"])
  /\ UNCHANGED <<hash, worker, put, taken, outcome>>

hSet(r) ==
  /\ req[r].pc = "hset"
  /\ \E applied \in BOOLEAN :
       /\ hash' = IF applied
                  THEN [hash EXCEPT ![Current(r)] = WithPending(@)]
                  ELSE hash
       /\ PushReply(r, applied, [req[r] EXCEPT !.pc = "expire"])
  /\ UNCHANGED <<queue, worker, put, taken, outcome>>

expire(r) ==
  /\ req[r].pc = "expire"
  /\ \E applied \in BOOLEAN :
       /\ hash' = IF applied /\ Exists(Current(r))
                  THEN [hash EXCEPT ![Current(r)].ttl = TRUE]
                  ELSE hash
       /\ PushReply(r, applied, NextJob(r, "lpush", "accepted"))
  /\ UNCHANGED <<queue, worker, put, taken, outcome>>

(* updateJobStatus(jobId, FAILED, 0, errMsg) of the catch: EXISTS ...      *)
CheckFailed(r) ==
  /\ req[r].pc = "check"
  /\ \/ /\ JobExists(Current(r))
        /\ req' = [req EXCEPT ![r].pc = "mark"]
     \/ /\ ~JobExists(Current(r)) \/ "api_redis" \in Faults
        /\ req' = [req EXCEPT ![r].pc = "rejected"]
  /\ UNCHANGED <<queue, hash, worker, put, taken, outcome>>

(* ... then HSET.                                                          *)
MarkFailed(r) ==
  /\ req[r].pc = "mark"
  /\ \E applied \in BOOLEAN :
       /\ hash' = IF applied
                  THEN [hash EXCEPT ![Current(r)] =
                          WithUpdate(@, "failed", TRUE, FALSE)]
                  ELSE hash
       /\ \/ applied /\ req' = [req EXCEPT ![r] = NextJob(r, "check", "rejected")]
          \/ /\ "api_redis" \in Faults
             /\ req' = [req EXCEPT ![r].pc = "rejected"]
  /\ UNCHANGED <<queue, worker, put, taken, outcome>>

(* The API replica that handles r dies; nothing resumes the request.       *)
ApiCrash(r) ==
  /\ "api_crash" \in Faults
  /\ req[r].pc \notin {"idle", "accepted", "rejected", "dead"}
  /\ req' = [req EXCEPT ![r].pc = "dead"]
  /\ UNCHANGED <<queue, hash, worker, put, taken, outcome>>

Request(r) ==
  \/ createJob(r) \/ lPush(r) \/ hSet(r) \/ expire(r)
  \/ CheckFailed(r) \/ MarkFailed(r)

-----------------------------------------------------------------------------
(* worker_loop. The two worker programs differ only in their list and in   *)
(* the function that processes a job.                                      *)

MutantLoopHead(w) == "brpop"

(* The shutdown flag is looked at between two jobs only, and no command is *)
(* in flight then: the test belongs to the step that comes back to it.     *)
LoopHead(w) == IF worker[w].stop THEN "stopped" ELSE "brpop"

(* Redis removes the oldest entry of the worker's list.                    *)
Remove(w) ==
  /\ queue[queue_name(w)] # <<>>
  /\ queue' = [queue EXCEPT ![queue_name(w)] = Tail(@)]
  /\ taken' = [taken EXCEPT ![Head(queue[queue_name(w)])] = @ + 1]

Pop(w) ==
  /\ worker[w].pc = "brpop"
  /\ Remove(w)
  /\ worker' = [worker EXCEPT ![w].pc = "check",
                              ![w].job = <<Head(queue[queue_name(w)])>>,
                              ![w].errors = 0]
  /\ UNCHANGED <<hash, req, put, outcome>>

(* BRPOP answers nil after a second, only while the list is empty.         *)
PopTimeout(w) ==
  /\ worker[w].pc = "brpop"
  /\ queue[queue_name(w)] = <<>>
  /\ worker' = [worker EXCEPT ![w].pc = LoopHead(w)]
  /\ UNCHANGED <<queue, hash, req, put, taken, outcome>>

MutantTooMany(n) == n > MaxConsecutiveErrors

TooMany(n) == n >= MaxConsecutiveErrors

(* BRPOP raises: before Redis executed it, or after it removed an entry    *)
(* whose reply is lost. A ConnectionError is followed by a reconnection,   *)
(* any other exception only by a pause.                                    *)
PopError(w) ==
  /\ "worker_redis" \in Faults
  /\ worker[w].pc = "brpop"
  /\ Remove(w) \/ UNCHANGED <<queue, taken>>
  /\ \E next \in {"reconnect", "pause"} :
       worker' = [worker EXCEPT
                    ![w].errors = @ + 1,
                    ![w].pc = IF TooMany(worker[w].errors + 1)
                              THEN "stopped" ELSE next]
  /\ UNCHANGED <<hash, req, put, outcome>>

(* After the pause: a successful reconnection clears the error counter.    *)
Resume(w) ==
  /\ \/ /\ worker[w].pc = "reconnect"
        /\ worker' = [worker EXCEPT ![w].pc = LoopHead(w), ![w].errors = 0]
     \/ /\ \/ worker[w].pc = "pause"
           \/ worker[w].pc = "reconnect" /\ "worker_redis" \in Faults
        /\ worker' = [worker EXCEPT ![w].pc = LoopHead(w)]
  /\ UNCHANGED <<queue, hash, req, put, taken, outcome>>

MutantAfterUpdate(w) ==
  IF worker[w].pc \in {"check", "mark"} /\ ~worker[w].stop
  THEN [worker[w] EXCEPT !.pc = "run"]
  ELSE [worker[w] EXCEPT !.pc = LoopHead(w), !.job = <<>>]

(* update_job_status is called twice in process_job: with 'processing'     *)
(* before the work and with the verdict after it. It swallows every error, *)
(* so whatever happens the worker goes on to the same place.               *)
AfterUpdate(w) ==
  IF worker[w].pc \in {"check", "mark"}
  THEN [worker[w] EXCEPT !.pc = "run"]
  ELSE [worker[w] EXCEPT !.pc = LoopHead(w), !.job = <<>>]

MutantCanUpdate(j) == TRUE

(* update_job_status of the workers: "if not exists: return".              *)
CanUpdate(j) == Exists(j)

UpdateExists(w) ==
  /\ worker[w].pc \in {"check", "recheck"}
  /\ \E j \in Jobs :
       /\ Holds(w, j)
       /\ \/ /\ CanUpdate(j)
             /\ worker' = [worker EXCEPT ![w].pc =
                             IF @ = "check" THEN "mark" ELSE "finish"]
          \/ /\ ~CanUpdate(j) \/ "worker_redis" \in Faults
             /\ worker' = [worker EXCEPT ![w] = AfterUpdate(w)]
  /\ UNCHANGED <<queue, hash, req, put, taken, outcome>>

(* The fields process_job passes: error and result go with the verdict.    *)
ProcessingFields(h) == WithUpdate(h, "processing", FALSE, FALSE)

MutantVerdictNotChecked(h, j) == WithUpdate(h, "completed", FALSE, TRUE)

MutantFailureNotWritten(h, j) ==
  IF outcome[j] = "ok" THEN WithUpdate(h, "completed", FALSE, TRUE) ELSE h

MutantErrorAlwaysWritten(h, j) ==
  IF outcome[j] = "ok" THEN WithUpdate(h, "completed", TRUE, TRUE)
                       ELSE WithUpdate(h, "failed", TRUE, TRUE)

VerdictFields(h, j) ==
  IF outcome[j] = "ok" THEN WithUpdate(h, "completed", FALSE, TRUE)
                       ELSE WithUpdate(h, "failed", TRUE, TRUE)

UpdateHSet(w) ==
  /\ worker[w].pc \in {"mark", "finish"}
  /\ \E j \in Jobs :
       /\ Holds(w, j)
       /\ \/ hash' = [hash EXCEPT ![j] = IF worker[w].pc = "mark"
                                         THEN ProcessingFields(@)
                                         ELSE VerdictFields(@, j)]
          \/ "worker_redis" \in Faults /\ UNCHANGED hash
  /\ worker' = [worker EXCEPT ![w] = AfterUpdate(w)]
  /\ UNCHANGED <<queue, req, put, taken, outcome>>

(* process_zip_job or process_readiness_job: both catch every exception    *)
(* and return a dictionary with 'success'.                                 *)
ProcessJob(w) ==
  /\ worker[w].pc = "run"
  /\ \E j \in Jobs, verdict \in {"ok", "bad"} :
       /\ Holds(w, j)
       /\ outcome' = [outcome EXCEPT ![j] = verdict]
  /\ worker' = [worker EXCEPT ![w].pc = "recheck"]
  /\ UNCHANGED <<queue, hash, req, put, taken>>

Work(w) ==
  \/ Pop(w) \/ PopTimeout(w) \/ Resume(w)
  \/ UpdateExists(w) \/ ProcessJob(w) \/ UpdateHSet(w)

(* signal_handler: SIGTERM and SIGINT only set shutdown_requested.         *)
Signal(w) ==
  /\ "sigterm" \in Faults
  /\ worker[w].pc \notin {"stopped", "killed"}
  /\ ~worker[w].stop
  /\ worker' = [worker EXCEPT ![w].stop = TRUE]
  /\ UNCHANGED <<queue, hash, req, put, taken, outcome>>

(* SIGKILL, out of memory, a lost node: what the process held is gone.     *)
WorkerCrash(w) ==
  /\ "worker_crash" \in Faults
  /\ worker[w].pc \notin {"stopped", "killed"}
  /\ worker' = [worker EXCEPT ![w].pc = "killed", ![w].job = <<>>]
  /\ UNCHANGED <<queue, hash, req, put, taken, outcome>>

MutantRestart(w) ==
  /\ worker[w].pc = "killed"
  /\ worker' = [worker EXCEPT ![w] = NewWorker]
  /\ UNCHANGED <<queue, hash, req, put, taken, outcome>>

(* restart: unless-stopped in docker-compose.yml, restartPolicy: Always in *)
(* the Kubernetes deployments: a new process, with nothing of the old one. *)
Restart(w) ==
  /\ worker[w].pc \in {"stopped", "killed"}
  /\ worker' = [worker EXCEPT ![w] = NewWorker]
  /\ UNCHANGED <<queue, hash, req, put, taken, outcome>>

-----------------------------------------------------------------------------
(* PUT /databanks/:databankId/process/:jobId/status. "ours" says that the  *)
(* databank of the URL is the job's. The status is checked against the     *)
(* enumeration (every body here passes), the hash is updated, and only     *)
(* then is the job read back and its databank compared.                    *)

PutExists(p) ==
  /\ put[p].pc = "idle"
  /\ \E j \in Jobs, ours \in BOOLEAN, body \in Bodies :
       LET next(pc) == [pc |-> pc, job |-> <<j>>, ours |-> ours, body |-> body]
       IN  \/ JobExists(j) /\ put' = [put EXCEPT ![p] = next("hset")]
           \/ /\ ~JobExists(j) \/ "api_redis" \in Faults
              /\ put' = [put EXCEPT ![p] = next("500")]
  /\ UNCHANGED <<queue, hash, req, worker, taken, outcome>>

PutHSet(p) ==
  /\ put[p].pc = "hset"
  /\ \E j \in Jobs, applied \in BOOLEAN :
       /\ put[p].job = <<j>>
       /\ hash' = IF applied
                  THEN [hash EXCEPT ![j] =
                          WithUpdate(@, put[p].body.status,
                                     put[p].body.error, put[p].body.result)]
                  ELSE hash
       /\ \/ applied /\ put' = [put EXCEPT ![p].pc = "read"]
          \/ "api_redis" \in Faults /\ put' = [put EXCEPT ![p].pc = "500"]
  /\ UNCHANGED <<queue, req, worker, taken, outcome>>

(* getJob: a missing hash, one without its databankId and one of another   *)
(* databank are all NotFoundError.                                         *)
PutRead(p) ==
  /\ put[p].pc = "read"
  /\ \E j \in Jobs :
       /\ put[p].job = <<j>>
       /\ put' = [put EXCEPT ![p].pc =
                    IF hash[j].named /\ put[p].ours THEN "200" ELSE "404"]
  /\ UNCHANGED <<queue, hash, req, worker, taken, outcome>>

(* The read back may fail too.                                             *)
PutReadError(p) ==
  /\ "api_redis" \in Faults
  /\ put[p].pc = "read"
  /\ put' = [put EXCEPT ![p].pc = "500"]
  /\ UNCHANGED <<queue, hash, req, worker, taken, outcome>>

Put(p) == PutExists(p) \/ PutHSet(p) \/ PutRead(p) \/ PutReadError(p)

(* The seven days set by EXPIRE are over.                                  *)
Expiry(j) ==
  /\ "expiry" \in Faults
  /\ hash[j].ttl
  /\ hash' = [hash EXCEPT ![j] = Absent]
  /\ UNCHANGED <<queue, req, worker, put, taken, outcome>>

-----------------------------------------------------------------------------
Next ==
  \/ \E r \in Requests : Request(r) \/ ApiCrash(r)
  \/ \E w \in Workers :
       Work(w) \/ PopError(w) \/ Signal(w) \/ WorkerCrash(w) \/ Restart(w)
  \/ \E p \in Putters : Put(p)
  \/ \E j \in Jobs : Expiry(j)

Spec == Init /\ [][Next]_vars

(* Node runs every continuation whose promise is settled, and a worker is a *)
(* process that is scheduled: a request or a worker that can go on does.    *)
(* Nothing is assumed of PUT requests, of failures or of the restart.       *)
FairSpec ==
  /\ Spec
  /\ \A r \in Requests : WF_vars(Request(r))
  /\ \A w \in Workers : WF_vars(Work(w))

(* With failures that may come back for ever, more is needed: the           *)
(* orchestrator restarts a worker that is gone, and failures do not hit     *)
(* every single attempt, so that a worker that gets to pop again and again  *)
(* pops one day.                                                            *)
RecoverySpec ==
  /\ FairSpec
  /\ \A w \in Workers : WF_vars(Restart(w)) /\ SF_vars(Pop(w))

-----------------------------------------------------------------------------
RequestPc == {"idle", "lpush", "hset", "expire", "check", "mark", "accepted",
              "rejected", "dead"}

WorkerPc == {"brpop", "reconnect", "pause", "check", "mark", "run", "recheck",
             "finish", "stopped", "killed"}

PutPc == {"idle", "hset", "read", "200", "404", "500"}

(* A job or none, as a sequence of at most one element.                    *)
MaybeJob == {<<>>} \cup {<<j>> : j \in Jobs}

(* A worker holds a job from the reply of BRPOP to the final update.       *)
HoldingPc == {"check", "mark", "run", "recheck", "finish"}

ReqType ==
  /\ req \in [Requests -> [pc : RequestPc, i : 1..2]]
  /\ \A r \in Requests : req[r].i \in DOMAIN TypesOf(r)

WorkerType ==
  /\ worker \in [Workers -> [pc : WorkerPc, job : MaybeJob,
                             errors : 0..MaxConsecutiveErrors, stop : BOOLEAN]]
  /\ \A w \in Workers :
       /\ worker[w].job # <<>> <=> worker[w].pc \in HoldingPc
       /\ worker[w].errors = MaxConsecutiveErrors => worker[w].pc = "stopped"

PutType ==
  /\ put \in [Putters -> [pc : PutPc, job : MaybeJob, ours : BOOLEAN,
                          body : Bodies \cup {NoBody}]]
  /\ \A p \in Putters : put[p].job = <<>> <=> put[p].pc = "idle"

(* Every variable has its type; a worker with max_consecutive_errors has   *)
(* stopped, a request points at one of its own jobs, and a worker holds a  *)
(* job exactly from BRPOP's reply to the final update.                     *)
TypeOK ==
  /\ queue \in [QueueNames -> Seq(Jobs)]
  /\ hash \in [Jobs -> Hash]
  /\ ReqType
  /\ WorkerType
  /\ PutType
  /\ taken \in [Jobs -> Nat]
  /\ outcome \in [Jobs -> {"none", "ok", "bad"}]

-----------------------------------------------------------------------------
(* Safety                                                                  *)

(* A job is handed to at most one worker, at most once, whatever fails:    *)
(* the API never pushes a job id twice and BRPOP removes what it returns.  *)
RunsAtMostOnce == \A j \in Jobs : taken[j] <= 1

(* Why: what the request has not pushed yet is nowhere (PushedLater), what *)
(* is in a list is there once, in the list of its type, and was never      *)
(* removed from it.                                                        *)
PushedLater(r, n) ==
  \/ req[r].pc = "idle"
  \/ req[r].pc = "lpush" /\ n >= req[r].i
  \/ req[r].pc \in {"hset", "expire"} /\ n > req[r].i

LaterIsNowhere ==
  \A r \in Requests : \A n \in DOMAIN TypesOf(r) :
    PushedLater(r, n) => ~Queued(<<r, TypesOf(r)[n]>>)

ListedOnce ==
  \A q \in QueueNames : \A m, n \in DOMAIN queue[q] :
    queue[q][m] = queue[q][n] => m = n

ListedByType ==
  \A q \in QueueNames : \A n \in DOMAIN queue[q] :
    q = getQueueKey(queue[q][n][2])

ListedIsUntaken == \A j \in Jobs : InQueue(j) => taken[j] = 0

OnceInv ==
  /\ TypeOK
  /\ LaterIsNowhere
  /\ ListedOnce
  /\ ListedByType
  /\ ListedIsUntaken
  /\ RunsAtMostOnce

(* A job shown as completed has been processed successfully, and its       *)
(* result and completion time are there to be read, whatever the order in  *)
(* which the API and the worker write the hash; or a PUT has said so.      *)
CompletedIsTrue ==
  \A j \in Jobs :
    hash[j].status = "completed" =>
      \/ outcome[j] = "ok" /\ hash[j].result /\ hash[j].completedAt
      \/ \E p \in Putters :
           put[p].job = <<j>> /\ put[p].body.status = "completed"

(* A request that was answered 202 without a failed status has every one   *)
(* of its jobs in, or through, its list.                                   *)
AcknowledgedIsQueued ==
  \A r \in Requests :
    req[r].pc = "accepted" =>
      \A n \in DOMAIN TypesOf(r) :
        Queued(<<r, TypesOf(r)[n]>>)

(* There is no status record of a job that no worker will ever see.        *)
VisibleIsQueued == \A j \in Jobs : Exists(j) => Queued(j)

(* "all" pushes its report job only once its zip job is in its list with a *)
(* status record that expires: a half-made request is a zip job alone.     *)
ReportAfterZip ==
  \A r \in Requests :
    Kind[r] = "all" /\ Queued(<<r, "report">>) =>
      Queued(<<r, "zip">>) /\ hash[<<r, "zip">>].ttl

(* Graceful shutdown abandons nothing: a job that left its list is in the  *)
(* hands of a worker until it has been processed.                          *)
NoAbandonedJob ==
  \A j \in Jobs :
    taken[j] > 0 => outcome[j] # "none" \/ \E w \in Workers : Holds(w, j)

(* A job shown as processing is being processed, by a worker that has yet  *)
(* to write the verdict.                                                   *)
ProcessingIsHeld ==
  \A j \in Jobs :
    hash[j].status = "processing" =>
      \E w \in Workers : Holds(w, j) /\ worker[w].pc # "check"

(* Only a failed job has an error message.                                 *)
ErrorMeansFailed == \A j \in Jobs : hash[j].error => hash[j].status = "failed"

(* A status record that GET can show expires: it has its TTL, or the       *)
(* request that made it is about to set it.                                *)
VisibleExpires ==
  \A r \in Requests, t \in Types :
    hash[<<r, t>>].named /\ ~hash[<<r, t>>].ttl =>
      req[r].pc = "expire" /\ Current(r) = <<r, t>>

(* The status of a record moves forward only, from pending to processing   *)
(* to one verdict, although two programs write it without a lock.          *)
Follows(s, t) ==
  s = t \/ s = "pending" \/ (s = "processing" /\ t \in Terminal)

StatusNeverRegresses ==
  [][\A j \in Jobs : Exists(j) /\ Exists(j)' =>
                       Follows(hash[j].status, hash'[j].status)]_hash

-----------------------------------------------------------------------------
(* What workers/README.md says of two status values, and code comments of  *)
(* the record; the runs show where the code departs from it.               *)

Free(j) == \A w \in Workers : ~Holds(w, j)

(* "pending - Job queued, waiting for worker": still in its list, or in    *)
(* the hands of a worker that has yet to write the hash.                   *)
PendingIsWaiting ==
  \A j \in Jobs : hash[j].status = "pending" /\ Free(j) => InQueue(j)

(* "failed - Job failed with error": once no worker has it any more, its   *)
(* processing did not succeed.                                             *)
FailedIsTrue ==
  \A j \in Jobs : hash[j].status = "failed" /\ Free(j) => outcome[j] # "ok"

-----------------------------------------------------------------------------
(* The queue implements the life of a job.                                 *)

MayLose == Faults \cap {"worker_redis", "worker_crash"} # {}

jobPhase ==
  [j \in Jobs |->
     CASE InQueue(j) -> "queued"
       [] ~InQueue(j) /\ taken[j] = 0 -> "new"
       [] ~InQueue(j) /\ taken[j] > 0 /\ outcome[j] = "ok" -> "succeeded"
       [] ~InQueue(j) /\ taken[j] > 0 /\ outcome[j] = "bad" -> "failed"
       [] OTHER -> IF \E w \in Workers : Holds(w, j) THEN "running" ELSE "lost"]

Lifecycle == INSTANCE JobLifecycle WITH phase <- jobPhase

(* Each job goes through its list, one worker and one verdict, in that     *)
(* order and without a way back, whatever fails in the API; it is lost     *)
(* only where a worker can fail.                                           *)
ImplementsLifecycle == Lifecycle!Spec

-----------------------------------------------------------------------------
(* Liveness                                                                *)

(* Every job that reached its list is processed, with SIGTERM and API      *)
(* failures but no worker failure.                                         *)
QueuedIsProcessed ==
  \A j \in Jobs : Queued(j) ~> outcome[j] # "none"

(* A job shown as processing gets a verdict, or its record expires.        *)
ProcessingEnds ==
  \A j \in Jobs :
    hash[j].status = "processing" ~>
      hash[j].status \in Terminal \cup {"absent"}

(* A worker told to stop stops, between two jobs.                          *)
ShutdownEnds ==
  \A w \in Workers : worker[w].stop ~> worker[w].pc = "stopped"

(* Whatever fails and comes back, no entry stays in its list for ever.     *)
QueueDrains == \A j \in Jobs : InQueue(j) ~> ~InQueue(j)

=============================================================================
