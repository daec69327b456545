# A TLA+ development of files-connect-api

files-connect-api is the file service of a data exchange. A Node API
(`src/src`) lets a client list, preview, upload and delete the files of a
*databank* (a folder of an S3 bucket), download all of it as one zip archive, and ask for
jobs that produce that archive or a *readiness report*. Jobs travel through Redis
to two Python worker programs (`src/workers`). A Python command-line uploader
(`src/scripts/databank_uploader.py`) is the largest client of the upload
endpoints. Paths below are relative to the repository.

This directory holds the TLA+ modules, the TLC configurations that model-check
them, and the proofs that TLAPS checks. `PROJECT.json` lists the runs, the
lines every definition stands for, and the hazards with the
properties that watch them.

| Module | Models | Checked by | Proved in |
|---|---|---|---|
| `JobQueue` | processing jobs, API to Redis to workers | `JQ_faults`, `JQ_shutdown`, `JQ_put`, `JQ_pending`, `JQ_failed` | `JobQueueProofs`, `JobQueueHandoverProofs`, `JobQueueStatusProofs` |
| `JobLifecycle` | what the queue promises of one job | `ImplementsLifecycle` in `JQ_faults` | `JobQueueHandoverProofs` |
| `MultipartUpload` | `upload_file`, the upload endpoints, S3's uploads | `MU_uploads`, `MU_names` | `MultipartUploadProofs` |
| `DatabankJobs` | what a worker does with a job, and the clients it races | `DJ_jobs`, `DJ_prefix` | `DatabankJobsProofs` |
| `RedisClient` | the singleton of the API's Redis client | through `ServerProcess` | `ServerProofs` |
| `AuditPipeline` | audit middleware, service and RabbitMQ connection | through `ServerProcess` | `ServerProofs` |
| `ServerProcess` | start-up, uncaught exceptions, shutdown; composes the two above | `Server_life`, `Server_shutdown` | `ServerProofs` |
| `AccessGate` | the authorization middleware and the services it asks | through `ApiRequests` | `ApiProofs` |
| `AccessRights` | who may pass by the documents, and where the code departs from them | through `ImplementsGrant` | `ApiProofs` |
| `AccessGrant` | what the gates promise | `ImplementsGrant` in `API_requests` | `ApiProofs` |
| `Storage` | keys, listings, objects of a databank, on S3 and MinIO | through `ApiRequests` | `ListingProofs` |
| `ApiRequests` | every file request from the first middleware to the answer; composes `AccessGate` and `Storage` | `API_requests` | `ApiProofs`, `ListingProofs` |
| `MCJobQueue`, `MCMultipartUpload`, `MCDatabankJobs`, `MCServerProcess`, `MCApiRequests` | values of the constants for TLC | | |

To run one: `tlc -config JQ_faults.cfg MCJobQueue`, `tlapm JobQueueProofs.tla`.

## 1. Inventory

### Processing job queue (modelled: `JobQueue`)

*Code.* `src/src/services/processing-service.ts`,
`src/src/core/utils/job-queue.ts`, the process routes of
`src/src/routes/databanks-routes.ts`, `src/workers/zip-worker/worker.py` and
`src/workers/report-worker/worker.py`.

*State.* Two Redis lists (`jobs:zip`, `jobs:report`), one status hash per job
with a TTL of seven days; in each worker the job it holds, its error counter
and its shutdown flag.

*Operations.* `createJob` (one job, or two for type `all`) calls `pushJob` per
job: `LPUSH`, `HSET`, `EXPIRE`, three awaits. Its catch marks the jobs as
failed: `EXISTS`, `HSET`. `worker_loop` pops destructively with `BRPOP`,
`process_job` writes `processing`, works, and writes the verdict.
`PUT .../status` writes the hash from outside; `GET .../status` reads it.

*Hard.* The list and the hash are written by separate commands and by programs
that know nothing of each other; `BRPOP` has no acknowledgement; a failed
command may have been applied; workers die, restart, and are told to stop;
hashes expire.

*Correct when* a job is handed to a worker at most once, an acknowledged job
is in its list, every job in a list is processed, the hash tells the truth and moves
forward only, graceful shutdown abandons nothing, records expire.

### Multipart upload (modelled: `MultipartUpload`)

*Code.* `upload_file` and what it calls in `databank_uploader.py`; the three
upload routes; `multipart-upload-service.ts`; complete and abort of
`storage-service.ts`; `aws-s3-repository.ts` under `retry-utils.ts`.

*State.* The uploader's progress; the handler of each request; S3's open
uploads and objects. The API itself keeps nothing between requests.

*Operations.* `POST /uploads` creates an upload and signs a URL per part;
parts go straight to S3; `PUT /uploads/:id` completes, `POST .../cancel`
aborts. The uploader repeats a request whose connection breaks, the repository
repeats a command that fails.

*Hard.* Nested retries: two handlers of one request may run at once, each
repeating commands whose failed predecessor may have been executed. A completion
that is late races the cancellation that follows it. The key is computed
twice, by two normalizations.

*Correct when* a key only ever holds a whole file of its own, success means
stored, a cancelled upload stays cancelled, a failed one is cleaned up, and `upload_file`
always ends.

### Archive and readiness jobs (modelled: `DatabankJobs`)

*Code.* `workers/zip-worker/zip_processor.py`,
`workers/report-worker/readiness_processor.py`, and `main` of `structured_main.py`
as a choice of its outcomes.

*State.* The databank's files in S3, its archive `zips/<id>.zip` and its report,
its catalogue entry; in each worker the page it walks and what it has fetched.

*Operations.* Check that the folder exists, list it page by page, fetch
file after file, build the archive or the report, upload it, tell the catalogue.

*Hard.* A walk is no snapshot: files are replaced, deleted and created under it.
Two workers may be at one databank at once and upload to one key. Three
failures are swallowed: the catalogue's, the report upload's, and the score's.

*Correct when* the artefact is no older than the job that made it, holds what
did not change and nothing of another databank, the catalogue speaks of what
is there, and a job that met neither failure nor change succeeds.

### Server process (modelled: `RedisClient`, `AuditPipeline`, `ServerProcess`)

*Code.* `src/src/core/utils/redis-client.ts`, `src/src/server.ts`,
`src/src/middleware/audit-middleware.ts`, `src/src/services/audit-service.ts`,
`src/src/services/rabbitmq-service.ts`.

*State.* The field `client` and the flag `isConnecting` of the Redis singleton, with
every client it ever made; `connection`, `channel` and `isConnected` of the RabbitMQ
service, with every connection it ever opened; the process.

*Operations.* `getClient`, `disconnect`, the reconnect strategy; the audit of
every answer, published in the background; start-up, SIGTERM, exit.

*Hard.* Fields are read after awaits during which other callers wrote them;
listeners of an older connection write the fields of the newer; a shutdown awaits
a command of a client that may never send it.

*Correct when* the process holds one open client until it is told to stop, a caller gets an open
client or an error, a publisher that trusts the fields finds an open channel, what
is leaked is bounded, start-up settles, and shutdown ends (it does not: section 5).

### File requests (modelled: `AccessGate`, `Storage`, `ApiRequests`)

*Code.* `src/src/middleware/auth.ts`, `auth-utils.ts`, `routes/databanks-routes.ts`,
`routes/assets-routes.ts`, `storage-service.ts`, both repositories, `file-service.ts`,
`duckdb.ts`, `temporary-access-service.ts`, the error handler and validation.

*State.* The bucket, the catalogue's item, the grants; the walk of a recursive
listing; the one DuckDB connection; where each request is. The API keeps nothing
between two requests but that connection.

*Operations.* Listing, metadata, download, preview, links, credentials, deletion,
asset upload, and completing an upload.

*Hard.* Authorization asks two services up to three times; listings span pages and folders; an object is
checked, opened and streamed in separate steps; errors become statuses by their
text; previews share a connection.

*Correct when* a request comes to its work only while its caller may have it carried out,
the answer tells the truth about the object, a listing names every file once,
a request that meets no trouble succeeds, and every answer ends, but for those known not to.

### Not modelled, and why

Scoring and report layout (`structured_main.py`, `unstructured_main.py`):
arithmetic over file contents, with no state. Configuration, logging, types, the
OpenAPI document: data and formatting; a validator or an error class
that decides whether a modelled operation happens, or with which status it is answered, is in that
operation. `createFolder` and the recursive form of `deleteObject` have no caller
among the routes. Parsing of previewed contents, signature and expiry of tokens, the text of STS policies: a choice
of their outcomes. The cluster form of the Redis client takes the same path with another constructor.
Infrastructure: its replica counts and restart policies are assumptions, named
below. Tests are read as documentation.

## 2. JobQueue

*Grain.* One Redis command is one step. Every command is an await in the API
or a blocking call in a worker, so anything may run between two of them. A
command that throws was applied or was not: `PushReply`, `MarkFailed`,
`UpdateHSet`, `PutHSet` and `PopError` allow both.

| In the code | In the module |
|---|---|
| `createJob`, its two branches (one job, two jobs) | `TypesOf(r)`: the same commands in the same order for one job or two |
| `pushJob` | `lPush`, `hSet`, `expire` |
| the catch of `createJob` | `Caught`, `CheckFailed`, `MarkFailed` |
| `BRPOP`: reply, nil, exception | `Pop`, `PopTimeout`, `PopError` |
| reconnection and pauses | `Resume` |
| `update_job_status`, called twice by `process_job` | `UpdateExists`, `UpdateHSet`, `AfterUpdate` |
| `process_zip_job`, `process_readiness_job` | `ProcessJob`: a verdict, good or bad |
| SIGTERM, SIGKILL, the orchestrator | `Signal`, `WorkerCrash`, `Restart` |
| `PUT .../status` | `PutExists`, `PutHSet`, `PutRead`, `PutReadError` |

*Abstracted.* The hash keeps its status and whether its identifying fields,
error, result, completion time and TTL are there; progress and timestamps are
gone, as no decision reads them. `GET .../status` changes nothing and has no
action. In the read-back of a PUT, `EXISTS` and `HGETALL` are one step: a hash
missing at either is the same 404. A restarted worker that cannot reach Redis
exits, which is one more restart. Job ids are request and type, since `uuidv4`
never repeats. `req`, `worker` and `put` are program counters; `taken` and
`outcome` are history variables that nothing reads but properties.

*Abstract specification.* `JobLifecycle` is one phase per job (new, queued, running,
succeeded, failed, lost). `jobPhase` in `JobQueue` maps to it, and
`ImplementsLifecycle` says every step of the queue is a step or a stutter of it; a job may be
lost only where a worker can fail.

### Runs

| Run | Instance | Shows |
|---|---|---|
| `JQ_faults` | one `all` request; a worker of each kind; Redis failures and crashes on both sides; error limit 2 | no job runs twice, completed is true, a report job never without its zip job, no entry stranded, `JobLifecycle` implemented |
| `JQ_shutdown` | one `all` request; two zip workers, a report worker; SIGTERM and expiry only | shutdown abandons nothing; `processing` is held and ends; statuses move forward; visible records expire; every queued job is processed |
| `JQ_put` | two zip requests, one worker, one PUT with any of three bodies; failing API commands | an acknowledged job is queued; no record of a job that is not |
| `JQ_pending` | one `all` request, no failure | **violation**: `pending` for ever |
| `JQ_failed` | one `all` request, failing API commands | **violation**: `failed` for a job that succeeded |

*Why these bounds.* An `all` request is the only one with two jobs, and both
catch paths (first or second job failed) occur in it. Two requests are the
least that compete for a list. Two zip workers are the least that compete for
an entry. An error limit of 2 (5 in the code) lets the counter be raised, cleared and
reached. Nothing else is bounded: crashes, signals and failures may recur for
ever. Two requests of one kind are interchangeable, so `JQ_put`, which has no
temporal property, uses symmetry. The deployments run four API replicas and two
workers of each kind; the API keeps no state, so replicas differ only by which
requests die with them.

*Where a property is not checked* is part of what it says.
`StatusNeverRegresses`, `ErrorMeansFailed` and `ProcessingIsHeld` hold where
nobody writes the hash but the requests and workers and no command fails: a
PUT may write any status after any other, and `JQ_failed` shows a failed
command that breaks them. `NoAbandonedJob` and `QueuedIsProcessed` hold where
no worker dies: `BRPOP` is destructive, and `JobLifecycle`'s `Lose` is real.
`ProcessingEnds` holds where no write is lost; `VisibleExpires` is about records that GET can show, and not about the hash without `jobId`
and TTL that a worker's `HSET` makes when the record expires after its `EXISTS` (`zip-worker/worker.py:94`).

### Fairness

`FairSpec` has weak fairness of `Request(r)` and `Work(w)`: Node runs every
continuation whose promise settles, and a worker is a scheduled process whose
blocking commands return: `BRPOP` has a timeout of one second, the sockets have
keepalive on (`zip-worker/worker.py:71`), and processing a job comes to an end.
`RecoverySpec` adds weak fairness of `Restart(w)`, from `restart: unless-stopped`
(`src/docker-compose.yml:66`, `:109`) and the default restart policy of
`src/infra/*worker-deployment.yaml`, and strong fairness of `Pop(w)`: failures
may recur for ever but do not hit every single attempt. Nothing is assumed of
PUTs or of failures; `QueueDrains` does not hold without these two.

### Findings

`JQ_pending`: `LPUSH` comes before `HSET` (`job-queue.ts:83`, `:85`). A worker that
pops in between finds no hash, silently skips both its updates, and the `HSET`
then says `pending` until the record expires, while `workers/README.md:206`
says `pending` is a job that waits.

`JQ_failed`: the catch marks a job as failed when any command of `pushJob` throws, although
its entry may be in the list (`processing-service.ts:186`). In the trace a worker pops the entry between
`LPUSH` and `HSET`, finds no record for either of its updates, and processes the job successfully; `HSET` is
carried out but its reply is lost; the catch finds the record and writes `failed`, while `workers/README.md:209`
says "Job failed with error". An `EXPIRE` that raises after the worker has finished ends the same way, a step later,
and then overwrites `completed`.

## 3. MultipartUpload

*Grain.* One S3 command is one step of a handler, one request or part is one
step of the uploader. A failed command was executed or not (`Fails` beside
`Execute`); the answer to a request is lost whether or not the handler ran, runs,
or is still to run (`Disconnected`: the handler goes on).

| In the code | In the module |
|---|---|
| `calculate_file_parts` | `calculate_file_parts`, sizes in megabytes |
| `normalizeFileKey` (create), `normalizeKey` (complete, abort) | the same names; a name counts its leading databank ids (`depth`) |
| a request and its handler | `call[<<session, op, n>>]`, `n` the uploader's attempt |
| `withRetry` around a command | `attempt`, `Fails` |
| S3's uploads, objects | `upload`, `object`; `Create`, `Complete`, `Abort` |
| what is refused before S3 is asked: `validateDatabankFileType`, `completeUploadSchema` | `validateDatabankFileType`, `Rejected`; a name is in `AllowedNames` or not |
| `NoSuchUpload`, AWS's tolerance of a repeated completion | `Refused`, `CompletedBefore`: the model allows both answers |
| `_make_request` | `Answered`, `Disconnected` |
| `upload_file` and its except clause | `initiate_upload`, `upload_part`, `complete_upload`, `Success`, `Failure` |

*Abstracted.* Parts are numbered, not named by their ETags, and the last one
is short. The size check of `generatePresignedUrls` is in parts of one
megabyte, as in the code. Signing is local: `Presign` is one step. The MinIO repository sends
the same commands without `withRetry` of its own, a special case
(`maxRetries = 0`). The uploader's renewal of its token after a 401 is left out: the
request is answered before a handler runs, so repeating it changes nothing. A
request that never arrives is one whose handler dies first. `faults` counts failures
per session, for the bound and so that properties can speak of a session that
met none.

### Runs

| Run | Instance | Shows |
|---|---|---|
| `MU_uploads` | two sessions that upload to one key, sizes 0, 7, 17 MB, or a file of a type that is not allowed; 2 attempts per request, 1 retry per command; up to 2 failures of S3 commands, connections, parts and API replicas | whole files only; success is stored; cancelled stays cancelled; without failures a failed session leaves nothing open, and only a file that is empty, too large or of a refused type fails; `upload_file` ends |
| `MU_names` | the same without failures, a name that starts with the databank id | **violation**: an upload that can be neither completed nor cancelled |

*Why these bounds.* With the smallest part at 5 MB and at most 3 parts, size 7
has two parts, one short; 17 has more than three parts of 5 MB and is cut again
by `MAX_PARTS`; with `MaxNumParts` at 2 it is the file the API refuses; 0 has no part and cannot be completed.
Two failures are what it takes to have both attempts of a
request, or both tries of a command, go wrong, and to have one attempt still
running when the next, or the cancellation, starts; `MaxFaults` counts them over
all sessions. Deadlock is not checked: when all sessions are done the system
has finished.

*Fairness.* Weak fairness of `upload_file(s) \/ Disconnected(s)`: the uploader is a
running program, and when the replica that handles its request dies, its
connection breaks and it is told. The second half is an assumption about the network: the uploader's
`requests` calls set no timeout, so a peer that vanished silently would keep it waiting.
Weak fairness of `Handle(c)`: handlers run and S3 answers or fails. None of any failure.

*Finding.* `MU_names`: `multipart-upload-service.ts:86` always prefixes the
databank id, `storage-service.ts:350` only when it is missing. A file below a
directory named like its databank is created under one key and
completed and cancelled under another; S3 answers `NoSuchUpload` to both, and
the upload stays, against `databank_uploader.py:542` ("Cancel upload on
failure") and `openapi.ts:655`.

Also visible in the model, with no claim of the code to hold it to: a `POST`
that fails after its `CreateMultipartUpload` (refused for its size, or not signed,
or its answer lost) leaves an open upload whose id nobody has; a completion whose answer is lost and whose
repetition is answered `NoSuchUpload` reports a stored file as failed (`SuccessIsStored` says the other direction only).

## 4. DatabankJobs

*Grain.* One S3 or catalogue command is one step; a worker computes what it has in its
hands between two of them. `JobQueue.ProcessJob` is one whole run of a job here:
its verdict is `ok` or `bad`.

| In the code | In the module |
|---|---|
| the check of `process_*_job` | `Start`, `FolderExists` |
| the paginator's loop over `list_objects_v2` | `ListPage`, `Page`, `NextCursor` |
| `get_object` and its stream, `download_file` | `Fetch` |
| `upload_file` of the archive, `upload_reports_to_s3` | `Upload`, `UploadFailed` |
| `update_cat_api` | `UpdateCatalogue` |
| the readiness framework: a report, none, or a score told and then no report | `Framework`, `Scores` |
| clients of the upload and delete routes | `Write`, `Delete` |
| a worker or its node dies | `Crash` |

*Abstracted.* `bucket[k]` counts the changes of key `k`: it holds a file exactly when the
count is odd, so a replacement adds two and a content is told from every
later one. Keys are numbers in S3's order. A folder marker is in the bucket from the
start or never, as no client of this API makes one. `update_cat_api`'s GET and its
POST are one step: it reads the entry to find its id, and the size it writes comes from
the job. A file that cannot be extracted or opened is a `Fetch` that
fails. The download routes only read and have no action. `base`, `overlaps`,
`published` and `hit` are history variables of a job: the bucket when it started, the jobs of its
kind that ran beside it, whether it uploaded, whether a failure was why it ended.

### Runs

| Run | Instance | Shows |
|---|---|---|
| `DJ_jobs` | two jobs of either kind; two files and a marker; pages of one key; failures of S3 and of the catalogue, crashes | `ArtefactIsFresh`, `CatalogueIsBacked`, `CleanJobSucceeds` |
| `DJ_prefix` | one job, no failure, a key of a databank whose id starts with this one's | **violation**: it is archived with this one |

*Why these bounds.* Two jobs are what the two workers of a kind can hold.
With pages of one key there are three listings, so that the cursor matters and a
key may change before, between and behind its page. `MaxVersion` is 3: a file that is
created, deleted and created again, or there, deleted and created, or replaced, all while a job
runs. The jobs are interchangeable and no property of these runs is temporal, so they
use symmetry. Deadlock is not checked: with every job done and every
key at its bound the system has finished. Nothing here needs fairness.

*What freshness means here.* The code makes no snapshot and promises none; a file that
changes during the job may be in the archive in either version, or not at all. What is
left, and what `ArtefactIsFresh` says, is that what did not change is there, what was gone stays
out, and nothing is older than the job. It holds *unless* an overlapping job of
the same kind uploads last: an older walk may then replace a newer one, and the
exception in the property is that race. `CleanJobSucceeds` has such an exception as
well: a file deleted between its listing and its `get_object` fails the whole job.

*Finding.* `DJ_prefix`: `zip_processor.py:131` and the readiness job list with
the databank id as prefix, without a slash, against the docstring at
`zip_processor.py:118` ("contents of an S3 folder"); the API adds the slash
(`storage-service.ts:335`).

Also visible: the check for an empty folder (`zip_processor.py:336`) compares
the key with an id that never ends in a slash, so a databank that holds only its marker
gets an empty archive, and a success.

## 5. Server process

*Grain.* JavaScript runs to its next await: a step is what runs between two
awaits, or an event of a library. The continuation of an awaited `connect()` runs in the step
that settles it, since promise jobs run before the next event.

| In the code | In the module |
|---|---|
| `getClient`: open client, wait, connect | `ReturnOpen`, `WaitForConnection`, `Connect` |
| the end of `connect`, which returns the field | `Settle` |
| `waitForConnection` | `WaitOver`, `WaitTimeout` |
| the `redis` package: attempts, pauses, `reconnectStrategy` | `AttemptSucceeds`, `AttemptFails`, `GiveUp`, `RetryOrEnd`, `LoseConnection`, `QuitReply` |
| `disconnect`, before and after its await | `Disconnect`, `Disconnected` |
| `createAuditMiddleware`, `getAuditAction`, `shouldAudit` | `Arrive`, `Answer`, `Audited`, `ShouldAudit`; `MayBePiped` for answers that go past `send` |
| `publishAuditMessage` of both services | `Describe`, `Skip`, `Publish`, `Dial` |
| `connect` of the RabbitMQ service, await by await | `Dialled`, `ChannelOpened`, `DialFails`, `ChannelRefused` |
| the broker and its events | `Drop`, `DropUnheard`, `ChannelClosed`, `Deliver` |
| `server.ts` | `Startup`, `Sigterm`, `HandlerResumes`, `ServerClosed`, `ForceClose`, `UncaughtException` |

*Abstracted.* A client or a connection is named by who created it. The `redis` and `amqplib`
packages are not in the repository: they are modelled from their documented behaviour as this code
uses it (an open client reconnects by the strategy; `quit` closes at once and queues a
command; an `error` event without listener is thrown). The ten seconds of
`waitForConnection` and of the forced exit are choices of the scheduler. One SIGTERM is sent.

### Runs

| Run | Instance | Shows |
|---|---|---|
| `Server_life` | start-up and two requests for Redis, which goes away once; or two audited answers with one mishap of the broker; SIGTERM at any time | `OneOpenClient`, `GotIsOpen`, `ConnectedMeansOpen`, `LeaksAreCounted`, `CleanAuditArrives`, `StartupSettles` |
| `Server_shutdown` | start-up and one request, one outage | **violation**: shutdown does not end |

*Why these bounds.* Three callers are what it takes to have a client given up, its
successor being opened, and a third that finds either. `MaxRetries` is 1 (10 in the code): an attempt
fails, is repeated, and the strategy gives up. One outage (`MaxOutages`) may begin
before, during or after a connection, and last for ever. Two publishers and the constructor race for the
fields of the RabbitMQ service; `MaxMishaps` is 1, a failing dial, a lost connection or a
closed channel. The two halves share only the process, so that a life exercises one
of them (`MCLives`). Deadlock is not checked: the process exits.

*Fairness.* Weak fairness of start-up, of every pending continuation and timer, and of the
publishers' steps: the event loop goes on. None of requests, signals, outages
or mishaps, nor of their end. `StartupSettles` needs no recovery of Redis, because the
strategy gives up.

*Finding.* `Server_shutdown`: the handler awaits `disconnectRedis`
before it calls `server.close` and arms its timer (`server.ts:52`). Between two attempts
of the reconnect strategy, `quit()` marks the client closed and queues a QUIT
that is then neither sent nor rejected: the handler waits for ever, and "Could not close connections
in time, forcefully shutting down" is never reached.

Also visible: two answers that find the service unconnected each open a
connection, and the loser's is leaked, without listeners; if it then breaks,
its `error` event is unheard and ends the process (`UncaughtException`).
A connecting client counts as open, so `waitForConnection` is entered only once a
shutdown has begun. The properties of the Redis client speak of the time until then: a connect that
`disconnect` overtakes may return null, and its client be dropped unclosed (`redis-client.ts:218`).

*Finding.* `Server_life`, `CleanAuditArrives`: the list of audited endpoints has `POST files/download`
(`audit-middleware.ts:19`, under "Define which endpoints should be audited"), but the middleware
wraps `send` only, and a file that is downloaded without a presigned URL is piped into the response
(`databanks-routes.ts:192`). Such a download leaves nothing in the audit trail. The property counts it as due, and names
it as the one departure that needs no mishap (`StreamPassesBy`); without that disjunct TLC finds the piped download.

## 6. File requests

*Grain.* One question to a service, one command of the storage, or one query of DuckDB is one step. A command
that `withRetry` repeats is one step, which fails for good or does not; one that writes
may have been carried out although it failed (`Writes`).

| In the code | In the module |
|---|---|
| `authenticate`, `authorize`, `fileUpload`, `validateBody` | `Authenticate`, `Authorize`, `FileUpload`, `ValidateBody`, in the order `Before` and `Judged` give them |
| `checkItemAccess`, `checkItemAccessWithDatabankAccess`, `databankAccess`, `checkIsOwner` | the same names: what follows from an answer; `AskCatalogue`, `AskAcl`: asking |
| routes of databanks and assets | `Route` (who may, by which gate), and an action per handler |
| `toApplicationError`, `errorHandler` | `StatusOf`, `Throws` |
| `listObjectsRecursively` | `Start`, `AfterPage`: folders depth first, the next page of a folder behind its subfolders |
| `ListObjectsV2` with a token; MinIO's stream | `Entry`, `Covered`, `AwsPage`; `MinioPage`, `MinioEnds`, `MinioHangs` |
| `normalizeKey`, `normalizePrefix` | the same names; a key is a sequence of parts |
| `previewFile`, `streamToBuffer`, the parsers | `PreviewFile`, `Parse`, `ProcessFile`, `ProcessJSON` |
| `createConnection`, `getParquetPreview` | `CreateConnection`, `Configure`, `CreateFails`, `Query` |

*Abstracted.* Contents, sizes, content types and the text of policies. A request
is its route, its caller, its key, its page size and whether its body is in
order. A parser that rejects a content counts as a service that failed. `always`, `ever`, `hit`
and `shaken` are history variables of a request: which objects were there
throughout or at some time, whether a service failed, and whether rights changed meanwhile.

*Abstract specification.* `AccessGrant` knows who has which right, who was let
through and who acted. `ImplementsGrant` maps every middleware and service away: whatever
the catalogue and the ACL service say, fail to say or change between two questions, a
request comes to its work only at an instant at which its caller may have it carried out,
and storage, DuckDB, signatures and credentials are used only for requests that came to their work.
Who may is `MayPass` of `AccessRights`. It is not read off the routes or the gates but written after
`ENDPOINT_AUTH.md`, `API_ROLES.md` and the comment above `checkItemAccess`: which check a route has (`DocumentedCheck`),
which roles (`DocumentedRoles`), that a databank is open to all, or for those with a grant and its owner (`MayAccess`).
What the code lets through beside that is four named disjuncts, each of them a finding below.
It has no liveness part: nobody promises an answer.

### Run

`API_requests` has two families of scenarios. In *Access*, one request of any of seven users
(owner, member with a grant, other, admin, guest without a role, bad token, no token) goes to any route, with
authentication and authorization on or off, for an open, a restricted or an unlisted
databank, with any body. In *Files*, a request of the owner for any object, prefix and
page size runs beside one that deletes, replaces or previews, on S3 and on MinIO.
`ImplementsGrant` is the question of the first; `AnswersAreTrue`,
`ListingIsExact`, `CleanRequestSucceeds` and `HangsAreKnown` of the second.

*Why these bounds.* The keys are two files, a folder with its marker and a file,
an archive, a report and two assets: enough for a folder before or after a page's
end, with pages of one, two and four entries. Two requests are the least that interfere; the
second one changes what the first is about. One failure (`MaxFaults`) can hit any
question or command. One change (`MaxChanges`) of item or grant falls between any two
questions of a gate, or one upload of a worker between the check of an archive
and its link; a scenario may have that change used up (`spent`). `Owners` are the two
users that the catalogue may name. Deadlock is checked: `Finished` is the only
step of a state in which all requests are over. What a scenario may be is
`ScenarioAssumption`: a caller in the access list has a user id, its objects are keys
of the storage, and a request names what its route has (`Named`): a file route a key, an asset
route an owner and a name, as Express does not match the route otherwise.

*What the properties leave out* is part of what they say. `AnswersAreTrue` and
`CleanRequestSucceeds` except requests that met a failing service, overlapping
parquet previews (so they do not watch the half-configured connection below), and a parquet file that DuckDB cannot read (`Unreadable`);
`ListingIsExact` is about S3, and a plain listing about folders that fit a page. No fairness
is assumed, and no liveness property is stated: an answer that never ends is a state here (`hung`),
and `HangsAreKnown` says which there are.

*Findings.* None of them makes the run fail, because the properties name them as what they are: exceptions. With any one
of the disjuncts taken out, TLC finds the run violated.

Who passes (`ImplementsGrant`, `MayPass`):

- `ReportIsPublic`: `GET .../report/download` has no middleware (`databanks-routes.ts:945`). `ENDPOINT_AUTH.md:68` lists
  **authenticate**, **authorize**(provider, consumer) and **checkItemAccessWithDatabankAccess** for it.
- `NoRoleIsLookedAt`: where admins are let in, the last branch of `authorize` does not ask who is one (`auth.ts:164`),
  so that a user without any role passes as an admin. `ENDPOINT_AUTH.md:14`: "Ensures user has at least one of the given
  roles"; `API_ROLES.md:123`: "Insufficient permissions will result in a 403 Forbidden response".
- `NonPublicPasses`: `checkItemAccess` calls `next` for any policy (`auth.ts:435-441`). Its comments say "Otherwise, it delegates
  to the `databankAccess` middleware to check specific user permissions" (`:371`) and "Not public, delegate to existing databankAccess
  middleware" (`:439`); `ENDPOINT_AUTH.md:15` has it as it is, "Otherwise continues (no extra deny)".
- `PrivatePasses`: `checkItemAccessWithDatabankAccess` lets a PRIVATE databank through (`auth.ts:557`). `ENDPOINT_AUTH.md:16`:
  "if databank is not public, runs **databankAccess**".

What is answered when the object is not there (`AnswersAreTrue`, `WhenMissing`), for which `openapi.ts` promises 404, "File not found" (`:400`, `:440`,
`:484`, `:540`) or "Asset not found" (`:791`):

- `Unlooked`, 200: a deletion (`databanks-routes.ts:302`) and a signed download look at nothing; the link to an asset on AWS
  ignores the null that says it is missing (`assets-routes.ts:131`; on MinIO it is 404).
- `Unrecognized`, 500: a download, whose handler knows its own `NotFoundError` but not the storage's error (`databanks-routes.ts:203-210`);
  metadata and previews on MinIO, whose error has another name than S3's.

Also visible in the model, with no claim of the code to hold it to:

- Half-configured DuckDB: a preview that creates its connection publishes it before it is
  set up (`duckdb.ts:26`), and an overlapping preview queries with it.
- Parquet previews read `<databank>/<key>` with the key as it was sent, so a key
  that names its databank is not found, and their settings are S3's only.
- MinIO's listing destroys its stream at `maxKeys` and may never be answered; its
  recursive listing lists everything below each folder, so that files come up twice.
- A download whose object breaks off midway never ends: nobody listens for errors of the stream.
- A failure of a service is answered by its text (`error-utils.ts:57-71`): 401 where it speaks of a token, 403 of a permission,
  404 of something that was not found.
- A JSON file whose stream fails is previewed with 200 and no preview.

## 7. Proofs

Every safety property that a run checks, invariant, action property or refinement, is also a theorem, for all
values of the constants; the liveness properties are named at the end. A proof module extends its component and TLAPS, and every leaf
is checked. The assumptions are those of the components on their constants, which the TLC runs
evaluate: that keys and publishers are finitely many (a page has a least and a greatest key, and
connections can be counted), that limits are positive, that messages and scenarios are of the
kinds listed.

Where a theorem has a hypothesis of its own it is a condition on the constants, and the
README names the run that shows what happens without it:

| Hypothesis | Says | Without it |
|---|---|---|
| `ReliableWorkers` | no Redis command of a worker fails, no worker dies | `BRPOP` is destructive: `JobLifecycle`'s `Lose` |
| `ReliableApi` | no Redis command of a request fails, no replica dies | a hash whose `EXPIRE` never ran stays for ever |
| `NoExpiry` | records do not expire | the zip job's record goes while the report job still waits |
| `NoProcessingBody` | no PUT writes `processing` | such a PUT says what nobody does |
| `OnlyQueueWrites` | no PUT writes, no Redis command of the API fails | `JQ_failed` |
| `PlainNames` | no file's name starts with the databank id | `MU_names` |

### JobQueue

`JobQueueProofs`: `TypeCorrect`, and `OneDelivery`. "Taken at most once" is not inductive:
a `Pop` of an entry that is in its list twice, or of one that was taken before,
breaks it. `OnceInv` adds that an entry is in a list once
(`ListedOnce`), in the list of its type (`ListedByType`), never after it was taken
(`ListedIsUntaken`), and, what makes `lPush` preserve those, that a job its
request has still to push is in no list and was not taken (`LaterIsNowhere`, over
`PushedLater`).

`JobQueueHandoverProofs`, on top of it: an acknowledged job was pushed (`AcceptedIsPushed`), there is no record
of a job that was not (`NoOrphanRecord`, from `VisibleInv`: `HSET` follows `LPUSH`), and with `ReliableWorkers` no
job is abandoned (`NoJobIsAbandoned`, from `HolderInv`: a job taken and not over is in the hands of the one worker
that took it). `JobsHaveOneLife` is the refinement of `JobLifecycle`: the initial states map to its initial
states, and each action, one lemma each, maps to a step of one job or a stutter; `OnceInv`
is why a `Pop` starts a job that was queued, and `HolderInv` why a verdict ends one that runs.

`JobQueueStatusProofs` is about the hash: `CompletedWasDone`, `ReportIsSecond`, `RecordsExpire`,
`ProcessingIsTrue`, and the two that need nobody else to write, `ErrorsAreFailures` and the action property
`StatusOnlyAdvances`. Each adds to `OnceInv` what the programs in the middle of their commands are about to write.

### MultipartUpload

`MultipartUploadProofs`: `TypeCorrect`; `WholeFiles` rests on arithmetic (`CeilDivSpec`,
`PartsCoverFile`: the parts of `calculate_file_parts` reach the end of the file,
on each of its three branches) and on an invariant of the protocol,
`CompletingIsWhole`: once a completion was asked for, by any attempt, nothing
is left to upload and the session never uploads again. So a handler that is
late, or repeated, still completes the whole file (`NothingLeft`). `TypesValidated` carries what the first handler
found to the last one: a session that has parts, or completes, got through a create that validated its file's type.

In the second half of the module, `SuccessStores` and `CancellationIsFinal` speak of an answer and of S3,
between which lie handlers that are late, repeated or retried. `Sound` ties them together, session by session: its upload is
the one an answered create made (`OwnUpload`), every call later than that is about this upload and no other session's
is (`LaterCalls`, `OnlyOwn`), and an answer, once given, holds (`AnswersHold`: a cancellation answered with success found the upload
aborted, or aborted it, and S3 completes no aborted upload). `FailuresCleanUp` and `CleanUploadsSucceed` are
about sessions that met no failure. `CleanSession` says that those have one call in flight at a time, and that their upload
is where the session takes it to be; that needs both normalizations to agree on the key, which is what `PlainNames` gives.

### DatabankJobs

`DatabankJobsProofs`: all four invariants of `DJ_jobs` follow from `JobsInv`. Its core is `Covered`: while a job
walks, every file that still is in the version the job started from has been fetched, is on the page, or lies
behind the cursor and there is more to list. A page
keeps it, because a page is a beginning of what the listing has left (`PageIsFirst`: by cardinalities), so that
nothing is skipped below the new cursor; a client keeps it, because versions only grow (`GoodLater`), so that
a key which is in its old version was in it all the time. When the walk is over, `Covered` is freshness (`FreshWalk`).
For a job that uploads after another the bases must be compared: `Apart` says that of two jobs of a kind that did not
overlap, the one that runs started later. That a set of keys has a least and a greatest element is proved without induction, from the
well-foundedness of the strict subset order (`SmallestOf`).

### Server

`ServerProofs`: `NeverTwoClients` and `GetsOpenClient` from `RedisInv`. What makes them inductive is `ConnectingInv`: at most
one caller is connecting, it holds the flag, and until shutdown its client, open since `connect()` was
called, is the one in the field. `TrustedChannelIsOpen` and `LeaksHaveACause` come from
`AuditInv`. `ConnByPc` follows every connection through the awaits of its opening; `HeldIsCounted` says that the connections which are open or being opened
are one in use and those that an overlap of two dials or a closed channel has leaked, and
`OverlapsAreDials` that each publisher overlaps another once. The two components share only the process: each of its steps is a
step of one of them or of none (`ComponentMoves`).

### File requests

`ApiProofs`: `OnlyTheEntitledPass` is the refinement of `AccessGrant`. `GateInv` says
where a request may be: it waits only for a question of its own gate, after `authenticate` and `authorize` have let it on
(`Waits`), and is in its handler, or has acted, only if it was let through.
A lemma per question (`CheckItemAccessFair`, `DatabankAccessFair`, ...) shows that a verdict to pass is
given only at an instant at which the gate lets the caller in (`LetsIn`, what the code's gates amount to); `LetInMayPass` leads from there
to the documents: whoever is let in, and passes the handler's own checks, may pass by `MayPass`. Each step of a handler is a use by a
request that passed, or a stutter. `TypeCorrect`; `CallersAreToldTheTruth` from `TruthInv`, which carries
what a handler has learned of the object from one await to the next (an object that was found was there at some time; one
that was not was missing at some time; a preview uses a connection that was set up, or was overlapped);
`CleanRequestsSucceed` from `SmoothInv`, which says of a request without trouble that it is entitled and on its way; `MayPassLetIn` is the other
direction, from the documents to the gates.

`ListingProofs`: `ListingsAreExact` is about a walk that takes many steps while objects come and go. `WalkInv` says of its state
that it keeps to folders below the prefix it started from (`Led`); that no folder is begun twice (`Orderly`); that what was
found was there at some time, in a folder that was begun, and behind that folder's token, so that no later page
has it again (`Once`); and that a file that was there all the time, in each folder above it that was begun, is to come,
or was found, or the next folder on its way was begun (`Thorough`). When nothing is left to do, following the
way down from the prefix ends at the file. That last step is no induction: the begun folder above the file that is longest
cannot be followed by another (`WalkEnds`). Two facts about a page carry the invariant: the entries of a page are the
first ones of what is left (`AwsPageIs`), because entries that differ end at keys that differ (`EntriesDiffer`), and
its folders can be put in the order of their first keys (`InOrderExists`). `HangsAreOfTwoKinds` needs `Led` only: a MinIO listing that came to
`maxKeys` objects did so in a folder of the databank.

### Only model-checked

- Liveness: `QueueDrains`, `QueuedIsProcessed`, `ProcessingEnds`, `ShutdownEnds`, `UploadEnds`, `CleanAuditArrives`,
  `StartupSettles`. The prover has no rules for ENABLED and fairness in use here.

No proof cites an induction theorem: where one would, the least counterexample is taken instead (`InOrderExists`, `SmallestOf`).
No recursive definition is used in a module that is proved about.

## 8. Mutants

Every property of a passing run has a mutant in `PROJECT.json`: a definition of
the model replaced by one with a plausible bug (`Mutant...` operators,
defined next to the original), for which TLC finds the property violated.
They are part of no specification.

## 9. Plan

Done: every component with control of its own is modelled and checked, both abstract specifications are proved to be
implemented, and all safety properties are theorems. Left:

1. Lemmas worth stating on their own: what `AwsPage` promises of a listing whose pages are read one after another,
   and which requests to MinIO end.
2. The theorems about the hash of a job with fewer hypotheses: which of `JobQueueStatusProofs` survive a PUT that writes
   only terminal statuses.
