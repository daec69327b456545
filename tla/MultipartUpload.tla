-------------------------- MODULE MultipartUpload --------------------------
(***************************************************************************)
(* A file on its way into a databank: upload_file of                       *)
(* scripts/databank_uploader.py, the three upload endpoints of the API     *)
(* (src/src/routes/databanks-routes.ts over multipart-upload-service.ts,   *)
(* storage-service.ts and a repository that retries), and the multipart    *)
(* uploads of S3.                                                          *)
(*                                                                         *)
(* Retries are nested: the uploader repeats a request whose connection     *)
(* breaks, while the handler of the broken one goes on; each handler       *)
(* repeats an S3 command that fails, while the failed one may have been    *)
(* executed.                                                               *)
(***************************************************************************)
EXTENDS Integers, Functions

CONSTANTS
  Sessions,        (* calls of upload_file                                  *)
  Files,           (* the files they may upload: [name, depth, size]        *)
  MIN_PART_SIZE,   (* databank_uploader.py: smallest part but the last      *)
  MAX_CHUNK,       (* ... 100 MB, the largest chunk it prefers              *)
  MAX_PARTS,       (* ... the most parts of an upload                       *)
  MAX_RETRIES,     (* ... how often it sends a request                      *)
  maxRetries,      (* retry-utils.ts: retries of an S3 command              *)
  MaxNumParts,     (* MAX_SIZE_IN_MULTIPART_UPLOAD_IN_GB, in parts          *)
  AllowedNames,    (* names that end in one of AllowedFileTypes.DATABANK    *)
  Faults,          (* which of AllFaults may happen                         *)
  MaxFaults        (* bound: how many of them in all                        *)

AllFaults == {"s3", "net", "api_crash", "part"}

ASSUME Assumption ==
  /\ \A f \in Files : DOMAIN f = {"name", "depth", "size"}
                      /\ f.depth \in Nat /\ f.size \in Nat
  /\ {MIN_PART_SIZE, MAX_CHUNK, MAX_PARTS, MAX_RETRIES} \subseteq Nat \ {0}
  /\ {maxRetries, MaxNumParts, MaxFaults} \subseteq Nat
  /\ Faults \subseteq AllFaults

VARIABLES
  client,   (* where each upload_file is                                    *)
  call,     (* the API's handler of each request                            *)
  upload,   (* S3: the multipart uploads                                    *)
  object,   (* S3: what each key holds                                      *)
  faults    (* history: how many failures hit each session                  *)

vars == <<client, call, upload, object, faults>>

-----------------------------------------------------------------------------
(* How a file is cut into parts.                                           *)

MutantCeilDiv(a, b) == a \div b

CeilDiv(a, b) == (a + b - 1) \div b

Larger(a, b) == IF a > b THEN a ELSE b
Smaller(a, b) == IF a < b THEN a ELSE b

calculate_file_parts(size) ==
  LET cut(chunk) == [num_parts |-> CeilDiv(size, chunk), chunk_size |-> chunk]
      optimal == cut(Larger(MIN_PART_SIZE, Smaller(MAX_CHUNK, size \div 10)))
  IN  IF size <= MIN_PART_SIZE THEN [num_parts |-> 1, chunk_size |-> size]
      ELSE IF optimal.num_parts > MAX_PARTS THEN cut(CeilDiv(size, MAX_PARTS))
      ELSE optimal

-----------------------------------------------------------------------------
(* Keys. "depth" counts the leading "{databankId}/" of a name or key: a    *)
(* file that lies in a directory named like its databank has one before    *)
(* any normalization.                                                      *)

MutantNormalizeKey(f) == [name |-> f.name, depth |-> f.depth]

(* storage-service.ts, for completing and cancelling: add it if missing.   *)
normalizeKey(f) == [name |-> f.name, depth |-> IF f.depth = 0 THEN 1 ELSE f.depth]

(* multipart-upload-service.ts, for creating: add it.                      *)
normalizeFileKey(f) == [name |-> f.name, depth |-> f.depth + 1]

Keys == {normalizeKey(f) : f \in Files} \cup {normalizeFileKey(f) : f \in Files}

-----------------------------------------------------------------------------
Ops == {"create", "complete", "cancel"}

(* The request of session s for op, sent for the n-th time.                *)
Calls == Sessions \X Ops \X (1..MAX_RETRIES)

(* S3 names an upload when it creates it, in the attempt-th try of a call. *)
UploadIds == Sessions \X (1..MAX_RETRIES) \X (0..maxRetries)

Nothing == [by |-> {}, bytes |-> 0]

NewClient(f) == [pc |-> "idle", try |-> 1, upload |-> {}, parts |-> 0,
                 result |-> "none", file |-> f]

NewCall == [pc |-> "none", attempt |-> 0]

Init ==
  /\ client \in [Sessions -> {NewClient(f) : f \in Files}]
  /\ call = [c \in Calls |-> NewCall]
  /\ upload = [u \in UploadIds |-> "none"]
  /\ object = [k \in Keys |-> Nothing]
  /\ faults = [s \in Sessions |-> 0]

File(s) == client[s].file
Cut(s) == calculate_file_parts(File(s).size)

(* What the parts uploaded by session s add up to.                         *)
Content(s) ==
  [by |-> {s},
   bytes |-> Smaller(client[s].parts * Cut(s).chunk_size, File(s).size)]

-----------------------------------------------------------------------------
(* S3, as the repositories use it: an upload is known under the key it was *)
(* created with until it is completed or aborted.                          *)

UploadOf(c) ==
  IF c[2] = "create" THEN <<c[1], c[3], call[c].attempt>>
  ELSE CHOOSE u \in client[c[1]].upload : TRUE

Known(c) ==
  /\ upload[UploadOf(c)] = "open"
  /\ normalizeKey(File(c[1])) = normalizeFileKey(File(c[1]))

Create(c) ==
  /\ c[2] = "create"
  /\ upload' = [upload EXCEPT ![UploadOf(c)] = "open"]
  /\ UNCHANGED object

Complete(c) ==
  /\ c[2] = "complete"
  /\ Known(c)
  /\ upload' = [upload EXCEPT ![UploadOf(c)] = "done"]
  /\ object' = [object EXCEPT ![normalizeKey(File(c[1]))] = Content(c[1])]

MutantAbort(c) == c[2] = "cancel" /\ Known(c) /\ UNCHANGED <<upload, object>>

Abort(c) ==
  /\ c[2] = "cancel"
  /\ Known(c)
  /\ upload' = [upload EXCEPT ![UploadOf(c)] = "aborted"]
  /\ UNCHANGED object

(* A completion that is repeated is answered with NoSuchUpload by MinIO    *)
(* and, at times, with the first answer by AWS.                            *)
CompletedBefore(c) ==
  /\ c[2] = "complete"
  /\ upload[UploadOf(c)] = "done"
  /\ UNCHANGED <<upload, object>>

Execute(c) == Create(c) \/ Complete(c) \/ Abort(c) \/ CompletedBefore(c)

-----------------------------------------------------------------------------
(* The handlers of the API.                                                *)

(* A failure that hits session s.                                          *)
Fault(kind, s) ==
  /\ kind \in Faults
  /\ FoldFunction(LAMBDA m, n : m + n, 0, faults) < MaxFaults
  /\ faults' = [faults EXCEPT ![s] = @ + 1]

(* The total that is checked is the number of parts, at one megabyte each; *)
(* it is checked when the upload exists.                                   *)
AfterCommand(c) ==
  IF c[2] # "create" THEN "ok"
  ELSE IF Cut(c[1]).num_parts > MaxNumParts THEN "error" ELSE "presign"

MutantFailsOnceMore(c) ==
  /\ Fault("s3", c[1])
  /\ \/ /\ call[c].attempt <= maxRetries
        /\ call' = [call EXCEPT ![c].attempt = @ + 1]
     \/ call' = [call EXCEPT ![c].pc = "error"]

MutantFailsSilently(c) ==
  /\ Fault("s3", c[1])
  /\ IF call[c].attempt < maxRetries
     THEN call' = [call EXCEPT ![c].attempt = @ + 1]
     ELSE call' = [call EXCEPT ![c].pc = AfterCommand(c)]

(* withRetry: again after a transient error, until maxRetries.             *)
Fails(c) ==
  /\ Fault("s3", c[1])
  /\ \/ /\ call[c].attempt < maxRetries
        /\ call' = [call EXCEPT ![c].attempt = @ + 1]
     \/ call' = [call EXCEPT ![c].pc = "error"]

(* file-validation.ts: the extension is looked up in a list.               *)
validateDatabankFileType(f) == f.name \in AllowedNames

(* What is answered before S3 is asked: initiateUpload validates the type  *)
(* (the answer is 415), completeUploadSchema wants at least one part.      *)
Rejected(c) ==
  \/ c[2] = "create" /\ ~validateDatabankFileType(File(c[1]))
  \/ c[2] = "complete" /\ client[c[1]].parts = 0

(* ... or by S3: NoSuchUpload, which is not retried.                       *)
Refused(c) == Rejected(c) \/ (c[2] # "create" /\ ~Known(c))

Command(c) ==
  /\ call[c].pc = "send"
  /\ \/ /\ ~Rejected(c)
        /\ \/ /\ Execute(c)
              /\ call' = [call EXCEPT ![c].pc = AfterCommand(c)]
              /\ UNCHANGED faults
           \/ Fails(c) /\ (Execute(c) \/ UNCHANGED <<upload, object>>)
     \/ /\ Refused(c)
        /\ call' = [call EXCEPT ![c].pc = "error"]
        /\ UNCHANGED <<upload, object, faults>>
  /\ UNCHANGED client

(* createPresignedUrlForPart signs locally, part after part.               *)
Presign(c) ==
  /\ call[c].pc = "presign"
  /\ \/ call' = [call EXCEPT ![c].pc = "ok"] /\ UNCHANGED faults
     \/ Fault("s3", c[1]) /\ call' = [call EXCEPT ![c].pc = "error"]
  /\ UNCHANGED <<client, upload, object>>

ApiCrash(c) ==
  /\ Fault("api_crash", c[1])
  /\ call[c].pc \in {"send", "presign"}
  /\ call' = [call EXCEPT ![c].pc = "dead"]
  /\ UNCHANGED <<client, upload, object>>

Handle(c) == Command(c) \/ Presign(c)

-----------------------------------------------------------------------------
(* The uploader.                                                           *)

(* The session goes on as cl and sends the request op for the n-th time.   *)
Ask(s, cl, op, n) ==
  /\ client' = [client EXCEPT ![s] = [cl EXCEPT !.pc = op, !.try = n]]
  /\ call' = [call EXCEPT ![<<s, op, n>>].pc = "send"]

End(s, result) ==
  /\ client' = [client EXCEPT ![s].pc = "done", ![s].result = result]
  /\ UNCHANGED call

initiate_upload(s) ==
  /\ client[s].pc = "idle"
  /\ Ask(s, client[s], "create", 1)
  /\ UNCHANGED <<upload, object, faults>>

MutantFailure(s) == End(s, "failure")

(* An exception of upload_file: once there is a session it is cancelled,   *)
(* and a cancellation that fails is only logged.                           *)
Failure(s) ==
  IF client[s].pc \in {"parts", "complete"}
  THEN Ask(s, client[s], "cancel", 1)
  ELSE End(s, "failure")

Success(s, c) ==
  CASE c[2] = "create" ->
         /\ client' = [client EXCEPT ![s].pc = "parts", ![s].upload = {UploadOf(c)}]
         /\ UNCHANGED call
    [] c[2] = "complete" -> End(s, "success")
    [] c[2] = "cancel" -> End(s, "failure")

Pending(s) == <<s, client[s].pc, client[s].try>>

Answered(s) ==
  /\ client[s].pc \in Ops
  /\ \/ call[Pending(s)].pc = "ok" /\ Success(s, Pending(s))
     \/ call[Pending(s)].pc = "error" /\ Failure(s)
  /\ UNCHANGED <<upload, object, faults>>

MutantDisconnected(s) ==
  /\ client[s].pc \in Ops
  /\ Fault("net", s)
  /\ IF client[s].try < MAX_RETRIES
     THEN Ask(s, client[s], client[s].pc, client[s].try + 1)
     ELSE Failure(s)
  /\ UNCHANGED <<upload, object>>

(* _make_request: the connection breaks, whether or not the request has    *)
(* been, or will be, handled; it is sent again.                            *)
Disconnected(s) ==
  /\ client[s].pc \in Ops
  /\ \/ Fault("net", s)
     \/ call[Pending(s)].pc = "dead" /\ UNCHANGED faults
  /\ IF client[s].try < MAX_RETRIES
     THEN Ask(s, client[s], client[s].pc, client[s].try + 1)
     ELSE Failure(s)
  /\ UNCHANGED <<upload, object>>

(* There is a part left, and something to read for it.                     *)
MoreParts(s) ==
  /\ client[s].parts < Cut(s).num_parts
  /\ client[s].parts * Cut(s).chunk_size < File(s).size

(* Straight to S3 through the presigned URL, and never tried again.        *)
upload_part(s) ==
  /\ client[s].pc = "parts"
  /\ MoreParts(s)
  /\ \/ /\ client' = [client EXCEPT ![s].parts = @ + 1]
        /\ UNCHANGED <<call, faults>>
     \/ Fault("part", s) /\ Failure(s)
  /\ UNCHANGED <<upload, object>>

complete_upload(s) ==
  /\ client[s].pc = "parts"
  /\ ~MoreParts(s)
  /\ Ask(s, client[s], "complete", 1)
  /\ UNCHANGED <<upload, object, faults>>

upload_file(s) ==
  initiate_upload(s) \/ Answered(s) \/ upload_part(s) \/ complete_upload(s)

-----------------------------------------------------------------------------
Next ==
  \/ \E s \in Sessions : upload_file(s) \/ Disconnected(s)
  \/ \E c \in Calls : Handle(c) \/ ApiCrash(c)

Spec == Init /\ [][Next]_vars

(* The uploader and the handlers run; a broken connection is noticed.      *)
FairSpec ==
  /\ Spec
  /\ \A s \in Sessions : WF_vars(upload_file(s) \/ Disconnected(s))
  /\ \A c \in Calls : WF_vars(Handle(c))

-----------------------------------------------------------------------------
UploadStates == {"none", "open", "done", "aborted"}

(* Every variable has its type; a session that got an upload has one.      *)
TypeOK ==
  /\ client \in [Sessions ->
       [pc : Ops \cup {"idle", "parts", "done"}, try : 1..MAX_RETRIES,
        upload : SUBSET UploadIds, parts : Nat,
        result : {"none", "success", "failure"}, file : Files]]
  /\ \A s \in Sessions : client[s].pc \in {"parts", "complete", "cancel"} =>
                           \E u \in UploadIds : client[s].upload = {u}
  /\ call \in [Calls -> [pc : {"none", "send", "presign", "ok", "error", "dead"},
                         attempt : 0..maxRetries]]
  /\ upload \in [UploadIds -> UploadStates]
  /\ object \in [Keys -> [by : SUBSET Sessions, bytes : Nat]]
  /\ faults \in [Sessions -> Nat]

(* What a key holds is a whole file that belongs under it, and of a type   *)
(* that the API accepts.                                                   *)
StoredWhole ==
  \A k \in Keys : \A s \in object[k].by :
    /\ object[k].bytes = File(s).size
    /\ normalizeFileKey(File(s)) = k
    /\ validateDatabankFileType(File(s))

(* An upload_file that succeeded has its upload completed, and its key     *)
(* holds what some session has put there.                                  *)
SuccessIsStored ==
  \A s \in Sessions :
    client[s].result = "success" =>
      /\ \A u \in client[s].upload : upload[u] = "done"
      /\ object[normalizeKey(File(s))].by # {}

(* A cancellation that was answered with success is final: no request that *)
(* is still on its way makes a file of the upload.                         *)
CancelledStaysCancelled ==
  \A s \in Sessions, n \in 1..MAX_RETRIES :
    call[<<s, "cancel", n>>].pc = "ok" =>
      \A u \in client[s].upload : upload[u] = "aborted"

(* upload_file leaves no open upload behind when it fails after no failure *)
(* once it has got its upload.                                             *)
FailureIsCancelled ==
  \A s \in Sessions :
    client[s].result = "failure" /\ faults[s] = 0 =>
      \A u \in client[s].upload : upload[u] = "aborted"

(* After no failure a file is uploaded, unless it is empty or the API      *)
(* refuses it for its size or its type.                                    *)
CleanSucceeds ==
  \A s \in Sessions :
    client[s].result = "failure" /\ faults[s] = 0 =>
      \/ File(s).size = 0
      \/ Cut(s).num_parts > MaxNumParts
      \/ ~validateDatabankFileType(File(s))

(* upload_file comes back, whatever fails.                                 *)
UploadEnds == \A s \in Sessions : <>(client[s].pc = "done")

=============================================================================
