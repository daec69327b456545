---------------------------- MODULE ApiRequests ----------------------------
(***************************************************************************)
(* The requests of routes/databanks-routes.ts and routes/assets-routes.ts  *)
(* for the files of one databank, from the first middleware to the answer: *)
(* who is let through (AccessGate), what is asked of the storage (Storage) *)
(* and of DuckDB, and what the caller is told. Requests run side by side;  *)
(* between two steps of one, others and the outside world go on.           *)
(*                                                                         *)
(* Uploads and jobs have modules of their own; here completing an upload   *)
(* is one command.                                                         *)
(***************************************************************************)
EXTENDS AccessRights, Storage

CONSTANTS
  Requests,
  NoConn,      (* undefined                                                 *)
  ZipKey, ReportKey,
  Scenarios,   (* what may be asked for, where: [config, item, acl, bucket, *)
               (* spent, asks], spent of MaxChanges being used up before; a *)
               (* request without an ask never comes                        *)
  MaxFaults,   (* bound: how often a service fails                          *)
  MaxChanges   (* bound: how often rights change, or a worker uploads       *)

ASSUME ApiAssumption ==
  /\ NoConn \notin Requests
  /\ MaxFaults \in Nat /\ MaxChanges \in Nat

VARIABLES
  request,     (* where each request is                                     *)
  conn,        (* this.conn of DuckDBS3: the connection of a request        *)
  configured,  (* the requests whose connections have their settings        *)
  faults, changes

vars == <<gateVars, bucket, request, conn, configured, faults, changes>>
duckVars == <<conn, configured>>

-----------------------------------------------------------------------------
(* The routes: whether they authenticate, the roles they let in, the gate  *)
(* that asks for the databank.                                             *)
Guarded(roles, gate) == [auth |-> TRUE, roles |-> roles, gate |-> gate]
Public == [auth |-> FALSE, roles |-> {}, gate |-> "none"]

Anyone == {"provider", "consumer"}

Route ==
  [list        |-> Guarded(Anyone, "item"),
   listAll     |-> Guarded(Anyone, "item"),
   preview     |-> Guarded(Anyone, "item"),
   parquet     |-> Guarded(Anyone, "item"),
   download    |-> Guarded(Anyone, "read"),
   presign     |-> Guarded(Anyone, "read"),
   access      |-> Guarded(Anyone, "read"),
   zip         |-> Guarded(Anyone, "read"),
   delete      |-> Guarded(Anyone, "owner"),
   complete    |-> Guarded({"provider"}, "owner"),
   metadata    |-> Public,
   report      |-> Public,
   assetUpload |-> Guarded(Anyone \cup {"admin"}, "none"),
   assetLink   |-> Guarded({"provider", "admin"}, "none")]

Reading == {"preview", "parquet", "download", "metadata", "zip", "report",
            "assetLink"}
Writing == {"complete", "assetUpload"}

(* The object that a request is about.                                     *)
Target(a) ==
  CASE a.route = "zip" -> ZipKey
    [] a.route = "report" -> ReportKey
    [] a.route \in {"assetUpload", "assetLink"} -> <<"assets">> \o a.key
    [] OTHER -> NormalizeKey(a.key)

-----------------------------------------------------------------------------
Ask == [route : DOMAIN Route, user : Users, max : Nat \ {0}, key : Seq(STRING),
        body : {"good", "bad", "large", "type"}]

(* A key names one object: the databank has no folder of its own name, and *)
(* no key that leaves the databank's name out is that of another object.   *)
Named(a) ==
  LET withIt == IsPrefix(<<Databank>>, a.key) /\ Len(a.key) > 1
  IN  /\ a.route \in {"assetUpload", "assetLink"} => <<"assets">> \o a.key \in Objects
      /\ a.route \in {"preview", "parquet", "download", "presign", "metadata",
                      "delete", "complete"} =>
           /\ a.key \in Objects <=> withIt
           /\ <<Databank>> \o a.key \in Objects <=> ~withIt

(* The ACL service has grants for users whom a token names.                *)
ASSUME ScenarioAssumption ==
  /\ {ZipKey, ReportKey} \subseteq Objects
  /\ \A s \in Scenarios :
       /\ s.config \in Config /\ s.item \in Item
       /\ s.acl \subseteq {u \in Users : ExtractUserInfo(u)}
       /\ s.bucket \subseteq Objects /\ s.spent \in 0..MaxChanges
       /\ \A r \in DOMAIN s.asks : s.asks[r] \in Ask /\ Named(s.asks[r])

(* always, ever: the objects that were there all the time, or at some time, *)
(* since the request came; hit, shaken: whether meanwhile a service failed *)
(* or another parquet preview ran, and whether rights changed.             *)
NewRequest(asks, r) ==
  [ask |-> IF r \in DOMAIN asks THEN {asks[r]} ELSE {}, pc |-> "new",
   status |-> 0, passed |-> FALSE, acted |-> FALSE,
   walk |-> Start(<<Databank>>), via |-> NoConn,
   always |-> {}, ever |-> {}, hit |-> FALSE, shaken |-> FALSE]

Init ==
  \E s \in Scenarios :
    /\ config = s.config /\ item = s.item /\ acl = s.acl
    /\ bucket = s.bucket
    /\ request = [r \in Requests |-> NewRequest(s.asks, r)]
    /\ conn = NoConn /\ configured = {}
    /\ faults = 0 /\ changes = s.spent

AskOf(r) == CHOOSE a \in request[r].ask : TRUE

Over == {"answered", "hung"}
Active(r) == request[r].pc \notin Over \cup {"new"}

At(r, pcs) == request[r].pc \in pcs

-----------------------------------------------------------------------------
(* How a request goes on. Every step of one is a step of all, for what the *)
(* others see of it: fails is whether a service failed in it.              *)
Answered(q, status) == [q EXCEPT !.pc = "answered", !.status = status]

StepTo(r, q, fails) ==
  /\ faults + (IF fails THEN 1 ELSE 0) <= MaxFaults
  /\ faults' = faults + (IF fails THEN 1 ELSE 0)
  /\ request' = [p \in Requests |->
       LET next == IF p = r THEN q ELSE request[p]
       IN  IF Active(p)
           THEN [next EXCEPT !.always = @ \cap bucket', !.ever = @ \cup bucket',
                             !.hit = @ \/ fails]
           ELSE next]

(* A step that leaves bucket and connections as they are.                  *)
Goes(r, q, fails) ==
  UNCHANGED <<gateVars, bucket, duckVars, changes>> /\ StepTo(r, q, fails)

First(statuses) ==
  LET bad == {i \in DOMAIN statuses : statuses[i] # 0}
  IN  IF bad = {} THEN 0 ELSE statuses[Min(bad)]

-----------------------------------------------------------------------------
(* Middleware                                                              *)

FileUpload(a) ==
  CASE a.route = "assetUpload" /\ a.body = "large" -> 413
    [] a.route = "assetUpload" /\ a.body = "type" -> 415
    [] OTHER -> 0

Before(a) ==
  IF ~Route[a.route].auth THEN 0
  ELSE First(<<Authenticate(a.user), FileUpload(a),
               Authorize(a.user, Route[a.route].roles)>>)

ValidateBody(a) == IF a.body = "bad" THEN 400 ELSE 0

(* Credentials are for a user; an asset is its owner's, or an admin's.     *)
HandlerChecks(a) ==
  CASE a.route = "access" /\ ~config.auth -> 400
    [] a.route = "assetLink" /\ ~(config.auth /\ \/ "admin" \in Roles[a.user]
                                                 \/ Head(a.key) = a.user) -> 403
    [] OTHER -> 0

(* The verdict of a gate; a request that passed it comes to its handler,   *)
(* and past the handler's checks to its work.                              *)
Judged(q, a, verdict) ==
  LET refused == First(<<ValidateBody(a), HandlerChecks(a)>>)
  IN  CASE verdict.to = "pass" -> IF refused # 0 THEN Answered(q, refused)
                                  ELSE [q EXCEPT !.passed = TRUE, !.pc = "work"]
        [] verdict.to = "refuse" -> Answered(q, verdict.status)
        [] OTHER -> [q EXCEPT !.pc = verdict.to]

Enter(r) ==
  /\ At(r, {"new"}) /\ request[r].ask # {}
  /\ LET a == AskOf(r)
         q == [request[r] EXCEPT !.always = bucket, !.ever = bucket,
                !.walk = Start(NormalizePrefix(a.key))]
     IN  Goes(r, IF Before(a) # 0 THEN Answered(q, Before(a))
                 ELSE Judged(q, a, FirstQuestion(Route[a.route].gate)), FALSE)

(* The continuation of a question to the catalogue.                        *)
AskCatalogue(r) ==
  /\ At(r, {"item", "read", "owner"})
  /\ \E fails \in BOOLEAN : \E reply \in Replies(fails) :
       LET a == AskOf(r)
           verdict == CASE At(r, {"item"}) -> CheckItemAccess(reply)
                        [] At(r, {"owner"}) -> CheckIsOwner(a.user, reply)
                        [] OTHER -> CheckItemAccessWithDatabankAccess(a.user, reply)
       IN  Goes(r, Judged(request[r], a, verdict), fails)

AskAcl(r) ==
  /\ At(r, {"acl"})
  /\ \E fails \in BOOLEAN :
       Goes(r, Judged(request[r], AskOf(r), DatabankAccess(AskOf(r).user, fails)),
            fails)

-----------------------------------------------------------------------------
(* What errors become. The storage has its own for an object that is not   *)
(* there; of its failures only the text counts, off which                  *)
(* toApplicationError and errorHandler read the status.                    *)

NotThere == IF config.provider = "aws" THEN "NoSuchKey" ELSE "S3Error"
Failures == {"unavailable", "no such host", "permission denied", "token expired"}

MutantStatusOf(error) == IF error = "token expired" THEN 401 ELSE 0

StatusOf(error) ==
  CASE error \in {"File not found", "no such host"} -> 404
    [] error = "permission denied" -> 403
    [] error = "token expired" -> 401
    [] OTHER -> 500

-----------------------------------------------------------------------------
(* Handlers                                                                *)

Handling(r, routes) == At(r, {"work"}) /\ AskOf(r).route \in routes

(* What a handler does with its request: answer it, or wait for a service. *)
Acting(r) == [request[r] EXCEPT !.acted = TRUE]
Says(r, status) == Answered(Acting(r), status)
To(r, pc) == [Acting(r) EXCEPT !.pc = pc]

Throws(r) == \E e \in Failures : Goes(r, Says(r, StatusOf(e)), TRUE)

(* A command about the object that is found, or is not.                    *)
Asks(r, found, missing) ==
  IF Target(AskOf(r)) \in bucket THEN Goes(r, found, FALSE)
                                 ELSE Goes(r, missing, FALSE)

(* Of getObjectDetails and getAssetDetails, which answer null for the one  *)
(* error they know.                                                        *)
Details(r, found, null, thrown) ==
  Asks(r, found, IF NotThere = "NoSuchKey" THEN null ELSE Says(r, thrown))

Metadata(r) ==
  /\ Handling(r, {"metadata"})
  /\ Details(r, Says(r, 200), Says(r, 404), StatusOf(NotThere)) \/ Throws(r)

(* getObject, and getPartialObject for previews that need no more.         *)
Opens(r, found, missing) ==
  Asks(r, found, Says(r, StatusOf(missing))) \/ Throws(r)

(* S3 answers with a stream, MinIO's repository reads the whole of it.     *)
GetObject(r) ==
  Opens(r, IF config.provider = "aws" THEN To(r, "stream") ELSE Says(r, 200), NotThere)

Download(r) == Handling(r, {"download"}) /\ GetObject(r)

(* Nobody listens for errors of a stream that is piped into an answer.     *)
Pipe(r) ==
  /\ At(r, {"stream"}) /\ AskOf(r).route = "download"
  /\ Goes(r, Says(r, 200), FALSE) \/ Goes(r, To(r, "hung"), TRUE)

(* previewFile knows NoSuchKey. A parquet file is looked up like any other *)
(* and then read by DuckDB.                                                *)
PreviewError == IF NotThere = "NoSuchKey" THEN "File not found" ELSE NotThere

PreviewFile(r) ==
  Opens(r, To(r, IF AskOf(r).route = "preview" THEN "stream" ELSE "create"),
        PreviewError)

Preview(r) == Handling(r, {"preview", "parquet"}) /\ PreviewFile(r)

MutantRejects(r) == Goes(r, To(r, "hung"), TRUE)

(* The stream, or the parser of its content, fails.                        *)
Rejects(r) == Throws(r)

ProcessFile(r) == Goes(r, Says(r, 200), FALSE) \/ Rejects(r)

(* A JSON file that cannot be read has an answer without a preview.        *)
ProcessJSON(r) == \E fails \in BOOLEAN : Goes(r, Says(r, 200), fails)

Parse(r) ==
  /\ At(r, {"stream"}) /\ AskOf(r).route = "preview"
  /\ ProcessFile(r) \/ ProcessJSON(r)

(* A failure to look for the archive, or for the report, is a failed link. *)
CheckZip(r) ==
  /\ Handling(r, {"zip"})
  /\ Asks(r, To(r, "sign"), Says(r, 404)) \/ Goes(r, Says(r, 500), TRUE)

CheckReport(r) ==
  /\ Handling(r, {"report"})
  /\ Asks(r, To(r, "sign"), Says(r, 404)) \/ Goes(r, Says(r, 500), TRUE)

(* An error is taken for an asset that is not there, null is not looked at. *)
CheckAsset(r) ==
  /\ Handling(r, {"assetLink"})
  /\ \/ Details(r, To(r, "sign"), To(r, "sign"), 404)
     \/ Goes(r, Says(r, 404), TRUE)

(* Signing is local, and needs no object.                                  *)
Signs(r) == Goes(r, Says(r, 200), FALSE)

SignLink(r) ==
  /\ At(r, {"sign"}) /\ AskOf(r).route # "assetLink"
  /\ Signs(r) \/ Goes(r, Says(r, 500), TRUE)

SignAsset(r) ==
  At(r, {"sign"}) /\ AskOf(r).route = "assetLink" /\ (Signs(r) \/ Throws(r))

Presign(r) == Handling(r, {"presign"}) /\ (Signs(r) \/ Throws(r))

(* Credentials come from STS.                                              *)
AssumeRole(r) == Goes(r, Says(r, 200), FALSE) \/ Throws(r)

QueryAccess(r) == Handling(r, {"access"}) /\ AssumeRole(r)

(* A command that writes. One that fails may have been carried out.        *)
Writes(r, command, status) ==
  /\ UNCHANGED <<gateVars, duckVars, changes>>
  /\ \/ command /\ StepTo(r, Says(r, status), FALSE)
     \/ /\ command \/ UNCHANGED bucket
        /\ \E e \in Failures : StepTo(r, Says(r, StatusOf(e)), TRUE)

DeleteFile(r) ==
  Handling(r, {"delete"}) /\ Writes(r, Delete(Target(AskOf(r))), 200)

Complete(r) ==
  Handling(r, {"complete"}) /\ Writes(r, Put(Target(AskOf(r))), 200)

UploadAsset(r) ==
  Handling(r, {"assetUpload"}) /\ Writes(r, Put(Target(AskOf(r))), 201)

-----------------------------------------------------------------------------
(* Listings                                                                *)

Listing(r) == Handling(r, {"list", "listAll"})

PagePrefix(r) == Head(request[r].walk.todo).prefix

Listed(r, page) ==
  LET walk == AfterPage(request[r].walk, page)
      q    == [Acting(r) EXCEPT !.walk = walk]
  IN  IF AskOf(r).route = "list" \/ walk.todo = <<>> THEN Answered(q, 200) ELSE q

ListAws(r) ==
  /\ Listing(r) /\ config.provider = "aws"
  /\ Goes(r, Listed(r, AwsPage(PagePrefix(r), Head(request[r].walk.todo).token,
                               AskOf(r).max)), FALSE)

ListMinio(r) ==
  /\ Listing(r) /\ config.provider = "minio"
  /\ \/ /\ MinioEnds(PagePrefix(r), AskOf(r).max)
        /\ Goes(r, Listed(r, MinioPage(PagePrefix(r))), FALSE)
     \/ /\ MinioHangs(PagePrefix(r), AskOf(r).max)
        /\ Goes(r, [Acting(r) EXCEPT !.pc = "hung"], FALSE)

ListFails(r) == Listing(r) /\ Throws(r)

-----------------------------------------------------------------------------
(* repositories/duckdb.ts: a connection for each parquet preview, in one   *)
(* field of the service. The field has the new one before it is set up,    *)
(* and a preview goes on with what the field has when its own is.          *)

Duck(r, q, fails) ==
  UNCHANGED <<gateVars, bucket, changes>> /\ StepTo(r, q, fails)

(* Previews that overlap are marked, as if a service had failed.           *)
Overlaps(q, r) ==
  [q EXCEPT !.hit = @ \/ \E p \in Requests \ {r} :
                            At(p, {"create", "configure", "schema", "rows"})]

CreateConnection(r) ==
  /\ At(r, {"create"})
  /\ conn' = r /\ UNCHANGED configured
  /\ Duck(r, Overlaps([request[r] EXCEPT !.pc = "configure"], r), FALSE)

(* A failure is swallowed. getParquetPreview tries once more if there has  *)
(* never been a connection.                                                *)
CreateFails(r) ==
  /\ At(r, {"create"})
  /\ \/ /\ conn # NoConn
        /\ Duck(r, [request[r] EXCEPT !.pc = "schema", !.via = conn], TRUE)
     \/ conn = NoConn /\ Duck(r, request[r], TRUE)
     \/ conn = NoConn /\ Duck(r, Answered(request[r], 500), TRUE)
  /\ UNCHANGED duckVars

Configure(r) ==
  /\ At(r, {"configure"})
  /\ UNCHANGED conn
  /\ \E fails \in BOOLEAN :
       /\ configured' = IF fails THEN configured ELSE configured \cup {r}
       /\ Duck(r, Overlaps([request[r] EXCEPT !.pc = "schema", !.via = conn], r),
               fails)

(* DuckDB reads the key as it was sent, below the databank. Its own "Not   *)
(* Found" is taken for a missing file.                                     *)
ParquetPath(a) == <<Databank>> \o a.key

Refusals(r) ==
  CASE config.provider # "aws" -> {404, 500}
    [] config.provider = "aws" /\ request[r].via \notin configured -> {500}
    [] OTHER -> IF ParquetPath(AskOf(r)) \in bucket THEN {} ELSE {404}

Query(r) ==
  /\ At(r, {"schema", "rows"})
  /\ \/ /\ Refusals(r) = {}
        /\ Goes(r, IF At(r, {"schema"}) THEN [request[r] EXCEPT !.pc = "rows"]
                   ELSE Answered(request[r], 200), FALSE)
     \/ \E status \in Refusals(r) : Goes(r, Answered(request[r], status), FALSE)
     \/ Goes(r, Answered(request[r], 500), TRUE)

-----------------------------------------------------------------------------
(* The outside world, where it makes a difference: while a request runs.   *)

Change ==
  /\ \E r \in Requests : Active(r)
  /\ changes < MaxChanges /\ changes' = changes + 1
  /\ UNCHANGED <<duckVars, faults>>

Shaken == [r \in Requests |-> [request[r] EXCEPT !.shaken = @ \/ ~At(r, {"new"})]]

RightsChange ==
  /\ Change
  /\ CatalogueChanges \/ GrantChanges
  /\ request' = Shaken /\ UNCHANGED bucket

(* A worker puts an archive or a report in place.                          *)
WorkerUploads ==
  /\ Change
  /\ \E o \in {ZipKey, ReportKey} : Put(o)
  /\ request' = [r \in Requests |->
                   IF Active(r) THEN [request[r] EXCEPT !.ever = @ \cup bucket']
                                ELSE request[r]]
  /\ UNCHANGED gateVars

Step(r) ==
  \/ Enter(r) \/ AskCatalogue(r) \/ AskAcl(r)
  \/ Metadata(r) \/ Download(r) \/ Pipe(r) \/ Preview(r) \/ Parse(r)
  \/ CheckZip(r) \/ CheckReport(r) \/ CheckAsset(r) \/ SignLink(r)
  \/ SignAsset(r) \/ Presign(r) \/ QueryAccess(r) \/ DeleteFile(r) \/ Complete(r)
  \/ UploadAsset(r)
  \/ ListAws(r) \/ ListMinio(r) \/ ListFails(r)
  \/ CreateConnection(r) \/ CreateFails(r) \/ Configure(r) \/ Query(r)

(* Every request that came is answered, or its answer never ends.          *)
Finished ==
  /\ \A r \in Requests : request[r].ask = {} \/ At(r, Over)
  /\ UNCHANGED vars

Next ==
  \/ \E r \in Requests : Step(r)
  \/ RightsChange \/ WorkerUploads \/ Finished

Spec == Init /\ [][Next]_vars

-----------------------------------------------------------------------------
Statuses == {200, 201, 400, 401, 403, 404, 413, 415, 500, 503}

TypeOK ==
  /\ config \in Config /\ item \in Item /\ acl \subseteq Users
  /\ bucket \subseteq Objects
  /\ conn \in Requests \cup {NoConn} /\ configured \subseteq Requests
  /\ faults \in 0..MaxFaults /\ changes \in 0..MaxChanges
  /\ \A r \in Requests :
       /\ At(r, {"new", "item", "read", "acl", "owner", "work", "stream", "sign",
                 "create", "configure", "schema", "rows"} \cup Over)
       /\ request[r].status \in (IF At(r, {"answered"}) THEN Statuses ELSE {0})
       /\ request[r].always \subseteq Objects /\ request[r].ever \subseteq Objects
       /\ request[r].via \in Requests \cup {NoConn}

-----------------------------------------------------------------------------
(* The gates implement AccessGrant, for the rights of AccessRights.        *)
Entitled(r) == request[r].ask # {} => MayPass(AskOf(r))

Grants == INSTANCE AccessGrant WITH
  right <- [r \in Requests |-> Entitled(r)],
  granted <- {r \in Requests : request[r].passed},
  acted <- {r \in Requests : request[r].acted}

(* Whatever the catalogue and the ACL service say, fail to say or change   *)
(* between two questions, a request comes to its work at an instant at     *)
(* which its caller may have it carried out, by the documents and the four *)
(* departures from them, and the storage, DuckDB, signatures and           *)
(* credentials are for requests that came to their work.                   *)
ImplementsGrant == Grants!Spec

-----------------------------------------------------------------------------
Is(r, pcs, routes) == At(r, pcs) /\ AskOf(r).route \in routes

Told(r, statuses) == At(r, {"answered"}) /\ request[r].status \in statuses

(* The object that the caller means: a key may name the databank, or not.  *)
Meant(a) ==
  IF Route[a.route].gate = "none" \/ a.route \in {"zip", "report"} THEN Target(a)
  ELSE CHOOSE o \in Objects : o \in {a.key, <<Databank>> \o a.key}

Throughout(r) == Meant(AskOf(r)) \in request[r].always
Sometime(r) == Meant(AskOf(r)) \in request[r].ever

(* A parquet preview that DuckDB cannot read: its settings are S3's, its   *)
(* path takes no key that names the databank.                              *)
Unreadable(a) ==
  a.route = "parquet" /\ (config.provider # "aws" \/ ParquetPath(a) # Meant(a))

(* openapi.ts (399, 439, 483, 539, 790, 871, 911) promises 404 for an      *)
(* object that is not there. What the code says instead: success, where it *)
(* deletes or signs without a look (null is a look that AWS's asset link   *)
(* ignores), and an error of the server, where the storage's error is not  *)
(* known for what it is.                                                   *)
Sought == Reading \cup {"delete", "presign"}

Unlooked(a) ==
  \/ a.route \in {"delete", "presign"}
  \/ a.route = "assetLink" /\ config.provider = "aws"

Unrecognized(a) ==
  \/ a.route = "download"
  \/ a.route \in {"preview", "parquet", "metadata"} /\ config.provider # "aws"

WhenMissing(a) == CASE Unlooked(a) -> 200 [] Unrecognized(a) -> 500 [] OTHER -> 404

(* The caller is told the truth about the object, unless a service failed  *)
(* or parquet previews overlapped: that it is missing if it never was      *)
(* there while the request ran, in the documented way or one of those      *)
(* above; read, signed or stored only if it was there, deleted only if it  *)
(* was gone, missing or an error of the server only if it was missing.     *)
AnswersAreTrue ==
  \A r \in Requests :
    At(r, {"answered"}) /\ request[r].passed /\ ~request[r].hit =>
      LET a == AskOf(r)
      IN  /\ a.route \in (Reading \ {"assetLink"}) \cup Writing =>
               (Told(r, {200, 201}) => Sometime(r))
          /\ a.route = "delete" => (Told(r, {200}) => ~Throughout(r))
          /\ Told(r, {404, 500}) =>
               a.route \in Reading /\ (~Throughout(r) \/ Unreadable(a))
          /\ a.route \in Sought =>
               (Sometime(r) \/ request[r].status = WhenMissing(a))

(* A recursive listing names every file that was below its prefix all the  *)
(* time, once, and none that never was, across pages and folders, while    *)
(* files come and go; so does a plain one for a folder that fits a page.   *)
ListingIsExact ==
  \A r \in Requests :
    Is(r, {"answered"}, {"list", "listAll"}) /\ Told(r, {200})
        /\ config.provider = "aws" =>
      LET a      == AskOf(r)
          prefix == NormalizePrefix(a.key)
          found  == request[r].walk.found
          due    == {o \in Below(prefix) :
                       ~IsFolder(o) /\ (a.route = "list" => Len(o) = Len(prefix) + 1)}
      IN  /\ \A o \in Objects : found[o] > 0 => o \in due \cap request[r].ever
          /\ \A o \in Objects : found[o] <= 1
          /\ a.route = "listAll"
               \/ Cardinality({Entry(prefix, o) : o \in request[r].ever \cap Below(prefix)})
                    <= a.max
             => \A o \in due \cap request[r].always : found[o] = 1

(* A caller who has the right, and sends what the route asks for, about an *)
(* object that is there in a databank that is listed, succeeds, unless a   *)
(* service fails, rights change or parquet previews overlap.               *)
CleanRequestSucceeds ==
  \A r \in Requests :
    /\ At(r, {"answered"}) /\ Entitled(r) /\ item.listed
    /\ ~request[r].hit /\ ~request[r].shaken
    /\ AskOf(r).body = "good" /\ HandlerChecks(AskOf(r)) = 0
    /\ AskOf(r).route \in Reading => Throughout(r)
    /\ ~Unreadable(AskOf(r))
    => Told(r, {200, 201})

(* Only a download whose object breaks off, or a listing of MinIO that     *)
(* reaches maxKeys, is left without an end.                                *)
HangsAreKnown ==
  \A r \in Requests :
    At(r, {"hung"}) =>
      \/ Is(r, {"hung"}, {"download"}) /\ request[r].hit
      \/ /\ Is(r, {"hung"}, {"list", "listAll"}) /\ config.provider = "minio"
         /\ Cardinality(request[r].ever \cap Below(<<Databank>>)) >= AskOf(r).max

=============================================================================
