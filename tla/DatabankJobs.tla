---------------------------- MODULE DatabankJobs ----------------------------
(***************************************************************************)
(* What a worker does between taking a job and giving its verdict:         *)
(* process_zip_job of workers/zip-worker/zip_processor.py and              *)
(* process_readiness_job of workers/report-worker/readiness_processor.py.  *)
(*                                                                         *)
(* Both look whether the databank is there, walk its listing page by page, *)
(* fetch file after file, and put one object in place: the archive or the  *)
(* report. The jobs are those of one databank. Clients go on writing and   *)
(* deleting its files meanwhile, and two zip workers may work on it at     *)
(* once. Every S3 command is one step.                                     *)
(***************************************************************************)
EXTENDS Naturals, FiniteSetsExt

CONSTANTS
  Jobs,        (* the jobs of the databank, each with a worker of its own   *)
  Keys,        (* keys that begin with the databank's id, in S3's order     *)
  Own,         (* ... those that begin with the id and a slash              *)
  Markers,     (* ... those that end in a slash                             *)
  PageSize,    (* the most keys of one page of a listing                    *)
  MaxVersion,  (* bound: the most changes of one key                        *)
  Faults       (* which of AllFaults may happen                             *)

AllFaults == {"s3", "catalogue", "crash"}

ASSUME Assumption ==
  /\ Keys \subseteq Nat \ {0} /\ IsFiniteSet(Keys)
  /\ Own \cup Markers \subseteq Keys
  /\ PageSize \in Nat \ {0}
  /\ MaxVersion \in Nat \ {0}
  /\ Faults \subseteq AllFaults

VARIABLES
  bucket,     (* how often each key changed: it holds a file iff that is odd *)
  artefact,   (* the archive and the report, as last uploaded               *)
  catalogue,  (* the databank's entry in the catalogue                      *)
  job         (* where each job is                                          *)

vars == <<bucket, artefact, catalogue, job>>

-----------------------------------------------------------------------------
Holds(version) == version % 2 = 1

Present == {k \in Keys : Holds(bucket[k])}

(* The files of the databank: a worker skips what ends in a slash.         *)
Files == Own \ Markers

Empty == [k \in Keys |-> 0]

(* What a process_*_job has in its hands.                                  *)
NewWalk == [cursor |-> 0, page |-> {}, more |-> TRUE, content |-> Empty]

NewJob(type) ==
  [type |-> type, pc |-> "waiting", walk |-> NewWalk, base |-> Empty,
   overlaps |-> {}, published |-> FALSE, hit |-> FALSE]

Types == {"zip", "report"}

Running(j) == job[j].pc \notin {"waiting", "ok", "bad", "killed"}

Init ==
  /\ bucket \in [Keys -> {0, 1}]
  /\ artefact = [t \in Types |-> [by |-> {}, content |-> Empty]]
  /\ catalogue = [fileSize |-> {}, active |-> {}]
  /\ job \in [Jobs -> {NewJob(t) : t \in Types}]

Fault(kind) == kind \in Faults

(* Job j goes on to pc with this walk.                                     *)
Goes(j, pc, walk) == job' = [job EXCEPT ![j].pc = pc, ![j].walk = walk]

(* Its function returns, or dies; hit says that a failure was the reason.  *)
Ends(j, pc, hit) ==
  job' = [job EXCEPT ![j].pc = pc, ![j].walk = NewWalk, ![j].hit = hit]

-----------------------------------------------------------------------------
(* The clients: an upload completes, a file is deleted. (Folder markers    *)
(* are made with S3's own tools; they are there from the start, or never.) *)

Write(k) ==
  LET version == bucket[k] + (IF Holds(bucket[k]) THEN 2 ELSE 1)
  IN  /\ version <= MaxVersion
      /\ bucket' = [bucket EXCEPT ![k] = version]
      /\ UNCHANGED <<artefact, catalogue, job>>

Delete(k) ==
  /\ Holds(bucket[k])
  /\ bucket[k] < MaxVersion
  /\ bucket' = [bucket EXCEPT ![k] = @ + 1]
  /\ UNCHANGED <<artefact, catalogue, job>>

-----------------------------------------------------------------------------
MutantFolderExists == Cardinality(Present) > 1

(* A listing of one key. The comparison with the folder itself is never    *)
(* true, as the id has no slash at its end: a folder marker is content.    *)
FolderExists == Present # {}

(* Job j starts as pc, beside those of its kind that are running.          *)
Begins(j, pc, hit) ==
  LET others == {i \in Jobs \ {j} : Running(i) /\ job[i].type = job[j].type}
      started == [job[j] EXCEPT !.pc = pc, !.base = bucket,
                                !.overlaps = others, !.hit = hit]
  IN  job' = [i \in Jobs |->
                IF i = j THEN started
                ELSE IF i \in others THEN [job[i] EXCEPT !.overlaps = @ \cup {j}]
                ELSE job[i]]

(* A worker takes the job, and looks whether the folder is there.          *)
Start(j) ==
  /\ job[j].pc = "waiting"
  /\ \/ FolderExists /\ Begins(j, "list", FALSE)
     \/ ~FolderExists /\ Begins(j, "bad", FALSE)
     \/ Fault("s3") /\ Begins(j, "bad", TRUE)
  /\ UNCHANGED <<bucket, artefact, catalogue>>

-----------------------------------------------------------------------------
(* The walk.                                                               *)

After(cursor) == {k \in Present : k > cursor}

(* list_objects_v2: the first PageSize keys after the cursor.              *)
Page(cursor) ==
  {k \in After(cursor) :
     Cardinality({i \in After(cursor) : i <= k}) <= PageSize}

MutantAfterFile(j, walk) ==
  IF walk.page # {} THEN "fetch"
  ELSE IF job[j].type = "zip" THEN "upload" ELSE "framework"

(* The next file of the page, the next page, or what follows the walk.     *)
AfterFile(j, walk) ==
  IF walk.page # {} THEN "fetch"
  ELSE IF walk.more THEN "list"
  ELSE IF job[j].type = "zip" THEN "upload" ELSE "framework"

NextCursor(cursor, page) == IF page = {} THEN cursor ELSE Max(page)

ListPage(j) ==
  /\ job[j].pc = "list"
  /\ LET page == Page(job[j].walk.cursor)
         walk == [job[j].walk EXCEPT !.cursor = NextCursor(@, page),
                                     !.page = page \ Markers,
                                     !.more = page # After(job[j].walk.cursor)]
     IN  \/ Goes(j, AfterFile(j, walk), walk)
         \/ Fault("s3") /\ Ends(j, "bad", TRUE)
  /\ UNCHANGED <<bucket, artefact, catalogue>>

MutantReadable(k) == TRUE

Readable(k) == k \in Present

(* get_object and download_file give what the key holds by then; a key     *)
(* that holds nothing any more raises NoSuchKey. A file may also be lost   *)
(* on the way, or be a zip file that cannot be extracted.                  *)
Fetch(j) ==
  /\ job[j].pc = "fetch"
  /\ LET k == Min(job[j].walk.page)
         walk == [job[j].walk EXCEPT !.page = @ \ {k}, !.content[k] = bucket[k]]
     IN  \/ Readable(k) /\ Goes(j, AfterFile(j, walk), walk)
         \/ ~Readable(k) /\ Ends(j, "bad", FALSE)
         \/ Fault("s3") /\ Ends(j, "bad", TRUE)
  /\ UNCHANGED <<bucket, artefact, catalogue>>

-----------------------------------------------------------------------------
(* What is done with the files.                                            *)

Put(j) ==
  artefact' = [artefact EXCEPT ![job[j].type] =
                 [by |-> {j}, content |-> job[j].walk.content]]

(* An uploaded archive has its size told to the catalogue.                 *)
Uploaded(j) ==
  job' = [job EXCEPT ![j].pc = IF job[j].type = "zip" THEN "update" ELSE "ok",
                     ![j].walk = NewWalk,
                     ![j].published = TRUE]

MutantUploadFailed(j) == Uploaded(j)

(* An upload_file that fails, with the object in place or not: the archive *)
(* is given up, the report is counted as not uploaded.                     *)
UploadFailed(j) == Ends(j, IF job[j].type = "zip" THEN "bad" ELSE "ok", TRUE)

Upload(j) ==
  /\ job[j].pc = "upload"
  /\ \/ Put(j) /\ Uploaded(j)
     \/ Fault("s3") /\ UploadFailed(j) /\ (Put(j) \/ UNCHANGED artefact)
  /\ UNCHANGED <<bucket, catalogue>>

(* update_cat_api: no failure of it is the job's.                          *)
UpdateCatalogue(j) ==
  /\ job[j].pc = "update"
  /\ Ends(j, "ok", FALSE)
  /\ \/ catalogue' = [catalogue EXCEPT !.fileSize = {j}]
     \/ Fault("catalogue") /\ UNCHANGED catalogue
  /\ UNCHANGED <<bucket, artefact>>

HasFiles(j) == job[j].walk.content # Empty

(* The readiness framework gives a score, and makes a report, or does not: *)
(* that depends on the files, and no exception leaves it. The catalogue is *)
(* told the score before the report is uploaded, if it can be told.        *)
Scores(j) ==
  /\ Goes(j, "upload", job[j].walk) \/ Ends(j, "ok", FALSE)
  /\ catalogue' \in {catalogue, [catalogue EXCEPT !.active = {j}]}

Framework(j) ==
  /\ job[j].pc = "framework"
  /\ \/ HasFiles(j) /\ Scores(j)
     \/ ~HasFiles(j) /\ Ends(j, "bad", FALSE) /\ UNCHANGED catalogue
  /\ UNCHANGED <<bucket, artefact>>

Step(j) ==
  ListPage(j) \/ Fetch(j) \/ Upload(j) \/ UpdateCatalogue(j) \/ Framework(j)

Crash(j) ==
  /\ Fault("crash")
  /\ Running(j)
  /\ Ends(j, "killed", TRUE)
  /\ UNCHANGED <<bucket, artefact, catalogue>>

-----------------------------------------------------------------------------
Next ==
  \/ \E k \in Keys \ Markers : Write(k) \/ Delete(k)
  \/ \E j \in Jobs : Start(j) \/ Step(j) \/ Crash(j)

Spec == Init /\ [][Next]_vars

-----------------------------------------------------------------------------
JobPc == {"waiting", "list", "fetch", "framework", "upload", "update",
          "ok", "bad", "killed"}

Contents == [Keys -> 0..MaxVersion]

Walks == [cursor : Keys \cup {0}, page : SUBSET (Keys \ Markers),
          more : BOOLEAN, content : Contents]

(* Every variable has its type; a job fetches only what is left of a page  *)
(* behind its cursor, and has only files in its hands.                     *)
TypeOK ==
  /\ bucket \in Contents
  /\ artefact \in [Types -> [by : SUBSET Jobs, content : Contents]]
  /\ catalogue \in [fileSize : SUBSET Jobs, active : SUBSET Jobs]
  /\ job \in [Jobs ->
       [type : Types, pc : JobPc, walk : Walks, base : Contents,
        overlaps : SUBSET Jobs, published : BOOLEAN, hit : BOOLEAN]]
  /\ \A j \in Jobs :
       /\ job[j].pc = "fetch" => job[j].walk.page # {}
       /\ \A k \in job[j].walk.page : k <= job[j].walk.cursor
       /\ \A k \in Keys :
            job[j].walk.content[k] # 0 => Holds(job[j].walk.content[k])

(* What a successful job put in place holds every file that has not        *)
(* changed since the job started, no file that was gone by then and still  *)
(* is, and none in a version older than the job; unless another job of its *)
(* kind ran at the same time and was the last to upload.                   *)
ArtefactIsFresh ==
  \A j \in Jobs :
    job[j].pc = "ok" /\ job[j].published =>
      LET it == artefact[job[j].type]
      IN  \/ it.by \cap job[j].overlaps # {}
          \/ \A k \in Files :
               /\ it.content[k] # 0 => it.content[k] >= job[j].base[k]
               /\ bucket[k] = job[j].base[k] =>
                    it.content[k] = IF Holds(bucket[k]) THEN bucket[k] ELSE 0

(* The catalogue shows the size of an archive that is, or was until a      *)
(* later one took its place, there to be downloaded, and is active by a    *)
(* report job that has not failed after it said so.                        *)
CatalogueIsBacked ==
  /\ \A j \in catalogue.fileSize : job[j].published /\ artefact["zip"].by # {}
  /\ \A j \in catalogue.active : job[j].type = "report" /\ job[j].pc # "bad"

(* A job that no failure has hit fails only when the databank had no file, *)
(* or a key was changed while it was at work.                              *)
CleanJobSucceeds ==
  \A j \in Jobs :
    job[j].pc = "bad" /\ ~job[j].hit =>
      \/ \A k \in Files : ~Holds(job[j].base[k])
      \/ \E k \in Keys : bucket[k] # job[j].base[k]

(* "Create a zip file from the contents of an S3 folder": of that folder,  *)
(* and of no other.                                                        *)
ArchiveIsOfFolder ==
  \A k \in Keys : artefact["zip"].content[k] # 0 => k \in Own

=============================================================================
