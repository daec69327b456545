------------------------------- MODULE Storage -------------------------------
(***************************************************************************)
(* services/storage-service.ts over repositories/aws-s3-repository.ts and  *)
(* minio-repository.ts, for one databank: keys, listings and what becomes  *)
(* of an object. A key is the sequence of its parts between slashes; that  *)
(* of a folder marker ends in the empty part. A prefix <<"d", "s">> stands *)
(* for d/s/. A command of the storage is one step; withRetry repeats it,   *)
(* and a command that fails here has failed for good.                      *)
(***************************************************************************)
EXTENDS Naturals, Sequences, SequencesExt

CONSTANTS
  Order,    (* all keys, in the order of the storage                        *)
  Databank  (* the first part of the databank's keys                        *)

ASSUME StorageAssumption ==
  Order \in Seq(Seq(STRING)) /\ Databank \in STRING \ {""}

VARIABLE bucket  (* the keys that have an object *)

Objects == ToSet(Order)

-----------------------------------------------------------------------------
MutantNormalizeKey(key) == <<Databank>> \o key

NormalizeKey(key) == IF IsPrefix(<<Databank>>, key) /\ Len(key) > 1
                     THEN key ELSE <<Databank>> \o key

IsFolder(key) == Last(key) = ""

(* Of prefixes: none is the databank's folder, and one without a slash at  *)
(* its end gets it.                                                        *)
NormalizePrefix(key) ==
  LET whole == NormalizeKey(key)
  IN  IF IsFolder(whole) THEN Front(whole) ELSE whole

Rank(key) == CHOOSE i \in DOMAIN Order : Order[i] = key

Below(prefix) == {o \in Objects : IsStrictPrefix(prefix, o)}

-----------------------------------------------------------------------------
(* Listings: [files, dirs, next], dirs the folders below the prefix.       *)

(* S3 with the delimiter: a key directly below the prefix, or the common   *)
(* prefix of all keys in a folder there.                                   *)
Entry(prefix, o) == IF Len(o) = Len(prefix) + 1
                    THEN o ELSE Append(SubSeq(o, 1, Len(prefix) + 1), "")

(* The last key that an entry stands for. A token says how far it came.    *)
Covered(prefix, entry) ==
  Max({Rank(o) : o \in {p \in Below(prefix) : Entry(prefix, p) = entry}})

Entries(prefix, token) ==
  {e \in {Entry(prefix, o) : o \in bucket \cap Below(prefix)} :
     Covered(prefix, e) > token}

(* The key of a marker, or a common prefix, names a folder; the marker of  *)
(* the prefix itself is taken for a folder without a name.                 *)
Folder(prefix, entry) == IF entry = Append(prefix, "") THEN entry ELSE Front(entry)

ConvertToS3Objects(prefix, entries, next) ==
  LET files == {e \in entries : ~IsFolder(e)}
  IN  [files |-> files, dirs |-> {Folder(prefix, e) : e \in entries \ files},
       next |-> next]

AwsPage(prefix, token, maxKeys) ==
  LET all  == Entries(prefix, token)
      page == {e \in all : Cardinality({d \in all : Covered(prefix, d)
                                                      <= Covered(prefix, e)}) <= maxKeys}
  IN  ConvertToS3Objects(prefix, page,
        IF page = all THEN 0 ELSE Max({Covered(prefix, e) : e \in page}))

(* MinIO lists everything below the prefix at once, markers among it.      *)
MinioPage(prefix) == ConvertToS3Objects(prefix, bucket \cap Below(prefix), 0)

(* Its stream is destroyed at maxKeys objects. One that has more to give   *)
(* never ends then, and one that has not may or may not.                   *)
MinioHangs(prefix, maxKeys) == Cardinality(bucket \cap Below(prefix)) >= maxKeys
MinioEnds(prefix, maxKeys) == Cardinality(bucket \cap Below(prefix)) <= maxKeys

-----------------------------------------------------------------------------
(* Folders in the order of their first keys.                               *)
FirstRank(dir) == Min({Rank(o) : o \in {p \in Objects : IsPrefix(dir, p)}})

InOrder(dirs) ==
  CHOOSE s \in [1..Cardinality(dirs) -> dirs] :
    \A i, j \in DOMAIN s :
      i < j => s[i] # s[j] /\ FirstRank(s[i]) <= FirstRank(s[j])

(* listObjectsRecursively, a depth-first walk: [todo, seen, found], found  *)
(* counting how often each file was listed. A folder that was begun before *)
(* is left out; the next page of a folder comes after its subfolders.      *)
Start(prefix) == [todo |-> <<[prefix |-> prefix, token |-> 0]>>,
                  seen |-> {prefix}, found |-> [o \in Objects |-> 0]]

Count(found, files) ==
  [o \in Objects |-> found[o] + (IF o \in files THEN 1 ELSE 0)]

MutantAfterPage(walk, page) ==
  LET fresh == InOrder(page.dirs \ walk.seen)
  IN  [todo |-> [i \in DOMAIN fresh |-> [prefix |-> fresh[i], token |-> 0]]
                  \o Tail(walk.todo),
       seen |-> walk.seen \cup page.dirs,
       found |-> Count(walk.found, page.files)]

AfterPage(walk, page) ==
  LET here  == Head(walk.todo).prefix
      fresh == InOrder(page.dirs \ walk.seen)
      later == IF page.next = 0 THEN <<>>
               ELSE <<[prefix |-> here, token |-> page.next]>>
  IN  [todo |-> [i \in DOMAIN fresh |-> [prefix |-> fresh[i], token |-> 0]]
                  \o later \o Tail(walk.todo),
       seen |-> walk.seen \cup page.dirs,
       found |-> Count(walk.found, page.files)]

-----------------------------------------------------------------------------
(* What becomes of an object. Deleting what is not there succeeds, too.    *)
Put(o) == bucket' = bucket \cup {o}

MutantDelete(o) == UNCHANGED bucket

Delete(o) == bucket' = bucket \ {o}

=============================================================================
