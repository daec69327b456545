-------------------------- MODULE DatabankJobsProofs --------------------------
(***************************************************************************)
(* Proofs about DatabankJobs, for any number of jobs and keys, any page    *)
(* size and any choice of failures.                                        *)
(***************************************************************************)
EXTENDS DatabankJobs, FiniteSetTheorems, TLAPS

-----------------------------------------------------------------------------
(* The ends of a finite set of numbers. There is one because the sets of   *)
(* its elements from some element on have a smallest.                      *)

LEMMA SmallestOf ==
  ASSUME NEW S, IsFiniteSet(S), NEW T, T \subseteq SUBSET S, T # {}
  PROVE  \E x \in T : \A y \in T : y \subseteq x => y = x
<1>1. T \subseteq FiniteSubsetsOf(S)
  BY FS_FiniteSubsetsOfFinite
<1>2. PICK x \in T : \A y \in T : ~(<<y, x>> \in StrictSubsetOrdering(S))
  BY <1>1, FS_StrictSubsetOrderingWellFounded, WFMin
<1>3. ASSUME NEW y \in T, y \subseteq x, y # x PROVE FALSE
  <2>1. <<y, x>> \in (SUBSET S) \X (SUBSET S)
    OBVIOUS
  <2>2. <<y, x>> \in StrictSubsetOrdering(S)
    BY <1>3, <2>1 DEF StrictSubsetOrdering
  <2> QED BY <1>2, <2>2
<1> QED BY <1>3

LEMMA SmallestImage ==
  ASSUME NEW S, IsFiniteSet(S), S # {}, NEW F \in [S -> SUBSET S]
  PROVE  \E x \in S : \A y \in S : F[y] \subseteq F[x] => F[y] = F[x]
<1> DEFINE sets == {F[x] : x \in S}
<1>1. sets \subseteq SUBSET S /\ sets # {}
  OBVIOUS
<1>2. \A x \in S : F[x] \in sets
  OBVIOUS
<1>3. \A u \in sets : \E x \in S : u = F[x]
  OBVIOUS
<1> HIDE DEF sets
<1>4. PICK u \in sets : \A v \in sets : v \subseteq u => v = u
  BY <1>1, SmallestOf
<1> QED BY <1>2, <1>3, <1>4

LEMMA HasMax ==
  ASSUME NEW S, IsFiniteSet(S), S \subseteq Nat, S # {}
  PROVE  Max(S) \in S /\ \A y \in S : y <= Max(S)
<1> DEFINE from == [x \in S |-> {y \in S : x <= y}]
<1>1. PICK x \in S : \A y \in S : from[y] \subseteq from[x] => from[y] = from[x]
  <2>1. from \in [S -> SUBSET S]
    OBVIOUS
  <2> HIDE DEF from
  <2> QED BY ONLY IsFiniteSet(S), S # {}, <2>1, SmallestImage
<1>2. \A z \in S : z \in Nat
  OBVIOUS
<1>3. \A y \in S : x >= y
  <2> SUFFICES ASSUME NEW y \in S, x < y PROVE FALSE
    BY <1>2
  <2>1. \A z \in from[y] : z \in from[x]
    BY <1>2
  <2>2. x \in from[x] /\ x \notin from[y]
    BY <1>2
  <2> HIDE DEF from
  <2> QED BY <1>1, <2>1, <2>2
<1>4. Max(S) \in S /\ \A y \in S : Max(S) >= y
  BY <1>3 DEF Max
<1> QED BY <1>2, <1>4

LEMMA HasMin ==
  ASSUME NEW S, IsFiniteSet(S), S \subseteq Nat, S # {}
  PROVE  Min(S) \in S
<1> DEFINE upto == [x \in S |-> {y \in S : y <= x}]
<1>1. PICK x \in S : \A y \in S : upto[y] \subseteq upto[x] => upto[y] = upto[x]
  <2>1. upto \in [S -> SUBSET S]
    OBVIOUS
  <2> HIDE DEF upto
  <2> QED BY ONLY IsFiniteSet(S), S # {}, <2>1, SmallestImage
<1>2. \A z \in S : z \in Nat
  OBVIOUS
<1>3. \A y \in S : x =< y
  <2> SUFFICES ASSUME NEW y \in S, y < x PROVE FALSE
    BY <1>2
  <2>1. \A z \in upto[y] : z \in upto[x]
    BY <1>2
  <2>2. x \in upto[x] /\ x \notin upto[y]
    BY <1>2
  <2> HIDE DEF upto
  <2> QED BY <1>1, <2>1, <2>2
<1> QED BY <1>3 DEF Min

-----------------------------------------------------------------------------
(* A page is a beginning of what the listing has left.                     *)

LEMMA PageIsFirst ==
  ASSUME NEW cursor
  PROVE  /\ Page(cursor) \subseteq After(cursor)
         /\ After(cursor) \subseteq Present /\ Present \subseteq Keys
         /\ \A k \in Page(cursor), i \in After(cursor) : i <= k => i \in Page(cursor)
<1>1. After(cursor) \subseteq Present /\ Present \subseteq Keys
  BY DEF After, Present
<1>2. ASSUME NEW k \in Page(cursor), NEW i \in After(cursor), i <= k
      PROVE  i \in Page(cursor)
  <2> DEFINE upto(n) == {m \in After(cursor) : m <= n}
  <2>1. /\ Cardinality(upto(k)) <= PageSize /\ k \in After(cursor)
        /\ k \in Nat /\ i \in Nat /\ \A m \in After(cursor) : m \in Nat
    BY <1>1, Assumption DEF Page
  <2>2. upto(i) \subseteq upto(k)
    <3> SUFFICES ASSUME NEW m \in After(cursor), m <= i PROVE m <= k
      OBVIOUS
    <3> QED BY <1>2, <2>1
  <2>3. upto(k) \subseteq Keys
    BY <1>1
  <2> HIDE DEF upto
  <2>4. IsFiniteSet(upto(k))
    BY <2>3, Assumption, FS_Subset
  <2>5. /\ Cardinality(upto(i)) <= Cardinality(upto(k))
        /\ Cardinality(upto(k)) \in Nat /\ Cardinality(upto(i)) \in Nat
    <3>1. IsFiniteSet(upto(i))
      BY <2>2, <2>4, FS_Subset
    <3> QED BY <2>2, <2>4, <3>1, FS_Subset, FS_CardinalityType
  <2>6. Cardinality(upto(i)) <= PageSize
    BY <2>1, <2>5, Assumption
  <2> QED BY <2>6 DEF Page, upto
<1> QED BY <1>1, <1>2 DEF Page

LEMMA KeySets ==
  ASSUME NEW S, S \subseteq Keys
  PROVE  /\ IsFiniteSet(S) /\ S \subseteq Nat
         /\ S # {} => /\ Max(S) \in S /\ \A y \in S : y <= Max(S)
                      /\ Min(S) \in S
<1>1. IsFiniteSet(S) /\ S \subseteq Nat
  BY Assumption, FS_Subset
<1> QED BY <1>1, HasMax, HasMin

-----------------------------------------------------------------------------
(* The invariant of one job x, on its own, with the bucket as b. Versions  *)
(* of a key only grow: what was read while a key was in the version the    *)
(* job started from is what the key holds now, if it is in that version.   *)

JobStates ==
  [type : Types, pc : JobPc, walk : Walks, base : Contents,
   overlaps : SUBSET Jobs, published : BOOLEAN, hit : BOOLEAN]

(* A walk keeps to its cursor, and to versions between start and now.      *)
Sane(x, b) ==
  /\ x.pc = "fetch" => x.walk.page # {}
  /\ \A k \in x.walk.page : k <= x.walk.cursor
  /\ \A k \in Keys :
       /\ x.base[k] <= b[k]
       /\ x.walk.content[k] # 0 =>
            /\ Holds(x.walk.content[k])
            /\ x.base[k] <= x.walk.content[k] /\ x.walk.content[k] <= b[k]
  /\ \A k \in x.walk.page : b[k] = x.base[k] => Holds(b[k])

(* A file that is as it was when the job started has been fetched, or is   *)
(* still to come: on this page or, when there are more, behind the cursor. *)
Covered(x, b) ==
  \A k \in Keys \ Markers :
    b[k] = x.base[k] /\ Holds(b[k]) =>
      \/ x.walk.content[k] = b[k]
      \/ k \in x.walk.page
      \/ x.walk.more /\ x.walk.cursor < k

(* Why a job may fail although nothing failed.                             *)
Excused(x, b) ==
  \/ \A k \in Files : ~Holds(x.base[k])
  \/ \E k \in Keys : b[k] # x.base[k]

Phase(x, b) ==
  /\ x.pc = "waiting" =>
       x.base = Empty /\ x.walk = NewWalk /\ ~x.published /\ ~x.hit
  /\ x.pc \in {"list", "fetch", "framework", "upload"} => Covered(x, b)
  /\ x.pc = "list" => x.walk.page = {} /\ x.walk.more
  /\ x.pc \in {"framework", "upload"} => x.walk.page = {} /\ ~x.walk.more
  /\ x.pc = "framework" => x.type = "report"
  /\ x.pc = "update" => x.type = "zip" /\ x.published
  /\ x.pc = "bad" /\ ~x.hit => Excused(x, b)

Good(x, b) == x \in JobStates /\ Sane(x, b) /\ Phase(x, b)

(* The invariant of the jobs together.                                     *)

(* What a job that started at base would call fresh.                       *)
Fresh(base, b, content) ==
  \A k \in Files :
    /\ content[k] # 0 => content[k] >= base[k]
    /\ b[k] = base[k] => content[k] = IF Holds(b[k]) THEN b[k] ELSE 0

Published(j) ==
  job[j].published =>
    \/ artefact[job[j].type].by \cap job[j].overlaps # {}
    \/ Fresh(job[j].base, bucket, artefact[job[j].type].content)

(* Of two jobs of a kind that do not overlap, the one that still runs      *)
(* started after the other had ended.                                      *)
Apart(i, j) ==
  Running(i) /\ job[i].type = job[j].type /\ i # j =>
    \/ i \in job[j].overlaps
    \/ \A k \in Keys : job[j].base[k] <= job[i].base[k]

Announced(j) ==
  /\ job[j].published /\ job[j].type = "zip" => artefact["zip"].by # {}
  /\ j \in catalogue.fileSize => job[j].published /\ job[j].type = "zip"
  /\ j \in catalogue.active =>
       job[j].type = "report" /\ job[j].pc \in {"upload", "ok", "killed"}

Typed ==
  /\ bucket \in Contents
  /\ artefact \in [Types -> [by : SUBSET Jobs, content : Contents]]
  /\ catalogue \in [fileSize : SUBSET Jobs, active : SUBSET Jobs]
  /\ job \in [Jobs -> JobStates]

JobsInv ==
  /\ Typed
  /\ \A j \in Jobs : Good(job[j], bucket) /\ Published(j) /\ Announced(j)
  /\ \A i, j \in Jobs : Apart(i, j)

-----------------------------------------------------------------------------
LEMMA NewWalkTyped ==
  /\ NewWalk \in Walks /\ Empty \in Contents
  /\ NewWalk.page = {} /\ NewWalk.more = TRUE /\ NewWalk.cursor = 0
  /\ \A k \in Keys : NewWalk.content[k] = 0 /\ Empty[k] = 0
<1>1. Empty \in Contents /\ \A k \in Keys : Empty[k] = 0
  BY Assumption DEF Empty, Contents
<1> QED BY <1>1 DEF NewWalk, Walks

(* Keys move on: what a job has in its hands stays as good as it was.      *)
LEMMA GoodLater ==
  ASSUME NEW x, NEW b \in Contents, NEW c \in Contents, Good(x, b),
         \A k \in Keys : b[k] <= c[k]
  PROVE  Good(x, c)
<1>1. /\ x \in JobStates /\ x.base \in Contents /\ x.walk.content \in Contents
      /\ x.walk.page \subseteq Keys
  BY DEF Good, JobStates, Walks
<1>2. \A k \in Keys : /\ x.base[k] \in Nat /\ b[k] \in Nat /\ c[k] \in Nat
                      /\ x.walk.content[k] \in Nat
  BY <1>1, Assumption DEF Contents
<1>3. \A k \in Keys : x.base[k] <= b[k]
  BY DEF Good, Sane
<1>4. \A k \in Keys : c[k] = x.base[k] => c[k] = b[k]
  BY <1>2, <1>3
<1>5. Sane(x, c)
  <2>1. \A k \in Keys :
          /\ x.base[k] <= c[k]
          /\ x.walk.content[k] # 0 =>
               /\ Holds(x.walk.content[k])
               /\ x.base[k] <= x.walk.content[k] /\ x.walk.content[k] <= c[k]
    BY <1>2 DEF Good, Sane
  <2>2. \A k \in x.walk.page : c[k] = x.base[k] => Holds(c[k])
    BY <1>1, <1>4 DEF Good, Sane
  <2> QED BY <2>1, <2>2 DEF Good, Sane
<1>6. Covered(x, b) => Covered(x, c)
  BY <1>4 DEF Covered
<1>7. Excused(x, b) => Excused(x, c)
  BY <1>4 DEF Excused
<1> QED BY <1>1, <1>5, <1>6, <1>7 DEF Good, Phase

(* A job that has ended holds nothing.                                     *)
LEMMA GoodEnd ==
  ASSUME NEW x, NEW b \in Contents, Good(x, b), NEW pc \in {"ok", "bad", "killed"},
         NEW hit \in BOOLEAN, pc = "bad" => hit \/ Excused(x, b)
  PROVE  Good([x EXCEPT !.pc = pc, !.walk = NewWalk, !.hit = hit], b)
<1> DEFINE y == [x EXCEPT !.pc = pc, !.walk = NewWalk, !.hit = hit]
<1>1. x \in JobStates
  BY DEF Good
<1>2. /\ y \in JobStates /\ y.pc = pc /\ y.walk = NewWalk /\ y.hit = hit
      /\ y.base = x.base
  BY <1>1, NewWalkTyped DEF JobStates, JobPc
<1> HIDE DEF y
<1>3. Sane(y, b)
  BY <1>2, NewWalkTyped DEF Sane, Good
<1>4. Excused(y, b) <=> Excused(x, b)
  BY <1>2 DEF Excused
<1>5. Phase(y, b)
  BY <1>2, <1>4 DEF Phase
<1> QED BY <1>2, <1>3, <1>5 DEF Good, y

(* The pages of the walk.                                                  *)

(* Where a job of this type goes with this walk.                           *)
Follows(type, walk, pc) ==
  /\ pc \in {"list", "fetch", "framework", "upload"}
  /\ pc = "fetch" => walk.page # {}
  /\ pc = "list" => walk.page = {} /\ walk.more
  /\ pc \in {"framework", "upload"} => walk.page = {} /\ ~walk.more
  /\ pc = "framework" => type = "report"

LEMMA NextPc ==
  ASSUME NEW j, job[j].type \in Types, NEW walk, walk.more \in BOOLEAN
  PROVE  Follows(job[j].type, walk, AfterFile(j, walk))
<1>1. CASE walk.page # {}
  BY <1>1 DEF AfterFile, Follows
<1>2. CASE walk.page = {} /\ walk.more
  BY <1>2 DEF AfterFile, Follows
<1>3. CASE walk.page = {} /\ ~walk.more
  BY <1>3 DEF AfterFile, Types, Follows
<1> QED BY <1>1, <1>2, <1>3

(* A job that goes on with its walk is as good as the walk.                *)
LEMMA GoodWalk ==
  ASSUME NEW x, NEW b \in Contents, Good(x, b), NEW walk \in Walks,
         NEW pc \in {"list", "fetch", "framework", "upload"},
         LET y == [x EXCEPT !.pc = pc, !.walk = walk] IN Sane(y, b) /\ Covered(y, b),
         Follows(x.type, walk, pc)
  PROVE  Good([x EXCEPT !.pc = pc, !.walk = walk], b)
<1> DEFINE y == [x EXCEPT !.pc = pc, !.walk = walk]
<1>1. Sane(y, b) /\ Covered(y, b)
  OBVIOUS
<1>2. x \in JobStates
  BY DEF Good
<1>3. y \in JobStates /\ y.pc = pc /\ y.walk = walk /\ y.type = x.type
  BY <1>2 DEF JobStates, JobPc
<1> HIDE DEF y
<1>4. Phase(y, b)
  BY <1>1, <1>3 DEF Phase, Follows
<1> QED BY <1>1, <1>3, <1>4 DEF Good, y

LEMMA GoodList ==
  ASSUME JobsInv, NEW j \in Jobs, job[j].pc = "list",
         NEW page, page = Page(job[j].walk.cursor),
         NEW walk, walk = [job[j].walk EXCEPT !.cursor = NextCursor(@, page),
                                              !.page = page \ Markers,
                                              !.more = page # After(job[j].walk.cursor)]
  PROVE  Good([job[j] EXCEPT !.pc = AfterFile(j, walk), !.walk = walk], bucket)
<1> DEFINE x == job[j]
           w == x.walk
           pc == AfterFile(j, walk)
           y == [x EXCEPT !.pc = pc, !.walk = walk]
<1>1. x \in JobStates /\ Good(x, bucket) /\ bucket \in Contents /\ w \in Walks
  BY DEF JobsInv, Typed, JobStates
<1>2. /\ page \subseteq Keys /\ page \subseteq After(w.cursor)
      /\ After(w.cursor) \subseteq Present /\ Present \subseteq Keys
      /\ \A k \in page, i \in After(w.cursor) : i <= k => i \in page
  BY PageIsFirst
<1>3. /\ walk.cursor = NextCursor(w.cursor, page) /\ walk.page = page \ Markers
      /\ walk.more = (page # After(w.cursor)) /\ walk.content = w.content
  BY <1>1 DEF Walks
<1>4. /\ page = {} => walk.cursor = w.cursor
      /\ page # {} => walk.cursor \in page /\ \A k \in page : k <= walk.cursor
  BY <1>2, <1>3, KeySets DEF NextCursor
<1>5. walk \in Walks
  <2>1. walk.cursor \in Keys \cup {0} /\ w.content \in Contents /\ w.cursor \in Keys \cup {0}
    BY <1>1, <1>2, <1>4 DEF Walks
  <2>2. walk = [cursor |-> walk.cursor, page |-> page \ Markers,
                more |-> (page # After(w.cursor)), content |-> w.content]
    BY <1>1, <1>3 DEF Walks
  <2> QED BY <1>2, <2>1, <2>2 DEF Walks
<1>6. Follows(x.type, walk, pc) /\ pc \in {"list", "fetch", "framework", "upload"}
  <2>1. x.type \in Types /\ walk.more \in BOOLEAN
    BY <1>1, <1>3 DEF JobStates
  <2>2. Follows(job[j].type, walk, AfterFile(j, walk))
    BY ONLY <2>1, NextPc
  <2> QED BY <2>2 DEF Follows
<1>7. /\ y.pc = pc /\ y.walk = walk /\ y.base = x.base
  BY <1>1 DEF JobStates
<1> HIDE DEF pc, y
<1>8. Sane(y, bucket)
  <2>1. \A k \in walk.page : k <= walk.cursor /\ Holds(bucket[k])
    BY <1>2, <1>3, <1>4 DEF Present
  <2>2. \A k \in Keys :
          /\ x.base[k] <= bucket[k]
          /\ w.content[k] # 0 =>
               /\ Holds(w.content[k])
               /\ x.base[k] <= w.content[k] /\ w.content[k] <= bucket[k]
    BY <1>1 DEF Good, Sane
  <2> QED BY <1>3, <1>6, <1>7, <2>1, <2>2 DEF Sane, Follows
<1>9. Covered(y, bucket)
  <2> SUFFICES ASSUME NEW k \in Keys \ Markers, bucket[k] = x.base[k], Holds(bucket[k]),
                      w.content[k] # bucket[k], k \notin page
               PROVE  walk.more /\ walk.cursor < k
    BY <1>3, <1>7 DEF Covered
  <2>1. w.page = {} /\ w.cursor < k
    BY <1>1 DEF Good, Phase, Covered
  <2>2. k \in Nat /\ w.cursor \in Nat /\ \A i \in Keys : i \in Nat
    BY <1>1, Assumption DEF Walks
  <2>3. k \in After(w.cursor)
    BY <2>1, <2>2 DEF After, Present
  <2>4. walk.more
    BY <1>3, <2>3
  <2>5. CASE page = {}
    BY <1>4, <2>1, <2>4, <2>5
  <2>6. CASE page # {}
    <3>1. walk.cursor \in page /\ walk.cursor \in Nat
      BY <1>2, <1>4, <2>2, <2>6
    <3>2. ~(k <= walk.cursor)
      BY <1>2, <2>3, <3>1
    <3> QED BY <2>2, <2>4, <3>1, <3>2
  <2> QED BY <2>5, <2>6
<1>10. Good([x EXCEPT !.pc = pc, !.walk = walk], bucket)
  <2>1. Sane([x EXCEPT !.pc = pc, !.walk = walk], bucket)
        /\ Covered([x EXCEPT !.pc = pc, !.walk = walk], bucket)
    BY <1>8, <1>9 DEF y
  <2> QED BY ZenonT(60), <1>1, <1>5, <1>6, <2>1, GoodWalk
<1> QED BY <1>10 DEF pc

(* The next file is in the version that it has now.                        *)
LEMMA GoodFetch ==
  ASSUME JobsInv, NEW j \in Jobs, job[j].pc = "fetch",
         NEW k, k = Min(job[j].walk.page), Readable(k),
         NEW walk, walk = [job[j].walk EXCEPT !.page = @ \ {k}, !.content[k] = bucket[k]]
  PROVE  Good([job[j] EXCEPT !.pc = AfterFile(j, walk), !.walk = walk], bucket)
<1> DEFINE x == job[j]
           w == x.walk
           pc == AfterFile(j, walk)
           y == [x EXCEPT !.pc = pc, !.walk = walk]
<1>1. x \in JobStates /\ Good(x, bucket) /\ bucket \in Contents /\ w \in Walks
  BY DEF JobsInv, Typed, JobStates
<1>2. k \in w.page /\ w.page \subseteq Keys \ Markers /\ k \in Keys
  BY <1>1, KeySets DEF Good, Sane, Walks
<1>3. /\ walk.cursor = w.cursor /\ walk.page = w.page \ {k} /\ walk.more = w.more
      /\ walk.content[k] = bucket[k]
      /\ \A i \in Keys \ {k} : walk.content[i] = w.content[i]
      /\ walk \in Walks
  <2>1. walk = [w EXCEPT !.page = w.page \ {k},
                         !.content = [w.content EXCEPT ![k] = bucket[k]]]
    BY <1>1 DEF Walks
  <2>2. w.content \in [Keys -> 0..MaxVersion] /\ bucket[k] \in 0..MaxVersion
    BY <1>1, <1>2 DEF Walks, Contents
  <2> DEFINE content == [w.content EXCEPT ![k] = bucket[k]]
  <2>3. /\ content \in Contents /\ content[k] = bucket[k]
        /\ \A i \in Keys \ {k} : content[i] = w.content[i]
    BY <1>2, <2>2 DEF Contents
  <2> HIDE DEF content
  <2>4. walk = [w EXCEPT !.page = w.page \ {k}, !.content = content]
    BY <2>1 DEF content
  <2>5. w = [cursor |-> w.cursor, page |-> w.page, more |-> w.more, content |-> w.content]
    BY <1>1 DEF Walks
  <2>6. walk = [cursor |-> w.cursor, page |-> w.page \ {k}, more |-> w.more,
                content |-> content]
    BY <2>4, <2>5
  <2>7. /\ walk.cursor = w.cursor /\ walk.page = w.page \ {k} /\ walk.more = w.more
        /\ walk.content = content
    BY ONLY <2>6
  <2>8. /\ w.cursor \in Keys \cup {0} /\ w.more \in BOOLEAN
        /\ w.page \ {k} \in SUBSET (Keys \ Markers)
    BY <1>1 DEF Walks
  <2>9. walk \in Walks
    BY ONLY <2>3, <2>6, <2>8 DEF Walks
  <2> QED BY <2>3, <2>7, <2>9
<1>4. Follows(x.type, walk, pc) /\ pc \in {"list", "fetch", "framework", "upload"}
  <2>1. x.type \in Types /\ walk.more \in BOOLEAN
    BY <1>1, <1>3 DEF JobStates, Walks
  <2>2. Follows(job[j].type, walk, AfterFile(j, walk))
    BY ONLY <2>1, NextPc
  <2> QED BY <2>2 DEF Follows
<1>5. /\ y.pc = pc /\ y.walk = walk /\ y.base = x.base
  BY <1>1 DEF JobStates
<1>6. Holds(bucket[k]) /\ bucket[k] \in Nat /\ x.base[k] \in Nat /\ x.base[k] <= bucket[k]
  BY <1>1, <1>2, Assumption DEF Readable, Present, Contents, JobStates, Good, Sane
<1> HIDE DEF pc, y
<1>7. Sane(y, bucket)
  <2>1. \A i \in Keys :
          /\ x.base[i] <= bucket[i]
          /\ walk.content[i] # 0 =>
               /\ Holds(walk.content[i])
               /\ x.base[i] <= walk.content[i] /\ walk.content[i] <= bucket[i]
    BY <1>1, <1>3, <1>6 DEF Good, Sane
  <2>2. /\ \A i \in walk.page : i <= walk.cursor
        /\ \A i \in walk.page : bucket[i] = x.base[i] => Holds(bucket[i])
    BY <1>1, <1>3 DEF Good, Sane
  <2> QED BY <1>4, <1>5, <2>1, <2>2 DEF Sane, Follows
<1>8. Covered(x, bucket)
  BY <1>1 DEF Good, Phase
<1>9. Covered(y, bucket)
  BY <1>3, <1>5, <1>8 DEF Covered
<1>10. Good([x EXCEPT !.pc = pc, !.walk = walk], bucket)
  <2>1. Sane([x EXCEPT !.pc = pc, !.walk = walk], bucket)
        /\ Covered([x EXCEPT !.pc = pc, !.walk = walk], bucket)
    BY <1>7, <1>9 DEF y
  <2> QED BY <1>1, <1>3, <1>4, <2>1, GoodWalk
<1> QED BY <1>10 DEF pc

-----------------------------------------------------------------------------
(* What is put in place is fresh for the job and for those before it.      *)

LEMMA FreshWalk ==
  ASSUME NEW x, NEW b \in Contents, Good(x, b), x.pc = "upload",
         NEW base \in Contents, \A k \in Keys : base[k] <= x.base[k]
  PROVE  Fresh(base, b, x.walk.content)
<1>1. x \in JobStates /\ Sane(x, b) /\ Covered(x, b) /\ x.walk.page = {} /\ ~x.walk.more
  BY DEF Good, Phase
<1> SUFFICES ASSUME NEW k \in Files
             PROVE  /\ x.walk.content[k] # 0 => x.walk.content[k] >= base[k]
                    /\ b[k] = base[k] =>
                         x.walk.content[k] = IF Holds(b[k]) THEN b[k] ELSE 0
  BY DEF Fresh
<1> DEFINE v == x.walk.content[k]
<1>2. k \in Keys /\ k \in Keys \ Markers
  BY Assumption DEF Files
<1>3. v \in Nat /\ base[k] \in Nat /\ b[k] \in Nat /\ x.base[k] \in Nat
  BY <1>1, <1>2, Assumption DEF JobStates, Walks, Contents
<1>4. /\ base[k] <= x.base[k] /\ x.base[k] <= b[k]
      /\ v # 0 => Holds(v) /\ x.base[k] <= v /\ v <= b[k]
  BY <1>1, <1>2 DEF Sane
<1>5. b[k] = x.base[k] /\ Holds(b[k]) => v = b[k]
  BY <1>1, <1>2 DEF Covered
<1> HIDE DEF v
<1>6. v # 0 => v >= base[k]
  BY <1>3, <1>4
<1>7. ASSUME b[k] = base[k]
      PROVE  v = IF Holds(b[k]) THEN b[k] ELSE 0
  <2>1. b[k] = x.base[k] /\ (v # 0 => v = b[k])
    BY <1>3, <1>4, <1>7
  <2> QED BY <1>4, <1>5, <2>1
<1> QED BY <1>6, <1>7 DEF v

LEMMA FreshLater ==
  ASSUME NEW base \in Contents, NEW b \in Contents, NEW c \in Contents, NEW content,
         Fresh(base, b, content), \A k \in Keys : base[k] <= b[k] /\ b[k] <= c[k]
  PROVE  Fresh(base, c, content)
<1>1. \A k \in Keys : base[k] \in Nat /\ b[k] \in Nat /\ c[k] \in Nat
  BY Assumption DEF Contents
<1>2. \A k \in Keys : c[k] = base[k] => b[k] = base[k] /\ c[k] = b[k]
  BY <1>1
<1>3. Files \subseteq Keys
  BY Assumption DEF Files
<1> QED BY <1>2, <1>3 DEF Fresh

-----------------------------------------------------------------------------
(* A step of the running job j, to the state y.                            *)

StepTo(j, y) ==
  /\ Running(j)
  /\ job' = [job EXCEPT ![j] = y]
  /\ bucket' = bucket
  /\ Good(y, bucket)
  /\ y.type = job[j].type /\ y.base = job[j].base /\ y.overlaps = job[j].overlaps
  /\ job[j].published => y.published
  /\ \/ artefact' = artefact /\ (y.published => job[j].published)
     \/ job[j].pc = "upload" /\ Put(j)
  /\ \/ catalogue' = catalogue
     \/ /\ job[j].pc = "update"
        /\ catalogue' = [catalogue EXCEPT !.fileSize = {j}]
     \/ /\ job[j].pc = "framework"
        /\ catalogue' = [catalogue EXCEPT !.active = {j}]
  /\ job[j].pc \in {"framework", "upload"} /\ job[j].type = "report" =>
       y.pc \in {"upload", "ok", "killed"} \/ (catalogue' = catalogue /\ job[j].pc = "framework")

LEMMA StepToKeeps ==
  ASSUME JobsInv, NEW j \in Jobs, NEW y, StepTo(j, y)
  PROVE  JobsInv'
<1>1. /\ Typed /\ y \in JobStates /\ bucket \in Contents /\ bucket' = bucket
      /\ job \in [Jobs -> JobStates] /\ job' = [job EXCEPT ![j] = y]
      /\ y.type = job[j].type /\ y.base = job[j].base /\ y.overlaps = job[j].overlaps
      /\ job[j].published => y.published
  BY DEF JobsInv, Typed, StepTo, Good
<1>2. /\ job'[j] = y /\ \A i \in Jobs \ {j} : job'[i] = job[i]
      /\ job' \in [Jobs -> JobStates]
      /\ \A i \in Jobs : /\ job'[i].type = job[i].type /\ job'[i].base = job[i].base
                         /\ job'[i].overlaps = job[i].overlaps
                         /\ job[i].published => job'[i].published
      /\ \A i \in Jobs : job[i] \in JobStates
  BY <1>1
<1>3. \A i \in Jobs : Good(job'[i], bucket)
  BY <1>1, <1>2 DEF JobsInv, StepTo
<1>4. Put(j) => artefact' = [artefact EXCEPT ![job[j].type] =
                              [by |-> {j}, content |-> job[j].walk.content]]
  BY DEF Put
<1>5. /\ job[j].type \in Types /\ job[j].walk.content \in Contents
      /\ job[j].base \in Contents
  BY <1>2 DEF JobStates, Walks
<1>6. Typed'
  <2>1. artefact' \in [Types -> [by : SUBSET Jobs, content : Contents]]
    <3>1. [by |-> {j}, content |-> job[j].walk.content] \in [by : SUBSET Jobs, content : Contents]
      BY <1>5
    <3> QED BY <1>1, <1>4, <1>5, <3>1 DEF Typed, StepTo
  <2>2. catalogue' \in [fileSize : SUBSET Jobs, active : SUBSET Jobs]
    BY <1>1 DEF Typed, StepTo
  <2> QED BY <1>1, <1>2, <2>1, <2>2 DEF Typed
<1>7. ASSUME NEW i \in Jobs, NEW k \in Jobs PROVE Apart(i, k)'
  <2>1. Running(i)' => Running(i)
    BY <1>2 DEF Running, StepTo
  <2> QED BY <1>2, <2>1 DEF Apart, JobsInv
<1>8. ASSUME NEW i \in Jobs PROVE Published(i)'
  <2>1. CASE artefact' = artefact /\ (y.published => job[j].published)
    <3>1. job'[i].published => job[i].published
      BY <1>2, <2>1
    <3>2. Published(i)
      BY DEF JobsInv
    <3> QED BY <1>1, <1>2, <2>1, <3>1, <3>2 DEF Published
  <2>2. CASE job[j].pc = "upload" /\ Put(j)
    <3>1. CASE job[i].type # job[j].type
      <4>1. artefact'[job[i].type] = artefact[job[i].type]
        BY <1>1, <1>2, <1>4, <1>5, <2>2, <3>1 DEF Typed, JobStates
      <4>2. job'[i] = job[i] /\ Published(i)
        BY <1>2, <3>1 DEF JobsInv
      <4> QED BY <1>1, <4>1, <4>2 DEF Published
    <3>2. CASE job[i].type = job[j].type
      <4>1. artefact'[job[i].type] = [by |-> {j}, content |-> job[j].walk.content]
        BY <1>1, <1>4, <1>5, <2>2, <3>2 DEF Typed
      <4>2. j \in job[i].overlaps \/ \A k \in Keys : job[i].base[k] <= job[j].base[k]
        <5>1. CASE i = j
          <6>1. \A k \in Keys : job[i].base[k] \in Nat
            BY <1>5, <5>1, Assumption DEF Contents
          <6> QED BY <5>1, <6>1
        <5>2. CASE i # j
          BY <3>2, <5>2 DEF JobsInv, Apart, StepTo
        <5> QED BY <5>1, <5>2
      <4>3. CASE j \in job[i].overlaps
        <5>1. artefact'[job'[i].type].by \cap job'[i].overlaps # {}
          BY <1>2, <4>1, <4>3
        <5> QED BY <5>1 DEF Published
      <4>4. CASE \A k \in Keys : job[i].base[k] <= job[j].base[k]
        <5>1. job[i].base \in Contents
          BY <1>2 DEF JobStates
        <5>2. Good(job[j], bucket)
          BY DEF JobsInv
        <5>3. Fresh(job[i].base, bucket, job[j].walk.content)
          BY <1>1, <2>2, <4>4, <5>1, <5>2, FreshWalk
        <5>4. Fresh(job'[i].base, bucket', artefact'[job'[i].type].content)
          BY <1>1, <1>2, <4>1, <5>3
        <5> QED BY <5>4 DEF Published
      <4> QED BY <4>2, <4>3, <4>4
    <3> QED BY <3>1, <3>2
  <2> QED BY <2>1, <2>2 DEF StepTo
<1>9. ASSUME NEW i \in Jobs PROVE Announced(i)'
  <2>1. Announced(i)
    BY DEF JobsInv
  <2>2. job'[i].published /\ job'[i].type = "zip" => artefact'["zip"].by # {}
    <3>1. CASE artefact' = artefact /\ (y.published => job[j].published)
      BY <1>2, <2>1, <3>1 DEF Announced
    <3>2. CASE Put(j)
      <4>1. /\ job[j].type = "zip" => artefact'["zip"].by = {j}
            /\ job[j].type # "zip" => artefact'["zip"] = artefact["zip"]
        BY <1>1, <1>4, <1>5, <3>2 DEF Typed, Types
      <4>2. job[i].type # job[j].type => job'[i] = job[i]
        BY <1>2
      <4> QED BY <1>2, <2>1, <4>1, <4>2 DEF Announced
    <3> QED BY <3>1, <3>2 DEF StepTo
  <2>3. i \in catalogue'.fileSize => job'[i].published /\ job'[i].type = "zip"
    <3>1. i \in catalogue'.fileSize =>
            i \in catalogue.fileSize \/ (i = j /\ job[j].pc = "update")
      BY <1>1 DEF Typed, StepTo
    <3>2. job[j].pc = "update" => job[j].published /\ job[j].type = "zip"
      BY DEF JobsInv, Good, Phase
    <3> QED BY <1>2, <2>1, <3>1, <3>2 DEF Announced
  <2>4. i \in catalogue'.active =>
          job'[i].type = "report" /\ job'[i].pc \in {"upload", "ok", "killed"}
    <3>1. \/ i \in catalogue'.active => i \in catalogue.active
          \/ job[j].pc = "framework" /\ catalogue'.active = {j} /\ catalogue' # catalogue
      BY <1>1 DEF Typed, StepTo
    <3>2. CASE i # j
      BY <1>2, <2>1, <3>1, <3>2 DEF Announced
    <3>3. CASE i = j
      <4>1. job[j].pc = "framework" => job[j].type = "report"
        BY DEF JobsInv, Good, Phase
      <4>2. CASE i \in catalogue.active
        <5>1. job[j].type = "report" /\ job[j].pc = "upload"
          BY <2>1, <3>3, <4>2 DEF Announced, StepTo, Running
        <5> QED BY <1>2, <3>3, <5>1 DEF StepTo
      <4>3. CASE job[j].pc = "framework" /\ catalogue' # catalogue
        BY <1>2, <3>3, <4>1, <4>3 DEF StepTo
      <4> QED BY <3>1, <4>2, <4>3
    <3> QED BY <3>2, <3>3
  <2> QED BY <2>2, <2>3, <2>4 DEF Announced
<1> QED BY <1>1, <1>3, <1>6, <1>7, <1>8, <1>9 DEF JobsInv

-----------------------------------------------------------------------------
(* The steps of a running job.                                             *)

LEMMA JobAt ==
  ASSUME JobsInv, NEW j \in Jobs
  PROVE  /\ Good(job[j], bucket) /\ bucket \in Contents /\ job \in [Jobs -> JobStates]
         /\ job[j] \in JobStates
BY DEF JobsInv, Typed

LEMMA EndsStep ==
  ASSUME JobsInv, NEW j \in Jobs, Running(j), UNCHANGED bucket,
         NEW pc \in {"ok", "bad", "killed"}, NEW hit \in BOOLEAN, Ends(j, pc, hit),
         pc = "bad" => hit \/ Excused(job[j], bucket),
         artefact' = artefact \/ (job[j].pc = "upload" /\ Put(j)),
         \/ catalogue' = catalogue
         \/ job[j].pc = "update" /\ catalogue' = [catalogue EXCEPT !.fileSize = {j}]
         \/ job[j].pc = "framework" /\ catalogue' = [catalogue EXCEPT !.active = {j}],
         job[j].pc \in {"framework", "upload"} /\ job[j].type = "report" /\ pc = "bad" =>
           catalogue' = catalogue /\ job[j].pc = "framework"
  PROVE  JobsInv'
<1> DEFINE y == [job[j] EXCEPT !.pc = pc, !.walk = NewWalk, !.hit = hit]
<1>1. Good(y, bucket)
  BY JobAt, GoodEnd
<1>2. job' = [job EXCEPT ![j] = y]
  BY JobAt DEF Ends, JobStates
<1>3. /\ y.type = job[j].type /\ y.base = job[j].base /\ y.overlaps = job[j].overlaps
      /\ y.published = job[j].published /\ y.pc = pc
  BY JobAt DEF JobStates
<1> HIDE DEF y
<1>4. StepTo(j, y)
  BY <1>1, <1>2, <1>3 DEF StepTo
<1> QED BY <1>4, StepToKeeps

LEMMA GoesStep ==
  ASSUME JobsInv, NEW j \in Jobs, Running(j), UNCHANGED <<bucket, artefact>>,
         NEW pc, NEW walk, Goes(j, pc, walk),
         Good([job[j] EXCEPT !.pc = pc, !.walk = walk], bucket),
         \/ catalogue' = catalogue
         \/ job[j].pc = "framework" /\ catalogue' = [catalogue EXCEPT !.active = {j}],
         job[j].pc \in {"framework", "upload"} => pc = "upload"
  PROVE  JobsInv'
<1> DEFINE y == [job[j] EXCEPT !.pc = pc, !.walk = walk]
<1>1. job' = [job EXCEPT ![j] = y]
  BY JobAt DEF Goes, JobStates
<1>2. /\ y.type = job[j].type /\ y.base = job[j].base /\ y.overlaps = job[j].overlaps
      /\ y.published = job[j].published /\ y.pc = pc
  BY JobAt DEF JobStates
<1>3. Good(y, bucket)
  OBVIOUS
<1> HIDE DEF y
<1>4. StepTo(j, y)
  BY <1>1, <1>2, <1>3 DEF StepTo
<1> QED BY <1>4, StepToKeeps

LEMMA ListPageStep ==
  ASSUME JobsInv, NEW j \in Jobs, ListPage(j)
  PROVE  JobsInv'
<1>1. job[j].pc = "list" /\ UNCHANGED <<bucket, artefact, catalogue>> /\ Running(j)
  BY DEF ListPage, Running
<1> DEFINE page == Page(job[j].walk.cursor)
           walk == [job[j].walk EXCEPT !.cursor = NextCursor(@, page),
                                       !.page = page \ Markers,
                                       !.more = page # After(job[j].walk.cursor)]
<1>2. Goes(j, AfterFile(j, walk), walk) \/ Ends(j, "bad", TRUE)
  BY Zenon DEF ListPage
<1>3. CASE Goes(j, AfterFile(j, walk), walk)
  <2>1. Good([job[j] EXCEPT !.pc = AfterFile(j, walk), !.walk = walk], bucket)
    BY <1>1, GoodList
  <2> HIDE DEF walk, page
  <2> QED BY <1>1, <1>3, <2>1, GoesStep
<1>4. CASE Ends(j, "bad", TRUE)
  BY <1>1, <1>4, EndsStep
<1> QED BY <1>2, <1>3, <1>4

LEMMA FetchStep ==
  ASSUME JobsInv, NEW j \in Jobs, Fetch(j)
  PROVE  JobsInv'
<1>1. job[j].pc = "fetch" /\ UNCHANGED <<bucket, artefact, catalogue>> /\ Running(j)
  BY DEF Fetch, Running
<1> DEFINE k == Min(job[j].walk.page)
           walk == [job[j].walk EXCEPT !.page = @ \ {k}, !.content[k] = bucket[k]]
<1>2. \/ Readable(k) /\ Goes(j, AfterFile(j, walk), walk)
      \/ ~Readable(k) /\ Ends(j, "bad", FALSE)
      \/ Ends(j, "bad", TRUE)
  BY Zenon DEF Fetch
<1>3. CASE Readable(k) /\ Goes(j, AfterFile(j, walk), walk)
  <2>1. Good([job[j] EXCEPT !.pc = AfterFile(j, walk), !.walk = walk], bucket)
    BY <1>1, <1>3, GoodFetch
  <2> HIDE DEF walk, k
  <2> QED BY <1>1, <1>3, <2>1, GoesStep
<1>4. CASE ~Readable(k) /\ Ends(j, "bad", FALSE)
  <2>1. k \in job[j].walk.page /\ k \in Keys
    BY <1>1, JobAt, KeySets DEF Good, Sane, JobStates, Walks
  <2>2. ~Holds(bucket[k])
    BY <1>4, <2>1 DEF Readable, Present
  <2> HIDE DEF k
  <2>3. Excused(job[j], bucket)
    BY <2>1, <2>2, JobAt DEF Good, Sane, Excused
  <2> QED BY <1>1, <1>4, <2>3, EndsStep
<1>5. CASE Ends(j, "bad", TRUE)
  BY <1>1, <1>5, EndsStep
<1> QED BY <1>2, <1>3, <1>4, <1>5

LEMMA UploadStep ==
  ASSUME JobsInv, NEW j \in Jobs, Upload(j)
  PROVE  JobsInv'
<1>1. job[j].pc = "upload" /\ UNCHANGED <<bucket, catalogue>> /\ Running(j)
  BY DEF Upload, Running
<1>2. CASE Put(j) /\ Uploaded(j)
  <2> DEFINE pc == IF job[j].type = "zip" THEN "update" ELSE "ok"
             y == [job[j] EXCEPT !.pc = pc, !.walk = NewWalk, !.published = TRUE]
  <2>1. job' = [job EXCEPT ![j] = y]
    BY <1>2, JobAt DEF Uploaded, JobStates
  <2>2. /\ y \in JobStates
        /\ y.type = job[j].type /\ y.base = job[j].base /\ y.overlaps = job[j].overlaps
        /\ y.published = TRUE /\ y.pc = pc /\ y.walk = NewWalk /\ y.hit = job[j].hit
    BY JobAt, NewWalkTyped DEF JobStates, JobPc
  <2>3. Sane(y, bucket)
    <3> HIDE DEF y
    <3> QED BY <2>2, NewWalkTyped, JobAt DEF Sane, Good
  <2>4. Phase(y, bucket)
    <3> HIDE DEF y
    <3> QED BY <2>2 DEF Phase
  <2> HIDE DEF y
  <2>5. y.pc = "ok" \/ job[j].type = "zip"
    BY <2>2
  <2>6. StepTo(j, y)
    BY <1>1, <1>2, <2>1, <2>2, <2>3, <2>4, <2>5 DEF StepTo, Good
  <2> QED BY <2>6, StepToKeeps
<1>3. CASE UploadFailed(j) /\ (Put(j) \/ UNCHANGED artefact)
  <2> DEFINE pc == IF job[j].type = "zip" THEN "bad" ELSE "ok"
  <2>1. Ends(j, pc, TRUE) /\ pc \in {"ok", "bad", "killed"}
        /\ (job[j].type = "report" => pc = "ok")
    BY <1>3 DEF UploadFailed
  <2> HIDE DEF pc
  <2> QED BY <1>1, <1>3, <2>1, EndsStep
<1> QED BY <1>2, <1>3 DEF Upload

LEMMA UpdateStep ==
  ASSUME JobsInv, NEW j \in Jobs, UpdateCatalogue(j)
  PROVE  JobsInv'
BY EndsStep DEF UpdateCatalogue, Running

(* A framework that was given nothing has seen an empty databank, or one   *)
(* that was changed.                                                       *)
LEMMA NoFilesExcused ==
  ASSUME NEW x, NEW b \in Contents, Good(x, b), x.pc = "framework",
         x.walk.content = Empty
  PROVE  Excused(x, b)
<1>1. Covered(x, b) /\ x.walk.page = {} /\ ~x.walk.more
  BY DEF Good, Phase
<1>2. SUFFICES ASSUME \A k \in Keys : b[k] = x.base[k], NEW k \in Files, Holds(x.base[k])
               PROVE  FALSE
  BY DEF Excused
<1>3. k \in Keys \ Markers /\ k \in Keys
  BY Assumption DEF Files
<1>4. x.walk.content[k] = b[k] /\ x.walk.content[k] = 0
  BY <1>1, <1>2, <1>3, NewWalkTyped DEF Covered
<1>5. Holds(0)
  BY <1>2, <1>3, <1>4
<1> QED BY <1>5 DEF Holds

LEMMA FrameworkStep ==
  ASSUME JobsInv, NEW j \in Jobs, Framework(j)
  PROVE  JobsInv'
<1>1. /\ job[j].pc = "framework" /\ UNCHANGED <<bucket, artefact>> /\ Running(j)
      /\ job[j] \in JobStates /\ Good(job[j], bucket)
  BY JobAt DEF Framework, Running
<1>2. CASE Goes(j, "upload", job[j].walk)
           /\ catalogue' \in {catalogue, [catalogue EXCEPT !.active = {j}]}
  <2> DEFINE y == [job[j] EXCEPT !.pc = "upload", !.walk = job[j].walk]
  <2>1. /\ y.pc = "upload" /\ y.walk = job[j].walk /\ y.base = job[j].base
        /\ y \in JobStates
    BY <1>1 DEF JobStates, JobPc
  <2>2. Good(y, bucket)
    <3> HIDE DEF y
    <3>1. Covered(job[j], bucket) /\ Sane(job[j], bucket)
          /\ job[j].walk.page = {} /\ ~job[j].walk.more
      BY <1>1 DEF Good, Phase
    <3>2. Covered(y, bucket) /\ Sane(y, bucket)
      BY <2>1, <3>1 DEF Covered, Sane
    <3> QED BY <2>1, <3>1, <3>2 DEF Good, Phase
  <2> QED BY <1>1, <1>2, <2>2, GoesStep
<1>3. CASE Ends(j, "ok", FALSE)
           /\ catalogue' \in {catalogue, [catalogue EXCEPT !.active = {j}]}
  BY <1>1, <1>3, EndsStep
<1>4. CASE ~HasFiles(j) /\ Ends(j, "bad", FALSE) /\ UNCHANGED catalogue
  <2>1. Excused(job[j], bucket)
    BY <1>1, <1>4, JobAt, NoFilesExcused DEF HasFiles
  <2> QED BY <1>1, <1>4, <2>1, EndsStep
<1> QED BY <1>2, <1>3, <1>4 DEF Framework, Scores

LEMMA CrashStep ==
  ASSUME JobsInv, NEW j \in Jobs, Crash(j)
  PROVE  JobsInv'
BY EndsStep DEF Crash

-----------------------------------------------------------------------------
(* The clients, and the start of a job.                                    *)

(* Keys move on under the jobs.                                            *)
LEMMA BucketStep ==
  ASSUME JobsInv, NEW k \in Keys \ Markers, Write(k) \/ Delete(k)
  PROVE  JobsInv'
<1>1. UNCHANGED <<artefact, catalogue, job>> /\ bucket \in Contents /\ Typed
  BY DEF Write, Delete, JobsInv, Typed
<1>2. \A i \in Keys : bucket[i] \in Nat /\ bucket[i] \in 0..MaxVersion
  BY <1>1, Assumption DEF Contents
<1>3. PICK v \in 0..MaxVersion : bucket[k] <= v /\ bucket' = [bucket EXCEPT ![k] = v]
  <2>1. CASE Write(k)
    <3>1. bucket[k] + 2 \in Nat /\ bucket[k] + 1 \in Nat
      BY <1>2
    <3>2. \/ bucket[k] + 2 <= MaxVersion /\ bucket' = [bucket EXCEPT ![k] = bucket[k] + 2]
          \/ bucket[k] + 1 <= MaxVersion /\ bucket' = [bucket EXCEPT ![k] = bucket[k] + 1]
      <4>1. CASE Holds(bucket[k])
        BY <2>1, <4>1 DEF Write
      <4>2. CASE ~Holds(bucket[k])
        BY <2>1, <4>2 DEF Write
      <4> QED BY <4>1, <4>2
    <3> QED BY <1>2, <3>1, <3>2, Assumption
  <2>2. CASE Delete(k)
    <3>1. bucket[k] < MaxVersion /\ bucket' = [bucket EXCEPT ![k] = bucket[k] + 1]
      BY <2>2 DEF Delete
    <3>2. bucket[k] + 1 \in 0..MaxVersion /\ bucket[k] <= bucket[k] + 1
      BY <1>2, <3>1, Assumption
    <3> QED BY <3>1, <3>2
  <2> QED BY <2>1, <2>2
<1>4. bucket' \in Contents /\ \A i \in Keys : bucket[i] <= bucket'[i]
  BY <1>1, <1>2, <1>3 DEF Contents
<1>5. Typed'
  BY <1>1, <1>4 DEF Typed
<1>6. ASSUME NEW j \in Jobs PROVE Good(job[j], bucket') /\ Published(j)' /\ Announced(j)'
  <2>1. Good(job[j], bucket) /\ Published(j) /\ Announced(j)
    BY DEF JobsInv
  <2>2. Good(job[j], bucket')
    BY <1>1, <1>4, <2>1, GoodLater
  <2>3. Published(j)'
    <3>1. /\ job[j] \in JobStates /\ job[j].base \in Contents
          /\ job[j].type \in Types
      BY <1>1 DEF Typed, JobStates
    <3>2. \A i \in Keys : job[j].base[i] <= bucket[i]
      BY <2>1 DEF Good, Sane
    <3>3. Fresh(job[j].base, bucket, artefact[job[j].type].content) =>
            Fresh(job[j].base, bucket', artefact[job[j].type].content)
      BY <1>1, <1>4, <3>1, <3>2, FreshLater
    <3> QED BY <1>1, <2>1, <3>3 DEF Published
  <2>4. Announced(j)'
    BY <1>1, <2>1 DEF Announced
  <2> QED BY <2>2, <2>3, <2>4
<1>7. \A i, j \in Jobs : Apart(i, j)'
  BY <1>1 DEF JobsInv, Apart, Running
<1> QED BY <1>1, <1>5, <1>6, <1>7 DEF JobsInv

(* A job starts beside those of its kind that run.                         *)
StartsAs(j, pc, hit) ==
  /\ job[j].pc = "waiting"
  /\ pc \in {"list", "bad"} /\ hit \in BOOLEAN
  /\ pc = "bad" => hit \/ Present = {}
  /\ Begins(j, pc, hit)
  /\ UNCHANGED <<bucket, artefact, catalogue>>

Others(j) == {i \in Jobs \ {j} : Running(i) /\ job[i].type = job[j].type}

(* What it is then, and what a job beside it is, which only learns of it.  *)
Started(x, pc, b, S, hit) ==
  [x EXCEPT !.pc = pc, !.base = b, !.overlaps = S, !.hit = hit]

Beside(x, S) == [x EXCEPT !.overlaps = S]

LEMMA StartedTyped ==
  ASSUME NEW x \in JobStates, NEW pc \in JobPc, NEW b \in Contents,
         NEW S \in SUBSET Jobs, NEW hit \in BOOLEAN
  PROVE  /\ Started(x, pc, b, S, hit) \in JobStates
         /\ Started(x, pc, b, S, hit) =
              [type |-> x.type, pc |-> pc, walk |-> x.walk, base |-> b,
               overlaps |-> S, published |-> x.published, hit |-> hit]
<1>1. Started(x, pc, b, S, hit) =
        [type |-> x.type, pc |-> pc, walk |-> x.walk, base |-> b,
         overlaps |-> S, published |-> x.published, hit |-> hit]
  <2> DEFINE z == [x EXCEPT !.pc = pc, !.base = b]
  <2>1. /\ z \in JobStates /\ z.type = x.type /\ z.pc = pc /\ z.walk = x.walk
        /\ z.base = b /\ z.published = x.published
    BY DEF JobStates
  <2>2. Started(x, pc, b, S, hit) = [z EXCEPT !.overlaps = S, !.hit = hit]
    BY DEF Started
  <2> HIDE DEF z
  <2> QED BY <2>1, <2>2 DEF JobStates
<1> QED BY <1>1 DEF JobStates

LEMMA BesideTyped ==
  ASSUME NEW x \in JobStates, NEW S \in SUBSET Jobs
  PROVE  /\ Beside(x, S) \in JobStates
         /\ Beside(x, S) =
              [type |-> x.type, pc |-> x.pc, walk |-> x.walk, base |-> x.base,
               overlaps |-> S, published |-> x.published, hit |-> x.hit]
BY DEF Beside, JobStates

LEMMA StartsJobs ==
  ASSUME JobsInv, NEW j \in Jobs, NEW pc, NEW hit, StartsAs(j, pc, hit)
  PROVE  /\ job' \in [Jobs -> JobStates]
         /\ job'[j] = Started(job[j], pc, bucket, Others(j), hit)
         /\ \A i \in Others(j) :
              job'[i] = Beside(job[i], job[i].overlaps \cup {j})
         /\ \A i \in Jobs \ {j} : i \notin Others(j) => job'[i] = job[i]
         /\ Others(j) \in SUBSET (Jobs \ {j})
         /\ pc \in JobPc /\ hit \in BOOLEAN
<1>1. Others(j) \in SUBSET (Jobs \ {j}) /\ pc \in JobPc /\ hit \in BOOLEAN
  BY DEF Others, StartsAs, JobPc
<1>2. job' = [i \in Jobs |->
                IF i = j THEN Started(job[j], pc, bucket, Others(j), hit)
                ELSE IF i \in Others(j) THEN Beside(job[i], job[i].overlaps \cup {j})
                ELSE job[i]]
  BY DEF StartsAs, Begins, Others, Started, Beside
<1>3. \A i \in Jobs : job[i] \in JobStates
  BY JobAt
<1>4. Started(job[j], pc, bucket, Others(j), hit) \in JobStates
  BY <1>1, <1>3, JobAt, StartedTyped
<1>5. ASSUME NEW i \in Jobs
      PROVE  Beside(job[i], job[i].overlaps \cup {j}) \in JobStates
  <2>1. job[i].overlaps \cup {j} \in SUBSET Jobs
    BY <1>3 DEF JobStates
  <2> QED BY <1>3, <2>1, BesideTyped
<1>6. job' \in [Jobs -> JobStates]
  BY <1>2, <1>3, <1>4, <1>5
<1>7. /\ job'[j] = Started(job[j], pc, bucket, Others(j), hit)
      /\ \A i \in Others(j) : job'[i] = Beside(job[i], job[i].overlaps \cup {j})
      /\ \A i \in Jobs \ {j} : i \notin Others(j) => job'[i] = job[i]
  BY <1>1, <1>2
<1> QED BY <1>1, <1>6, <1>7

(* The job that starts: everything of the databank is still to come.       *)
LEMMA GoodStart ==
  ASSUME JobsInv, NEW j \in Jobs, NEW pc, NEW hit, StartsAs(j, pc, hit)
  PROVE  Good(job'[j], bucket)
<1> DEFINE x == job[j]
           y == job'[j]
<1>1. x \in JobStates /\ Good(x, bucket) /\ bucket \in Contents
  BY JobAt
<1>2. x.walk = NewWalk /\ ~x.published
  BY <1>1 DEF StartsAs, Good, Phase
<1>3. y \in JobStates
  BY StartsJobs
<1>4. /\ y.pc = pc /\ y.base = bucket /\ y.hit = hit /\ y.walk = NewWalk
      /\ y.published = x.published
  <2>1. Others(j) \in SUBSET Jobs
    BY StartsJobs
  <2> QED BY <1>1, <1>2, <2>1, StartsJobs, StartedTyped
<1> HIDE DEF y
<1>5. \A k \in Keys : bucket[k] \in Nat
  BY <1>1, Assumption DEF Contents
<1>6. \A k \in Keys : k \in Nat \ {0} /\ 0 < k
  BY Assumption
<1>7. Sane(y, bucket)
  <2>1. \A k \in Keys : y.base[k] <= bucket[k] /\ y.walk.content[k] = 0
    BY <1>4, <1>5, NewWalkTyped
  <2>2. y.walk.page = {} /\ y.pc # "fetch"
    BY <1>4, NewWalkTyped DEF StartsAs
  <2> QED BY <2>1, <2>2 DEF Sane
<1>8. Covered(y, bucket)
  BY <1>4, <1>6, NewWalkTyped DEF Covered
<1>9. pc = "bad" /\ ~hit => Excused(y, bucket)
  <2>1. Present = {} => \A k \in Keys : ~Holds(bucket[k])
    BY DEF Present
  <2> QED BY <1>4, <2>1, Assumption DEF StartsAs, Excused, Files
<1>10. Phase(y, bucket)
  BY <1>4, <1>8, <1>9, NewWalkTyped DEF Phase, StartsAs
<1> QED BY <1>3, <1>7, <1>10 DEF Good, y

(* A job beside it is as good as it was.                                   *)
LEMMA GoodBeside ==
  ASSUME NEW x, NEW b, Good(x, b), NEW S \in SUBSET Jobs
  PROVE  Good(Beside(x, S), b)
<1> DEFINE y == Beside(x, S)
<1>1. x \in JobStates /\ Sane(x, b) /\ Phase(x, b)
  BY DEF Good
<1>2. /\ y \in JobStates /\ y.pc = x.pc /\ y.walk = x.walk /\ y.base = x.base
      /\ y.type = x.type /\ y.published = x.published /\ y.hit = x.hit
  BY <1>1, BesideTyped
<1> HIDE DEF y
<1>3. Sane(y, b)
  BY <1>1, <1>2 DEF Sane
<1>4. Phase(y, b)
  <2>1. (Covered(y, b) <=> Covered(x, b)) /\ (Excused(y, b) <=> Excused(x, b))
    BY <1>2 DEF Covered, Excused
  <2> QED BY <1>1, <1>2, <2>1 DEF Phase
<1> QED BY <1>2, <1>3, <1>4 DEF Good, y

(* What the start leaves as it is, of every job and of the others.         *)
LEMMA StartsFrame ==
  ASSUME JobsInv, NEW j \in Jobs, NEW pc, NEW hit, StartsAs(j, pc, hit), NEW i \in Jobs
  PROVE  /\ job'[i].type = job[i].type /\ job'[i].published = job[i].published
         /\ i # j => /\ job'[i].pc = job[i].pc /\ job'[i].base = job[i].base
                     /\ job[i].overlaps \subseteq job'[i].overlaps
         /\ i \in Others(j) => j \in job'[i].overlaps
         /\ i = j => /\ job'[i].pc = pc /\ job'[i].base = bucket
                     /\ job'[i].overlaps = Others(j) /\ ~job'[i].published
<1>1. /\ job[i] \in JobStates /\ job[i].overlaps \cup {j} \in SUBSET Jobs
      /\ Others(j) \in SUBSET Jobs /\ bucket \in Contents
      /\ pc \in JobPc /\ hit \in BOOLEAN
  BY JobAt, StartsJobs DEF JobStates
<1>2. CASE i = j
  <2>1. ~job[i].published
    BY <1>2, JobAt DEF Good, Phase, StartsAs
  <2> QED BY <1>1, <1>2, <2>1, StartsJobs, StartedTyped
<1>3. CASE i \in Others(j)
  <2>1. job'[i] = Beside(job[i], job[i].overlaps \cup {j}) /\ i # j
    BY <1>3, StartsJobs
  <2> QED BY <1>1, <2>1, BesideTyped
<1>4. CASE i # j /\ i \notin Others(j)
  BY <1>1, <1>4, StartsJobs
<1> QED BY <1>2, <1>3, <1>4

LEMMA StartStep ==
  ASSUME JobsInv, NEW j \in Jobs, Start(j)
  PROVE  JobsInv'
<1>1. PICK pc, hit : StartsAs(j, pc, hit)
  <2>1. \/ StartsAs(j, "list", FALSE) \/ StartsAs(j, "bad", FALSE)
        \/ StartsAs(j, "bad", TRUE)
    BY DEF Start, StartsAs, FolderExists
  <2> QED BY <2>1
<1>2. /\ bucket' = bucket /\ artefact' = artefact /\ catalogue' = catalogue
      /\ Typed /\ bucket \in Contents /\ job[j].pc = "waiting"
  BY <1>1 DEF StartsAs, JobsInv, Typed
<1>3. Typed'
  BY <1>1, <1>2, StartsJobs DEF Typed
<1>4. \A i \in Jobs : /\ Good(job[i], bucket) /\ Published(i) /\ Announced(i)
                      /\ job[i] \in JobStates
  BY JobAt DEF JobsInv
<1>5. ASSUME NEW i \in Jobs PROVE Good(job'[i], bucket')
  <2>1. CASE i = j
    BY <1>1, <1>2, <2>1, GoodStart
  <2>2. CASE i \in Others(j)
    <3>1. job[i].overlaps \cup {j} \in SUBSET Jobs
      BY <1>4 DEF JobStates
    <3>2. job'[i] = Beside(job[i], job[i].overlaps \cup {j})
      BY <1>1, <2>2, StartsJobs
    <3>3. Good(Beside(job[i], job[i].overlaps \cup {j}), bucket)
      BY <1>4, <3>1, GoodBeside
    <3> QED BY <1>2, <3>2, <3>3
  <2>3. CASE i # j /\ i \notin Others(j)
    BY <1>1, <1>2, <1>4, <2>3, StartsJobs
  <2> QED BY <2>1, <2>2, <2>3
<1>6. ASSUME NEW i \in Jobs PROVE Published(i)'
  <2>1. CASE i = j
    <3>1. ~job'[i].published
      BY <1>1, <2>1, StartsFrame
    <3> QED BY <3>1 DEF Published
  <2>2. CASE i # j
    <3>1. /\ job'[i].type = job[i].type /\ job'[i].published = job[i].published
          /\ job'[i].base = job[i].base /\ job[i].overlaps \subseteq job'[i].overlaps
      BY <1>1, <2>2, StartsFrame
    <3> QED BY <1>2, <1>4, <3>1 DEF Published
  <2> QED BY <2>1, <2>2
<1>7. ASSUME NEW i \in Jobs PROVE Announced(i)'
  <2>1. CASE i = j
    <3>1. ~job'[i].published /\ ~job[i].published
      BY <1>1, <2>1, StartsFrame
    <3>2. i \notin catalogue.fileSize /\ i \notin catalogue.active
      BY <1>2, <1>4, <2>1, <3>1 DEF Announced
    <3> QED BY <1>2, <3>1, <3>2 DEF Announced
  <2>2. CASE i # j
    <3>1. /\ job'[i].type = job[i].type /\ job'[i].published = job[i].published
          /\ job'[i].pc = job[i].pc
      BY <1>1, <2>2, StartsFrame
    <3> QED BY <1>2, <1>4, <3>1 DEF Announced
  <2> QED BY <2>1, <2>2
<1>8. ASSUME NEW i \in Jobs, NEW k \in Jobs PROVE Apart(i, k)'
  <2> SUFFICES ASSUME Running(i)', job'[i].type = job'[k].type, i # k,
                      i \notin job'[k].overlaps
               PROVE  \A n \in Keys : job'[k].base[n] <= job'[i].base[n]
    BY DEF Apart
  <2>1. job[i].type = job[k].type
    BY <1>1, StartsFrame
  <2>2. CASE i = j
    <3>1. job'[i].base = bucket /\ job'[k].base = job[k].base
      BY <1>1, <2>2, StartsFrame
    <3> QED BY <1>4, <3>1 DEF Good, Sane
  <2>3. CASE i # j
    <3>1. Running(i) /\ job'[i].base = job[i].base
      BY <1>1, <2>3, StartsFrame DEF Running
    <3>2. k # j
      <4>1. k = j => i \in Others(j) /\ job'[k].overlaps = Others(j)
        BY <1>1, <2>1, <3>1, StartsFrame DEF Others
      <4> QED BY <4>1
    <3>3. job'[k].base = job[k].base /\ i \notin job[k].overlaps
      BY <1>1, <3>2, StartsFrame
    <3>4. Apart(i, k)
      BY DEF JobsInv
    <3> QED BY <2>1, <3>1, <3>3, <3>4 DEF Apart
  <2> QED BY <2>2, <2>3
<1> QED BY <1>3, <1>5, <1>6, <1>7, <1>8 DEF JobsInv

-----------------------------------------------------------------------------
LEMMA InitJobs == Init => JobsInv
<1> SUFFICES ASSUME Init PROVE JobsInv
  OBVIOUS
<1>1. \A j \in Jobs : \E t \in Types : job[j] = NewJob(t)
  BY DEF Init
<1>2. \A t \in Types : NewJob(t) \in JobStates
  BY NewWalkTyped DEF NewJob, JobStates, JobPc
<1>3. bucket \in Contents /\ \A k \in Keys : bucket[k] \in Nat
  <2>1. {0, 1} \subseteq 0..MaxVersion
    BY Assumption
  <2> QED BY <2>1 DEF Init, Contents
<1>4. job \in [Jobs -> JobStates]
  BY <1>2 DEF Init
<1>5. Typed
  <2>1. [by |-> {}, content |-> Empty] \in [by : SUBSET Jobs, content : Contents]
    BY NewWalkTyped
  <2>2. artefact \in [Types -> [by : SUBSET Jobs, content : Contents]]
    BY <2>1 DEF Init
  <2>3. catalogue \in [fileSize : SUBSET Jobs, active : SUBSET Jobs]
    BY DEF Init
  <2> QED BY <1>3, <1>4, <2>2, <2>3 DEF Typed
<1>6. ASSUME NEW t \in Types PROVE Good(NewJob(t), bucket)
  <2>1. /\ NewJob(t).pc = "waiting" /\ NewJob(t).walk = NewWalk
        /\ NewJob(t).base = Empty /\ ~NewJob(t).published /\ ~NewJob(t).hit
    BY DEF NewJob
  <2>2. Sane(NewJob(t), bucket)
    BY <1>3, <2>1, NewWalkTyped DEF Sane
  <2>3. Phase(NewJob(t), bucket)
    BY <2>1 DEF Phase
  <2> QED BY <1>2, <2>2, <2>3 DEF Good
<1>7. \A j \in Jobs : /\ Good(job[j], bucket) /\ ~job[j].published
                      /\ job[j].pc = "waiting"
  <2>1. \A t \in Types : ~NewJob(t).published /\ NewJob(t).pc = "waiting"
    BY DEF NewJob
  <2> QED BY <1>1, <1>6, <2>1
<1>8. catalogue.fileSize = {} /\ catalogue.active = {}
  BY DEF Init
<1>9. \A j \in Jobs : Published(j) /\ Announced(j)
  BY <1>7, <1>8 DEF Published, Announced
<1>10. \A i, j \in Jobs : Apart(i, j)
  BY <1>7 DEF Apart, Running
<1> QED BY <1>5, <1>7, <1>9, <1>10 DEF JobsInv

LEMMA JobsStep == JobsInv /\ [Next]_vars => JobsInv'
<1> SUFFICES ASSUME JobsInv, [Next]_vars PROVE JobsInv'
  OBVIOUS
<1>1. CASE UNCHANGED vars
  <2>1. /\ bucket' = bucket /\ artefact' = artefact /\ catalogue' = catalogue
        /\ job' = job
    BY <1>1 DEF vars
  <2>2. Typed'
    BY <2>1 DEF JobsInv, Typed
  <2>3. \A j \in Jobs : Good(job'[j], bucket') /\ Published(j)' /\ Announced(j)'
    BY <2>1 DEF JobsInv, Published, Announced
  <2>4. \A i, j \in Jobs : Apart(i, j)'
    BY <2>1 DEF JobsInv, Apart, Running
  <2> QED BY <2>2, <2>3, <2>4 DEF JobsInv
<1>2. ASSUME NEW k \in Keys \ Markers, Write(k) \/ Delete(k) PROVE JobsInv'
  BY <1>2, BucketStep
<1>3. ASSUME NEW j \in Jobs, Start(j) PROVE JobsInv'
  BY <1>3, StartStep
<1>4. ASSUME NEW j \in Jobs, Step(j) PROVE JobsInv'
  BY <1>4, ListPageStep, FetchStep, UploadStep, UpdateStep, FrameworkStep DEF Step
<1>5. ASSUME NEW j \in Jobs, Crash(j) PROVE JobsInv'
  BY <1>5, CrashStep
<1> QED BY <1>1, <1>2, <1>3, <1>4, <1>5 DEF Next

(* The invariant: keys only move on, every file that did not is in a job's *)
(* hands or still to come, and jobs that do not overlap follow each other. *)
THEOREM JobsInvariant == Spec => []JobsInv
<1> QED BY InitJobs, JobsStep, PTL DEF Spec

-----------------------------------------------------------------------------
(* Every variable has its type; a job that fetches has a file left on its  *)
(* page, so that the smallest of them exists, and only what had a file     *)
(* when it was fetched is in its hands.                                    *)
THEOREM TypeCorrect == Spec => []TypeOK
<1>1. JobsInv => TypeOK
  <2> SUFFICES ASSUME JobsInv PROVE TypeOK
    OBVIOUS
  <2>1. /\ bucket \in Contents
        /\ artefact \in [Types -> [by : SUBSET Jobs, content : Contents]]
        /\ catalogue \in [fileSize : SUBSET Jobs, active : SUBSET Jobs]
        /\ job \in [Jobs ->
             [type : Types, pc : JobPc, walk : Walks, base : Contents,
              overlaps : SUBSET Jobs, published : BOOLEAN, hit : BOOLEAN]]
    BY DEF JobsInv, Typed, JobStates
  <2>2. \A j \in Jobs : Sane(job[j], bucket)
    BY DEF JobsInv, Good
  <2> QED BY <2>1, <2>2 DEF TypeOK, Sane
<1> QED BY <1>1, JobsInvariant, PTL

(* An archive or report that a successful job put in place holds what did  *)
(* not change since the job started, however clients wrote and deleted     *)
(* while it walked the listing, unless a job it overlapped put its own     *)
(* there: the walks and uploads of both workers never miss such a file.    *)
THEOREM SuccessfulJobsAreFresh == Spec => []ArtefactIsFresh
<1>1. JobsInv => ArtefactIsFresh
  <2> SUFFICES ASSUME JobsInv, NEW j \in Jobs, job[j].published
               PROVE  \/ artefact[job[j].type].by \cap job[j].overlaps # {}
                      \/ Fresh(job[j].base, bucket, artefact[job[j].type].content)
    BY DEF ArtefactIsFresh, Fresh
  <2> QED BY DEF JobsInv, Published
<1> QED BY <1>1, JobsInvariant, PTL

(* The catalogue shows the size only of an archive that was put in place,  *)
(* and as active only a databank whose report job has not failed since.    *)
THEOREM CatalogueTellsTheTruth == Spec => []CatalogueIsBacked
<1>1. JobsInv => CatalogueIsBacked
  <2> SUFFICES ASSUME JobsInv PROVE CatalogueIsBacked
    OBVIOUS
  <2>1. catalogue.fileSize \subseteq Jobs /\ catalogue.active \subseteq Jobs
    BY DEF JobsInv, Typed
  <2>2. \A j \in Jobs : Announced(j)
    BY DEF JobsInv
  <2> QED BY <2>1, <2>2 DEF Announced, CatalogueIsBacked
<1> QED BY <1>1, JobsInvariant, PTL

(* A job that no failure hit gives a bad verdict only about a databank     *)
(* without a file, or one whose keys were changed under it.                *)
THEOREM CleanJobsSucceed == Spec => []CleanJobSucceeds
<1>1. JobsInv => CleanJobSucceeds
  BY DEF JobsInv, Good, Phase, Excused, CleanJobSucceeds
<1> QED BY <1>1, JobsInvariant, PTL

=============================================================================
