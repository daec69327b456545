------------------------------ MODULE ApiProofs ------------------------------
(***************************************************************************)
(* Proofs about ApiRequests: that the gates implement AccessGrant, and     *)
(* what callers are told. A step of one request changes it alone, but for  *)
(* what the others see of it meanwhile.                                    *)
(***************************************************************************)
EXTENDS ApiRequests, TLAPS

(* The fields of a request.                                                *)
Fields == {"ask", "pc", "status", "passed", "acted", "walk", "via", "always",
           "ever", "hit", "shaken"}

Whole(q) == DOMAIN q = Fields

Shape == \A r \in Requests : Whole(request[r])

(* A step of r that takes it to q, whether a service failed in it or not.  *)
MovesTo(r, q) == StepTo(r, q, TRUE) \/ StepTo(r, q, FALSE)

(* What a step of r makes of p: q of itself, of another what it was.       *)
Next_(r, q, p) == IF p = r THEN q ELSE request[p]

-----------------------------------------------------------------------------
(* How requests see a step                                                 *)

LEMMA Moved ==
  ASSUME Shape, NEW r \in Requests, NEW q, Whole(q), MovesTo(r, q),
         NEW p \in Requests
  PROVE  LET next == Next_(r, q, p) IN
         /\ Whole(request'[p])
         /\ request'[p].ask = next.ask /\ request'[p].pc = next.pc
         /\ request'[p].status = next.status
         /\ request'[p].passed = next.passed /\ request'[p].acted = next.acted
         /\ request'[p].walk = next.walk /\ request'[p].via = next.via
         /\ request'[p].shaken = next.shaken
<1> DEFINE next == Next_(r, q, p)
<1>1. Whole(next)
  BY DEF Shape, Next_
<1>2. CASE StepTo(r, q, TRUE)
  BY <1>1, <1>2 DEF StepTo, Whole, Fields, Next_
<1>3. CASE StepTo(r, q, FALSE)
  BY <1>1, <1>3 DEF StepTo, Whole, Fields, Next_
<1> QED
  BY <1>2, <1>3 DEF MovesTo

(* What p, become next, sees of the bucket and of failures while it runs.  *)
SeesQuiet(p, next) ==
  /\ Active(p) => /\ request'[p].always = next.always \cap bucket'
                  /\ request'[p].ever = next.ever \cup bucket'
  /\ ~Active(p) => request'[p].always = next.always /\ request'[p].ever = next.ever
  /\ request'[p].hit <=> next.hit

SeesFailing(p, next) ==
  /\ Active(p) => /\ request'[p].always = next.always \cap bucket'
                  /\ request'[p].ever = next.ever \cup bucket'
                  /\ request'[p].hit = TRUE
  /\ ~Active(p) => /\ request'[p].always = next.always
                   /\ request'[p].ever = next.ever /\ request'[p].hit = next.hit

LEMMA SeenQuietly ==
  ASSUME Shape, NEW r \in Requests, NEW q, Whole(q), StepTo(r, q, FALSE),
         NEW p \in Requests
  PROVE  SeesQuiet(p, Next_(r, q, p))
<1> DEFINE next == Next_(r, q, p)
<1>1. Whole(next)
  BY DEF Shape, Next_
<1> QED
  BY <1>1 DEF StepTo, Whole, Fields, Next_, SeesQuiet

LEMMA SeenFailing ==
  ASSUME Shape, NEW r \in Requests, NEW q, Whole(q), StepTo(r, q, TRUE),
         NEW p \in Requests
  PROVE  SeesFailing(p, Next_(r, q, p))
<1> DEFINE next == Next_(r, q, p)
<1>1. Whole(next)
  BY DEF Shape, Next_
<1> QED
  BY <1>1 DEF StepTo, Whole, Fields, Next_, SeesFailing

-----------------------------------------------------------------------------
(* The pieces of a step                                                    *)

LEMMA AnsweredIs ==
  ASSUME NEW q, Whole(q), NEW s
  PROVE  /\ Whole(Answered(q, s))
         /\ Answered(q, s).pc = "answered" /\ Answered(q, s).status = s
         /\ Answered(q, s).ask = q.ask /\ Answered(q, s).passed = q.passed
         /\ Answered(q, s).acted = q.acted /\ Answered(q, s).walk = q.walk
         /\ Answered(q, s).via = q.via /\ Answered(q, s).always = q.always
         /\ Answered(q, s).ever = q.ever /\ Answered(q, s).hit = q.hit
         /\ Answered(q, s).shaken = q.shaken
BY DEF Answered, Whole, Fields

LEMMA ActingIs ==
  ASSUME Shape, NEW r \in Requests
  PROVE  LET q == request[r] IN
         /\ Whole(Acting(r))
         /\ Acting(r).acted = TRUE /\ Acting(r).pc = q.pc
         /\ Acting(r).status = q.status
         /\ Acting(r).ask = q.ask /\ Acting(r).passed = q.passed
         /\ Acting(r).walk = q.walk /\ Acting(r).via = q.via
         /\ Acting(r).always = q.always /\ Acting(r).ever = q.ever
         /\ Acting(r).hit = q.hit /\ Acting(r).shaken = q.shaken
BY DEF Acting, Shape, Whole, Fields

LEMMA SaysIs ==
  ASSUME Shape, NEW r \in Requests, NEW s
  PROVE  LET q == request[r] IN
         /\ Whole(Says(r, s))
         /\ Says(r, s).acted = TRUE /\ Says(r, s).pc = "answered"
         /\ Says(r, s).status = s
         /\ Says(r, s).ask = q.ask /\ Says(r, s).passed = q.passed
         /\ Says(r, s).walk = q.walk /\ Says(r, s).via = q.via
         /\ Says(r, s).always = q.always /\ Says(r, s).ever = q.ever
         /\ Says(r, s).hit = q.hit /\ Says(r, s).shaken = q.shaken
<1>1. Whole(Acting(r))
  BY ActingIs
<1> QED
  BY <1>1, ActingIs DEF Says, Answered, Whole, Fields

LEMMA ToIs ==
  ASSUME Shape, NEW r \in Requests, NEW pc
  PROVE  LET q == request[r] IN
         /\ Whole(To(r, pc))
         /\ To(r, pc).acted = TRUE /\ To(r, pc).pc = pc
         /\ To(r, pc).status = q.status
         /\ To(r, pc).ask = q.ask /\ To(r, pc).passed = q.passed
         /\ To(r, pc).walk = q.walk /\ To(r, pc).via = q.via
         /\ To(r, pc).always = q.always /\ To(r, pc).ever = q.ever
         /\ To(r, pc).hit = q.hit /\ To(r, pc).shaken = q.shaken
<1>1. Whole(Acting(r))
  BY ActingIs
<1> QED
  BY <1>1, ActingIs DEF To, Whole, Fields

-----------------------------------------------------------------------------
(* The gates                                                               *)

LEMMA FirstIsZero ==
  ASSUME NEW a \in Int, NEW b \in Int, NEW c \in Int
  PROVE  /\ First(<<a, b, c>>) = IF a # 0 THEN a ELSE IF b # 0 THEN b ELSE c
         /\ First(<<a, b>>) = IF a # 0 THEN a ELSE b
<1>1. First(<<a, b, c>>) = IF a # 0 THEN a ELSE IF b # 0 THEN b ELSE c
  <2> DEFINE s == <<a, b, c>>
             bad == {i \in DOMAIN s : s[i] # 0}
  <2>1. DOMAIN s = 1..3
    OBVIOUS
  <2>2. CASE a # 0
    <3>1. 1 \in bad /\ \A i \in bad : 1 <= i
      BY <2>1, <2>2
    <3>2. Min(bad) = 1
      BY <2>1, <3>1 DEF Min
    <3> QED
      BY <2>2, <3>1, <3>2 DEF First
  <2>3. CASE a = 0 /\ b # 0
    <3>1. 2 \in bad /\ \A i \in bad : 2 <= i
      BY <2>1, <2>3
    <3>2. Min(bad) = 2
      BY <2>1, <3>1 DEF Min
    <3> QED
      BY <2>3, <3>1, <3>2 DEF First
  <2>4. CASE a = 0 /\ b = 0 /\ c # 0
    <3>1. 3 \in bad /\ \A i \in bad : 3 <= i
      BY <2>1, <2>4
    <3>2. Min(bad) = 3
      BY <2>1, <3>1 DEF Min
    <3> QED
      BY <2>4, <3>1, <3>2 DEF First
  <2>5. CASE a = 0 /\ b = 0 /\ c = 0
    <3>1. bad = {}
      BY <2>1, <2>5
    <3> QED
      BY <2>5, <3>1 DEF First
  <2> QED
    BY <2>2, <2>3, <2>4, <2>5
<1>2. First(<<a, b>>) = IF a # 0 THEN a ELSE b
  <2> DEFINE s == <<a, b>>
             bad == {i \in DOMAIN s : s[i] # 0}
  <2>1. DOMAIN s = 1..2
    OBVIOUS
  <2>2. CASE a # 0
    <3>1. 1 \in bad /\ \A i \in bad : 1 <= i
      BY <2>1, <2>2
    <3>2. Min(bad) = 1
      BY <2>1, <3>1 DEF Min
    <3> QED
      BY <2>2, <3>1, <3>2 DEF First
  <2>3. CASE a = 0 /\ b # 0
    <3>1. 2 \in bad /\ \A i \in bad : 2 <= i
      BY <2>1, <2>3
    <3>2. Min(bad) = 2
      BY <2>1, <3>1 DEF Min
    <3> QED
      BY <2>3, <3>1, <3>2 DEF First
  <2>4. CASE a = 0 /\ b = 0
    <3>1. bad = {}
      BY <2>1, <2>4
    <3> QED
      BY <2>4, <3>1 DEF First
  <2> QED
    BY <2>2, <2>3, <2>4
<1> QED
  BY <1>1, <1>2

Gates == {"none", "item", "read", "owner"}

LEMMA Routes ==
  ASSUME NEW x \in DOMAIN Route
  PROVE  /\ Route[x].auth \in BOOLEAN
         /\ Route[x].gate \in Gates
         /\ ~Route[x].auth => Route[x].gate = "none"
<1>1. x \in {"list", "listAll", "preview", "parquet", "download", "presign",
            "access", "zip", "delete", "complete", "metadata", "report",
            "assetUpload", "assetLink"}
  BY DEF Route
<1>2. \A y \in {"list", "listAll", "preview", "parquet"} :
        Route[y] = Guarded(Anyone, "item")
  BY DEF Route
<1>3. \A y \in {"download", "presign", "access", "zip"} :
        Route[y] = Guarded(Anyone, "read")
  BY DEF Route
<1>4. /\ Route["delete"] = Guarded(Anyone, "owner")
      /\ Route["complete"] = Guarded({"provider"}, "owner")
      /\ Route["assetUpload"] = Guarded(Anyone \cup {"admin"}, "none")
      /\ Route["assetLink"] = Guarded({"provider", "admin"}, "none")
  BY DEF Route
<1>5. Route["metadata"] = Public /\ Route["report"] = Public
  BY DEF Route
<1>6. \A roles, gate :
        Guarded(roles, gate).auth = TRUE /\ Guarded(roles, gate).gate = gate
  BY DEF Guarded
<1>7. Public.auth = FALSE /\ Public.gate = "none"
  BY DEF Public
<1>8. CASE x \in {"metadata", "report"}
  BY <1>5, <1>7, <1>8 DEF Gates
<1>9. CASE x \in {"delete", "complete", "assetUpload", "assetLink"}
  <2>1. \E roles, gate : gate \in Gates /\ Route[x] = Guarded(roles, gate)
    BY <1>4, <1>9 DEF Gates
  <2> QED
    BY ZenonT(60), <1>6, <2>1
<1>10. CASE x \in {"list", "listAll", "preview", "parquet"}
  <2>1. Route[x] = Guarded(Anyone, "item")
    BY <1>2, <1>10
  <2> QED
    BY <1>6, <2>1 DEF Gates
<1>11. CASE x \in {"download", "presign", "access", "zip"}
  <2>1. Route[x] = Guarded(Anyone, "read")
    BY <1>3, <1>11
  <2> QED
    BY <1>6, <2>1 DEF Gates
<1> QED
  BY <1>1, <1>8, <1>9, <1>10, <1>11

(* The routes are guarded as documented, but for the report.               *)
LEMMA Documented ==
  ASSUME NEW x \in DOMAIN Route
  PROVE  /\ x \in {"metadata", "report"} =>
              ~Route[x].auth /\ Route[x].gate = "none"
         /\ x \notin {"metadata", "report"} =>
              /\ Route[x].auth
              /\ Route[x].roles = DocumentedRoles(x)
              /\ \/ DocumentedCheck[x] = "role" /\ Route[x].gate = "none"
                 \/ /\ DocumentedCheck[x] \in {"item", "read", "owner"}
                    /\ Route[x].gate = DocumentedCheck[x]
<1>1. x \in {"list", "listAll", "preview", "parquet", "download", "presign",
            "access", "zip", "delete", "complete", "metadata", "report",
            "assetUpload", "assetLink"}
  BY DEF Route
<1>2. CASE x \in {"list", "listAll", "preview", "parquet"}
  <2>1. Route[x] = Guarded(Anyone, "item")
    BY <1>2 DEF Route
  <2>2. DocumentedCheck[x] = "item"
    BY <1>2 DEF DocumentedCheck
  <2>3. DocumentedRoles(x) = Anyone
    BY <1>2 DEF DocumentedRoles, Anyone
  <2> QED
    BY <1>2, <2>1, <2>2, <2>3 DEF Guarded
<1>3. CASE x \in {"download", "presign", "access", "zip"}
  <2>1. Route[x] = Guarded(Anyone, "read")
    BY <1>3 DEF Route
  <2>2. DocumentedCheck[x] = "read"
    BY <1>3 DEF DocumentedCheck
  <2>3. DocumentedRoles(x) = Anyone
    BY <1>3 DEF DocumentedRoles, Anyone
  <2> QED
    BY <1>3, <2>1, <2>2, <2>3 DEF Guarded
<1>4. CASE x = "delete"
  BY <1>4 DEF Route, Guarded, Anyone, DocumentedRoles, DocumentedCheck
<1>5. CASE x = "complete"
  <2>1. Route["complete"] = Guarded({"provider"}, "owner")
    BY DEF Route
  <2> QED
    BY <1>5, <2>1 DEF Guarded, DocumentedRoles, DocumentedCheck
<1>7. CASE x = "assetUpload"
  <2>1. Route["assetUpload"] = Guarded(Anyone \cup {"admin"}, "none")
    BY DEF Route
  <2>2. Anyone \cup {"admin"} = {"provider", "consumer", "admin"}
    BY DEF Anyone
  <2> QED
    BY <1>7, <2>1, <2>2 DEF Guarded, DocumentedRoles, DocumentedCheck
<1>8. CASE x = "assetLink"
  <2>1. Route["assetLink"] = Guarded({"provider", "admin"}, "none")
    BY DEF Route
  <2> QED
    BY <1>8, <2>1 DEF Guarded, DocumentedRoles, DocumentedCheck
<1>6. CASE x \in {"metadata", "report"}
  BY <1>6 DEF Route, Public
<1> QED
  BY <1>1, <1>2, <1>3, <1>4, <1>5, <1>6, <1>7, <1>8

(* The checks of the token and of the roles come first.                    *)
Admitted(a) ==
  \/ ~Route[a.route].auth
  \/ /\ Authenticate(a.user) = 0
     /\ Authorize(a.user, Route[a.route].roles) = 0

LEMMA BeforeChecks ==
  ASSUME NEW a
  PROVE  /\ Before(a) \in {0, 401, 403, 413, 415}
         /\ Before(a) = 0 => Admitted(a)
<1>1. /\ Authenticate(a.user) \in {0, 401}
      /\ FileUpload(a) \in {0, 413, 415}
      /\ Authorize(a.user, Route[a.route].roles) \in {0, 403}
  BY DEF Authenticate, FileUpload, Authorize
<1>2. CASE ~Route[a.route].auth
  BY <1>2 DEF Before, Admitted
<1>3. CASE Route[a.route].auth
  <2> DEFINE x == Authenticate(a.user)
             y == FileUpload(a)
             z == Authorize(a.user, Route[a.route].roles)
  <2>1. x \in Int /\ y \in Int /\ z \in Int
    BY <1>1
  <2>2. Before(a) = First(<<x, y, z>>)
    BY <1>3 DEF Before
  <2> HIDE DEF x, y, z
  <2>3. First(<<x, y, z>>) = IF x # 0 THEN x ELSE IF y # 0 THEN y ELSE z
    BY <2>1, FirstIsZero, Zenon
  <2> QED
    BY <1>1, <2>2, <2>3 DEF Admitted, x, y, z
<1> QED
  BY <1>2, <1>3

LEMMA Refusal ==
  ASSUME NEW a
  PROVE  First(<<ValidateBody(a), HandlerChecks(a)>>) =
           IF ValidateBody(a) # 0 THEN ValidateBody(a) ELSE HandlerChecks(a)
<1>1. ValidateBody(a) \in {0, 400} /\ HandlerChecks(a) \in {0, 400, 403}
  BY DEF ValidateBody, HandlerChecks
<1> DEFINE x == ValidateBody(a)
           y == HandlerChecks(a)
<1>2. x \in Int /\ y \in Int
  BY <1>1
<1> HIDE DEF x, y
<1>3. First(<<x, y>>) = IF x # 0 THEN x ELSE y
  BY <1>2, FirstIsZero, Zenon
<1> QED
  BY <1>3 DEF x, y

(* What a gate makes of a request that it looked at.                       *)
JudgedSo(q, a, v, j) ==
  /\ Whole(j) /\ j.ask = q.ask /\ j.acted = q.acted /\ j.via = q.via
  /\ j.walk = q.walk /\ j.always = q.always /\ j.ever = q.ever
  /\ j.hit = q.hit /\ j.shaken = q.shaken
  /\ v.to = "pass" =>
       \/ /\ j.passed = TRUE /\ j.pc = "work" /\ j.status = q.status
          /\ a.body # "bad" /\ HandlerChecks(a) = 0
       \/ /\ j.passed = q.passed /\ j.pc = "answered" /\ j.status \in {400, 403}
          /\ a.body = "bad" \/ HandlerChecks(a) # 0
  /\ v.to = "refuse" =>
       j.passed = q.passed /\ j.pc = "answered" /\ j.status = v.status
  /\ v.to \notin {"pass", "refuse"} =>
       j.passed = q.passed /\ j.pc = v.to /\ j.status = q.status

LEMMA JudgedIs ==
  ASSUME NEW q, Whole(q), NEW a, NEW v
  PROVE  JudgedSo(q, a, v, Judged(q, a, v))
<1> DEFINE refused == First(<<ValidateBody(a), HandlerChecks(a)>>)
<1>1. /\ ValidateBody(a) = IF a.body = "bad" THEN 400 ELSE 0
      /\ HandlerChecks(a) \in {0, 400, 403}
  BY DEF ValidateBody, HandlerChecks
<1>2. /\ refused \in {0, 400, 403}
      /\ refused = 0 <=> (a.body # "bad" /\ HandlerChecks(a) = 0)
  BY <1>1, Refusal
<1>3. CASE v.to = "pass" /\ refused # 0
  <2>1. Judged(q, a, v) = Answered(q, refused)
    BY <1>3 DEF Judged
  <2> HIDE DEF refused
  <2> QED
    BY <1>2, <1>3, <2>1, AnsweredIs DEF JudgedSo, Whole, Fields
<1>4. CASE v.to = "pass" /\ refused = 0
  <2>1. Judged(q, a, v) = [q EXCEPT !.passed = TRUE, !.pc = "work"]
    BY <1>4 DEF Judged
  <2> HIDE DEF refused
  <2> QED
    BY <1>2, <1>4, <2>1 DEF JudgedSo, Whole, Fields
<1>5. CASE v.to = "refuse"
  BY <1>5, AnsweredIs DEF Judged, JudgedSo
<1>6. CASE v.to \notin {"pass", "refuse"}
  BY <1>6 DEF Judged, JudgedSo, Whole, Fields
<1> QED
  BY <1>3, <1>4, <1>5, <1>6

-----------------------------------------------------------------------------
(* The handlers: what they do is done for a request that was let through,  *)
(* and leaves its verdict alone.                                           *)

HandlerPcs == {"work", "stream", "sign", "create", "configure", "schema", "rows"}

HandlerAct(r) ==
  \/ Metadata(r) \/ Download(r) \/ Pipe(r) \/ Preview(r) \/ Parse(r)
  \/ CheckZip(r) \/ CheckReport(r) \/ CheckAsset(r) \/ SignLink(r)
  \/ SignAsset(r) \/ Presign(r) \/ QueryAccess(r) \/ DeleteFile(r) \/ Complete(r)
  \/ UploadAsset(r)
  \/ ListAws(r) \/ ListMinio(r) \/ ListFails(r)
  \/ CreateConnection(r) \/ CreateFails(r) \/ Configure(r) \/ Query(r)

(* q follows from the request r by work of its handler.                    *)
Follows(r, q) ==
  /\ Whole(q)
  /\ q.ask = request[r].ask /\ q.passed = request[r].passed
  /\ q.acted = TRUE \/ q.acted = request[r].acted
  /\ q.pc \in HandlerPcs \cup Over
  /\ q.pc = "answered" => q.status \in Statuses
  /\ q.pc # "answered" => q.status = request[r].status
  /\ q.via = request[r].via \/ q.via = conn
  /\ q.always = request[r].always /\ q.ever = request[r].ever
  /\ q.shaken = request[r].shaken

(* What else it may do: delete, put its own object, use DuckDB.            *)
Touches(r) ==
  /\ \/ bucket' \subseteq bucket
     \/ /\ AskOf(r).route \in Writing
        /\ bucket' = bucket \cup {Target(AskOf(r))}
  /\ conn' \in {conn, r} /\ configured' \subseteq configured \cup {r}

Handled(r) ==
  /\ request[r].pc \in HandlerPcs
  /\ UNCHANGED <<gateVars, changes>>
  /\ Touches(r)
  /\ \E q : Follows(r, q) /\ MovesTo(r, q)

LEMMA GoesMoves ==
  ASSUME NEW r, NEW q, Goes(r, q, TRUE) \/ Goes(r, q, FALSE)
  PROVE  MovesTo(r, q) /\ UNCHANGED <<gateVars, bucket, duckVars, changes>>
BY DEF Goes, MovesTo

LEMMA SaysFollows ==
  ASSUME Shape, NEW r \in Requests, NEW s \in Statuses
  PROVE  Follows(r, Says(r, s))
BY SaysIs DEF Follows, Over

LEMMA ToFollows ==
  ASSUME Shape, NEW r \in Requests, NEW pc \in HandlerPcs \cup {"hung"}
  PROVE  Follows(r, To(r, pc))
BY ZenonT(60), ToIs DEF Follows, Over, HandlerPcs

LEMMA GoesHandled ==
  ASSUME NEW r, request[r].pc \in HandlerPcs, NEW q, Follows(r, q),
         Goes(r, q, TRUE) \/ Goes(r, q, FALSE)
  PROVE  Handled(r)
BY GoesMoves DEF Handled, Touches, duckVars

LEMMA StatusOfType == \A e : StatusOf(e) \in Statuses
BY DEF StatusOf, Statuses

LEMMA SaysHandled ==
  ASSUME Shape, NEW r \in Requests, request[r].pc \in HandlerPcs,
         NEW s \in Statuses,
         Goes(r, Says(r, s), TRUE) \/ Goes(r, Says(r, s), FALSE)
  PROVE  Handled(r)
BY SaysFollows, GoesHandled

LEMMA ThrowsHandled ==
  ASSUME Shape, NEW r \in Requests, request[r].pc \in HandlerPcs, Throws(r)
  PROVE  Handled(r)
<1>1. PICK e \in Failures : Goes(r, Says(r, StatusOf(e)), TRUE)
  BY DEF Throws
<1>2. Follows(r, Says(r, StatusOf(e)))
  BY SaysFollows, StatusOfType
<1> QED
  BY <1>1, <1>2, GoesHandled

LEMMA AsksHandled ==
  ASSUME Shape, NEW r \in Requests, request[r].pc \in HandlerPcs,
         NEW found, NEW missing, Follows(r, found), Follows(r, missing),
         Asks(r, found, missing)
  PROVE  Handled(r)
BY GoesHandled DEF Asks

LEMMA WritesHandled ==
  ASSUME Shape, NEW r \in Requests, request[r].pc \in HandlerPcs,
         NEW s \in Statuses, UNCHANGED <<gateVars, changes>>, Touches(r),
         \/ StepTo(r, Says(r, s), FALSE)
         \/ \E e \in Failures : StepTo(r, Says(r, StatusOf(e)), TRUE)
  PROVE  Handled(r)
<1>1. CASE StepTo(r, Says(r, s), FALSE)
  BY <1>1, SaysFollows DEF Handled, MovesTo
<1>2. ASSUME NEW e \in Failures, StepTo(r, Says(r, StatusOf(e)), TRUE)
      PROVE  Handled(r)
  <2>1. Follows(r, Says(r, StatusOf(e)))
    BY SaysFollows, StatusOfType
  <2> QED
    BY <1>2, <2>1 DEF Handled, MovesTo
<1> QED
  BY <1>1, <1>2

LEMMA ReadsHandled ==
  ASSUME Shape, NEW r \in Requests,
         \/ Metadata(r) \/ Download(r) \/ Pipe(r) \/ Preview(r) \/ Parse(r)
         \/ CheckZip(r) \/ CheckReport(r) \/ CheckAsset(r)
  PROVE  Handled(r)
<1> DEFINE S(s) == Says(r, s)
<1>1. /\ Follows(r, S(200)) /\ Follows(r, S(404)) /\ Follows(r, S(500))
      /\ Follows(r, S(StatusOf(NotThere))) /\ Follows(r, S(StatusOf(PreviewError)))
  BY SaysFollows, StatusOfType DEF Statuses
<1>2. /\ Follows(r, To(r, "stream")) /\ Follows(r, To(r, "create"))
      /\ Follows(r, To(r, "sign")) /\ Follows(r, To(r, "hung"))
  BY ToFollows DEF HandlerPcs
<1> HIDE DEF S
<1>3. CASE Metadata(r)
  <2>1. request[r].pc \in HandlerPcs
    BY <1>3 DEF Metadata, Handling, At, HandlerPcs
  <2>2. CASE Throws(r)
    BY <2>1, <2>2, ThrowsHandled
  <2>3. CASE Details(r, Says(r, 200), Says(r, 404), StatusOf(NotThere))
    BY <1>1, <2>1, <2>3, AsksHandled DEF Details, S
  <2> QED
    BY <1>3, <2>2, <2>3 DEF Metadata
<1>4. CASE Download(r)
  <2>1. request[r].pc \in HandlerPcs
    BY <1>4 DEF Download, Handling, At, HandlerPcs
  <2>2. CASE Throws(r)
    BY <2>1, <2>2, ThrowsHandled
  <2>3. CASE Asks(r, IF config.provider = "aws" THEN To(r, "stream")
                     ELSE Says(r, 200), Says(r, StatusOf(NotThere)))
    BY <1>1, <1>2, <2>1, <2>3, AsksHandled DEF S
  <2> QED
    BY <1>4, <2>2, <2>3 DEF Download, GetObject, Opens
<1>5. CASE Pipe(r)
  <2>1. request[r].pc \in HandlerPcs
    BY <1>5 DEF Pipe, At, HandlerPcs
  <2> QED
    BY <1>1, <1>2, <1>5, <2>1, GoesHandled, Zenon DEF Pipe, S
<1>6. CASE Preview(r)
  <2>1. request[r].pc \in HandlerPcs
    BY <1>6 DEF Preview, Handling, At, HandlerPcs
  <2>2. CASE Throws(r)
    BY <2>1, <2>2, ThrowsHandled
  <2>3. CASE Asks(r, To(r, IF AskOf(r).route = "preview" THEN "stream"
                           ELSE "create"), Says(r, StatusOf(PreviewError)))
    BY <1>1, <1>2, <2>1, <2>3, AsksHandled DEF S
  <2>4. PreviewFile(r)
    BY <1>6 DEF Preview
  <2> QED
    BY <2>2, <2>3, <2>4, Zenon DEF PreviewFile, Opens
<1>7. CASE Parse(r)
  <2>1. request[r].pc \in HandlerPcs
    BY <1>7 DEF Parse, At, HandlerPcs
  <2>2. CASE Throws(r)
    BY <2>1, <2>2, ThrowsHandled
  <2>3. CASE Goes(r, Says(r, 200), FALSE) \/ Goes(r, Says(r, 200), TRUE)
    BY <1>1, <2>1, <2>3, GoesHandled DEF S
  <2>4. ASSUME NEW fails \in BOOLEAN, Goes(r, Says(r, 200), fails)
        PROVE  Goes(r, Says(r, 200), FALSE) \/ Goes(r, Says(r, 200), TRUE)
    BY <2>4, Zenon
  <2> QED
    BY <1>7, <2>2, <2>3, <2>4 DEF Parse, ProcessFile, Rejects, ProcessJSON
<1>8. CASE CheckZip(r) \/ CheckReport(r)
  <2>1. request[r].pc \in HandlerPcs
    BY <1>8 DEF CheckZip, CheckReport, Handling, At, HandlerPcs
  <2>2. CASE Asks(r, To(r, "sign"), Says(r, 404))
    BY <1>1, <1>2, <2>1, <2>2, AsksHandled DEF S
  <2>3. CASE Goes(r, Says(r, 500), TRUE)
    <3>1. Goes(r, Says(r, 500), TRUE) \/ Goes(r, Says(r, 500), FALSE)
      BY <2>3
    <3>2. 500 \in Statuses
      BY DEF Statuses
    <3> QED
      BY <2>1, <3>1, <3>2, SaysHandled
  <2> QED
    BY <1>8, <2>2, <2>3 DEF CheckZip, CheckReport
<1>9. CASE CheckAsset(r)
  <2>1. request[r].pc \in HandlerPcs
    BY <1>9 DEF CheckAsset, Handling, At, HandlerPcs
  <2>2. CASE Details(r, To(r, "sign"), To(r, "sign"), 404)
    BY <1>1, <1>2, <2>1, <2>2, AsksHandled DEF Details, S
  <2>3. CASE Goes(r, Says(r, 404), TRUE)
    <3>1. Goes(r, Says(r, 404), TRUE) \/ Goes(r, Says(r, 404), FALSE)
      BY <2>3
    <3>2. 404 \in Statuses
      BY DEF Statuses
    <3> QED
      BY <2>1, <3>1, <3>2, SaysHandled
  <2> QED
    BY <1>9, <2>2, <2>3 DEF CheckAsset
<1> QED
  BY <1>3, <1>4, <1>5, <1>6, <1>7, <1>8, <1>9

LEMMA LinksHandled ==
  ASSUME Shape, NEW r \in Requests,
         \/ SignLink(r) \/ SignAsset(r) \/ Presign(r) \/ QueryAccess(r)
         \/ DeleteFile(r) \/ Complete(r) \/ UploadAsset(r)
  PROVE  Handled(r)
<1>1. /\ Follows(r, Says(r, 200)) /\ Follows(r, Says(r, 500))
      /\ 200 \in Statuses /\ 201 \in Statuses
  BY SaysFollows DEF Statuses
<1>2. request[r].pc \in HandlerPcs
  BY DEF SignLink, SignAsset, Presign, QueryAccess, DeleteFile, Complete,
         UploadAsset, Handling, At, HandlerPcs
<1>3. CASE SignLink(r)
  <2>1. Signs(r) \/ Goes(r, Says(r, 500), TRUE)
    BY <1>3 DEF SignLink
  <2>2. CASE Signs(r)
    BY <1>1, <1>2, <2>2, SaysHandled DEF Signs
  <2>3. CASE Goes(r, Says(r, 500), TRUE)
    <3>1. Goes(r, Says(r, 500), TRUE) \/ Goes(r, Says(r, 500), FALSE)
      BY <2>3
    <3>2. 500 \in Statuses
      BY DEF Statuses
    <3> QED
      BY <1>2, <3>1, <3>2, SaysHandled
  <2> QED
    BY <2>1, <2>2, <2>3
<1>4. CASE SignAsset(r) \/ Presign(r)
  BY <1>1, <1>2, <1>4, GoesHandled, ThrowsHandled DEF SignAsset, Presign, Signs
<1>5. CASE QueryAccess(r)
  BY <1>1, <1>2, <1>5, GoesHandled, ThrowsHandled DEF QueryAccess, AssumeRole
<1>6. CASE DeleteFile(r)
  <2>1. Touches(r)
    BY <1>6 DEF DeleteFile, Writes, Delete, Touches, duckVars
  <2> QED
    BY <1>1, <1>2, <1>6, <2>1, WritesHandled DEF DeleteFile, Writes
<1>7. CASE Complete(r)
  <2>1. Touches(r)
    BY <1>7 DEF Complete, Handling, Writes, Writing, Put, Touches, duckVars
  <2> QED
    BY <1>1, <1>2, <1>7, <2>1, WritesHandled DEF Complete, Writes
<1>8. CASE UploadAsset(r)
  <2>1. Touches(r)
    BY <1>8 DEF UploadAsset, Handling, Writes, Writing, Put, Touches, duckVars
  <2> QED
    BY <1>1, <1>2, <1>8, <2>1, WritesHandled DEF UploadAsset, Writes
<1> QED
  BY <1>3, <1>4, <1>5, <1>6, <1>7, <1>8

LEMMA ListedFollows ==
  ASSUME Shape, NEW r \in Requests, request[r].pc = "work", NEW page
  PROVE  Follows(r, Listed(r, page))
<1> DEFINE q == [Acting(r) EXCEPT !.walk = AfterPage(request[r].walk, page)]
<1>1. /\ Whole(q) /\ q.ask = request[r].ask /\ q.passed = request[r].passed
      /\ q.acted = TRUE /\ q.pc = request[r].pc /\ q.status = request[r].status
      /\ q.via = request[r].via /\ q.always = request[r].always
      /\ q.ever = request[r].ever /\ q.shaken = request[r].shaken
  BY ActingIs DEF Whole, Fields
<1>2. Listed(r, page) = q \/ Listed(r, page) = Answered(q, 200)
  BY DEF Listed
<1> HIDE DEF q
<1>3. Follows(r, q)
  BY <1>1 DEF Follows, HandlerPcs, Over
<1>4. Follows(r, Answered(q, 200))
  BY <1>1, AnsweredIs DEF Follows, Over, Statuses
<1> QED
  BY <1>2, <1>3, <1>4

LEMMA ListsHandled ==
  ASSUME Shape, NEW r \in Requests, ListAws(r) \/ ListMinio(r) \/ ListFails(r)
  PROVE  Handled(r)
<1>1. request[r].pc = "work" /\ request[r].pc \in HandlerPcs
  BY DEF ListAws, ListMinio, ListFails, Listing, Handling, At, HandlerPcs
<1>2. CASE ListAws(r)
  BY <1>1, <1>2, ListedFollows, GoesHandled DEF ListAws
<1>3. CASE ListMinio(r)
  <2>1. Follows(r, To(r, "hung"))
    BY ToFollows
  <2> QED
    BY <1>1, <1>3, <2>1, ListedFollows, GoesHandled DEF ListMinio, To
<1>4. CASE ListFails(r)
  BY <1>1, <1>4, ThrowsHandled DEF ListFails
<1> QED
  BY <1>2, <1>3, <1>4

LEMMA DuckMoves ==
  ASSUME NEW r, NEW q, Duck(r, q, TRUE) \/ Duck(r, q, FALSE)
  PROVE  MovesTo(r, q) /\ UNCHANGED <<gateVars, bucket, changes>>
BY DEF Duck, MovesTo

LEMMA DuckHandled ==
  ASSUME NEW r, request[r].pc \in HandlerPcs, NEW q, Follows(r, q),
         Duck(r, q, TRUE) \/ Duck(r, q, FALSE),
         conn' \in {conn, r}, configured' \subseteq configured \cup {r}
  PROVE  Handled(r)
BY DuckMoves DEF Handled, Touches

LEMMA DucksHandled ==
  ASSUME Shape, NEW r \in Requests,
         CreateConnection(r) \/ CreateFails(r) \/ Configure(r) \/ Query(r)
  PROVE  Handled(r)
<1> DEFINE q == request[r]
           made == Overlaps([q EXCEPT !.pc = "configure"], r)
           gone == [q EXCEPT !.pc = "schema", !.via = conn]
<1>1. q.pc \in {"create", "configure", "schema", "rows"} /\ Whole(q)
  BY DEF CreateConnection, CreateFails, Configure, Query, At, Shape
<1>2. q.pc \in HandlerPcs /\ q.pc # "answered"
  BY <1>1 DEF HandlerPcs
<1>3. Follows(r, made)
  BY <1>1 DEF Follows, Overlaps, Whole, Fields, HandlerPcs
<1>4. Follows(r, gone) /\ Follows(r, Overlaps(gone, r))
  BY <1>1 DEF Follows, Overlaps, Whole, Fields, HandlerPcs
<1>5. \A s \in Statuses : Follows(r, Answered(q, s))
  BY <1>1, AnsweredIs DEF Follows, Over
<1>6. Follows(r, q) /\ Follows(r, [q EXCEPT !.pc = "rows"])
  BY <1>1 DEF Follows, Whole, Fields, HandlerPcs
<1> HIDE DEF made, gone
<1>7. CASE CreateConnection(r)
  BY <1>2, <1>3, <1>7, DuckHandled DEF CreateConnection, made
<1>8. CASE CreateFails(r)
  <2>1. 500 \in Statuses
    BY DEF Statuses
  <2>2. Duck(r, gone, TRUE) \/ Duck(r, q, TRUE) \/ Duck(r, Answered(q, 500), TRUE)
    BY <1>8, Zenon DEF CreateFails, gone
  <2>3. conn' \in {conn, r} /\ configured' \subseteq configured \cup {r}
    BY <1>8 DEF CreateFails, duckVars
  <2> QED
    BY <1>2, <1>4, <1>5, <1>6, <2>1, <2>2, <2>3, DuckHandled, ZenonT(60)
<1>9. CASE Configure(r)
  <2>1. PICK fails \in BOOLEAN : Duck(r, Overlaps(gone, r), fails)
    BY <1>9, Zenon DEF Configure, gone
  <2>2. Duck(r, Overlaps(gone, r), TRUE) \/ Duck(r, Overlaps(gone, r), FALSE)
    BY <2>1, Zenon
  <2>3. conn' \in {conn, r} /\ configured' \subseteq configured \cup {r}
    BY <1>9 DEF Configure
  <2> QED
    BY <1>2, <1>4, <2>2, <2>3, DuckHandled
<1>10. CASE Query(r)
  <2>1. Refusals(r) \subseteq Statuses
    BY DEF Refusals, Statuses
  <2>2. 200 \in Statuses /\ 500 \in Statuses
    BY DEF Statuses
  <2> QED
    BY ZenonT(60), <1>2, <1>5, <1>6, <1>10, <2>1, <2>2, GoesHandled DEF Query
<1> QED
  BY <1>7, <1>8, <1>9, <1>10

LEMMA HandlersHandle ==
  ASSUME Shape, NEW r \in Requests, HandlerAct(r)
  PROVE  Handled(r)
BY ReadsHandled, LinksHandled, ListsHandled, DucksHandled DEF HandlerAct

-----------------------------------------------------------------------------
(* What a gate's verdict stands for                                        *)

(* Whom the gates of the code let in.                                      *)
LetsIn(u, gate) ==
  LET owns == config.auth /\ item.listed /\ item.owner = u
  IN  \/ ~config.authz
      \/ gate = "none"
      \/ gate = "item" /\ item.listed
      \/ gate = "read" /\ \/ item.listed /\ item.policy \in {"OPEN", "PRIVATE"}
                          \/ u \in acl
                          \/ owns
      \/ gate = "owner" /\ owns

(* Whoever is let in, and passes the checks of the handler, may pass.      *)
LEMMA LetInMayPass ==
  ASSUME NEW a, a.route \in DOMAIN Route, Admitted(a),
         LetsIn(a.user, Route[a.route].gate), HandlerChecks(a) = 0
  PROVE  MayPass(a)
<1> DEFINE check == DocumentedCheck[a.route]
<1>1. CASE a.route \in {"metadata", "report"}
  BY <1>1 DEF MayPass, ReportIsPublic, DocumentedCheck
<1>2. CASE a.route \notin {"metadata", "report"}
  <2>1. /\ Route[a.route].auth
        /\ Route[a.route].roles = DocumentedRoles(a.route)
        /\ \/ check = "role" /\ Route[a.route].gate = "none"
           \/ check \in {"item", "read", "owner"} /\ Route[a.route].gate = check
    BY <1>2, Documented
  <2>2. IsKnown(a.user)
    BY <2>1 DEF Admitted, Authenticate, ExtractUserInfo, DecodeToken, IsKnown
  <2>3. HasRole(a.user, a.route) \/ NoRoleIsLookedAt(a)
    BY <2>1 DEF Admitted, Authorize, HasRole, NoRoleIsLookedAt
  <2>4. \/ MayAccess(a.user, check)
        \/ NonPublicPasses(a) \/ PrivatePasses(a)
    <3>1. CASE check \in {"role", "owner"}
      BY <2>1, <3>1 DEF LetsIn, MayAccess, IsOwner
    <3>2. CASE check = "item"
      BY <2>1, <3>2 DEF LetsIn, MayAccess, NonPublicPasses
    <3>3. CASE check = "read"
      BY <2>1, <3>3 DEF LetsIn, MayAccess, IsPublic, IsOwner, PrivatePasses
    <3> QED
      BY <2>1, <3>1, <3>2, <3>3
  <2>5. OwnAsset(a)
    BY DEF HandlerChecks, OwnAsset
  <2> QED
    BY <2>2, <2>3, <2>4, <2>5 DEF MayPass
<1> QED
  BY <1>1, <1>2

(* Whoever may pass is let in, if the databank is listed.                  *)
LEMMA MayPassLetIn ==
  ASSUME NEW a, a.route \in DOMAIN Route, MayPass(a), item.listed
  PROVE  Admitted(a) /\ LetsIn(a.user, Route[a.route].gate)
<1> DEFINE check == DocumentedCheck[a.route]
<1>1. CASE a.route \in {"metadata", "report"}
  BY <1>1, Documented DEF Admitted, LetsIn
<1>2. CASE a.route \notin {"metadata", "report"}
  <2>1. /\ Route[a.route].auth
        /\ Route[a.route].roles = DocumentedRoles(a.route)
        /\ \/ check = "role" /\ Route[a.route].gate = "none"
           \/ check \in {"item", "read", "owner"} /\ Route[a.route].gate = check
    BY <1>2, Documented
  <2>2. /\ IsKnown(a.user)
        /\ HasRole(a.user, a.route) \/ NoRoleIsLookedAt(a)
        /\ \/ MayAccess(a.user, check)
           \/ NonPublicPasses(a) \/ PrivatePasses(a)
    BY <1>2, <2>1 DEF MayPass, ReportIsPublic
  <2>3. Authenticate(a.user) = 0
    BY <2>2 DEF Authenticate, ExtractUserInfo, ExtractToken, DecodeToken, IsKnown
  <2>4. Authorize(a.user, Route[a.route].roles) = 0
    <3>1. DocumentedRoles(a.route) \subseteq {"provider", "consumer", "admin"}
      BY DEF DocumentedRoles
    <3> QED
      BY <2>1, <2>2, <3>1 DEF Authorize, HasRole, NoRoleIsLookedAt
  <2>5. LetsIn(a.user, Route[a.route].gate)
    <3>1. CASE check \in {"role", "owner"}
      BY <2>1, <2>2, <3>1
         DEF LetsIn, MayAccess, IsOwner, NonPublicPasses, PrivatePasses
    <3>2. CASE check = "item"
      BY <2>1, <3>2 DEF LetsIn
    <3>3. CASE check = "read"
      BY <2>1, <2>2, <3>3
         DEF LetsIn, MayAccess, IsPublic, IsOwner, NonPublicPasses, PrivatePasses
    <3> QED
      BY <2>1, <3>1, <3>2, <3>3
  <2> QED
    BY <2>3, <2>4, <2>5 DEF Admitted
<1> QED
  BY <1>1, <1>2

Gating == {"item", "read", "acl", "owner"}

(* A request waits for an answer to the question pc of its route's gate.   *)
Waits(a, pc) ==
  /\ Admitted(a)
  /\ pc = "item" => Route[a.route].gate = "item"
  /\ pc \in {"read", "acl"} => Route[a.route].gate = "read"
  /\ pc = "owner" => config.auth /\ Route[a.route].gate \in {"read", "owner"}

(* What may become of a request at the verdict v.                          *)
Fair(a, v) ==
  /\ v.to \in Gating \cup {"pass", "refuse"}
  /\ v.to = "pass" => LetsIn(a.user, Route[a.route].gate)
  /\ v.to = "refuse" => v.status \in Statuses
  /\ v.to \in Gating => Waits(a, v.to)

LEMMA Verdicts ==
  /\ Pass.to = "pass"
  /\ \A s : Refuse(s).to = "refuse" /\ Refuse(s).status = s
  /\ \A s : AskFor(s).to = s
BY DEF Pass, Refuse, AskFor

LEMMA CatalogueFailureFair ==
  ASSUME NEW a, NEW reply
  PROVE  Fair(a, CatalogueFailure(reply))
<1>1. \E s \in {400, 503} : CatalogueFailure(reply) = Refuse(s)
  BY DEF CatalogueFailure
<1> QED
  BY <1>1, Verdicts DEF Fair, Statuses, Gating

LEMMA BeforeOwnerFair ==
  ASSUME NEW a, Admitted(a), Route[a.route].gate \in {"read", "owner"}
  PROVE  Fair(a, BeforeOwner)
<1>1. CASE config.auth
  <2>1. BeforeOwner = AskFor("owner")
    BY <1>1 DEF BeforeOwner
  <2> QED
    BY <1>1, <2>1, Verdicts DEF Fair, Gating, Waits
<1>2. CASE ~config.auth
  <2>1. BeforeOwner = Refuse(401)
    BY <1>2 DEF BeforeOwner
  <2> QED
    BY <2>1, Verdicts DEF Fair, Gating, Statuses
<1> QED
  BY <1>1, <1>2

LEMMA FirstQuestionFair ==
  ASSUME NEW a, a.route \in DOMAIN Route, Admitted(a)
  PROVE  Fair(a, FirstQuestion(Route[a.route].gate))
<1> DEFINE gate == Route[a.route].gate
<1>1. gate \in Gates
  BY Routes
<1>2. CASE ~config.authz \/ gate = "none"
  <2>1. FirstQuestion(gate) = Pass
    BY <1>2 DEF FirstQuestion
  <2> QED
    BY <1>2, <2>1, Verdicts DEF Fair, Gating, LetsIn
<1>3. CASE config.authz /\ gate = "owner"
  <2>1. FirstQuestion(gate) = BeforeOwner
    BY <1>3 DEF FirstQuestion
  <2> QED
    BY <1>3, <2>1, BeforeOwnerFair
<1>4. CASE config.authz /\ gate \in {"item", "read"}
  <2>1. FirstQuestion(gate) = AskFor(gate)
    BY <1>4 DEF FirstQuestion
  <2> QED
    BY <1>4, <2>1, Verdicts DEF Fair, Gating, Waits
<1> QED
  BY <1>1, <1>2, <1>3, <1>4 DEF Gates

LEMMA CheckItemAccessFair ==
  ASSUME NEW a, Route[a.route].gate = "item",
         NEW fails \in BOOLEAN, NEW reply \in Replies(fails)
  PROVE  Fair(a, CheckItemAccess(reply))
<1>1. CASE reply = "item"
  <2>1. item.listed
    BY <1>1 DEF Replies
  <2>2. CheckItemAccess(reply) = Pass
    BY <1>1 DEF CheckItemAccess
  <2> QED
    BY <2>1, <2>2, Verdicts DEF Fair, Gating, LetsIn
<1>2. CASE reply # "item"
  BY <1>2, CatalogueFailureFair DEF CheckItemAccess
<1> QED
  BY <1>1, <1>2

LEMMA CheckReadFair ==
  ASSUME NEW a, Admitted(a), Route[a.route].gate = "read",
         NEW fails \in BOOLEAN, NEW reply \in Replies(fails)
  PROVE  Fair(a, CheckItemAccessWithDatabankAccess(a.user, reply))
<1> DEFINE v == CheckItemAccessWithDatabankAccess(a.user, reply)
<1>1. CASE reply = "item" /\ item.policy \in {"OPEN", "PRIVATE"}
  <2>1. item.listed
    BY <1>1 DEF Replies
  <2>2. v = Pass
    BY <1>1 DEF CheckItemAccessWithDatabankAccess
  <2> HIDE DEF v
  <2> QED
    BY <1>1, <2>1, <2>2, Verdicts DEF Fair, Gating, LetsIn, v
<1>2. CASE reply = "item" /\ item.policy \notin {"OPEN", "PRIVATE"}
  <2>1. v = Refuse(401) \/ v = AskFor("acl")
    BY <1>2 DEF CheckItemAccessWithDatabankAccess
  <2>2. Fair(a, Refuse(401))
    BY Verdicts DEF Fair, Gating, Statuses
  <2>3. Fair(a, AskFor("acl"))
    BY Verdicts DEF Fair, Gating, Waits
  <2> QED
    BY <2>1, <2>2, <2>3
<1>3. CASE reply # "item"
  BY <1>3, CatalogueFailureFair DEF CheckItemAccessWithDatabankAccess
<1> QED
  BY <1>1, <1>2, <1>3

LEMMA DatabankAccessFair ==
  ASSUME NEW a, Admitted(a), Route[a.route].gate = "read", NEW fails \in BOOLEAN
  PROVE  Fair(a, DatabankAccess(a.user, fails))
<1>1. CASE a.user \in acl /\ ~fails
  <2>1. DatabankAccess(a.user, fails) = Pass
    BY <1>1 DEF DatabankAccess
  <2> QED
    BY <1>1, <2>1, Verdicts DEF Fair, Gating, LetsIn
<1>2. CASE ~(a.user \in acl /\ ~fails)
  <2>1. DatabankAccess(a.user, fails) = BeforeOwner
    BY <1>2 DEF DatabankAccess
  <2> QED
    BY <2>1, BeforeOwnerFair
<1> QED
  BY <1>1, <1>2

LEMMA CheckIsOwnerFair ==
  ASSUME NEW a, config.auth, Route[a.route].gate \in {"read", "owner"},
         NEW fails \in BOOLEAN, NEW reply \in Replies(fails)
  PROVE  Fair(a, CheckIsOwner(a.user, reply))
<1>1. CASE reply = "item" /\ item.owner = a.user
  <2>1. item.listed
    BY <1>1 DEF Replies
  <2>2. CheckIsOwner(a.user, reply) = Pass
    BY <1>1 DEF CheckIsOwner
  <2> QED
    BY <1>1, <2>1, <2>2, Verdicts DEF Fair, Gating, LetsIn
<1>2. CASE \/ reply = "item" /\ item.owner # a.user
           \/ reply = "none"
  <2>1. CheckIsOwner(a.user, reply) = Refuse(403)
    BY <1>2 DEF CheckIsOwner
  <2> QED
    BY <2>1, Verdicts DEF Fair, Gating, Statuses
<1>3. CASE reply \notin {"item", "none"}
  BY <1>3, CatalogueFailureFair DEF CheckIsOwner
<1> QED
  BY <1>1, <1>2, <1>3

-----------------------------------------------------------------------------
(* The gates let through whoever has the right                             *)

(* Where a request r may be, and what it may have done there.              *)
Placed(r, q) ==
  /\ q.ask \subseteq {a \in Ask : Named(a)}
  /\ q.pc \in {"new"} \cup Gating \cup HandlerPcs \cup Over
  /\ q.status \in IF q.pc = "answered" THEN Statuses ELSE {0}
  /\ q.pc = "new" => ~q.passed /\ ~q.acted
  /\ q.pc # "new" => q.ask # {}
  /\ q.pc \in Gating => ~q.passed /\ ~q.acted /\ Waits(AskOf(r), q.pc)
  /\ q.pc \in HandlerPcs => q.passed
  /\ q.acted => q.passed

GateInv == Shape /\ \A r \in Requests : Placed(r, request[r])

(* q follows from the request r by a verdict of its gate.                  *)
Judging(r, q) ==
  /\ Whole(q)
  /\ q.ask = request[r].ask /\ q.acted = request[r].acted
  /\ q.via = request[r].via /\ q.hit = request[r].hit
  /\ q.shaken = request[r].shaken
  /\ \/ q.always = request[r].always /\ q.ever = request[r].ever
     \/ q.always = bucket /\ q.ever = bucket
  /\ q.pc \in Gating \cup {"work", "answered"}
  /\ q.status \in IF q.pc = "answered" THEN Statuses ELSE {0}
  /\ q.pc \in Gating => ~q.passed /\ Waits(AskOf(r), q.pc)
  /\ q.pc = "work" => q.passed = TRUE
  /\ q.passed => q.passed = TRUE /\ q.pc = "work" /\ Entitled(r)

Gated(r) ==
  /\ request[r].ask # {} /\ request[r].pc \in {"new"} \cup Gating
  /\ ~request[r].passed /\ ~request[r].acted
  /\ UNCHANGED <<gateVars, bucket, duckVars, changes>>
  /\ \E q : Judging(r, q) /\ MovesTo(r, q)

GateAct(r) == Enter(r) \/ AskCatalogue(r) \/ AskAcl(r)

LEMMA AskOfType ==
  ASSUME GateInv, NEW r \in Requests, request[r].ask # {}
  PROVE  AskOf(r) \in request[r].ask /\ AskOf(r) \in Ask /\ Named(AskOf(r))
         /\ AskOf(r).route \in DOMAIN Route /\ AskOf(r).user \in Users
<1>1. AskOf(r) \in request[r].ask
  BY DEF AskOf
<1>2. AskOf(r) \in Ask /\ Named(AskOf(r))
  BY <1>1 DEF GateInv, Placed
<1> QED
  BY <1>1, <1>2 DEF Ask

LEMMA JudgedFair ==
  ASSUME NEW r \in Requests, request[r].ask # {}, Admitted(AskOf(r)),
         AskOf(r).route \in DOMAIN Route,
         NEW q, Whole(q), ~q.passed, q.status = 0,
         q.ask = request[r].ask, q.acted = request[r].acted,
         q.via = request[r].via, q.hit = request[r].hit,
         q.shaken = request[r].shaken,
         \/ q.always = request[r].always /\ q.ever = request[r].ever
         \/ q.always = bucket /\ q.ever = bucket,
         NEW v, Fair(AskOf(r), v)
  PROVE  Judging(r, Judged(q, AskOf(r), v))
<1> DEFINE a == AskOf(r)
           j == Judged(q, a, v)
<1>0. JudgedSo(q, a, v, j)
  BY JudgedIs
<1>1. /\ Whole(j) /\ j.ask = q.ask /\ j.acted = q.acted /\ j.via = q.via
      /\ j.always = q.always /\ j.ever = q.ever
      /\ j.hit = q.hit /\ j.shaken = q.shaken
  BY <1>0 DEF JudgedSo
<1>2. CASE v.to = "pass"
  <2>1. CASE j.pc = "work"
    <3>1. HandlerChecks(a) = 0 /\ j.passed = TRUE /\ j.status = q.status
      BY <1>0, <1>2, <2>1 DEF JudgedSo
    <3>2. Entitled(r)
      BY <1>2, <3>1, LetInMayPass DEF Fair, Entitled
    <3> HIDE DEF j
    <3> QED
      BY <1>1, <2>1, <3>1, <3>2 DEF Judging, Gating, j
  <2>2. CASE j.pc # "work"
    <3>1. j.passed = q.passed /\ j.pc = "answered" /\ j.status \in Statuses
      BY <1>0, <1>2, <2>2 DEF JudgedSo, Statuses
    <3> HIDE DEF j
    <3> QED
      BY <1>1, <3>1 DEF Judging, Gating, j
  <2> QED
    BY <2>1, <2>2
<1>3. CASE v.to = "refuse"
  <2>1. j.passed = q.passed /\ j.pc = "answered" /\ j.status \in Statuses
    BY <1>0, <1>3 DEF Fair, JudgedSo
  <2> HIDE DEF j
  <2> QED
    BY <1>1, <2>1 DEF Judging, Gating, j
<1>4. CASE v.to \in Gating
  <2>1. j.passed = q.passed /\ j.pc = v.to /\ j.status = q.status
    BY <1>0, <1>4 DEF Gating, JudgedSo
  <2>2. Waits(a, v.to) /\ v.to # "answered" /\ v.to # "work"
    BY <1>4 DEF Fair, Gating
  <2> HIDE DEF j
  <2> QED
    BY <1>1, <1>4, <2>1, <2>2 DEF Judging, j
<1> QED
  BY <1>2, <1>3, <1>4 DEF Fair

LEMMA GatesJudge ==
  ASSUME GateInv, NEW r \in Requests, GateAct(r)
  PROVE  Gated(r)
<1> DEFINE a == AskOf(r)
<1>1. /\ request[r].ask # {} /\ request[r].pc \in {"new"} \cup Gating
      /\ ~request[r].passed /\ ~request[r].acted /\ request[r].status = 0
      /\ Whole(request[r])
  <2>1. request[r].pc \in {"new"} \cup Gating
    BY DEF GateAct, Enter, AskCatalogue, AskAcl, At, Gating
  <2>2. request[r].pc # "answered"
    BY <2>1 DEF Gating
  <2>3. request[r].ask # {}
    BY DEF GateAct, Enter, AskCatalogue, AskAcl, At, GateInv, Placed
  <2> QED
    BY <2>1, <2>2, <2>3 DEF GateInv, Placed, Shape
<1>2. a \in Ask /\ a.route \in DOMAIN Route
  BY <1>1, AskOfType
<1>3. CASE Enter(r)
  <2> DEFINE q == [request[r] EXCEPT !.always = bucket, !.ever = bucket,
                    !.walk = Start(NormalizePrefix(a.key))]
             next == IF Before(a) # 0 THEN Answered(q, Before(a))
                     ELSE Judged(q, a, FirstQuestion(Route[a.route].gate))
  <2>1. Goes(r, next, FALSE)
    BY <1>3 DEF Enter
  <2>2. /\ Whole(q) /\ ~q.passed /\ q.status = 0 /\ q.ask = request[r].ask
        /\ q.acted = request[r].acted /\ q.via = request[r].via
        /\ q.hit = request[r].hit /\ q.shaken = request[r].shaken
        /\ q.always = bucket /\ q.ever = bucket
    BY <1>1 DEF Whole, Fields
  <2> HIDE DEF q
  <2>3. CASE Before(a) # 0
    <3>1. Before(a) \in Statuses
      BY <2>3, BeforeChecks DEF Statuses
    <3>2. next = Answered(q, Before(a))
      BY <2>3
    <3>3. Judging(r, next)
      BY <2>2, <3>1, <3>2, AnsweredIs DEF Judging, Gating
    <3> QED
      BY <1>1, <2>1, <3>3, GoesMoves DEF Gated
  <2>4. CASE Before(a) = 0
    <3>1. Admitted(a)
      BY <2>4, BeforeChecks
    <3>2. Fair(a, FirstQuestion(Route[a.route].gate))
      BY <1>2, <3>1, FirstQuestionFair
    <3>3. next = Judged(q, a, FirstQuestion(Route[a.route].gate))
      BY <2>4
    <3>4. Judging(r, next)
      BY <1>1, <1>2, <2>2, <3>1, <3>2, <3>3, JudgedFair
    <3> QED
      BY <1>1, <2>1, <3>4, GoesMoves DEF Gated
  <2> QED
    BY <2>3, <2>4
<1>4. ASSUME request[r].pc \in Gating, NEW v, Fair(a, v), NEW fails \in BOOLEAN,
             Goes(r, Judged(request[r], a, v), fails)
      PROVE  Gated(r)
  <2>1. Admitted(a)
    BY <1>4 DEF GateInv, Placed, Waits
  <2>2. Judging(r, Judged(request[r], a, v))
    BY <1>1, <1>2, <1>4, <2>1, JudgedFair
  <2>3. \/ Goes(r, Judged(request[r], a, v), TRUE)
        \/ Goes(r, Judged(request[r], a, v), FALSE)
    BY <1>4, Zenon
  <2> QED
    BY <1>1, <2>2, <2>3, GoesMoves DEF Gated
<1>5. CASE AskCatalogue(r)
  <2> DEFINE V(reply) ==
               CASE At(r, {"item"}) -> CheckItemAccess(reply)
                 [] At(r, {"owner"}) -> CheckIsOwner(a.user, reply)
                 [] OTHER -> CheckItemAccessWithDatabankAccess(a.user, reply)
  <2>1. request[r].pc \in {"item", "read", "owner"}
    BY <1>5 DEF AskCatalogue, At
  <2>2. Waits(a, request[r].pc)
    BY <2>1 DEF GateInv, Placed, Gating
  <2>3. PICK fails \in BOOLEAN :
          \E reply \in Replies(fails) : Goes(r, Judged(request[r], a, V(reply)), fails)
    BY <1>5, Zenon DEF AskCatalogue
  <2>4. PICK reply \in Replies(fails) : Goes(r, Judged(request[r], a, V(reply)), fails)
    BY <2>3, Zenon
  <2>5. Fair(a, V(reply))
    <3>1. CASE request[r].pc = "item"
      <4>1. V(reply) = CheckItemAccess(reply)
        BY <3>1 DEF At
      <4>2. Fair(a, CheckItemAccess(reply))
        BY <2>2, <3>1, CheckItemAccessFair DEF Waits
      <4> QED
        BY <4>1, <4>2, Zenon
    <3>2. CASE request[r].pc = "read"
      <4>1. V(reply) = CheckItemAccessWithDatabankAccess(a.user, reply)
        BY <3>2 DEF At
      <4>2. Fair(a, CheckItemAccessWithDatabankAccess(a.user, reply))
        BY <2>2, <3>2, CheckReadFair DEF Waits
      <4> QED
        BY <4>1, <4>2, Zenon
    <3>3. CASE request[r].pc = "owner"
      <4>1. V(reply) = CheckIsOwner(a.user, reply)
        BY <3>3 DEF At
      <4>2. Fair(a, CheckIsOwner(a.user, reply))
        BY <2>2, <3>3, CheckIsOwnerFair DEF Waits
      <4> QED
        BY <4>1, <4>2, Zenon
    <3> QED
      BY <2>1, <3>1, <3>2, <3>3
  <2>6. request[r].pc \in Gating
    BY <2>1 DEF Gating
  <2> HIDE DEF V
  <2> QED
    BY <1>4, <2>4, <2>5, <2>6, Zenon
<1>6. CASE AskAcl(r)
  <2>1. request[r].pc = "acl"
    BY <1>6 DEF AskAcl, At
  <2>2. Waits(a, "acl")
    BY <2>1 DEF GateInv, Placed, Gating
  <2>3. PICK fails \in BOOLEAN :
          Goes(r, Judged(request[r], a, DatabankAccess(a.user, fails)), fails)
    BY <1>6, Zenon DEF AskAcl
  <2>4. Fair(a, DatabankAccess(a.user, fails))
    BY <2>2, DatabankAccessFair DEF Waits
  <2>5. request[r].pc \in Gating
    BY <2>1 DEF Gating
  <2> QED
    BY <1>4, <2>3, <2>4, <2>5, Zenon
<1> QED
  BY <1>3, <1>5, <1>6 DEF GateAct

-----------------------------------------------------------------------------
(* The gates implement AccessGrant                                         *)

(* What a step of the system is, whatever the request does in it.          *)
Stirs ==
  \/ \E r \in Requests : GateAct(r) \/ HandlerAct(r)
  \/ RightsChange \/ WorkerUploads \/ UNCHANGED vars

LEMMA NextStirs == [Next]_vars => Stirs
BY DEF Next, Step, Finished, Stirs, GateAct, HandlerAct

LEMMA AskStays ==
  ASSUME NEW r \in Requests, request'[r].ask = request[r].ask
  PROVE  AskOf(r)' = AskOf(r)
BY DEF AskOf

LEMMA ConfigStays ==
  ASSUME config' = config, NEW a, NEW pc
  PROVE  Waits(a, pc)' <=> Waits(a, pc)
<1>1. /\ Authenticate(a.user)' = Authenticate(a.user)
      /\ Authorize(a.user, Route[a.route].roles)' = Authorize(a.user, Route[a.route].roles)
  BY DEF Authenticate, Authorize
<1> QED
  BY <1>1 DEF Waits, Admitted

LEMMA RightStays ==
  ASSUME UNCHANGED gateVars, NEW r \in Requests,
         request'[r].ask = request[r].ask
  PROVE  Entitled(r)' <=> Entitled(r)
<1> DEFINE a == AskOf(r)
<1>1. AskOf(r)' = a
  BY AskStays
<1>2. ASSUME NEW b
      PROVE  MayPass(b)' <=> MayPass(b)
  <2>1. UNCHANGED <<config, item, acl>>
    BY DEF gateVars
  <2>2. /\ IsKnown(b.user)' <=> IsKnown(b.user)
        /\ HasRole(b.user, b.route)' <=> HasRole(b.user, b.route)
    BY <2>1 DEF IsKnown, HasRole
  <2>3. MayAccess(b.user, DocumentedCheck[b.route])'
          <=> MayAccess(b.user, DocumentedCheck[b.route])
    BY <2>1 DEF MayAccess, IsPublic, IsOwner
  <2>4. /\ NonPublicPasses(b)' <=> NonPublicPasses(b)
        /\ PrivatePasses(b)' <=> PrivatePasses(b)
    BY <2>1 DEF NonPublicPasses, PrivatePasses
  <2> QED
    BY <2>2, <2>3, <2>4
       DEF MayPass, ReportIsPublic, NoRoleIsLookedAt, OwnAsset
<1> QED
  BY <1>1, <1>2 DEF Entitled

(* A step of the outside world leaves all but what requests see of it.     *)
LEMMA Outside ==
  ASSUME Shape, RightsChange \/ WorkerUploads \/ UNCHANGED vars,
         NEW p \in Requests
  PROVE  /\ config' = config
         /\ Whole(request'[p])
         /\ request'[p].ask = request[p].ask /\ request'[p].pc = request[p].pc
         /\ request'[p].status = request[p].status
         /\ request'[p].passed = request[p].passed
         /\ request'[p].acted = request[p].acted
         /\ request'[p].via = request[p].via
         /\ request'[p].always = request[p].always
         /\ request'[p].hit = request[p].hit
         /\ request[p].ever \subseteq request'[p].ever
         /\ ~Active(p) => request'[p].ever = request[p].ever
         /\ UNCHANGED <<conn, configured>>
<1>1. CASE RightsChange
  BY <1>1 DEF RightsChange, CatalogueChanges, GrantChanges, Shaken, Shape, Whole,
              Fields, Change, duckVars
<1>2. CASE WorkerUploads
  BY <1>2 DEF WorkerUploads, gateVars, Shape, Whole, Fields, Change, duckVars
<1>3. CASE UNCHANGED vars
  BY <1>3 DEF vars, gateVars, duckVars, Shape
<1> QED
  BY <1>1, <1>2, <1>3

(* A step of r that leaves it where it may be leaves all where they may be. *)
LEMMA GateKept ==
  ASSUME GateInv, config' = config, NEW r \in Requests, NEW q, Whole(q),
         MovesTo(r, q), q.ask = request[r].ask, Placed(r, q)
  PROVE  GateInv'
<1> SUFFICES ASSUME NEW p \in Requests
             PROVE  Whole(request'[p]) /\ Placed(p, request[p])'
  BY DEF GateInv, Shape
<1> DEFINE next == Next_(r, q, p)
<1>1. Whole(next) /\ next.ask = request[p].ask /\ Placed(p, next)
  BY DEF Next_, GateInv, Shape
<1>2. /\ Whole(request'[p])
      /\ request'[p].ask = next.ask /\ request'[p].pc = next.pc
      /\ request'[p].status = next.status
      /\ request'[p].passed = next.passed /\ request'[p].acted = next.acted
  BY Moved DEF GateInv
<1> HIDE DEF next
<1>3. AskOf(p)' = AskOf(p)
  BY <1>1, <1>2, AskStays
<1>4. \A pc : Waits(AskOf(p), pc)' <=> Waits(AskOf(p), pc)
  BY <1>3, ConfigStays
<1> QED
  BY <1>1, <1>2, <1>4 DEF Placed

LEMMA GateInit == Init => GateInv
<1> SUFFICES ASSUME Init PROVE GateInv
  OBVIOUS
<1>1. PICK s \in Scenarios : request = [r \in Requests |-> NewRequest(s.asks, r)]
  BY DEF Init
<1> SUFFICES ASSUME NEW r \in Requests
             PROVE  Whole(request[r]) /\ Placed(r, request[r])
  BY DEF GateInv, Shape
<1>2. request[r] = NewRequest(s.asks, r)
  BY <1>1
<1>3. r \in DOMAIN s.asks => s.asks[r] \in Ask /\ Named(s.asks[r])
  BY ScenarioAssumption
<1> QED
  BY <1>2, <1>3 DEF NewRequest, Whole, Fields, Placed, Gating, HandlerPcs, Over

LEMMA GateNext == GateInv /\ [Next]_vars => GateInv'
<1> SUFFICES ASSUME GateInv, [Next]_vars PROVE GateInv'
  OBVIOUS
<1>1. Shape
  BY DEF GateInv
<1>2. ASSUME NEW r \in Requests, GateAct(r)
      PROVE  GateInv'
  <2>1. Gated(r)
    BY <1>2, GatesJudge
  <2>2. PICK q : Judging(r, q) /\ MovesTo(r, q)
    BY <2>1 DEF Gated
  <2>3. Placed(r, request[r]) /\ config' = config
    BY <2>1 DEF GateInv, Gated, gateVars
  <2>4. Whole(q) /\ q.ask = request[r].ask /\ Placed(r, q)
    BY <2>1, <2>2, <2>3 DEF Judging, Gated, Placed, Gating, HandlerPcs, Over
  <2> QED
    BY <2>2, <2>3, <2>4, GateKept
<1>3. ASSUME NEW r \in Requests, HandlerAct(r)
      PROVE  GateInv'
  <2>1. Handled(r)
    BY <1>1, <1>3, HandlersHandle
  <2>2. PICK q : Follows(r, q) /\ MovesTo(r, q)
    BY <2>1 DEF Handled
  <2>3. Placed(r, request[r]) /\ config' = config /\ request[r].pc \in HandlerPcs
    BY <2>1 DEF GateInv, Handled, gateVars
  <2>4. Whole(q) /\ q.ask = request[r].ask /\ Placed(r, q)
    BY <2>2, <2>3 DEF Follows, Placed, Gating, HandlerPcs, Over
  <2> QED
    BY <2>2, <2>3, <2>4, GateKept
<1>4. CASE RightsChange \/ WorkerUploads \/ UNCHANGED vars
  <2> SUFFICES ASSUME NEW p \in Requests
               PROVE  Whole(request'[p]) /\ Placed(p, request[p])'
    BY DEF GateInv, Shape
  <2>1. /\ config' = config
        /\ Whole(request'[p])
        /\ request'[p].ask = request[p].ask /\ request'[p].pc = request[p].pc
        /\ request'[p].status = request[p].status
        /\ request'[p].passed = request[p].passed
        /\ request'[p].acted = request[p].acted
    BY <1>1, <1>4, Outside
  <2>2. AskOf(p)' = AskOf(p)
    BY <2>1, AskStays
  <2>3. \A pc : Waits(AskOf(p), pc)' <=> Waits(AskOf(p), pc)
    BY <2>1, <2>2, ConfigStays
  <2>4. Placed(p, request[p])
    BY DEF GateInv
  <2> QED
    BY <2>1, <2>3, <2>4 DEF Placed
<1> QED
  BY <1>2, <1>3, <1>4, NextStirs DEF Stirs

LEMMA GrantInit == Init => Grants!Init
<1> SUFFICES ASSUME Init PROVE Grants!Init
  OBVIOUS
<1>1. PICK s \in Scenarios : request = [r \in Requests |-> NewRequest(s.asks, r)]
  BY DEF Init
<1>2. \A r \in Requests : ~request[r].passed /\ ~request[r].acted
  BY <1>1 DEF NewRequest
<1>3. [r \in Requests |-> Entitled(r)] \in [Requests -> BOOLEAN]
  BY DEF Entitled
<1> QED
  BY <1>2, <1>3 DEF Grants!Init

(* A request that is let through has the right; one that acts was let      *)
(* through.                                                                *)
LEMMA GrantNext ==
  GateInv /\ [Next]_vars =>
    [Grants!Next]_<<[r \in Requests |-> Entitled(r)],
                    {r \in Requests : request[r].passed},
                    {r \in Requests : request[r].acted}>>
<1> DEFINE right == [r \in Requests |-> Entitled(r)]
           granted == {r \in Requests : request[r].passed}
           acted == {r \in Requests : request[r].acted}
<1> SUFFICES ASSUME GateInv, [Next]_vars
             PROVE  Grants!Next \/ UNCHANGED <<right, granted, acted>>
  OBVIOUS
<1>1. Shape
  BY DEF GateInv
<1>2. ASSUME UNCHANGED gateVars,
             \A r \in Requests : request'[r].ask = request[r].ask
      PROVE  right' = right
  <2>1. \A r \in Requests : Entitled(r)' <=> Entitled(r)
    BY <1>2, RightStays
  <2>2. \A r \in Requests : Entitled(r) \in BOOLEAN /\ Entitled(r)' \in BOOLEAN
    BY DEF Entitled
  <2>3. \A r \in Requests : Entitled(r)' = Entitled(r)
    BY <2>1, <2>2
  <2> QED
    BY <2>3
<1>3. ASSUME NEW r \in Requests, GateAct(r)
      PROVE  Grants!Next \/ UNCHANGED <<right, granted, acted>>
  <2>1. Gated(r)
    BY <1>3, GatesJudge
  <2>2. PICK q : Judging(r, q) /\ MovesTo(r, q)
    BY <2>1 DEF Gated
  <2>3. Whole(q) /\ q.ask = request[r].ask /\ q.acted = request[r].acted
    BY <2>2 DEF Judging
  <2>4. \A p \in Requests :
          /\ request'[p].ask = request[p].ask
          /\ request'[p].acted = request[p].acted
          /\ request'[p].passed = IF p = r THEN q.passed ELSE request[p].passed
    BY <1>1, <2>2, <2>3, Moved DEF Next_
  <2>5. right' = right
    BY <1>2, <2>1, <2>4 DEF Gated
  <2>6. acted' = acted
    BY <2>4
  <2>7. CASE q.passed
    <3>1. Entitled(r)
      BY <2>2, <2>7 DEF Judging
    <3>2. granted' = granted \cup {r}
      BY <2>4, <2>7
    <3> QED
      BY <2>5, <2>6, <3>1, <3>2 DEF Grants!Next, Grants!Grant
  <2>8. CASE ~q.passed
    <3>1. granted' = granted
      BY <2>1, <2>4, <2>8 DEF Gated
    <3> QED
      BY <2>5, <2>6, <3>1
  <2> QED
    BY <2>7, <2>8
<1>4. ASSUME NEW r \in Requests, HandlerAct(r)
      PROVE  Grants!Next \/ UNCHANGED <<right, granted, acted>>
  <2>1. Handled(r)
    BY <1>1, <1>4, HandlersHandle
  <2>2. PICK q : Follows(r, q) /\ MovesTo(r, q)
    BY <2>1 DEF Handled
  <2>3. /\ Whole(q) /\ q.ask = request[r].ask /\ q.passed = request[r].passed
        /\ q.acted = TRUE \/ q.acted = request[r].acted
    BY <2>2 DEF Follows
  <2>4. \A p \in Requests :
          /\ request'[p].ask = request[p].ask
          /\ request'[p].passed = request[p].passed
          /\ request'[p].acted = IF p = r THEN q.acted ELSE request[p].acted
    BY <1>1, <2>2, <2>3, Moved DEF Next_
  <2>5. right' = right
    BY <1>2, <2>1, <2>4 DEF Handled
  <2>6. granted' = granted
    BY <2>4
  <2>7. r \in granted
    BY <2>1 DEF Handled, GateInv, Placed
  <2>8. CASE q.acted = TRUE
    <3>1. acted' = acted \cup {r}
      BY <2>4, <2>8
    <3> QED
      BY <2>5, <2>6, <2>7, <3>1 DEF Grants!Next, Grants!Act
  <2>9. CASE q.acted = request[r].acted
    <3>1. acted' = acted
      BY <2>4, <2>9
    <3> QED
      BY <2>5, <2>6, <3>1
  <2> QED
    BY <2>3, <2>8, <2>9
<1>5. CASE RightsChange \/ WorkerUploads \/ UNCHANGED vars
  <2>1. \A p \in Requests : request'[p].passed = request[p].passed
                              /\ request'[p].acted = request[p].acted
    BY <1>1, <1>5, Outside
  <2>2. granted' = granted /\ acted' = acted
    BY <2>1
  <2>3. right' \in [Requests -> BOOLEAN]
    BY DEF Entitled
  <2> QED
    BY <2>2, <2>3 DEF Grants!Next, Grants!RightsChange
<1> QED
  BY <1>3, <1>4, <1>5, NextStirs DEF Stirs

(* Whatever catalogue and ACL service say, fail to say or change between   *)
(* two questions of a request, middleware/auth.ts and the handler's checks *)
(* let it come to its work only at an instant at which its caller may pass *)
(* by the documents, or by one of the four departures that AccessRights    *)
(* names, and handlers act only for requests that came to their work: they *)
(* implement AccessGrant.                                                  *)
THEOREM OnlyTheEntitledPass == Spec => ImplementsGrant
BY GrantInit, GateInit, GateNext, GrantNext, PTL
   DEF Spec, ImplementsGrant, Grants!Spec

-----------------------------------------------------------------------------
(* Type correctness                                                        *)

LEMMA Seen ==
  ASSUME Shape, NEW r \in Requests, NEW q, Whole(q), MovesTo(r, q),
         NEW p \in Requests
  PROVE  /\ request'[p].always \subseteq Next_(r, q, p).always
         /\ request'[p].ever \subseteq Next_(r, q, p).ever \cup bucket'
<1>1. CASE StepTo(r, q, TRUE)
  <2>1. SeesFailing(p, Next_(r, q, p))
    BY <1>1, SeenFailing
  <2> QED
    BY <2>1 DEF SeesFailing
<1>2. CASE StepTo(r, q, FALSE)
  <2>1. SeesQuiet(p, Next_(r, q, p))
    BY <1>2, SeenQuietly
  <2> QED
    BY <2>1 DEF SeesQuiet
<1> QED
  BY <1>1, <1>2 DEF MovesTo

LEMMA FaultsBounded ==
  ASSUME faults \in 0..MaxFaults, NEW r, NEW q, MovesTo(r, q)
  PROVE  faults' \in 0..MaxFaults
<1>1. CASE StepTo(r, q, TRUE)
  <2>1. faults + 1 <= MaxFaults /\ faults' = faults + 1
    BY <1>1 DEF StepTo
  <2> QED
    BY <2>1, ApiAssumption
<1>2. CASE StepTo(r, q, FALSE)
  <2>1. faults' = faults + 0
    BY <1>2 DEF StepTo
  <2> QED
    BY <2>1, ApiAssumption
<1> QED
  BY <1>1, <1>2 DEF MovesTo

(* The object that a request names, and means, is one object.              *)
LEMMA MeantIsTarget ==
  ASSUME NEW a \in Ask, Named(a), a.route \in Reading \cup Writing \cup {"delete"}
  PROVE  Meant(a) = Target(a) /\ (a.route \in Writing => Target(a) \in Objects)
<1> DEFINE withIt == IsPrefix(<<Databank>>, a.key) /\ Len(a.key) > 1
<1>1. a.route \in DOMAIN Route
  BY DEF Ask
<1>2. /\ Route["metadata"].gate = "none" /\ Route["report"].gate = "none"
      /\ Route["assetUpload"].gate = "none" /\ Route["assetLink"].gate = "none"
  BY DEF Route, Public, Guarded
<1>3. CASE a.route \in {"metadata", "report", "zip"}
  BY <1>2, <1>3 DEF Meant, Writing
<1>4. CASE a.route \in {"assetUpload", "assetLink"}
  <2>1. Target(a) = <<"assets">> \o a.key
    BY <1>4 DEF Target
  <2>2. Target(a) \in Objects
    BY <1>4, <2>1 DEF Named
  <2> QED
    BY <1>2, <1>4, <2>2 DEF Meant
<1>5. CASE a.route \in {"preview", "parquet", "download", "delete", "complete"}
  <2> DEFINE short == a.key
             long == <<Databank>> \o a.key
  <2>1. (short \in Objects <=> withIt) /\ (long \in Objects <=> ~withIt)
    BY <1>5 DEF Named
  <2>2. Target(a) = IF withIt THEN short ELSE long
    BY <1>5 DEF Target, NormalizeKey
  <2>3. Route[a.route].gate # "none"
    BY <1>5 DEF Route, Guarded
  <2>4. Meant(a) = CHOOSE o \in Objects : o \in {short, long}
    BY <1>5, <2>3 DEF Meant
  <2> HIDE DEF short, long
  <2>5. CASE withIt
    <3>1. Target(a) = short /\ short \in Objects /\ long \notin Objects
      BY <2>1, <2>2, <2>5
    <3> QED
      BY <2>4, <3>1
  <2>6. CASE ~withIt
    <3>1. Target(a) = long /\ long \in Objects /\ short \notin Objects
      BY <2>1, <2>2, <2>6
    <3> QED
      BY <2>4, <3>1
  <2> QED
    BY <2>5, <2>6
<1> QED
  BY <1>3, <1>4, <1>5 DEF Reading, Writing

(* The parts of TypeOK that are not about the course of a request.         *)
Typed ==
  /\ config \in Config /\ item \in Item /\ acl \subseteq Users
  /\ bucket \subseteq Objects
  /\ conn \in Requests \cup {NoConn} /\ configured \subseteq Requests
  /\ faults \in 0..MaxFaults /\ changes \in 0..MaxChanges
  /\ \A r \in Requests :
       /\ request[r].always \subseteq Objects /\ request[r].ever \subseteq Objects
       /\ request[r].via \in Requests \cup {NoConn}

LEMMA TypedInit == Init => Typed
<1> SUFFICES ASSUME Init PROVE Typed
  OBVIOUS
<1>1. PICK s \in Scenarios :
        /\ config = s.config /\ item = s.item /\ acl = s.acl
        /\ bucket = s.bucket
        /\ request = [r \in Requests |-> NewRequest(s.asks, r)]
        /\ conn = NoConn /\ configured = {}
        /\ faults = 0 /\ changes = s.spent
  BY DEF Init
<1>2. \A r \in Requests : /\ request[r].always = {} /\ request[r].ever = {}
                          /\ request[r].via = NoConn
  BY <1>1 DEF NewRequest
<1> QED
  BY <1>1, <1>2, ScenarioAssumption, ApiAssumption DEF Typed

LEMMA TypedKept ==
  ASSUME GateInv, Typed, UNCHANGED <<gateVars, changes>>, bucket' \subseteq Objects,
         conn' \in Requests \cup {NoConn}, configured' \subseteq Requests,
         NEW r \in Requests, NEW q, Whole(q), MovesTo(r, q),
         q.always \subseteq Objects, q.ever \subseteq Objects,
         q.via \in Requests \cup {NoConn}
  PROVE  Typed'
<1>1. faults' \in 0..MaxFaults
  BY FaultsBounded DEF Typed
<1>2. ASSUME NEW p \in Requests
      PROVE  /\ request'[p].always \subseteq Objects
             /\ request'[p].ever \subseteq Objects
             /\ request'[p].via \in Requests \cup {NoConn}
  <2> DEFINE next == Next_(r, q, p)
  <2>1. /\ next.always \subseteq Objects /\ next.ever \subseteq Objects
        /\ next.via \in Requests \cup {NoConn}
    BY DEF Next_, Typed
  <2>2. request'[p].via = next.via
    BY Moved DEF GateInv
  <2>3. /\ request'[p].always \subseteq next.always
        /\ request'[p].ever \subseteq next.ever \cup bucket'
    BY Seen DEF GateInv
  <2> HIDE DEF next
  <2> QED
    BY <2>1, <2>2, <2>3
<1> QED
  BY <1>1, <1>2 DEF Typed, gateVars

LEMMA TypedNext == GateInv /\ Typed /\ [Next]_vars => Typed'
<1> SUFFICES ASSUME GateInv, Typed, [Next]_vars PROVE Typed'
  OBVIOUS
<1>1. Shape
  BY DEF GateInv
<1>2. ASSUME NEW r \in Requests, GateAct(r)
      PROVE  Typed'
  <2>1. Gated(r)
    BY <1>2, GatesJudge
  <2>2. PICK q : Judging(r, q) /\ MovesTo(r, q)
    BY <2>1 DEF Gated
  <2>3. /\ Whole(q) /\ q.always \subseteq Objects /\ q.ever \subseteq Objects
        /\ q.via \in Requests \cup {NoConn}
    BY <2>2 DEF Judging, Typed
  <2>4. /\ UNCHANGED <<gateVars, changes>> /\ bucket' \subseteq Objects
        /\ conn' \in Requests \cup {NoConn} /\ configured' \subseteq Requests
    BY <2>1 DEF Gated, Typed, duckVars
  <2> QED
    BY <2>2, <2>3, <2>4, TypedKept
<1>3. ASSUME NEW r \in Requests, HandlerAct(r)
      PROVE  Typed'
  <2>1. Handled(r)
    BY <1>1, <1>3, HandlersHandle
  <2>2. PICK q : Follows(r, q) /\ MovesTo(r, q)
    BY <2>1 DEF Handled
  <2>3. /\ Whole(q) /\ q.always \subseteq Objects /\ q.ever \subseteq Objects
        /\ q.via \in Requests \cup {NoConn}
    BY <2>2 DEF Follows, Typed
  <2>4. request[r].ask # {}
    BY <2>1 DEF Handled, GateInv, Placed, HandlerPcs
  <2>5. AskOf(r).route \in Writing => Target(AskOf(r)) \in Objects
    BY <2>4, AskOfType, MeantIsTarget
  <2>6. /\ bucket' \subseteq Objects
        /\ conn' \in Requests \cup {NoConn} /\ configured' \subseteq Requests
    BY <2>1, <2>5 DEF Handled, Touches, Typed
  <2> QED
    BY <2>1, <2>2, <2>3, <2>6, TypedKept DEF Handled
<1>4. CASE RightsChange
  <2>1. \A p \in Requests : request'[p].always = request[p].always
                              /\ request'[p].via = request[p].via
                              /\ request'[p].ever = request[p].ever
    BY <1>1, <1>4 DEF RightsChange, Shaken, Shape, Whole, Fields
  <2>2. UNCHANGED <<bucket, conn, configured, faults>> /\ changes' \in 0..MaxChanges
    BY <1>4, ApiAssumption DEF RightsChange, Change, duckVars, Typed
  <2>3. config' \in Config /\ item' \in Item /\ acl' \subseteq Users
    BY <1>4 DEF RightsChange, CatalogueChanges, GrantChanges, Typed
  <2> QED
    BY <2>1, <2>2, <2>3 DEF Typed
<1>5. CASE WorkerUploads
  <2>1. bucket' \subseteq Objects
    BY <1>5, ScenarioAssumption DEF WorkerUploads, Put, Typed
  <2>2. \A p \in Requests : request'[p].always = request[p].always
                              /\ request'[p].via = request[p].via
                              /\ request'[p].ever \subseteq request[p].ever \cup bucket'
    BY <1>1, <1>5 DEF WorkerUploads, Shape, Whole, Fields
  <2>3. UNCHANGED <<gateVars, conn, configured, faults>> /\ changes' \in 0..MaxChanges
    BY <1>5, ApiAssumption DEF WorkerUploads, Change, duckVars, Typed
  <2> QED
    BY <2>1, <2>2, <2>3 DEF Typed, gateVars
<1>6. CASE UNCHANGED vars
  BY <1>6 DEF vars, gateVars, Typed
<1> QED
  BY <1>2, <1>3, <1>4, <1>5, <1>6, NextStirs DEF Stirs

(* The state of the API has its types, and a status is that of an answer:  *)
(* errorHandler, the gates and the handlers know ten of them.              *)
THEOREM TypeCorrect == Spec => []TypeOK
<1>1. GateInv /\ Typed => TypeOK
  BY DEF GateInv, Placed, Typed, TypeOK, At, Gating, HandlerPcs, Over
<1> QED
  BY <1>1, GateInit, GateNext, TypedInit, TypedNext, PTL DEF Spec

-----------------------------------------------------------------------------
(* Answers are true: what a handler makes of its request                   *)

(* What p, become next, sees of a step, whether a service failed or not.   *)
Sees(p, next) ==
  /\ Active(p) => /\ request'[p].always = next.always \cap bucket'
                  /\ request'[p].ever = next.ever \cup bucket'
  /\ ~Active(p) => request'[p].always = next.always /\ request'[p].ever = next.ever
  /\ next.hit => request'[p].hit

LEMMA SeenSo ==
  ASSUME Shape, NEW r \in Requests, NEW q, Whole(q), MovesTo(r, q),
         NEW p \in Requests
  PROVE  Sees(p, Next_(r, q, p))
<1>1. CASE StepTo(r, q, TRUE)
  <2>1. SeesFailing(p, Next_(r, q, p))
    BY <1>1, SeenFailing
  <2> QED
    BY <2>1 DEF SeesFailing, Sees
<1>2. CASE StepTo(r, q, FALSE)
  <2>1. SeesQuiet(p, Next_(r, q, p))
    BY <1>2, SeenQuietly
  <2> QED
    BY <2>1 DEF SeesQuiet, Sees
<1> QED
  BY <1>1, <1>2 DEF MovesTo

(* The routes whose handlers come to pc.                                   *)
Fits(a, pc) ==
  /\ pc = "stream" => a.route \in {"download", "preview"}
  /\ pc = "sign" => a.route \in {"zip", "report", "assetLink"}
  /\ pc \in {"create", "configure", "schema", "rows"} => a.route = "parquet"

(* The handler has found the object: of an asset in S3 it need not.        *)
HasFound(a, pc) ==
  /\ pc \in HandlerPcs \ {"work"}
  /\ ~(a.route = "assetLink" /\ config.provider = "aws")

(* A status tells the truth about an object that was there at some time    *)
(* (ever), or all the time (always).                                       *)
Tells(a, status, ever, always) ==
  /\ /\ a.route \in (Reading \ {"assetLink"}) \cup Writing
     /\ status \in {200, 201}
     => Meant(a) \in ever
  /\ a.route = "delete" /\ status = 200 => Meant(a) \notin always
  /\ status \in {404, 500} =>
       a.route \in Reading /\ (Meant(a) \notin always \/ Unreadable(a))
  /\ a.route \in Sought => (Meant(a) \in ever \/ status = WhenMissing(a))

(* q follows from r by work of its handler, but for the setting up of a    *)
(* connection to DuckDB.                                                   *)
Plain(r, q) ==
  /\ Follows(r, q)
  /\ q.via = request[r].via /\ q.hit = request[r].hit
  /\ q.pc # "configure" /\ (q.pc \in {"schema", "rows"} => request[r].pc = "schema")
  /\ Fits(AskOf(r), q.pc)
  /\ HasFound(AskOf(r), q.pc) => Meant(AskOf(r)) \in request[r].ever \cup bucket'

(* The answer q, given in a step in which no service fails, is true.       *)
Honest(r, q) ==
  q.pc = "answered" =>
    /\ q.status \in {200, 201, 404, 500}
    /\ request[r].hit
         \/ Tells(AskOf(r), q.status, request[r].ever \cup bucket', bucket')

PlainPcs == {"work", "stream", "sign", "schema", "rows"}

PlainStep(r) ==
  /\ request[r].pc \in PlainPcs
  /\ UNCHANGED <<gateVars, duckVars, changes>>
  /\ \E q : /\ Plain(r, q)
            /\ StepTo(r, q, TRUE) \/ (StepTo(r, q, FALSE) /\ Honest(r, q))

PlainAct(r) ==
  \/ Metadata(r) \/ Download(r) \/ Pipe(r) \/ Preview(r) \/ Parse(r)
  \/ CheckZip(r) \/ CheckReport(r) \/ CheckAsset(r) \/ SignLink(r)
  \/ SignAsset(r) \/ Presign(r) \/ QueryAccess(r) \/ DeleteFile(r) \/ Complete(r)
  \/ UploadAsset(r)
  \/ ListAws(r) \/ ListMinio(r) \/ ListFails(r) \/ Query(r)

(* Where the handlers of the requests are, and what callers were told.     *)
Truthful(r) ==
  LET q == request[r] IN
  q.ask # {} =>
    /\ Fits(AskOf(r), q.pc)
    /\ HasFound(AskOf(r), q.pc) => Meant(AskOf(r)) \in q.ever
    /\ q.pc = "answered" /\ q.passed /\ ~q.hit =>
         Tells(AskOf(r), q.status, q.ever, q.always)

(* A preview that no other overlaps has the connection it set up, or one   *)
(* that was set up before.                                                 *)
Connected(r) ==
  LET q == request[r] IN
  ~q.hit =>
    /\ q.pc = "configure" =>
         \/ conn \in {r} \cup configured
         \/ conn \in Requests /\ request[conn].pc = "configure"
    /\ q.pc \in {"schema", "rows"} => q.via \in configured

TruthInv == \A r \in Requests : Truthful(r) /\ Connected(r)

LEMMA SaysPlain ==
  ASSUME Shape, NEW r \in Requests, NEW s \in Statuses
  PROVE  Plain(r, Says(r, s))
<1>1. Follows(r, Says(r, s))
  BY SaysFollows
<1>2. /\ Says(r, s).via = request[r].via /\ Says(r, s).hit = request[r].hit
      /\ Says(r, s).pc = "answered"
  BY SaysIs
<1> QED
  BY <1>1, <1>2 DEF Plain, Fits, HasFound, HandlerPcs

LEMMA ToPlain ==
  ASSUME Shape, NEW r \in Requests, NEW pc \in {"stream", "sign", "create", "hung"},
         Fits(AskOf(r), pc),
         HasFound(AskOf(r), pc) => Meant(AskOf(r)) \in request[r].ever \cup bucket'
  PROVE  Plain(r, To(r, pc)) /\ Honest(r, To(r, pc))
<1>1. Follows(r, To(r, pc))
  BY ToFollows DEF HandlerPcs
<1>2. /\ To(r, pc).via = request[r].via /\ To(r, pc).hit = request[r].hit
      /\ To(r, pc).pc = pc
  BY ToIs
<1> QED
  BY <1>1, <1>2 DEF Plain, Honest

LEMMA SaysHonest ==
  ASSUME Shape, NEW r \in Requests, NEW s \in {200, 201, 404, 500},
         Tells(AskOf(r), s, request[r].ever \cup bucket', bucket')
  PROVE  Plain(r, Says(r, s)) /\ Honest(r, Says(r, s))
<1>1. s \in Statuses
  BY DEF Statuses
<1>2. Says(r, s).status = s
  BY ActingIs DEF Says, Answered, Whole, Fields
<1>3. Plain(r, Says(r, s))
  BY <1>1, SaysPlain
<1>4. Honest(r, Says(r, s))
  BY <1>2 DEF Honest
<1> QED
  BY <1>3, <1>4

LEMMA FailsPlain ==
  ASSUME Shape, NEW r \in Requests, request[r].pc \in PlainPcs,
         NEW s \in Statuses, Goes(r, Says(r, s), TRUE)
  PROVE  PlainStep(r)
BY SaysPlain DEF PlainStep, Goes

LEMMA ThrowsPlain ==
  ASSUME Shape, NEW r \in Requests, request[r].pc \in PlainPcs, Throws(r)
  PROVE  PlainStep(r)
<1>1. PICK e \in Failures : Goes(r, Says(r, StatusOf(e)), TRUE)
  BY DEF Throws
<1>2. StatusOf(e) \in Statuses
  BY StatusOfType
<1> QED
  BY <1>1, <1>2, FailsPlain

LEMMA GoesPlain ==
  ASSUME NEW r \in Requests, request[r].pc \in PlainPcs, NEW q, Plain(r, q),
         Honest(r, q), Goes(r, q, FALSE)
  PROVE  PlainStep(r)
BY DEF PlainStep, Goes

LEMMA AsksPlain ==
  ASSUME NEW r \in Requests, request[r].pc \in PlainPcs,
         NEW found, NEW missing, Asks(r, found, missing),
         Target(AskOf(r)) \in bucket' => Plain(r, found) /\ Honest(r, found),
         Target(AskOf(r)) \notin bucket' => Plain(r, missing) /\ Honest(r, missing)
  PROVE  PlainStep(r)
<1>1. bucket' = bucket
  BY DEF Asks, Goes
<1> QED
  BY <1>1, GoesPlain DEF Asks

(* Where a handler is, it has the object that the caller means in mind.    *)
LEMMA InMind ==
  ASSUME GateInv, NEW r \in Requests, request[r].pc \in HandlerPcs
  PROVE  LET a == AskOf(r) IN
         /\ request[r].ask # {} /\ a \in Ask /\ Named(a)
         /\ a.route \in Reading \cup Writing \cup {"delete"} => Meant(a) = Target(a)
<1>1. request[r].ask # {}
  BY DEF GateInv, Placed, HandlerPcs
<1>2. AskOf(r) \in Ask /\ Named(AskOf(r))
  BY <1>1, AskOfType
<1> QED
  BY <1>1, <1>2, MeantIsTarget

(* A handler that asks the storage for the object goes on with it, or says *)
(* that it is missing.                                                     *)
LEMMA LooksPlain ==
  ASSUME GateInv, NEW r \in Requests, request[r].pc = "work",
         AskOf(r).route \in Reading, NEW found, NEW missing,
         Asks(r, found, missing),
         \/ found = Says(r, 200)
         \/ \E pc \in {"stream", "sign", "create"} :
              Fits(AskOf(r), pc) /\ found = To(r, pc),
         \/ /\ WhenMissing(AskOf(r)) \in {404, 500}
            /\ missing = Says(r, WhenMissing(AskOf(r)))
         \/ /\ AskOf(r).route = "assetLink" /\ config.provider = "aws"
            /\ missing = To(r, "sign")
  PROVE  PlainStep(r)
<1> DEFINE a == AskOf(r)
<1>1. Shape /\ request[r].pc \in PlainPcs /\ request[r].pc \in HandlerPcs
  BY DEF GateInv, PlainPcs, HandlerPcs
<1>2. Meant(a) = Target(a)
  BY <1>1, InMind
<1>3. ASSUME Target(a) \in bucket'
      PROVE  Plain(r, found) /\ Honest(r, found)
  <2>1. CASE found = Says(r, 200)
    <3>1. Tells(a, 200, request[r].ever \cup bucket', bucket')
      BY <1>2, <1>3 DEF Tells, Reading
    <3> QED
      BY <1>1, <2>1, <3>1, SaysHonest
  <2>2. ASSUME NEW pc \in {"stream", "sign", "create"}, Fits(a, pc), found = To(r, pc)
        PROVE  Plain(r, found) /\ Honest(r, found)
    BY <1>1, <1>2, <1>3, <2>2, ToPlain
  <2> QED
    BY <2>1, <2>2
<1>4. ASSUME Target(a) \notin bucket'
      PROVE  Plain(r, missing) /\ Honest(r, missing)
  <2>1. ASSUME NEW s \in {404, 500}, s = WhenMissing(a)
        PROVE  Plain(r, Says(r, s)) /\ Honest(r, Says(r, s))
    <3>1. Tells(a, s, request[r].ever \cup bucket', bucket')
      BY <1>2, <1>4, <2>1 DEF Tells, Reading
    <3> QED
      BY <1>1, <3>1, SaysHonest
  <2>2. CASE /\ a.route = "assetLink" /\ config.provider = "aws"
             /\ missing = To(r, "sign")
    <3>1. Fits(a, "sign") /\ ~HasFound(a, "sign")
      BY <2>2 DEF Fits, HasFound
    <3> QED
      BY <1>1, <2>2, <3>1, ToPlain
  <2> QED
    BY <2>1, <2>2
<1> QED
  BY <1>1, <1>3, <1>4, AsksPlain

LEMMA ReadsPlain ==
  ASSUME GateInv, NEW r \in Requests,
         \/ Metadata(r) \/ Download(r) \/ Preview(r) \/ CheckZip(r)
         \/ CheckReport(r) \/ CheckAsset(r)
  PROVE  PlainStep(r)
<1> DEFINE a == AskOf(r)
<1>1. Shape /\ request[r].pc = "work" /\ request[r].pc \in PlainPcs
  BY DEF GateInv, Metadata, Download, Preview, CheckZip, CheckReport, CheckAsset,
         Handling, At, PlainPcs
<1>2. /\ StatusOf(NotThere) = 500
      /\ StatusOf(PreviewError) = IF config.provider = "aws" THEN 404 ELSE 500
      /\ NotThere = "NoSuchKey" <=> config.provider = "aws"
  BY DEF StatusOf, NotThere, PreviewError
<1>3. Throws(r) => PlainStep(r)
  BY <1>1, ThrowsPlain
<1>4. ASSUME NEW s \in {404, 500}, Goes(r, Says(r, s), TRUE)
      PROVE  PlainStep(r)
  <2>1. s \in Statuses
    BY DEF Statuses
  <2> QED
    BY <1>1, <1>4, <2>1, FailsPlain
<1>5. CASE Metadata(r)
  <2>1. a.route = "metadata" /\ a.route \in Reading
    BY <1>5 DEF Metadata, Handling, Reading
  <2>2. CASE Details(r, Says(r, 200), Says(r, 404), StatusOf(NotThere))
    <3>1. WhenMissing(a) = IF config.provider = "aws" THEN 404 ELSE 500
      BY <2>1 DEF WhenMissing, Unlooked, Unrecognized
    <3>2. Asks(r, Says(r, 200), Says(r, WhenMissing(a)))
      BY <1>2, <2>2, <3>1 DEF Details
    <3> QED
      BY <1>1, <2>1, <3>1, <3>2, LooksPlain
  <2> QED
    BY <1>3, <1>5, <2>2 DEF Metadata
<1>6. CASE Download(r)
  <2>1. a.route = "download" /\ a.route \in Reading
    BY <1>6 DEF Download, Handling, Reading
  <2>2. ASSUME NEW found,
               found = IF config.provider = "aws" THEN To(r, "stream") ELSE Says(r, 200),
               Asks(r, found, Says(r, StatusOf(NotThere)))
        PROVE  PlainStep(r)
    <3>1. Fits(a, "stream")
      BY <2>1 DEF Fits
    <3>2. WhenMissing(a) = 500 /\ StatusOf(NotThere) = 500
      BY <1>2, <2>1 DEF WhenMissing, Unlooked, Unrecognized
    <3> QED
      BY <1>1, <2>1, <2>2, <3>1, <3>2, LooksPlain
  <2> QED
    BY <1>3, <1>6, <2>2 DEF Download, GetObject, Opens
<1>7. CASE Preview(r)
  <2>1. a.route \in {"preview", "parquet"} /\ a.route \in Reading
    BY <1>7 DEF Preview, Handling, Reading
  <2>2. ASSUME NEW pc, pc = IF a.route = "preview" THEN "stream" ELSE "create",
               Asks(r, To(r, pc), Says(r, StatusOf(PreviewError)))
        PROVE  PlainStep(r)
    <3>1. Fits(a, pc) /\ pc \in {"stream", "sign", "create"}
      BY <2>1, <2>2 DEF Fits
    <3>2. /\ StatusOf(PreviewError) = WhenMissing(a)
          /\ WhenMissing(a) \in {404, 500}
      BY <1>2, <2>1 DEF WhenMissing, Unlooked, Unrecognized
    <3> QED
      BY <1>1, <2>1, <2>2, <3>1, <3>2, LooksPlain
  <2> QED
    BY <1>3, <1>7, <2>2 DEF Preview, PreviewFile, Opens
<1>8. CASE CheckZip(r) \/ CheckReport(r)
  <2>1. a.route \in {"zip", "report"} /\ a.route \in Reading
    BY <1>8 DEF CheckZip, CheckReport, Handling, Reading
  <2>2. Fits(a, "sign") /\ WhenMissing(a) = 404
    BY <2>1 DEF Fits, WhenMissing, Unlooked, Unrecognized
  <2>3. Asks(r, To(r, "sign"), Says(r, 404)) \/ Goes(r, Says(r, 500), TRUE)
    BY <1>8 DEF CheckZip, CheckReport
  <2>4. CASE Asks(r, To(r, "sign"), Says(r, 404))
    BY <1>1, <2>1, <2>2, <2>4, LooksPlain
  <2> QED
    BY ZenonT(60), <1>4, <2>3, <2>4
<1>9. CASE CheckAsset(r)
  <2>1. a.route = "assetLink" /\ a.route \in Reading
    BY <1>9 DEF CheckAsset, Handling, Reading
  <2>2. Fits(a, "sign")
    BY <2>1 DEF Fits
  <2>3. CASE Details(r, To(r, "sign"), To(r, "sign"), 404)
    <3>1. CASE config.provider = "aws"
      <4>1. Asks(r, To(r, "sign"), To(r, "sign"))
        BY <1>2, <2>3, <3>1 DEF Details
      <4> QED
        BY <1>1, <2>1, <2>2, <3>1, <4>1, LooksPlain
    <3>2. CASE config.provider # "aws"
      <4>1. WhenMissing(a) = 404
        BY <2>1, <3>2 DEF WhenMissing, Unlooked, Unrecognized
      <4>2. Asks(r, To(r, "sign"), Says(r, 404))
        BY <1>2, <2>3, <3>2 DEF Details
      <4> QED
        BY <1>1, <2>1, <2>2, <4>1, <4>2, LooksPlain
    <3> QED
      BY <3>1, <3>2
  <2> QED
    BY ZenonT(60), <1>4, <1>9, <2>3 DEF CheckAsset
<1> QED
  BY <1>5, <1>6, <1>7, <1>8, <1>9

(* The second half of a read answers with an object that was found.        *)
LEMMA EndsPlain ==
  ASSUME GateInv, TruthInv, NEW r \in Requests,
         \/ Pipe(r) \/ Parse(r) \/ SignLink(r) \/ SignAsset(r)
         \/ Presign(r) \/ QueryAccess(r)
  PROVE  PlainStep(r)
<1> DEFINE a == AskOf(r)
<1>1. Shape /\ request[r].pc \in PlainPcs /\ request[r].pc \in HandlerPcs
  BY DEF GateInv, Pipe, Parse, SignLink, SignAsset, Presign, QueryAccess,
         Handling, At, PlainPcs, HandlerPcs
<1>2. request[r].ask # {} /\ Truthful(r)
  BY <1>1, InMind DEF TruthInv
<1>3. Throws(r) => PlainStep(r)
  BY <1>1, ThrowsPlain
<1>4. ASSUME NEW s \in {200, 500}, Goes(r, Says(r, s), TRUE)
      PROVE  PlainStep(r)
  <2>1. s \in Statuses
    BY DEF Statuses
  <2> QED
    BY <1>1, <1>4, <2>1, FailsPlain
<1>5. ASSUME Tells(a, 200, request[r].ever \cup bucket', bucket'),
             Goes(r, Says(r, 200), FALSE)
      PROVE  PlainStep(r)
  <2>1. Plain(r, Says(r, 200)) /\ Honest(r, Says(r, 200))
    BY <1>1, <1>5, SaysHonest
  <2> QED
    BY <1>1, <1>5, <2>1, GoesPlain
<1>6. CASE Pipe(r)
  <2>1. a.route = "download" /\ Meant(a) \in request[r].ever
    BY <1>2, <1>6 DEF Pipe, At, Truthful, HasFound, HandlerPcs
  <2>2. Tells(a, 200, request[r].ever \cup bucket', bucket')
    BY <2>1 DEF Tells
  <2>3. CASE Goes(r, To(r, "hung"), TRUE)
    <3>1. Plain(r, To(r, "hung"))
      BY <1>1, ToPlain DEF Fits, HasFound, HandlerPcs
    <3> QED
      BY <1>1, <2>3, <3>1 DEF PlainStep, Goes
  <2> QED
    BY <1>5, <1>6, <2>2, <2>3 DEF Pipe
<1>7. CASE Parse(r)
  <2>1. a.route = "preview" /\ Meant(a) \in request[r].ever
    BY <1>2, <1>7 DEF Parse, At, Truthful, HasFound, HandlerPcs
  <2>2. Tells(a, 200, request[r].ever \cup bucket', bucket')
    BY <2>1 DEF Tells
  <2>3. ASSUME NEW fails \in BOOLEAN, Goes(r, Says(r, 200), fails)
        PROVE  Goes(r, Says(r, 200), FALSE) \/ Goes(r, Says(r, 200), TRUE)
    BY <2>3, Zenon
  <2>4. Goes(r, Says(r, 200), FALSE) \/ Goes(r, Says(r, 200), TRUE) \/ Throws(r)
    BY <1>7, <2>3 DEF Parse, ProcessFile, Rejects, ProcessJSON
  <2>5. CASE Goes(r, Says(r, 200), TRUE)
    BY <1>4, <2>5
  <2> QED
    BY <1>3, <1>5, <2>2, <2>4, <2>5
<1>8. CASE SignLink(r)
  <2>1. request[r].pc = "sign" /\ a.route # "assetLink"
    BY <1>8 DEF SignLink, At
  <2>2. a.route \in {"zip", "report"} /\ Meant(a) \in request[r].ever
    BY <1>2, <2>1 DEF Truthful, Fits, HasFound, HandlerPcs
  <2>3. Tells(a, 200, request[r].ever \cup bucket', bucket')
    BY <2>2 DEF Tells
  <2>4. Goes(r, Says(r, 200), FALSE) \/ Goes(r, Says(r, 500), TRUE)
    BY <1>8 DEF SignLink, Signs
  <2>5. CASE Goes(r, Says(r, 500), TRUE)
    BY <1>4, <2>5
  <2> QED
    BY <1>5, <2>3, <2>4, <2>5
<1>9. CASE SignAsset(r) \/ Presign(r) \/ QueryAccess(r)
  <2>1. /\ a.route \in {"assetLink", "presign", "access"}
        /\ a.route = "assetLink" => request[r].pc = "sign"
    BY <1>9 DEF SignAsset, Presign, QueryAccess, Handling, At
  <2>2. Tells(a, 200, request[r].ever \cup bucket', bucket')
    <3>1. a.route \in Sought => (Meant(a) \in request[r].ever \/ WhenMissing(a) = 200)
      <4>1. CASE a.route = "assetLink" /\ config.provider # "aws"
        BY <1>2, <2>1, <4>1 DEF Truthful, HasFound, HandlerPcs
      <4>2. CASE a.route = "presign" \/ (a.route = "assetLink" /\ config.provider = "aws")
        BY <4>2 DEF WhenMissing, Unlooked, Unrecognized
      <4> QED
        BY <2>1, <4>1, <4>2 DEF Sought, Reading
    <3> QED
      BY <2>1, <3>1 DEF Tells, Reading, Writing
  <2>3. Goes(r, Says(r, 200), FALSE) \/ Throws(r)
    BY <1>9 DEF SignAsset, Presign, QueryAccess, AssumeRole, Signs
  <2> QED
    BY <1>3, <1>5, <2>2, <2>3
<1> QED
  BY <1>6, <1>7, <1>8, <1>9

(* A command that writes answers with what it has done.                    *)
LEMMA WritesPlain ==
  ASSUME GateInv, NEW r \in Requests,
         DeleteFile(r) \/ Complete(r) \/ UploadAsset(r)
  PROVE  PlainStep(r)
<1> DEFINE a == AskOf(r)
           Done == {200, 201}
<1>1. Shape /\ request[r].pc \in PlainPcs /\ request[r].pc \in HandlerPcs
  BY DEF GateInv, DeleteFile, Complete, UploadAsset, Handling, At, PlainPcs,
         HandlerPcs
<1>2. UNCHANGED <<gateVars, duckVars, changes>>
  BY DEF DeleteFile, Complete, UploadAsset, Writes
<1>3. ASSUME NEW e \in Failures, StepTo(r, Says(r, StatusOf(e)), TRUE)
      PROVE  PlainStep(r)
  <2>1. Plain(r, Says(r, StatusOf(e)))
    BY <1>1, StatusOfType, SaysPlain
  <2> QED
    BY <1>1, <1>2, <1>3, <2>1 DEF PlainStep
<1>4. ASSUME NEW s \in Done, StepTo(r, Says(r, s), FALSE),
             Tells(a, s, request[r].ever \cup bucket', bucket')
      PROVE  PlainStep(r)
  <2>1. Plain(r, Says(r, s)) /\ Honest(r, Says(r, s))
    BY <1>1, <1>4, SaysHonest
  <2> QED
    BY <1>1, <1>2, <1>4, <2>1 DEF PlainStep
<1> HIDE DEF Done
<1>5. CASE DeleteFile(r)
  <2>1. a.route = "delete"
    BY <1>5 DEF DeleteFile, Handling
  <2>2. CASE Delete(Target(a)) /\ StepTo(r, Says(r, 200), FALSE)
    <3>1. Meant(a) \notin bucket'
      BY <1>1, <2>1, <2>2, InMind DEF Delete
    <3>2. Tells(a, 200, request[r].ever \cup bucket', bucket')
      BY <2>1, <3>1 DEF Tells, Reading, Writing, WhenMissing, Unlooked, Unrecognized
    <3>3. 200 \in Done
      BY DEF Done
    <3> QED
      BY <1>4, <2>2, <3>2, <3>3
  <2> QED
    BY <1>3, <1>5, <2>2 DEF DeleteFile, Writes
<1>6. CASE Complete(r) \/ UploadAsset(r)
  <2>1. a.route \in Writing
    BY <1>6 DEF Complete, UploadAsset, Handling, Writing
  <2>2. ASSUME NEW s \in Done, Put(Target(a)), StepTo(r, Says(r, s), FALSE)
        PROVE  PlainStep(r)
    <3>1. Meant(a) \in bucket'
      BY <1>1, <2>1, <2>2, InMind DEF Put
    <3>2. Tells(a, s, request[r].ever \cup bucket', bucket')
      BY <2>1, <2>2, <3>1 DEF Tells, Writing, Done
    <3> QED
      BY <1>4, <2>2, <3>2, Zenon
  <2>3. 200 \in Done /\ 201 \in Done
    BY DEF Done
  <2> QED
    BY <1>3, <1>6, <2>2, <2>3 DEF Complete, UploadAsset, Writes
<1> QED
  BY <1>5, <1>6

LEMMA ListsPlain ==
  ASSUME GateInv, NEW r \in Requests, ListAws(r) \/ ListMinio(r) \/ ListFails(r)
  PROVE  PlainStep(r)
<1> DEFINE a == AskOf(r)
<1>1. /\ Shape /\ request[r].pc = "work" /\ request[r].pc \in PlainPcs
      /\ a.route \in {"list", "listAll"}
  BY DEF GateInv, ListAws, ListMinio, ListFails, Listing, Handling, At, PlainPcs
<1>2. ASSUME NEW page, Goes(r, Listed(r, page), FALSE)
      PROVE  PlainStep(r)
  <2> DEFINE q == [Acting(r) EXCEPT !.walk = AfterPage(request[r].walk, page)]
             l == Listed(r, page)
  <2>1. /\ Whole(q) /\ q.pc = "work" /\ q.via = request[r].via
        /\ q.hit = request[r].hit
    BY <1>1, ActingIs DEF Whole, Fields
  <2>2. l = q \/ l = Answered(q, 200)
    BY DEF Listed
  <2> HIDE DEF q
  <2>3. /\ l.via = request[r].via /\ l.hit = request[r].hit
        /\ l.pc = "work" \/ (l.pc = "answered" /\ l.status = 200)
    BY <2>1, <2>2, AnsweredIs
  <2>4. Follows(r, l)
    BY <1>1, ListedFollows
  <2> HIDE DEF l
  <2>5. Plain(r, l)
    BY <2>3, <2>4 DEF Plain, Fits, HasFound, HandlerPcs
  <2>6. Tells(a, 200, request[r].ever \cup bucket', bucket')
    BY <1>1 DEF Tells, Reading, Writing, Sought
  <2>7. Honest(r, l)
    BY <2>3, <2>6 DEF Honest
  <2> QED
    BY <1>1, <1>2, <2>5, <2>7, GoesPlain DEF l
<1>3. CASE Goes(r, [Acting(r) EXCEPT !.pc = "hung"], FALSE)
  <2>1. Plain(r, To(r, "hung")) /\ Honest(r, To(r, "hung"))
    BY <1>1, ToPlain DEF Fits, HasFound, HandlerPcs
  <2> QED
    BY <1>1, <1>3, <2>1, GoesPlain DEF To
<1>4. Throws(r) => PlainStep(r)
  BY <1>1, ThrowsPlain
<1> QED
  BY <1>2, <1>3, <1>4 DEF ListAws, ListMinio, ListFails

LEMMA QueryPlain ==
  ASSUME GateInv, TruthInv, NEW r \in Requests, Query(r)
  PROVE  PlainStep(r)
<1> DEFINE q == request[r]
           a == AskOf(r)
<1>1. q.pc \in {"schema", "rows"} /\ Whole(q) /\ Shape
  BY DEF Query, At, GateInv, Shape
<1>2. q.pc \in PlainPcs /\ q.pc \in HandlerPcs /\ q.pc # "answered"
  BY <1>1 DEF PlainPcs, HandlerPcs
<1>3. /\ a.route = "parquet" /\ Meant(a) \in q.ever
      /\ ~q.hit => q.via \in configured
  <2>1. q.ask # {} /\ Truthful(r) /\ Connected(r)
    BY <1>2, InMind DEF TruthInv
  <2>2. Fits(a, q.pc) /\ (HasFound(a, q.pc) => Meant(a) \in q.ever)
    BY <2>1 DEF Truthful
  <2>3. a.route = "parquet"
    BY <1>1, <2>2 DEF Fits
  <2> QED
    BY <1>1, <2>1, <2>2, <2>3 DEF HasFound, HandlerPcs, Connected
<1>4. ASSUME NEW s \in Statuses
      PROVE  Plain(r, Answered(q, s)) /\ Answered(q, s).pc = "answered"
             /\ Answered(q, s).status = s
  <2>1. Follows(r, Answered(q, s))
    BY <1>1, AnsweredIs DEF Follows, Over
  <2> QED
    BY <1>1, <2>1, AnsweredIs DEF Plain, Fits, HasFound, HandlerPcs
<1>5. CASE Goes(r, Answered(q, 500), TRUE)
  <2>1. 500 \in Statuses
    BY DEF Statuses
  <2>2. Plain(r, Answered(q, 500))
    BY <1>4, <2>1
  <2> QED
    BY <1>2, <1>5, <2>2 DEF PlainStep, Goes
<1>6. CASE Goes(r, [q EXCEPT !.pc = "rows"], FALSE) /\ q.pc = "schema"
  <2> DEFINE n == [q EXCEPT !.pc = "rows"]
  <2>1. Follows(r, n)
    BY <1>1, <1>2 DEF Follows, Whole, Fields, HandlerPcs
  <2>2. n.pc = "rows" /\ n.via = q.via /\ n.hit = q.hit
    BY <1>1 DEF Whole, Fields
  <2> HIDE DEF n
  <2>3. Plain(r, n) /\ Honest(r, n)
    BY <1>3, <1>6, <2>1, <2>2 DEF Plain, Honest, Fits
  <2> QED
    BY <1>2, <1>6, <2>3, GoesPlain DEF n
<1>7. CASE Goes(r, Answered(q, 200), FALSE)
  <2>1. 200 \in Statuses
    BY DEF Statuses
  <2>2. Tells(a, 200, q.ever \cup bucket', bucket')
    BY <1>3 DEF Tells
  <2>3. Plain(r, Answered(q, 200)) /\ Honest(r, Answered(q, 200))
    BY <1>4, <2>1, <2>2 DEF Honest
  <2> QED
    BY <1>2, <1>7, <2>3, GoesPlain
<1>8. ASSUME NEW s \in Refusals(r), Goes(r, Answered(q, s), FALSE)
      PROVE  PlainStep(r)
  <2>1. s \in {404, 500} /\ s \in Statuses
    BY <1>8 DEF Refusals, Statuses
  <2>2. q.hit \/ Meant(a) \notin bucket' \/ Unreadable(a)
    <3>1. CASE config.provider # "aws"
      BY <1>3, <3>1 DEF Unreadable
    <3>2. CASE config.provider = "aws" /\ ~q.hit
      <4>1. Refusals(r) = IF ParquetPath(a) \in bucket THEN {} ELSE {404}
        BY <1>3, <3>2 DEF Refusals
      <4>2. ParquetPath(a) \notin bucket'
        BY <1>8, <4>1 DEF Goes
      <4> QED
        BY <1>3, <4>2 DEF Unreadable
    <3> QED
      BY <3>1, <3>2
  <2>3. q.hit \/ Tells(a, s, q.ever \cup bucket', bucket')
    BY <1>3, <2>1, <2>2 DEF Tells, Reading
  <2>4. Plain(r, Answered(q, s)) /\ Honest(r, Answered(q, s))
    BY <1>4, <2>1, <2>3 DEF Honest
  <2> QED
    BY <1>2, <1>8, <2>4, GoesPlain
<1> QED
  BY <1>1, <1>5, <1>6, <1>7, <1>8 DEF Query, At

LEMMA PlainHandled ==
  ASSUME GateInv, TruthInv, NEW r \in Requests, PlainAct(r)
  PROVE  PlainStep(r)
BY ReadsPlain, EndsPlain, WritesPlain, ListsPlain, QueryPlain DEF PlainAct

-----------------------------------------------------------------------------
(* Answers are true: every step                                            *)

LEMMA UnreadableStays ==
  ASSUME config' = config, NEW a
  PROVE  /\ Unreadable(a)' <=> Unreadable(a)
         /\ WhenMissing(a)' = WhenMissing(a)
         /\ \A pc : HasFound(a, pc)' <=> HasFound(a, pc)
BY DEF Unreadable, WhenMissing, Unlooked, Unrecognized, HasFound

(* A step of r that tells the truth of it leaves all as true as they were. *)
LEMMA TruthfulKept ==
  ASSUME GateInv, TruthInv, config' = config, NEW r \in Requests,
         request[r].pc \notin Over, request[r].ask # {},
         NEW q, Whole(q), q.ask = request[r].ask, MovesTo(r, q),
         Fits(AskOf(r), q.pc),
         HasFound(AskOf(r), q.pc) => Meant(AskOf(r)) \in request'[r].ever,
         q.pc = "answered" /\ q.passed /\ ~request'[r].hit =>
           Tells(AskOf(r), q.status, request'[r].ever, request'[r].always),
         NEW p \in Requests
  PROVE  Truthful(p)'
<1> DEFINE next == Next_(r, q, p)
           a == AskOf(p)
<1>1. /\ request'[p].ask = next.ask /\ request'[p].pc = next.pc
      /\ request'[p].status = next.status /\ request'[p].passed = next.passed
  BY Moved DEF GateInv
<1>2. next.ask = request[p].ask
  BY DEF Next_
<1>3. AskOf(p)' = a
  BY <1>1, <1>2, AskStays
<1>4. /\ \A b, s, e, al : Tells(b, s, e, al)' <=> Tells(b, s, e, al)
      /\ \A b, pc : HasFound(b, pc)' <=> HasFound(b, pc)
  BY UnreadableStays DEF Tells
<1>5. CASE p = r
  <2>1. next = q
    BY <1>5 DEF Next_
  <2> HIDE DEF next
  <2> QED
    BY <1>1, <1>3, <1>4, <1>5, <2>1 DEF Truthful
<1>6. CASE p # r
  <2>1. next = request[p]
    BY <1>6 DEF Next_
  <2>2. Sees(p, next)
    BY SeenSo DEF GateInv
  <2>3. Truthful(p)
    BY DEF TruthInv
  <2> HIDE DEF next
  <2> QED
    BY <1>1, <1>3, <1>4, <2>1, <2>2, <2>3
       DEF Truthful, Sees, HasFound, HandlerPcs, Active, Over
<1> QED
  BY <1>5, <1>6

(* A step of r that leaves DuckDB alone leaves connections as they were.   *)
LEMMA ConnectedKept ==
  ASSUME GateInv, TruthInv, UNCHANGED duckVars, NEW r \in Requests,
         request[r].pc # "configure",
         NEW q, Whole(q), MovesTo(r, q), q.pc # "configure",
         q.pc \in {"schema", "rows"} =>
           request[r].pc = "schema" /\ q.via = request[r].via,
         request[r].hit => q.hit,
         NEW p \in Requests
  PROVE  Connected(p)'
<1>1. ASSUME NEW s \in Requests
      PROVE  /\ request'[s].pc = Next_(r, q, s).pc
             /\ request'[s].via = Next_(r, q, s).via
             /\ Next_(r, q, s).hit => request'[s].hit
  BY Moved, SeenSo DEF GateInv, Sees
<1>2. ASSUME NEW s \in Requests
      PROVE  /\ request[s].hit => request'[s].hit
             /\ request'[s].pc = "configure" <=> request[s].pc = "configure"
             /\ request'[s].pc \in {"schema", "rows"} =>
                  request[s].pc \in {"schema", "rows"}
                  /\ request'[s].via = request[s].via
  BY <1>1 DEF Next_
<1>3. Connected(p)
  BY DEF TruthInv
<1> QED
  BY <1>2, <1>3 DEF Connected, duckVars

LEMMA HandlerSees ==
  ASSUME Shape, NEW r \in Requests, request[r].pc \in HandlerPcs,
         NEW q, Follows(r, q), MovesTo(r, q)
  PROVE  /\ request'[r].always = request[r].always \cap bucket'
         /\ request'[r].ever = request[r].ever \cup bucket'
         /\ q.hit => request'[r].hit
<1>1. Active(r)
  BY DEF Active, Over, HandlerPcs
<1>2. Sees(r, q)
  BY SeenSo DEF Follows, Next_
<1> QED
  BY <1>1, <1>2 DEF Sees, Follows

LEMMA PlainTruth ==
  ASSUME GateInv, TruthInv, NEW r \in Requests, PlainStep(r)
  PROVE  TruthInv'
<1> DEFINE a == AskOf(r)
<1>1. PICK q : /\ Plain(r, q)
               /\ StepTo(r, q, TRUE) \/ (StepTo(r, q, FALSE) /\ Honest(r, q))
  BY DEF PlainStep
<1>2. /\ MovesTo(r, q) /\ Follows(r, q) /\ Whole(q) /\ q.ask = request[r].ask
      /\ q.via = request[r].via /\ q.hit = request[r].hit
  BY <1>1 DEF MovesTo, Plain, Follows
<1>3. /\ config' = config /\ UNCHANGED duckVars
      /\ request[r].pc \in HandlerPcs /\ request[r].pc \notin Over
      /\ request[r].pc # "configure" /\ Shape
  BY DEF PlainStep, gateVars, PlainPcs, HandlerPcs, Over, GateInv
<1>4. request[r].ask # {}
  BY <1>3, InMind
<1>5. /\ request'[r].always = request[r].always \cap bucket'
      /\ request'[r].ever = request[r].ever \cup bucket'
      /\ q.hit => request'[r].hit
  BY <1>2, <1>3, HandlerSees
<1>6. /\ Fits(a, q.pc)
      /\ HasFound(a, q.pc) => Meant(a) \in request'[r].ever
  BY <1>1, <1>5 DEF Plain
<1>7. q.pc = "answered" /\ q.passed /\ ~request'[r].hit =>
        Tells(a, q.status, request'[r].ever, request'[r].always)
  <2>1. CASE StepTo(r, q, TRUE)
    <3>1. SeesFailing(r, q)
      BY <1>2, <1>3, <2>1, SeenFailing DEF Next_
    <3> QED
      BY <1>3, <3>1 DEF SeesFailing, Active, HandlerPcs, Over
  <2>2. CASE Honest(r, q)
    <3>1. SUFFICES ASSUME q.pc = "answered", ~request'[r].hit
                   PROVE  Tells(a, q.status, request'[r].ever, request'[r].always)
      OBVIOUS
    <3>2. Tells(a, q.status, request[r].ever \cup bucket', bucket')
      BY <1>2, <1>5, <2>2, <3>1 DEF Honest
    <3> QED
      BY <1>5, <3>2 DEF Tells
  <2> QED
    BY <1>1, <2>1, <2>2
<1>8. ASSUME NEW p \in Requests
      PROVE  Truthful(p)'
  BY <1>2, <1>3, <1>4, <1>6, <1>7, TruthfulKept
<1>9. q.pc # "configure" /\ (q.pc \in {"schema", "rows"} => request[r].pc = "schema")
  BY <1>1 DEF Plain
<1>10. ASSUME NEW p \in Requests
       PROVE  Connected(p)'
  BY <1>2, <1>3, <1>9, ConnectedKept
<1> QED
  BY <1>8, <1>10 DEF TruthInv

LEMMA GateTruth ==
  ASSUME GateInv, TruthInv, NEW r \in Requests, GateAct(r)
  PROVE  TruthInv'
<1> DEFINE a == AskOf(r)
<1>1. Gated(r)
  BY GatesJudge
<1>2. PICK q : Judging(r, q) /\ MovesTo(r, q)
  BY <1>1 DEF Gated
<1>3. /\ Whole(q) /\ q.ask = request[r].ask /\ request[r].ask # {}
      /\ q.hit = request[r].hit
      /\ q.pc \in Gating \cup {"work", "answered"}
      /\ q.passed => q.pc # "answered"
  BY <1>1, <1>2 DEF Judging, Gated
<1>4. /\ config' = config /\ UNCHANGED duckVars
      /\ request[r].pc \notin Over /\ request[r].pc # "configure"
  BY <1>1 DEF Gated, gateVars, Gating, Over
<1>5. Fits(a, q.pc) /\ ~HasFound(a, q.pc)
  BY <1>3 DEF Fits, HasFound, Gating, HandlerPcs
<1>6. ~(q.pc = "answered" /\ q.passed)
  BY <1>3
<1>7. ASSUME NEW p \in Requests
      PROVE  Truthful(p)'
  BY <1>2, <1>3, <1>4, <1>5, <1>6, TruthfulKept
<1>8. q.pc # "configure" /\ q.pc \notin {"schema", "rows"}
  BY <1>3 DEF Gating
<1>9. ASSUME NEW p \in Requests
      PROVE  Connected(p)'
  BY <1>2, <1>3, <1>4, <1>8, ConnectedKept
<1> QED
  BY <1>7, <1>9 DEF TruthInv

(* Setting up a connection: a preview that fails is known to have, and one *)
(* that goes on while another is on its way is marked.                     *)
LEMMA SetUpTruth ==
  ASSUME GateInv, TruthInv, NEW r \in Requests,
         CreateConnection(r) \/ CreateFails(r) \/ Configure(r)
  PROVE  TruthInv'
<1> DEFINE q0 == request[r]
           a == AskOf(r)
           made == Overlaps([q0 EXCEPT !.pc = "configure"], r)
           gone == [q0 EXCEPT !.pc = "schema", !.via = conn]
           DuckPcs == {"create", "configure", "schema", "rows"}
           overlap == \E p \in Requests \ {r} : request[p].pc \in DuckPcs
<1>1. /\ q0.pc \in {"create", "configure"} /\ Whole(q0) /\ Shape
      /\ q0.pc \in HandlerPcs /\ q0.pc \notin Over
  BY DEF CreateConnection, CreateFails, Configure, At, GateInv, Shape, HandlerPcs,
         Over
<1>2. q0.ask # {} /\ a.route = "parquet" /\ Meant(a) \in q0.ever /\ Connected(r)
  <2>1. q0.ask # {} /\ Truthful(r) /\ Connected(r)
    BY <1>1, InMind DEF TruthInv
  <2> QED
    BY <1>1, <2>1 DEF Truthful, Fits, HasFound, HandlerPcs
<1>3. config' = config
  BY DEF CreateConnection, CreateFails, Configure, Duck, gateVars
<1>4. ASSUME NEW q, Follows(r, q), MovesTo(r, q),
             q.pc \in DuckPcs \/ (q.pc = "answered" /\ request'[r].hit),
             NEW p \in Requests
      PROVE  Truthful(p)'
  <2>1. Whole(q) /\ q.ask = q0.ask
    BY <1>4 DEF Follows
  <2>2. Meant(a) \in request'[r].ever
    BY <1>1, <1>2, <1>4, HandlerSees
  <2>3. Fits(a, q.pc)
    BY <1>2, <1>4 DEF Fits
  <2>4. q.pc # "answered" \/ request'[r].hit
    BY <1>4
  <2> QED
    BY <1>1, <1>2, <1>3, <1>4, <2>1, <2>2, <2>3, <2>4, TruthfulKept
<1>5. \A p \in Requests : Connected(p)
  BY DEF TruthInv
<1>6. ASSUME NEW q, Whole(q), StepTo(r, q, TRUE), NEW p \in Requests
      PROVE  Active(p) => request'[p].hit
  <2>1. SeesFailing(p, Next_(r, q, p))
    BY <1>1, <1>6, SeenFailing
  <2> QED
    BY <2>1 DEF SeesFailing
<1>7. ASSUME NEW q, Whole(q), StepTo(r, q, TRUE), NEW p \in Requests
      PROVE  Connected(p)'
  <2>1. request'[p].pc = Next_(r, q, p).pc
    BY <1>1, <1>7, Moved DEF MovesTo
  <2>2. ~Active(p) => request'[p].pc \notin DuckPcs
    BY <1>1, <2>1 DEF Next_, Active, Over
  <2> QED
    BY <1>6, <1>7, <2>2 DEF Connected
<1>8. ASSUME NEW q, Whole(q), StepTo(r, q, FALSE), NEW p \in Requests
      PROVE  /\ request'[p].pc = Next_(r, q, p).pc
             /\ request'[p].via = Next_(r, q, p).via
             /\ request'[p].hit <=> Next_(r, q, p).hit
  <2>1. SeesQuiet(p, Next_(r, q, p))
    BY <1>1, <1>8, SeenQuietly
  <2> QED
    BY ZenonT(60), <1>1, <1>8, <2>1, Moved DEF MovesTo, SeesQuiet
<1>9. /\ Follows(r, made) /\ made.pc = "configure"
      /\ made.hit <=> (q0.hit \/ overlap)
  BY <1>1 DEF Follows, Overlaps, Whole, Fields, HandlerPcs, At
<1>10. /\ Follows(r, gone) /\ gone.pc = "schema"
       /\ LET o == Overlaps(gone, r) IN
          /\ Follows(r, o) /\ o.pc = "schema" /\ o.via = conn
          /\ o.hit <=> (q0.hit \/ overlap)
  BY <1>1 DEF Follows, Overlaps, Whole, Fields, HandlerPcs, At
<1>11. Follows(r, q0) /\ Follows(r, Answered(q0, 500))
  <2>1. 500 \in Statuses
    BY DEF Statuses
  <2> QED
    BY <1>1, <2>1, AnsweredIs DEF Follows, Over
<1> HIDE DEF made, gone
<1>12. CASE CreateConnection(r)
  <2>1. StepTo(r, made, FALSE) /\ conn' = r /\ configured' = configured
    BY <1>12 DEF CreateConnection, Duck, made
  <2>2. ASSUME NEW p \in Requests
        PROVE  Truthful(p)'
    BY <1>4, <1>9, <2>1 DEF MovesTo
  <2>3. Whole(made)
    BY <1>9 DEF Follows
  <2>4. request'[r].pc = "configure"
    BY <1>8, <1>9, <2>1, <2>3 DEF Next_
  <2>5. ASSUME NEW p \in Requests
        PROVE  Connected(p)'
    <3>1. CASE p = r
      BY <2>1, <2>4, <3>1 DEF Connected
    <3>2. CASE p # r
      BY <1>5, <1>8, <2>1, <2>3, <2>4, <3>2 DEF Connected, Next_
    <3> QED
      BY <3>1, <3>2
  <2> QED
    BY <2>2, <2>5 DEF TruthInv
<1>13. CASE CreateFails(r)
  <2>1. PICK q \in {gone, q0, Answered(q0, 500)} : StepTo(r, q, TRUE)
    <3>1. \/ StepTo(r, gone, TRUE) \/ StepTo(r, q0, TRUE)
          \/ StepTo(r, Answered(q0, 500), TRUE)
      BY <1>13, Zenon DEF CreateFails, Duck, gone
    <3> QED
      BY ZenonT(60), <3>1
  <2>2. Follows(r, q) /\ Whole(q) /\ MovesTo(r, q)
    <3>1. Follows(r, q)
      BY <1>10, <1>11, <2>1
    <3> QED
      BY <2>1, <3>1 DEF Follows, MovesTo
  <2>3. request'[r].hit
    BY <1>1, <1>6, <2>1, <2>2 DEF Active
  <2>4. q.pc \in DuckPcs \/ q.pc = "answered"
    BY <1>1, <1>10, <2>1, AnsweredIs
  <2>5. ASSUME NEW p \in Requests
        PROVE  Truthful(p)' /\ Connected(p)'
    BY <1>4, <1>7, <2>1, <2>2, <2>3, <2>4
  <2> QED
    BY <2>5 DEF TruthInv
<1>14. CASE Configure(r)
  <2> DEFINE q == Overlaps(gone, r)
  <2>1. q0.pc = "configure" /\ conn' = conn
    BY <1>14 DEF Configure, At
  <2>2. \/ StepTo(r, q, TRUE)
        \/ StepTo(r, q, FALSE) /\ configured' = configured \cup {r}
    <3>1. PICK fails \in BOOLEAN :
            /\ configured' = IF fails THEN configured ELSE configured \cup {r}
            /\ StepTo(r, q, fails)
      BY <1>14, Zenon DEF Configure, Duck, gone
    <3>2. CASE fails = TRUE
      BY <3>1, <3>2, Zenon
    <3>3. CASE fails = FALSE
      BY <3>1, <3>3, Zenon
    <3> QED
      BY <3>2, <3>3
  <2>3. /\ Follows(r, q) /\ Whole(q) /\ q.pc = "schema" /\ q.via = conn
        /\ q.hit <=> (q0.hit \/ overlap)
    BY <1>10 DEF Follows
  <2> HIDE DEF q
  <2>4. ASSUME NEW p \in Requests
        PROVE  Truthful(p)'
    BY <1>4, <2>2, <2>3 DEF MovesTo
  <2>5. CASE StepTo(r, q, TRUE)
    BY <1>7, <2>3, <2>4, <2>5 DEF TruthInv
  <2>6. CASE StepTo(r, q, FALSE) /\ configured' = configured \cup {r}
    <3>1. ASSUME NEW p \in Requests, p # r
          PROVE  Connected(p)'
      <4>1. /\ request'[p].pc = request[p].pc /\ request'[p].via = request[p].via
            /\ request'[p].hit <=> request[p].hit
        BY <1>8, <2>3, <2>6, <3>1 DEF Next_
      <4>2. ASSUME conn \in Requests, request[conn].pc = "configure", conn # r
            PROVE  request'[conn].pc = "configure"
        BY <1>8, <2>3, <2>6, <4>2 DEF Next_
      <4>3. Connected(p)
        BY <1>5
      <4> QED
        BY <2>1, <2>6, <4>1, <4>2, <4>3 DEF Connected
    <3>2. Connected(r)'
      <4>1. /\ request'[r].pc = "schema" /\ request'[r].via = conn
            /\ request'[r].hit <=> (q0.hit \/ overlap)
        BY <1>8, <2>3, <2>6 DEF Next_
      <4>2. ASSUME ~q0.hit, ~overlap
            PROVE  conn \in configured \cup {r}
        BY <1>2, <2>1, <4>2 DEF Connected
      <4> QED
        BY <2>6, <4>1, <4>2 DEF Connected
    <3> QED
      BY <2>4, <3>1, <3>2 DEF TruthInv
  <2> QED
    BY <2>2, <2>5, <2>6
<1> QED
  BY <1>12, <1>13, <1>14

LEMMA TruthInit == Init => TruthInv
<1> SUFFICES ASSUME Init, NEW r \in Requests PROVE Truthful(r) /\ Connected(r)
  BY DEF TruthInv
<1>1. request[r].pc = "new"
  BY DEF Init, NewRequest
<1> QED
  BY <1>1 DEF Truthful, Connected, Fits, HasFound, HandlerPcs

LEMMA TruthNext == GateInv /\ TruthInv /\ [Next]_vars => TruthInv'
<1> SUFFICES ASSUME GateInv, TruthInv, [Next]_vars PROVE TruthInv'
  OBVIOUS
<1>1. ASSUME NEW r \in Requests, GateAct(r)
      PROVE  TruthInv'
  BY <1>1, GateTruth
<1>2. ASSUME NEW r \in Requests, HandlerAct(r)
      PROVE  TruthInv'
  <2>1. PlainAct(r) \/ CreateConnection(r) \/ CreateFails(r) \/ Configure(r)
    BY <1>2 DEF HandlerAct, PlainAct
  <2> QED
    BY <1>2, <2>1, PlainHandled, PlainTruth, SetUpTruth
<1>3. CASE RightsChange \/ WorkerUploads \/ UNCHANGED vars
  <2>1. ASSUME NEW p \in Requests
        PROVE  /\ config' = config
               /\ request'[p].ask = request[p].ask /\ request'[p].pc = request[p].pc
               /\ request'[p].status = request[p].status
               /\ request'[p].passed = request[p].passed
               /\ request'[p].via = request[p].via
               /\ request'[p].always = request[p].always
               /\ request'[p].hit = request[p].hit
               /\ request[p].ever \subseteq request'[p].ever
               /\ ~Active(p) => request'[p].ever = request[p].ever
               /\ UNCHANGED <<conn, configured>>
    BY <1>3, Outside DEF GateInv
  <2>2. ASSUME NEW p \in Requests
        PROVE  Truthful(p)'
    <3>1. AskOf(p)' = AskOf(p)
      BY <2>1, AskStays
    <3>2. /\ \A b, s, e, al : Tells(b, s, e, al)' <=> Tells(b, s, e, al)
          /\ \A b, pc : HasFound(b, pc)' <=> HasFound(b, pc)
      BY <2>1, UnreadableStays DEF Tells
    <3>3. Truthful(p)
      BY DEF TruthInv
    <3> QED
      BY <2>1, <3>1, <3>2, <3>3 DEF Truthful, Active, Over
  <2>3. ASSUME NEW p \in Requests
        PROVE  Connected(p)'
    BY <2>1 DEF TruthInv, Connected
  <2> QED
    BY <2>2, <2>3 DEF TruthInv
<1> QED
  BY <1>1, <1>2, <1>3, NextStirs DEF Stirs

(* A caller is told the truth about the object, whatever others delete or  *)
(* store meanwhile: no success for an object that was never there while    *)
(* the request ran, no deletion that left it, no 404 or 500 for one that   *)
(* was there all the time; and one that never was there is answered with   *)
(* 404, as openapi.ts promises, but for the answers WhenMissing names.     *)
THEOREM CallersAreToldTheTruth == Spec => []AnswersAreTrue
<1>1. GateInv /\ TruthInv => AnswersAreTrue
  <2> SUFFICES ASSUME GateInv, TruthInv, NEW r \in Requests, At(r, {"answered"}),
                      request[r].passed, ~request[r].hit
               PROVE  Tells(AskOf(r), request[r].status, request[r].ever,
                            request[r].always)
    BY DEF AnswersAreTrue, Tells, Told, At, Sometime, Throughout
  <2>1. request[r].pc = "answered" /\ request[r].ask # {}
    BY DEF At, GateInv, Placed
  <2> QED
    BY <2>1 DEF TruthInv, Truthful
<1> QED
  BY <1>1, GateInit, GateNext, TruthInit, TruthNext, PTL DEF Spec

-----------------------------------------------------------------------------
(* Whoever has the right, and asks for what is there, succeeds             *)

(* What the route wants of a request, in a databank that is listed.        *)
Proper(a) ==
  /\ item.listed /\ a.body = "good" /\ HandlerChecks(a) = 0
  /\ ~Unreadable(a)

(* Why a question is asked, if nothing failed or changed since the first.  *)
Asked(a, pc) ==
  pc \in Gating =>
    /\ config.authz
    /\ pc \in {"acl", "owner"} /\ Route[a.route].gate = "read" =>
         item.policy \notin {"OPEN", "PRIVATE"}
    /\ pc = "owner" /\ Route[a.route].gate = "read" => a.user \notin acl

(* A request with the right that met no failure and no change.             *)
Smooth(r) ==
  LET q == request[r]
      a == AskOf(r)
  IN  q.ask # {} /\ ~q.hit /\ ~q.shaken =>
        /\ Asked(a, q.pc)
        /\ /\ q.pc = "answered" /\ Entitled(r) /\ Proper(a)
           /\ a.route \in Reading => Meant(a) \in q.always
           => q.status \in {200, 201}

SmoothInv ==
  /\ acl \subseteq {u \in Users : ExtractUserInfo(u)}
  /\ \A r \in Requests : Smooth(r)

(* No verdict on a request with the right refuses it, if nothing fails.    *)
Welcomes(r, v) ==
  /\ v.to \in Gating \cup {"pass", "refuse"}
  /\ v.to = "refuse" => ~(Entitled(r) /\ item.listed)
  /\ Asked(AskOf(r), v.to)

LEMMA RightOf ==
  ASSUME GateInv, NEW r \in Requests, request[r].ask # {}, Entitled(r),
         item.listed
  PROVE  LET a == AskOf(r) IN
         /\ LetsIn(a.user, Route[a.route].gate)
         /\ Admitted(a)
BY AskOfType, MayPassLetIn DEF Entitled

LEMMA FirstWelcomes ==
  ASSUME GateInv, NEW r \in Requests, request[r].ask # {}
  PROVE  Welcomes(r, FirstQuestion(Route[AskOf(r).route].gate))
<1> DEFINE a == AskOf(r)
           gate == Route[a.route].gate
<1>1. gate \in Gates
  BY AskOfType, Routes
<1>2. CASE ~config.authz \/ gate = "none"
  <2>1. FirstQuestion(gate) = Pass
    BY <1>2 DEF FirstQuestion
  <2> QED
    BY <2>1, Verdicts DEF Welcomes, Asked, Gating
<1>3. CASE config.authz /\ gate = "owner" /\ config.auth
  <2>1. FirstQuestion(gate) = AskFor("owner")
    BY <1>3 DEF FirstQuestion, BeforeOwner
  <2> QED
    BY <1>3, <2>1, Verdicts DEF Welcomes, Asked, Gating
<1>4. CASE config.authz /\ gate = "owner" /\ ~config.auth
  <2>1. FirstQuestion(gate) = Refuse(401)
    BY <1>4 DEF FirstQuestion, BeforeOwner
  <2>2. ~LetsIn(a.user, gate)
    BY <1>4 DEF LetsIn
  <2> QED
    BY <2>1, <2>2, Verdicts, RightOf DEF Welcomes, Asked, Gating
<1>5. CASE config.authz /\ gate \in {"item", "read"}
  <2>1. FirstQuestion(gate) = AskFor(gate)
    BY <1>5 DEF FirstQuestion
  <2> QED
    BY <1>5, <2>1, Verdicts DEF Welcomes, Asked, Gating
<1> QED
  BY <1>1, <1>2, <1>3, <1>4, <1>5 DEF Gates

LEMMA ItemWelcomes ==
  ASSUME NEW r \in Requests, NEW reply \in Replies(FALSE)
  PROVE  Welcomes(r, CheckItemAccess(reply))
<1>1. CASE reply = "item"
  <2>1. CheckItemAccess(reply) = Pass
    BY <1>1 DEF CheckItemAccess
  <2> QED
    BY <2>1, Verdicts DEF Welcomes, Asked, Gating
<1>2. CASE reply # "item"
  <2>1. ~item.listed
    BY <1>2 DEF Replies
  <2>2. CheckItemAccess(reply).to = "refuse"
    BY <1>2, Verdicts DEF CheckItemAccess, CatalogueFailure
  <2> QED
    BY <2>1, <2>2 DEF Welcomes, Asked, Gating
<1> QED
  BY <1>1, <1>2

LEMMA ReadWelcomes ==
  ASSUME GateInv, SmoothInv, NEW r \in Requests, request[r].ask # {},
         config.authz, Route[AskOf(r).route].gate = "read",
         NEW reply \in Replies(FALSE)
  PROVE  Welcomes(r, CheckItemAccessWithDatabankAccess(AskOf(r).user, reply))
<1> DEFINE a == AskOf(r)
           v == CheckItemAccessWithDatabankAccess(a.user, reply)
<1>1. CASE reply = "item" /\ item.policy \in {"OPEN", "PRIVATE"}
  <2>1. v = Pass
    BY <1>1 DEF CheckItemAccessWithDatabankAccess
  <2> QED
    BY <2>1, Verdicts DEF Welcomes, Asked, Gating
<1>2. CASE reply = "item" /\ item.policy \notin {"OPEN", "PRIVATE"}
  <2>1. CASE Token[a.user] # "none"
    <3>1. v = AskFor("acl")
      BY <1>2, <2>1 DEF CheckItemAccessWithDatabankAccess
    <3> QED
      BY <1>2, <3>1, Verdicts DEF Welcomes, Asked, Gating
  <2>2. CASE Token[a.user] = "none"
    <3>1. v = Refuse(401)
      BY <1>2, <2>2 DEF CheckItemAccessWithDatabankAccess
    <3>2. ~ExtractUserInfo(a.user)
      BY <2>2 DEF ExtractUserInfo, ExtractToken
    <3>3. Route[a.route].auth
      BY AskOfType, Routes
    <3>4. ASSUME Entitled(r), item.listed PROVE FALSE
      <4>1. LetsIn(a.user, "read") /\ Admitted(a)
        BY <3>4, RightOf
      <4>2. ~config.auth
        BY <3>2, <3>3, <4>1 DEF Admitted, Authenticate
      <4>3. a.user \notin acl
        BY <3>2 DEF SmoothInv
      <4> QED
        BY <1>2, <4>1, <4>2, <4>3 DEF LetsIn
    <3> QED
      BY <3>1, <3>4, Verdicts DEF Welcomes, Asked, Gating
  <2> QED
    BY <2>1, <2>2
<1>3. CASE reply # "item"
  <2>1. ~item.listed
    BY <1>3 DEF Replies
  <2>2. v.to = "refuse"
    BY <1>3, Verdicts DEF CheckItemAccessWithDatabankAccess, CatalogueFailure
  <2> HIDE DEF v
  <2> QED
    BY <2>1, <2>2 DEF Welcomes, Asked, Gating, v
<1> QED
  BY <1>1, <1>2, <1>3

LEMMA AclWelcomes ==
  ASSUME GateInv, NEW r \in Requests, request[r].ask # {},
         Route[AskOf(r).route].gate = "read", Asked(AskOf(r), "acl")
  PROVE  Welcomes(r, DatabankAccess(AskOf(r).user, FALSE))
<1> DEFINE a == AskOf(r)
<1>1. config.authz /\ item.policy \notin {"OPEN", "PRIVATE"}
  BY DEF Asked, Gating
<1>2. CASE a.user \in acl
  <2>1. DatabankAccess(a.user, FALSE) = Pass
    BY <1>2 DEF DatabankAccess
  <2> QED
    BY <2>1, Verdicts DEF Welcomes, Asked, Gating
<1>3. CASE a.user \notin acl /\ config.auth
  <2>1. DatabankAccess(a.user, FALSE) = AskFor("owner")
    BY <1>3 DEF DatabankAccess, BeforeOwner
  <2> QED
    BY ZenonT(60), <1>1, <1>3, <2>1, Verdicts DEF Welcomes, Asked, Gating
<1>4. CASE a.user \notin acl /\ ~config.auth
  <2>1. DatabankAccess(a.user, FALSE) = Refuse(401)
    BY <1>4 DEF DatabankAccess, BeforeOwner
  <2>2. ~LetsIn(a.user, "read")
    BY <1>1, <1>4 DEF LetsIn
  <2>3. ~(Entitled(r) /\ item.listed)
    BY <2>2, RightOf
  <2>4. Welcomes(r, Refuse(401))
    BY <2>3, Verdicts DEF Welcomes, Asked, Gating
  <2> QED
    BY <2>1, <2>4, Zenon
<1> QED
  BY <1>2, <1>3, <1>4

LEMMA OwnerWelcomes ==
  ASSUME GateInv, NEW r \in Requests, request[r].ask # {},
         Route[AskOf(r).route].gate \in {"read", "owner"},
         Asked(AskOf(r), "owner"), NEW reply \in Replies(FALSE)
  PROVE  Welcomes(r, CheckIsOwner(AskOf(r).user, reply))
<1> DEFINE a == AskOf(r)
           v == CheckIsOwner(a.user, reply)
<1>1. CASE reply = "item" /\ item.owner = a.user
  <2>1. v = Pass
    BY <1>1 DEF CheckIsOwner
  <2> QED
    BY <2>1, Verdicts DEF Welcomes, Asked, Gating
<1>2. CASE reply = "item" /\ item.owner # a.user
  <2>1. v = Refuse(403)
    BY <1>2 DEF CheckIsOwner
  <2>2. ~LetsIn(a.user, Route[a.route].gate)
    BY <1>2 DEF LetsIn, Asked, Gating
  <2> QED
    BY <2>1, <2>2, Verdicts, RightOf DEF Welcomes, Asked, Gating
<1>3. CASE reply # "item"
  <2>1. ~item.listed
    BY <1>3 DEF Replies
  <2>2. v.to = "refuse"
    BY <1>3, Verdicts DEF CheckIsOwner, CatalogueFailure
  <2> HIDE DEF v
  <2> QED
    BY <2>1, <2>2 DEF Welcomes, Asked, Gating, v
<1> QED
  BY <1>1, <1>2, <1>3

LEMMA BeforeLetsIn ==
  ASSUME NEW a, Admitted(a), a.body = "good"
  PROVE  Before(a) = 0
<1>1. FileUpload(a) = 0
  BY DEF FileUpload
<1>2. CASE ~Route[a.route].auth
  BY <1>2 DEF Before
<1>3. CASE Route[a.route].auth
  <2>1. Before(a) = First(<<0, 0, 0>>)
    BY <1>1, <1>3 DEF Before, Admitted
  <2>2. First(<<0, 0, 0>>) = 0
    <3> DEFINE x == 0
    <3>1. x \in Int /\ x = 0
      OBVIOUS
    <3> HIDE DEF x
    <3>2. First(<<x, x, x>>) = IF x # 0 THEN x ELSE IF x # 0 THEN x ELSE x
      BY <3>1, FirstIsZero, Zenon
    <3> QED
      BY <3>1, <3>2
  <2> QED
    BY <2>1, <2>2
<1> QED
  BY <1>2, <1>3

(* A step of a gate in which no service fails leaves r, become q, on its   *)
(* way, if it has the right.                                               *)
OnItsWay(r, q) ==
  /\ Asked(AskOf(r), q.pc)
  /\ q.pc = "answered" => ~(Entitled(r) /\ Proper(AskOf(r)))

LEMMA JudgedOnItsWay ==
  ASSUME NEW r \in Requests, NEW q, Whole(q), NEW v, Welcomes(r, v)
  PROVE  OnItsWay(r, Judged(q, AskOf(r), v))
<1> DEFINE a == AskOf(r)
           j == Judged(q, a, v)
<1>1. JudgedSo(q, a, v, j)
  BY JudgedIs
<1> HIDE DEF j
<1>2. CASE v.to = "pass"
  BY <1>1, <1>2 DEF JudgedSo, OnItsWay, Asked, Gating, Proper, j
<1>3. CASE v.to = "refuse"
  BY <1>1, <1>3 DEF JudgedSo, OnItsWay, Asked, Gating, Proper, Welcomes, j
<1>4. CASE v.to \in Gating
  BY <1>1, <1>4 DEF JudgedSo, OnItsWay, Welcomes, Gating, j
<1> QED
  BY <1>2, <1>3, <1>4 DEF Welcomes

GateLeads(r) ==
  \E q :
    /\ Whole(q) /\ q.ask = request[r].ask /\ q.shaken = request[r].shaken
    /\ q.hit = request[r].hit
    /\ \/ StepTo(r, q, TRUE) /\ request[r].pc \in Gating
       \/ /\ StepTo(r, q, FALSE)
          /\ ~request[r].hit /\ ~request[r].shaken => OnItsWay(r, q)

LEMMA GatesLead ==
  ASSUME GateInv, SmoothInv, NEW r \in Requests, GateAct(r)
  PROVE  GateLeads(r)
<1> DEFINE a == AskOf(r)
           smooth == ~request[r].hit /\ ~request[r].shaken
<1>1. Gated(r)
  BY GatesJudge
<1>2. request[r].ask # {} /\ Whole(request[r]) /\ Placed(r, request[r])
  BY <1>1 DEF Gated, GateInv, Shape
<1>3. smooth => Asked(a, request[r].pc)
  BY <1>2 DEF SmoothInv, Smooth
<1>4. CASE Enter(r)
  <2> DEFINE q == [request[r] EXCEPT !.always = bucket, !.ever = bucket,
                    !.walk = Start(NormalizePrefix(a.key))]
             v == FirstQuestion(Route[a.route].gate)
             next == IF Before(a) # 0 THEN Answered(q, Before(a)) ELSE Judged(q, a, v)
  <2>1. StepTo(r, next, FALSE)
    BY <1>4 DEF Enter, Goes
  <2>2. /\ Whole(q) /\ q.ask = request[r].ask /\ q.hit = request[r].hit
        /\ q.shaken = request[r].shaken
    BY <1>2 DEF Whole, Fields
  <2> HIDE DEF q
  <2>3. CASE Before(a) # 0
    <3>1. next = Answered(q, Before(a))
      BY <2>3
    <3>2. ~(Entitled(r) /\ Proper(a))
      BY <1>2, <2>3, RightOf, BeforeLetsIn DEF Proper
    <3>3. OnItsWay(r, Answered(q, Before(a)))
      BY <2>2, <3>2, AnsweredIs DEF OnItsWay, Asked, Gating
    <3>4. /\ Whole(next) /\ next.ask = q.ask /\ next.shaken = q.shaken
          /\ next.hit = q.hit
      BY <2>2, <3>1, AnsweredIs
    <3>5. OnItsWay(r, next)
      BY <3>1, <3>3
    <3> HIDE DEF next
    <3> QED
      BY <2>1, <2>2, <3>4, <3>5 DEF GateLeads
  <2>4. CASE Before(a) = 0
    <3>1. next = Judged(q, a, v)
      BY <2>4
    <3>2. Welcomes(r, v)
      BY <1>2, FirstWelcomes
    <3>3. OnItsWay(r, Judged(q, a, v))
      BY <2>2, <3>2, JudgedOnItsWay
    <3>4. JudgedSo(q, a, v, Judged(q, a, v))
      BY <2>2, JudgedIs
    <3> QED
      BY ZenonT(60), <2>1, <2>2, <3>1, <3>3, <3>4 DEF GateLeads, JudgedSo
  <2> QED
    BY <2>3, <2>4
<1>5. ASSUME request[r].pc \in Gating, NEW v, StepTo(r, Judged(request[r], a, v), TRUE)
      PROVE  GateLeads(r)
  <2>1. JudgedSo(request[r], a, v, Judged(request[r], a, v))
    BY <1>2, JudgedIs
  <2> QED
    BY <1>5, <2>1 DEF GateLeads, JudgedSo
<1>6. ASSUME NEW v, smooth => Welcomes(r, v), StepTo(r, Judged(request[r], a, v), FALSE)
      PROVE  GateLeads(r)
  <2>1. JudgedSo(request[r], a, v, Judged(request[r], a, v))
    BY <1>2, JudgedIs
  <2>2. smooth => OnItsWay(r, Judged(request[r], a, v))
    BY <1>2, <1>6, JudgedOnItsWay
  <2> QED
    BY <1>6, <2>1, <2>2 DEF GateLeads, JudgedSo
<1>7. CASE AskCatalogue(r)
  <2> DEFINE V(reply) ==
               CASE At(r, {"item"}) -> CheckItemAccess(reply)
                 [] At(r, {"owner"}) -> CheckIsOwner(a.user, reply)
                 [] OTHER -> CheckItemAccessWithDatabankAccess(a.user, reply)
  <2>1. request[r].pc \in {"item", "read", "owner"}
    BY <1>7 DEF AskCatalogue, At
  <2>2. Waits(a, request[r].pc) /\ request[r].pc \in Gating
    BY <1>2, <2>1 DEF Placed, Gating
  <2>3. PICK fails \in BOOLEAN :
          \E reply \in Replies(fails) : Goes(r, Judged(request[r], a, V(reply)), fails)
    BY <1>7, Zenon DEF AskCatalogue
  <2>4. ASSUME NEW reply \in Replies(FALSE), smooth
        PROVE  Welcomes(r, V(reply))
    <3>1. Asked(a, request[r].pc)
      BY <1>3, <2>4
    <3>2. CASE request[r].pc = "item"
      <4>1. V(reply) = CheckItemAccess(reply)
        BY <3>2 DEF At
      <4>2. Welcomes(r, CheckItemAccess(reply))
        BY ItemWelcomes
      <4> QED
        BY <4>1, <4>2, Zenon
    <3>3. CASE request[r].pc = "read"
      <4>1. V(reply) = CheckItemAccessWithDatabankAccess(a.user, reply)
        BY <3>3 DEF At
      <4>2. Welcomes(r, CheckItemAccessWithDatabankAccess(a.user, reply))
        BY <1>2, <2>2, <3>1, <3>3, ReadWelcomes DEF Waits, Asked
      <4> QED
        BY <4>1, <4>2, Zenon
    <3>4. CASE request[r].pc = "owner"
      <4>1. V(reply) = CheckIsOwner(a.user, reply)
        BY <3>4 DEF At
      <4>2. Welcomes(r, CheckIsOwner(a.user, reply))
        BY <1>2, <2>2, <3>1, <3>4, OwnerWelcomes DEF Waits
      <4> QED
        BY <4>1, <4>2, Zenon
    <3> QED
      BY <2>1, <3>2, <3>3, <3>4
  <2> HIDE DEF V
  <2>5. CASE fails = TRUE
    <3>1. PICK reply : Goes(r, Judged(request[r], a, V(reply)), TRUE)
      BY <2>3, <2>5, Zenon
    <3> QED
      BY <1>5, <2>2, <3>1 DEF Goes
  <2>6. CASE fails = FALSE
    <3>1. PICK reply \in Replies(FALSE) :
            Goes(r, Judged(request[r], a, V(reply)), FALSE)
      BY <2>3, <2>6, Zenon
    <3>2. smooth => Welcomes(r, V(reply))
      BY <2>4, <3>1, Zenon
    <3>3. StepTo(r, Judged(request[r], a, V(reply)), FALSE)
      BY <3>1 DEF Goes
    <3> QED
      BY <1>6, <3>2, <3>3
  <2> QED
    BY <2>3, <2>5, <2>6
<1>8. CASE AskAcl(r)
  <2> DEFINE W(fails) == DatabankAccess(a.user, fails)
  <2>1. request[r].pc = "acl"
    BY <1>8 DEF AskAcl, At
  <2>2. Waits(a, "acl") /\ request[r].pc \in Gating
    BY <1>2, <2>1 DEF Placed, Gating
  <2>3. PICK fails \in BOOLEAN : Goes(r, Judged(request[r], a, W(fails)), fails)
    BY <1>8, Zenon DEF AskAcl
  <2>4. smooth => Welcomes(r, W(FALSE))
    BY <1>2, <1>3, <2>1, <2>2, AclWelcomes DEF Waits
  <2> HIDE DEF W
  <2>5. CASE fails = TRUE
    <3>1. Goes(r, Judged(request[r], a, W(TRUE)), TRUE)
      BY <2>3, <2>5, Zenon
    <3> QED
      BY <1>5, <2>2, <3>1 DEF Goes
  <2>6. CASE fails = FALSE
    <3>1. Goes(r, Judged(request[r], a, W(FALSE)), FALSE)
      BY <2>3, <2>6, Zenon
    <3>2. StepTo(r, Judged(request[r], a, W(FALSE)), FALSE)
      BY <3>1 DEF Goes
    <3> QED
      BY <1>6, <2>4, <3>2
  <2> QED
    BY <2>3, <2>5, <2>6
<1> QED
  BY <1>4, <1>7, <1>8 DEF GateAct

LEMMA ProperStays ==
  ASSUME UNCHANGED gateVars, NEW a
  PROVE  /\ Proper(a)' <=> Proper(a)
         /\ \A pc : Asked(a, pc)' <=> Asked(a, pc)
<1>1. HandlerChecks(a)' = HandlerChecks(a)
  BY DEF HandlerChecks, gateVars
<1>2. Unreadable(a)' <=> Unreadable(a)
  BY UnreadableStays DEF gateVars
<1> QED
  BY <1>1, <1>2 DEF Proper, Asked, gateVars

(* A step of r that leaves it on its way leaves all requests on theirs.    *)
LEMMA SmoothKept ==
  ASSUME GateInv, SmoothInv, UNCHANGED gateVars, NEW r \in Requests,
         NEW q, Whole(q), q.ask = request[r].ask,
         q.shaken = request[r].shaken, MovesTo(r, q),
         ~request'[r].hit /\ ~q.shaken =>
           /\ Asked(AskOf(r), q.pc)
           /\ /\ q.pc = "answered" /\ Entitled(r) /\ Proper(AskOf(r))
              /\ AskOf(r).route \in Reading => Meant(AskOf(r)) \in request'[r].always
              => q.status \in {200, 201},
         NEW p \in Requests
  PROVE  Smooth(p)'
<1> DEFINE next == Next_(r, q, p)
<1>1. /\ request'[p].ask = next.ask /\ request'[p].pc = next.pc
      /\ request'[p].status = next.status /\ request'[p].shaken = next.shaken
  BY Moved DEF GateInv
<1>2. request'[p].ask = request[p].ask
  BY <1>1 DEF Next_
<1>3. AskOf(p)' = AskOf(p)
  BY <1>2, AskStays
<1>4. Entitled(p)' <=> Entitled(p)
  BY <1>2, RightStays
<1>5. \A b : /\ Proper(b)' <=> Proper(b)
             /\ \A pc : Asked(b, pc)' <=> Asked(b, pc)
  BY ProperStays
<1>6. CASE p = r
  <2>1. next = q
    BY <1>6 DEF Next_
  <2> HIDE DEF next
  <2> QED
    BY <1>1, <1>3, <1>4, <1>5, <1>6, <2>1 DEF Smooth
<1>7. CASE p # r
  <2>1. next = request[p]
    BY <1>7 DEF Next_
  <2>2. Sees(p, next)
    BY SeenSo DEF GateInv
  <2>3. Smooth(p)
    BY DEF SmoothInv
  <2> HIDE DEF next
  <2> QED
    BY <1>1, <1>3, <1>4, <1>5, <2>1, <2>2, <2>3 DEF Smooth, Sees, Active, Over
<1> QED
  BY <1>6, <1>7

LEMMA GateSmooth ==
  ASSUME GateInv, SmoothInv, NEW r \in Requests, GateAct(r)
  PROVE  SmoothInv'
<1>1. Gated(r) /\ GateLeads(r)
  BY GatesJudge, GatesLead
<1>2. Shape /\ UNCHANGED gateVars
  BY <1>1 DEF Gated, GateInv
<1>3. PICK q :
        /\ Whole(q) /\ q.ask = request[r].ask /\ q.shaken = request[r].shaken
        /\ q.hit = request[r].hit
        /\ \/ StepTo(r, q, TRUE) /\ request[r].pc \in Gating
           \/ /\ StepTo(r, q, FALSE)
              /\ ~request[r].hit /\ ~request[r].shaken => OnItsWay(r, q)
  BY <1>1 DEF GateLeads
<1>4. MovesTo(r, q)
  BY <1>3 DEF MovesTo
<1>5. ~request'[r].hit /\ ~q.shaken =>
        Asked(AskOf(r), q.pc)
          /\ (q.pc = "answered" => ~(Entitled(r) /\ Proper(AskOf(r))))
  <2>1. CASE StepTo(r, q, TRUE) /\ request[r].pc \in Gating
    <3>1. SeesFailing(r, q)
      BY <1>2, <1>3, <2>1, SeenFailing DEF Next_
    <3> QED
      BY <2>1, <3>1 DEF SeesFailing, Active, Gating, Over
  <2>2. CASE StepTo(r, q, FALSE)
             /\ (~request[r].hit /\ ~request[r].shaken => OnItsWay(r, q))
    <3>1. SeesQuiet(r, q)
      BY <1>2, <1>3, <2>2, SeenQuietly DEF Next_
    <3> QED
      BY <1>3, <2>2, <3>1 DEF SeesQuiet, OnItsWay
  <2> QED
    BY <1>3, <2>1, <2>2
<1>6. ASSUME NEW p \in Requests
      PROVE  Smooth(p)'
  BY <1>2, <1>3, <1>4, <1>5, SmoothKept
<1> QED
  BY <1>2, <1>6 DEF SmoothInv, gateVars

LEMMA PlainSmooth ==
  ASSUME GateInv, SmoothInv, NEW r \in Requests, PlainStep(r)
  PROVE  SmoothInv'
<1> DEFINE a == AskOf(r)
<1>1. PICK q : /\ Plain(r, q)
               /\ StepTo(r, q, TRUE) \/ (StepTo(r, q, FALSE) /\ Honest(r, q))
  BY DEF PlainStep
<1>2. /\ MovesTo(r, q) /\ Follows(r, q) /\ Whole(q) /\ q.ask = request[r].ask
      /\ q.shaken = request[r].shaken /\ q.hit = request[r].hit
      /\ q.pc \in HandlerPcs \cup Over
  BY <1>1 DEF MovesTo, Plain, Follows
<1>3. UNCHANGED gateVars /\ request[r].pc \in HandlerPcs /\ Shape
  BY DEF PlainStep, PlainPcs, HandlerPcs, GateInv
<1>4. /\ request'[r].always = request[r].always \cap bucket'
      /\ q.hit => request'[r].hit
  BY <1>2, <1>3, HandlerSees
<1>5. Asked(a, q.pc)
  BY <1>2 DEF Asked, Gating, HandlerPcs, Over
<1>6. ~request'[r].hit /\ q.pc = "answered" /\ Proper(a)
        /\ (a.route \in Reading => Meant(a) \in request'[r].always)
        => q.status \in {200, 201}
  <2>1. CASE StepTo(r, q, TRUE)
    <3>1. SeesFailing(r, q)
      BY <1>2, <1>3, <2>1, SeenFailing DEF Next_
    <3> QED
      BY <1>3, <3>1 DEF SeesFailing, Active, HandlerPcs, Over
  <2>2. CASE Honest(r, q)
    <3> SUFFICES ASSUME ~request'[r].hit, q.pc = "answered", Proper(a),
                        a.route \in Reading => Meant(a) \in request'[r].always,
                        q.status \notin {200, 201}
                 PROVE  FALSE
      OBVIOUS
    <3>1. Tells(a, q.status, request[r].ever \cup bucket', bucket')
          /\ q.status \in {404, 500}
      BY <1>2, <1>4, <2>2 DEF Honest
    <3>2. a.route \in Reading /\ Meant(a) \notin bucket'
      BY <3>1 DEF Tells, Proper
    <3> QED
      BY <1>4, <3>2
  <2> QED
    BY <1>1, <2>1, <2>2
<1>7. ASSUME NEW p \in Requests
      PROVE  Smooth(p)'
  BY <1>2, <1>3, <1>5, <1>6, SmoothKept
<1> QED
  BY <1>3, <1>7 DEF SmoothInv, gateVars

LEMMA SetUpSmooth ==
  ASSUME GateInv, SmoothInv, NEW r \in Requests,
         CreateConnection(r) \/ CreateFails(r) \/ Configure(r)
  PROVE  SmoothInv'
<1>1. Shape /\ UNCHANGED gateVars /\ request[r].pc \in HandlerPcs
      /\ Whole(request[r])
  BY DEF GateInv, Shape, CreateConnection, CreateFails, Configure, Duck, At,
         HandlerPcs
<1>2. ASSUME NEW q, Follows(r, q), StepTo(r, q, TRUE) \/ StepTo(r, q, FALSE),
             StepTo(r, q, TRUE) \/ q.pc # "answered"
      PROVE  SmoothInv'
  <2>1. /\ MovesTo(r, q) /\ Whole(q) /\ q.ask = request[r].ask
        /\ q.shaken = request[r].shaken /\ q.pc \in HandlerPcs \cup Over
    BY <1>2 DEF MovesTo, Follows
  <2>2. Asked(AskOf(r), q.pc)
    BY <2>1 DEF Asked, Gating, HandlerPcs, Over
  <2>3. request'[r].hit \/ q.pc # "answered"
    <3>1. CASE StepTo(r, q, TRUE)
      <4>1. SeesFailing(r, q)
        BY <1>1, <2>1, <3>1, SeenFailing DEF Next_
      <4> QED
        BY <1>1, <4>1 DEF SeesFailing, Active, HandlerPcs, Over
    <3> QED
      BY <1>2, <3>1
  <2>4. ASSUME NEW p \in Requests
        PROVE  Smooth(p)'
    BY <1>1, <2>1, <2>2, <2>3, SmoothKept
  <2> QED
    BY <1>1, <2>4 DEF SmoothInv, gateVars
<1> DEFINE q0 == request[r]
           made == Overlaps([q0 EXCEPT !.pc = "configure"], r)
           gone == [q0 EXCEPT !.pc = "schema", !.via = conn]
<1>3. Follows(r, made) /\ made.pc = "configure"
  BY <1>1 DEF Follows, Overlaps, Whole, Fields, HandlerPcs
<1>4. /\ Follows(r, gone) /\ Follows(r, Overlaps(gone, r))
      /\ Overlaps(gone, r).pc = "schema"
  BY <1>1 DEF Follows, Overlaps, Whole, Fields, HandlerPcs
<1>5. Follows(r, q0) /\ Follows(r, Answered(q0, 500))
  <2>1. 500 \in Statuses
    BY DEF Statuses
  <2> QED
    BY <1>1, <2>1, AnsweredIs DEF Follows, HandlerPcs, Over
<1> HIDE DEF made, gone
<1>6. CASE CreateConnection(r)
  <2>1. StepTo(r, made, FALSE)
    BY <1>6 DEF CreateConnection, Duck, made
  <2> QED
    BY <1>2, <1>3, <2>1
<1>7. CASE CreateFails(r)
  <2>1. \/ StepTo(r, gone, TRUE) \/ StepTo(r, q0, TRUE)
        \/ StepTo(r, Answered(q0, 500), TRUE)
    BY <1>7, Zenon DEF CreateFails, Duck, gone
  <2> QED
    BY <1>2, <1>4, <1>5, <2>1
<1>8. CASE Configure(r)
  <2>1. PICK fails \in BOOLEAN : StepTo(r, Overlaps(gone, r), fails)
    BY <1>8, Zenon DEF Configure, Duck, gone
  <2>2. StepTo(r, Overlaps(gone, r), TRUE) \/ StepTo(r, Overlaps(gone, r), FALSE)
    BY <2>1, Zenon
  <2> QED
    BY <1>2, <1>4, <2>2
<1> QED
  BY <1>6, <1>7, <1>8

LEMMA SmoothInit == Init => SmoothInv
<1> SUFFICES ASSUME Init PROVE SmoothInv
  OBVIOUS
<1>1. acl \subseteq {u \in Users : ExtractUserInfo(u)}
  BY ScenarioAssumption DEF Init
<1>2. \A r \in Requests : request[r].pc = "new"
  BY DEF Init, NewRequest
<1> QED
  BY <1>1, <1>2 DEF SmoothInv, Smooth, Asked, Gating

LEMMA SmoothNext ==
  GateInv /\ TruthInv /\ SmoothInv /\ [Next]_vars => SmoothInv'
<1> SUFFICES ASSUME GateInv, TruthInv, SmoothInv, [Next]_vars PROVE SmoothInv'
  OBVIOUS
<1>1. ASSUME NEW r \in Requests, GateAct(r)
      PROVE  SmoothInv'
  BY <1>1, GateSmooth
<1>2. ASSUME NEW r \in Requests, HandlerAct(r)
      PROVE  SmoothInv'
  <2>1. PlainAct(r) \/ CreateConnection(r) \/ CreateFails(r) \/ Configure(r)
    BY <1>2 DEF HandlerAct, PlainAct
  <2> QED
    BY <1>2, <2>1, PlainHandled, PlainSmooth, SetUpSmooth
<1>3. CASE RightsChange
  <2>1. acl' \subseteq {u \in Users : ExtractUserInfo(u)}
    BY <1>3 DEF RightsChange, CatalogueChanges, GrantChanges, SmoothInv
  <2>2. ASSUME NEW p \in Requests
        PROVE  Smooth(p)'
    <3>1. /\ request'[p].pc = request[p].pc
          /\ request[p].pc # "new" => request'[p].shaken
      BY <1>3 DEF RightsChange, Shaken, GateInv, Shape, Whole, Fields, At
    <3> QED
      BY <3>1 DEF Smooth, Asked, Gating
  <2> QED
    BY <2>1, <2>2 DEF SmoothInv
<1>4. CASE WorkerUploads \/ UNCHANGED vars
  <2>1. UNCHANGED gateVars
    BY <1>4 DEF WorkerUploads, vars, gateVars
  <2>2. ASSUME NEW p \in Requests
        PROVE  Smooth(p)'
    <3>1. /\ request'[p].ask = request[p].ask /\ request'[p].pc = request[p].pc
          /\ request'[p].status = request[p].status
          /\ request'[p].always = request[p].always
          /\ request'[p].hit = request[p].hit
      BY <1>4, Outside DEF GateInv
    <3>2. request'[p].shaken = request[p].shaken
      BY <1>4 DEF WorkerUploads, vars, GateInv, Shape, Whole, Fields
    <3>3. AskOf(p)' = AskOf(p) /\ (Entitled(p)' <=> Entitled(p))
      BY <2>1, <3>1, AskStays, RightStays
    <3>4. \A b : /\ Proper(b)' <=> Proper(b)
                 /\ \A pc : Asked(b, pc)' <=> Asked(b, pc)
      BY <2>1, ProperStays
    <3>5. Smooth(p)
      BY DEF SmoothInv
    <3> QED
      BY <3>1, <3>2, <3>3, <3>4, <3>5 DEF Smooth
  <2> QED
    BY <2>1, <2>2 DEF SmoothInv, gateVars
<1> QED
  BY <1>1, <1>2, <1>3, <1>4, NextStirs DEF Stirs

(* A caller with the right, who sends what the route asks for, about an    *)
(* object that is there in a databank that is listed, is answered with     *)
(* success, unless a service failed, rights changed or parquet previews    *)
(* overlapped: no middleware and no handler refuses a clean request.       *)
THEOREM CleanRequestsSucceed == Spec => []CleanRequestSucceeds
<1>1. GateInv /\ SmoothInv => CleanRequestSucceeds
  <2> SUFFICES ASSUME GateInv, SmoothInv, NEW r \in Requests,
                      At(r, {"answered"}), Entitled(r), item.listed,
                      ~request[r].hit, ~request[r].shaken,
                      AskOf(r).body = "good", HandlerChecks(AskOf(r)) = 0,
                      AskOf(r).route \in Reading => Throughout(r),
                      ~Unreadable(AskOf(r))
               PROVE  Told(r, {200, 201})
    BY DEF CleanRequestSucceeds
  <2>1. request[r].pc = "answered" /\ request[r].ask # {}
    BY DEF At, GateInv, Placed
  <2>2. Proper(AskOf(r))
    BY DEF Proper
  <2> QED
    BY <2>1, <2>2 DEF SmoothInv, Smooth, Told, At, Throughout
<1> QED
  BY <1>1, GateInit, GateNext, TruthInit, TruthNext, SmoothInit, SmoothNext, PTL
     DEF Spec

=============================================================================
